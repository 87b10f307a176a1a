--------------------------- MODULE MCRunController ---------------------------
(***************************************************************************)
(* Instances of RunController for TLC: how often each run's environment    *)
(* may interfere.                                                          *)
(***************************************************************************)
EXTENDS RunInvariants, TLC

Allow(cancel, recover, fault, crash, removal) ==
    [cancel |-> cancel, recover |-> recover, fault |-> fault,
     crash |-> crash, removal |-> removal]

LimitsHazards == Allow(1, 1, 1, 1, 1)
LimitsCancel == Allow(1, 0, 0, 0, 1)
LimitsProgress == Allow(1, 1, 0, 1, 1)
LimitsCalm == Allow(0, 0, 0, 0, 0)
LimitsOneCancel == Allow(1, 0, 0, 0, 0)
LimitsCancelRecover == Allow(1, 1, 0, 0, 0)
LimitsTwoRecoveries == Allow(0, 2, 0, 0, 0)
LimitsRecoverDelete == Allow(0, 1, 0, 0, 1)

Symmetry == Permutations(Runs)

=============================================================================
