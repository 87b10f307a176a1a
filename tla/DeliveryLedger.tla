--------------------------- MODULE DeliveryLedger ---------------------------
(***************************************************************************)
(* What the insertion attempts of a run promise its user, without the      *)
(* coroutines, the gate and the columns that keep the promise.  For every  *)
(* run the ledger says what a reader of the database may conclude:         *)
(*   clean     no dispatch can have put the text anywhere                  *)
(*   open      a claim is recorded and its outcome is not                  *)
(*   inserted  the text was put into the field                             *)
(*   unsure    a dispatch may have put it there                            *)
(*   gone      the run was deleted and nothing is promised any more        *)
(* armed holds the runs whose operation may still dispatch, text counts    *)
(* the times the text may have reached the field.                          *)
(***************************************************************************)
EXTENDS Naturals

CONSTANT Runs

VARIABLES ledger, armed, text

ledgerVars == <<ledger, armed, text>>

LedgerInit ==
    /\ ledger = [r \in Runs |-> "clean"]
    /\ armed = {}
    /\ text = [r \in Runs |-> 0]

\* A claim is recorded before anything is dispatched: never once the text is
\* known to be inserted, and over another open claim only if that one, whose
\* outcome could not be stored, typed nothing.
Open(r) ==
    /\ ledger[r] \in {"clean", "unsure", "open"} /\ r \notin armed
    /\ ledger[r] = "open" => text[r] = 0
    /\ ledger' = [ledger EXCEPT ![r] = "open"]
    /\ armed' \in {armed, armed \cup {r}}
    /\ UNCHANGED text

\* One claim dispatches at most once.
Type(r) ==
    /\ r \in armed
    /\ armed' = armed \ {r}
    /\ text' = [text EXCEPT ![r] = @ + 1]
    /\ UNCHANGED ledger

\* The operation gives up its dispatch.
Disarm(r) ==
    /\ armed' = armed \ {r}
    /\ UNCHANGED <<ledger, text>>

\* The outcome recorded is true of what was typed.
Settle(r) ==
    /\ ledger[r] = "open" /\ r \notin armed
    /\ \/ ledger' = [ledger EXCEPT ![r] = "inserted"] /\ text[r] > 0
       \/ ledger' = [ledger EXCEPT ![r] = "clean"] /\ text[r] = 0
       \/ ledger' = [ledger EXCEPT ![r] = "unsure"]
    /\ UNCHANGED <<armed, text>>

Forget(r) ==
    /\ ledger' = [ledger EXCEPT ![r] = "gone"]
    /\ armed' \in {armed, armed \ {r}}
    /\ UNCHANGED text

\* A crash drops every operation; the restart gives up on open claims.
Drop == armed' = {} /\ UNCHANGED <<ledger, text>>

Restart ==
    /\ armed = {}
    /\ \E lost \in SUBSET Runs :
          ledger' = [r \in Runs |-> IF r \in lost THEN "gone"
                                    ELSE IF ledger[r] = "open" THEN "unsure"
                                    ELSE ledger[r]]
    /\ UNCHANGED <<armed, text>>

LedgerNext ==
    \/ \E r \in Runs : Open(r) \/ Type(r) \/ Disarm(r) \/ Settle(r) \/ Forget(r)
    \/ Drop \/ Restart

LedgerSpec == LedgerInit /\ [][LedgerNext]_ledgerVars

-----------------------------------------------------------------------------
LedgerTypeOK ==
    /\ ledger \in [Runs -> {"clean", "open", "inserted", "unsure", "gone"}]
    /\ armed \subseteq Runs
    /\ text \in [Runs -> Nat]

\* A clean ledger means the text was never typed, an inserted one that it was,
\* and an operation can only be armed under an open claim (insertion_attempts).
LedgerTruth ==
    \A r \in Runs :
        /\ ledger[r] = "clean" => text[r] = 0
        /\ ledger[r] = "inserted" => text[r] > 0
        /\ r \in armed => ledger[r] \in {"open", "gone"}

=============================================================================
