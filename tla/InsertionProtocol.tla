-------------------------- MODULE InsertionProtocol --------------------------
(***************************************************************************)
(* pipeline/insertion_protocol.py: one delivery operation at a time, from  *)
(* its first look at the destination to its result.  Each action runs from *)
(* one await of the code to the next.  The controller holds its insertion  *)
(* gate for the whole operation, so the protocol's own lock never blocks   *)
(* and is not modelled.  The parameter cancelled is the value of the       *)
(* is_cancelled callback at that step; the controller supplies it.         *)
(*                                                                         *)
(* op.by names the caller: "auto" and "explicit" use attempt, "tick" uses  *)
(* deliver_next, and "cancel" only holds the gate for the controller.      *)
(* typed counts, per run, the dispatches that may have put text into the   *)
(* user's field: it is observed by the properties, never by the code.      *)
(***************************************************************************)
EXTENDS RunStore

VARIABLES op, refused, typed

DispatchResults == {"inserted", "uncertain", "failed"}
Results == DispatchResults \cup
    {"none", "cancelled", "awaiting", "held", "abandoned", "duplicate"}

Callers == {"auto", "tick", "explicit", "cancel"}

\* Between claim_attempt and the storing of the attempt's outcome.
Claimed == {"recheck", "reverify", "dispatch", "confirm", "resolve"}

Phases == Claimed \cup
    {"look", "verify", "claim", "restore", "result", "applied",
     "cancel_write"}

Idle ==
    [at |-> "idle", by |-> "none", run |-> NoRun, version |-> 0,
     ack |-> FALSE, entry |-> FALSE, attempt |-> 0, jumped |-> FALSE,
     outcome |-> "in_flight", result |-> "none"]

Operation ==
    [at : Phases, by : Callers, run : Runs, version : Nat,
     ack : BOOLEAN, entry : BOOLEAN, attempt : Nat, jumped : BOOLEAN,
     outcome : Outcomes, result : Results]

Kind == IF op.by = "explicit" THEN "explicit" ELSE "automatic"

\* What a begun operation returns at once, or the phase it goes on with.
Begin(o, cancelled) ==
    IF cancelled
    THEN [o EXCEPT !.at = IF o.jumped THEN "restore" ELSE "result",
                   !.result = "cancelled"]
    ELSE [o EXCEPT !.at = "verify"]

\* Return from attempt; after a jump the old focus is restored first.
Return(result) ==
    op' = [op EXCEPT !.at = IF op.jumped THEN "restore" ELSE "result",
                     !.result = result]

\* Mutant: an uncertain dispatch is recorded as a failed one.
ResolveAsFailed(outcome, result) ==
    LET stored == IF outcome = "uncertain" THEN "failed" ELSE outcome
    IN  op' = [op EXCEPT !.at = "resolve", !.outcome = stored,
                         !.result = result]

ResolveAs(outcome, result) ==
    op' = [op EXCEPT !.at = "resolve", !.outcome = outcome, !.result = result]

protocolRest == <<refused, typed>>
storeRest == <<rows, aged, deferred>>

\* deliver_next up to its attempt: the window, the idle time and the jump.
Look(cancelled) ==
    /\ op.at = "look"
    /\ \/ Return("held") /\ UNCHANGED refused
       \/ Return("awaiting") /\ UNCHANGED refused
       \/ /\ op.run \notin refused
          /\ refused' = refused \cup {op.run}
          /\ Return("awaiting")
       \/ op' = Begin(op, cancelled) /\ UNCHANGED refused
       \/ /\ op.run \notin refused
          /\ \/ op' = Begin([op EXCEPT !.jumped = TRUE], cancelled)
             \/ \E result \in {"held", "awaiting"} :
                   op' = [op EXCEPT !.at = "restore", !.jumped = TRUE,
                                    !.result = result]
          /\ UNCHANGED refused
    /\ UNCHANGED <<rows, attempts, aged, deferred, used, typed>>

\* The verification before the claim.
VerifyFirst ==
    /\ op.at = "verify"
    /\ \/ op' = [op EXCEPT !.at = "claim"]
       \/ Return("awaiting")
       \/ Return("held")
    /\ UNCHANGED <<rows, attempts, aged, deferred, used, protocolRest>>

\* The durable claim, then the first look at the cancel flag after it.
ClaimAttempt(cancelled) ==
    /\ op.at = "claim"
    /\ \/ /\ ~Visible(op.run)
          /\ Return("abandoned")
          /\ UNCHANGED <<attempts, used>>
       \/ /\ Visible(op.run)
          /\ Kind = "automatic" /\ HasAutomatic(op.run)
          /\ Return("duplicate")
          /\ UNCHANGED <<attempts, used>>
       \/ /\ Visible(op.run)
          /\ ~(Kind = "automatic" /\ HasAutomatic(op.run))
          /\ AddAttempt(op.run, Kind)
          /\ LET claimed == [op EXCEPT !.attempt = NextAttempt(op.run)]
             IN  op' = IF cancelled
                       THEN [claimed EXCEPT !.at = "resolve",
                                            !.outcome = "cancelled",
                                            !.result = "cancelled"]
                       ELSE [claimed EXCEPT !.at = "recheck"]
          /\ UNCHANGED used
       \/ Use("fault") /\ Return("held") /\ UNCHANGED attempts
    /\ UNCHANGED <<storeRest, protocolRest>>

\* The second read of the run and the expiry boundary: an expired run's attempt
\* is resolved as cancelled and retention deletes the row it protected.
Recheck ==
    /\ op.at = "recheck"
    /\ \/ /\ ~Visible(op.run)
          /\ Return("abandoned")
          /\ UNCHANGED <<rows, attempts, aged, deferred, used>>
       \/ /\ Visible(op.run) /\ op.run \in aged
          /\ IF \E a \in DOMAIN attempts[op.run] \ {op.attempt} :
                   attempts[op.run][a].outcome = "in_flight"
             THEN /\ SetOutcome(op.run, op.attempt, "cancelled")
                  /\ UNCHANGED <<rows, aged, deferred>>
             ELSE RetentionDelete(op.run)
          /\ Return("abandoned")
          /\ UNCHANGED used
       \/ /\ Visible(op.run) /\ op.run \in aged
          /\ Use("fault")
          /\ Return("abandoned")
          /\ UNCHANGED <<rows, attempts, aged, deferred>>
       \/ /\ Visible(op.run) /\ op.run \notin aged
          /\ op' = [op EXCEPT !.at = "reverify"]
          /\ UNCHANGED <<rows, attempts, aged, deferred, used>>
       \/ /\ Use("fault")
          /\ ResolveAs("failed", "failed")
          /\ UNCHANGED <<rows, attempts, aged, deferred>>
    /\ UNCHANGED protocolRest

\* The second verification, then the last look at the cancel flag: from here
\* on the dispatch cannot be cancelled.
Reverify(cancelled) ==
    /\ op.at = "reverify"
    /\ \/ ResolveAs("failed", "failed")
       \/ cancelled /\ ResolveAs("cancelled", "cancelled")
       \/ ~cancelled /\ op' = [op EXCEPT !.at = "dispatch"]
    /\ UNCHANGED <<rows, attempts, aged, deferred, used, protocolRest>>

\* send_inputs accepted something, or nothing, or raised on the way.
Dispatch ==
    /\ op.at = "dispatch"
    /\ \/ /\ typed' = [typed EXCEPT ![op.run] = @ + 1]
          /\ op' = [op EXCEPT !.at = "confirm"]
       \/ /\ ResolveAs("failed", "failed")
          /\ UNCHANGED typed
       \/ /\ \/ typed' = [typed EXCEPT ![op.run] = @ + 1]
             \/ UNCHANGED typed
          /\ ResolveAs("uncertain", "uncertain")
    /\ UNCHANGED <<rows, attempts, aged, deferred, used, refused>>

\* The field is read back: exactly one new copy of the text, or not known.
Confirm ==
    /\ op.at = "confirm"
    /\ \E known \in {"inserted", "uncertain"} : ResolveAs(known, known)
    /\ UNCHANGED <<rows, attempts, aged, deferred, used, protocolRest>>

\* _resolve swallows every failure: the attempt then stays in flight.
Resolve ==
    /\ op.at = "resolve"
    /\ Return(op.result)
    /\ \/ /\ Resolvable(op.run, op.attempt)
          /\ SetOutcome(op.run, op.attempt, op.outcome)
          /\ UNCHANGED used
       \/ ~Resolvable(op.run, op.attempt) /\ UNCHANGED <<attempts, used>>
       \/ Use("fault") /\ UNCHANGED attempts
    /\ UNCHANGED <<storeRest, protocolRest>>

\* The focus goes back to the user's window; an error there loses the result.
Restore ==
    /\ op.at = "restore"
    /\ \/ op' = [op EXCEPT !.at = "result", !.jumped = FALSE] /\ UNCHANGED used
       \/ /\ Use("fault")
          /\ op' = [op EXCEPT !.at = "result", !.jumped = FALSE,
                              !.result = "none"]
    /\ UNCHANGED <<rows, attempts, aged, deferred, protocolRest>>

ProtocolStep(cancelled) ==
    \/ Look(cancelled) \/ VerifyFirst \/ ClaimAttempt(cancelled)
    \/ Recheck \/ Reverify(cancelled) \/ Dispatch \/ Confirm
    \/ Resolve \/ Restore

ProtocolTypeOK ==
    /\ op \in Operation \cup {Idle}
    /\ refused \subseteq Runs
    /\ typed \in [Runs -> Nat]

ProtocolInit ==
    /\ op = Idle
    /\ refused = {}
    /\ typed = [r \in Runs |-> 0]

=============================================================================
