----------------------------- MODULE CleanupChain -----------------------------
(***************************************************************************)
(* NvidiaCleanup.clean: the ordered chain of hosted models a dictation is  *)
(* sent to, under one budget of time.  Dictations share the engine, and so *)
(* the cooldowns of models that failed.  Time passes in ticks; what a call *)
(* does between two awaits is one step.                                    *)
(*                                                                         *)
(*   cooling   ticks until a model is eligible again                       *)
(*   key       an API key is saved                                         *)
(*   call      per dictation: where it is, the model it is at, the ticks   *)
(*             left of its budget and of its attempt, the outcome; and,    *)
(*             observed, the models it tried and those that were eligible  *)
(*             when it began and have not failed another dictation since   *)
(***************************************************************************)
EXTENDS Naturals, Sequences, FiniteSets

CONSTANTS Calls, Chain, Budget, Attempt, Cooldown

Models == {Chain[i] : i \in DOMAIN Chain}

\* Calls are numbered in the order in which they begin; no time may be zero
\* (NvidiaCleanup's constructor refuses it).
CleanupConstantsOK ==
    /\ Calls \subseteq Nat
    /\ Chain \in Seq(Models) /\ Len(Chain) > 0
    /\ {Budget, Attempt, Cooldown} \subseteq Nat \ {0}

ASSUME CleanupAssumption == CleanupConstantsOK

VARIABLES cooling, key, call

cleanupVars == <<cooling, key, call>>

Outcomes == {"none", "cleaned", "cancelled", "key", "refused", "timeout", "exhausted"}

CleanupTypeOK ==
    /\ cooling \in [Models -> 0..Cooldown]
    /\ key \in BOOLEAN
    /\ call \in [Calls -> [at: {"new", "posted", "asleep", "done"},
                           index: 0..Len(Chain), left: 0..Budget, share: 0..Budget,
                           cancelled: BOOLEAN, outcome: Outcomes,
                           tried: SUBSET Models, owed: SUBSET Models]]

CleanupInit ==
    /\ cooling = [m \in Models |-> 0]
    /\ key = TRUE
    /\ call = [c \in Calls |-> [at |-> "new", index |-> 0, left |-> Budget,
                                share |-> 0, cancelled |-> FALSE, outcome |-> "none",
                                tried |-> {}, owed |-> {}]]

Model(c)   == Chain[call[c].index]
Running(c) == call[c].at \in {"posted", "asleep"}

-----------------------------------------------------------------------------
Done(r, outcome) == [r EXCEPT !.at = "done", !.outcome = outcome]

\* Mutant: every attempt may take what is left.
WholeRest(left, eligible) == IF Attempt < left THEN Attempt ELSE left
\* The attempt's time: its share of what is left among the eligible models.
Share(left, eligible) ==
    LET part == left \div eligible
    IN  IF Attempt < part THEN Attempt ELSE part

Eligible(cool, from) == {i \in from..Len(Chain) : cool[Chain[i]] = 0}

\* The loop over the chain from a position on, up to its next request.
Proceed(r, cool, from) ==
    LET eligible == Eligible(cool, from)
        i == CHOOSE i \in eligible : \A j \in eligible : i <= j
    IN  IF r.cancelled THEN Done(r, "cancelled")
        ELSE IF eligible = {} THEN Done(r, "exhausted")
        ELSE IF r.left = 0 THEN Done(r, "timeout")
        ELSE IF ~key THEN Done(r, "key")
        ELSE [r EXCEPT !.at = "posted", !.index = i,
                       !.share = Share(r.left, Cardinality(eligible)),
                       !.tried = @ \cup {Chain[i]}]

\* clean begins.
Begin(c) ==
    /\ call[c].at = "new"
    /\ \A d \in Calls : d < c => call[d].at # "new"
    /\ LET owed == {m \in Models : cooling[m] = 0}
       IN  call' = [call EXCEPT ![c] =
                IF ~call[c].cancelled /\ ~key THEN Done(call[c], "key")
                ELSE Proceed([call[c] EXCEPT !.owed = owed], cooling, 1)]
    /\ UNCHANGED <<cooling, key>>

\* max_cooldown_s limits what the answer asks for.
Delays == 1..Cooldown

\* _cool_down, then the next model; the others find this one cooling.
Fail(c) ==
    \E delay \in Delays :
        /\ cooling' = [cooling EXCEPT ![Model(c)] = delay]
        /\ call' = [d \in Calls |->
              IF d = c THEN Proceed(call[c], cooling', call[c].index + 1)
              ELSE IF call[d].at \in {"new", "done"} \/ Model(c) \in call[d].tried
              THEN call[d]
              ELSE [call[d] EXCEPT !.owed = @ \ {Model(c)}]]
        /\ UNCHANGED key

\* The attempt's timeout.
AttemptTimesOut(c) ==
    /\ Running(c) /\ call[c].share = 0
    /\ Fail(c)

\* The request fails, or its answer says that another model may do better.
AttemptFails(c) ==
    /\ call[c].at = "posted" /\ ~call[c].cancelled
    /\ Fail(c)

\* A connection that fails is not asked about cancellation first.
RequestFails(c) ==
    /\ call[c].at = "posted" /\ call[c].cancelled
    /\ Fail(c)

\* The budget is used up.
DeadlinePasses(c) ==
    /\ Running(c) /\ call[c].left = 0
    /\ call' = [call EXCEPT ![c] = Done(@, "timeout")]
    /\ UNCHANGED <<cooling, key>>

\* Mutant: an answer is used without looking at the flag.
Unasked(c, outcome) == outcome
\* _check_cancelled comes before anything is made of an answer.
Unless(c, outcome) == IF call[c].cancelled THEN "cancelled" ELSE outcome

\* The key is rejected, credit is used up, or the request is refused: no other
\* model could help.
Refused(c) ==
    /\ call[c].at = "posted"
    /\ call' = [call EXCEPT ![c] = Done(@, Unless(c, "refused"))]
    /\ UNCHANGED <<cooling, key>>

\* A usable answer; the model is no longer avoided.
Answered(c) ==
    /\ call[c].at = "posted"
    /\ call' = [call EXCEPT ![c] = Done(@, Unless(c, "cleaned"))]
    /\ cooling' = IF call'[c].outcome = "cleaned"
                  THEN [cooling EXCEPT ![Model(c)] = 0] ELSE cooling
    /\ UNCHANGED key

\* 202: the call sleeps a second before it asks for the result.
Pending(c) ==
    /\ call[c].at = "posted"
    /\ call' = [call EXCEPT ![c] = IF @.cancelled THEN Done(@, "cancelled")
                                   ELSE [@ EXCEPT !.at = "asleep"]]
    /\ UNCHANGED <<cooling, key>>

\* Mutant: the flag is not looked at after the sleep.
AsksAnyway(r) == IF key THEN [r EXCEPT !.at = "posted"] ELSE Done(r, "key")
Asks(r) ==
    IF r.cancelled THEN Done(r, "cancelled")
    ELSE IF ~key THEN Done(r, "key")
    ELSE [r EXCEPT !.at = "posted"]

\* _poll_pending goes on inside the attempt's time.
PollPending(c) ==
    /\ call[c].at = "asleep"
    /\ call' = [call EXCEPT ![c] = Asks(@)]
    /\ UNCHANGED <<cooling, key>>

-----------------------------------------------------------------------------
CancelRequested(c) ==
    /\ ~call[c].cancelled /\ call[c].at # "done"
    /\ call' = [call EXCEPT ![c].cancelled = TRUE]
    /\ UNCHANGED <<cooling, key>>

\* secret_clear
KeyCleared == key /\ key' = FALSE /\ UNCHANGED <<cooling, call>>

\* Time passes when no timer is due.
TimePasses ==
    /\ \A c \in Calls : Running(c) => call[c].left > 0 /\ call[c].share > 0
    /\ (\E c \in Calls : Running(c)) \/ (\E m \in Models : cooling[m] > 0)
    /\ cooling' = [m \in Models |-> IF cooling[m] > 0 THEN cooling[m] - 1 ELSE 0]
    /\ call' = [c \in Calls |->
          IF Running(c) THEN [call[c] EXCEPT !.left = @ - 1, !.share = @ - 1]
          ELSE call[c]]
    /\ UNCHANGED key

CleanupNext ==
    \/ \E c \in Calls :
          \/ Begin(c) \/ AttemptTimesOut(c) \/ AttemptFails(c) \/ RequestFails(c)
          \/ DeadlinePasses(c) \/ Refused(c) \/ Answered(c) \/ Pending(c)
          \/ PollPending(c) \/ CancelRequested(c)
    \/ KeyCleared \/ TimePasses

CleanupSpec == CleanupInit /\ [][CleanupNext]_cleanupVars

-----------------------------------------------------------------------------
\* Slow models do not starve the end of the chain: a call that gives up has
\* tried every model that was eligible when it began and that no other call
\* found failing ("Reserve a share for every remaining eligible model").
NoneStarved ==
    \A c \in Calls : call[c].outcome \in {"timeout", "exhausted"}
                     => call[c].owed \subseteq call[c].tried

\* No text leaves after the dictation was cancelled, neither to the next model
\* of the chain nor in a poll of a pending answer.
SendsUncancelled ==
    \A c \in Calls :
       /\ call'[c].at = "posted"
       /\ call[c].at # "posted" \/ call'[c].index # call[c].index
       => ~call[c].cancelled

\* An answer that arrives after the cancellation is not used.
CleansUncancelled ==
    \A c \in Calls : call[c].cancelled => call'[c].outcome # "cleaned"

\* After the dictation was cancelled no text leaves, and an answer that arrives
\* is not used (NvidiaCleanup.clean).
CancelledIsOver == [][SendsUncancelled /\ CleansUncancelled]_cleanupVars

=============================================================================
