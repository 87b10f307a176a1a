---------------------------- MODULE RunInvariants ----------------------------
(***************************************************************************)
(* The inductive invariants behind the theorems of RunTypeProofs,          *)
(* RunRouteProofs, RunDeliveryProofs and RunCancelProofs.  TypeOK is not   *)
(* inductive by itself: cancel writes the row it read before an await, so  *)
(* the move it makes is one of the table only because a row with the same  *)
(* version is the same row.                                                *)
(***************************************************************************)
EXTENDS RunProperties

\* Nothing holds the gate while the application is not up.
DownIsIdle == up # "up" => op = Idle

\* The row cancel is about to write has a version no older than the one it
\* read, and with that version it still takes the cancel.
CancelRead ==
    op.at = "cancel_write" /\ Present(op.run) =>
        /\ op.version <= rows[op.run].version
        /\ op.version = rows[op.run].version =>
              Accepts(rows[op.run].status, "cancel")

\* Operations are about runs that were started: a run id names no run to come.
NothingBeforeStart ==
    \A r \in Runs : rows[r].status = "absent" =>
        /\ typed[r] = 0
        /\ op.at \in Claimed \cup {"cancel_write"} => op.run # r

\* The attempt of the operation that claimed it is in flight until the
\* operation itself stores its outcome.
ClaimInFlight ==
    op.at \in Claimed /\ Present(op.run) =>
        /\ op.attempt \in DOMAIN attempts[op.run]
        /\ attempts[op.run][op.attempt].outcome = "in_flight"

\* The attempt a of r is claimed, and its dispatch has typed nothing.
Untyped(r, a) ==
    /\ op.run = r /\ op.attempt = a
    /\ \/ op.at \in {"recheck", "reverify", "dispatch"}
       \/ op.at = "resolve" /\ op.outcome \in {"failed", "cancelled"}

\* The text that was typed is told by an attempt other than that one.
TypedIsTold ==
    \A r \in Runs : typed[r] > 0 /\ Present(r) =>
        \E a \in DOMAIN attempts[r] :
            /\ attempts[r][a].outcome \in {"in_flight", "inserted", "uncertain"}
            /\ ~Untyped(r, a)

\* An operation that reports the text inserted has typed it.
InsertedIsTyped ==
    /\ op.at = "confirm" => typed[op.run] > 0
    /\ op.at = "resolve" /\ op.outcome = "inserted" => typed[op.run] > 0
    /\ op.result = "inserted" => typed[op.run] > 0

\* A claim is durable before the text is typed, and it stays true to it until
\* its outcome is stored (claim_attempt, dispatch, _resolve).
ClaimInvariant ==
    /\ NothingBeforeStart /\ ClaimInFlight /\ TypedIsTold
    /\ InsertedIsTyped /\ DoneMeansTyped

\* The invariant that is inductive for the types.
TypeInvariant == TypeOK /\ DownIsIdle /\ CancelRead /\ NothingBeforeStart

-----------------------------------------------------------------------------
(* The way of a run to its field: who may still claim an attempt for it. *)

\* The operation that holds the gate delivers the text of r.
Delivering(r) == op.run = r /\ op.by \in {"auto", "tick", "explicit"}

\* The coroutine of r waits for the gate.
Requested(r) ==
    \E i \in DOMAIN queue : queue[i].by = "auto" /\ queue[i].run = r

\* A coroutine of r is on its way to the gate, or about to be launched.
Underway(r) ==
    task[r].at \in Working \cup {"gate", "failed"} \/ pend[r] # "none"

\* The text of r is still to be chosen: nothing can have been claimed.
Unchosen(r) ==
    \/ rows[r].status = "absent"
    \/ /\ Present(r)
       /\ \/ rows[r].status = "awaiting_cleanup_choice"
          \/ rows[r].text # "selected"
          \/ pend[r] # "none"
          \/ task[r].at \in Working

Untouched(r) ==
    attempts[r] = << >> /\ r \notin waiting /\ ~Delivering(r) /\ ~Requested(r)

\* Nothing runs while the application is not up.
DownIsStill ==
    up # "up" =>
        /\ op = Idle /\ queue = << >> /\ waiting = {}
        /\ \A r \in Runs : task[r].at = "none" /\ pend[r] = "none"

\* A coroutine asks for the gate once.
AskedOnce ==
    \A i, j \in DOMAIN queue :
        /\ queue[i].by = "auto" /\ queue[j].by = "auto"
        /\ queue[i].run = queue[j].run
        => i = j

\* Which operations deliver or write, and what they know of their result.
OperationRoute ==
    /\ op.by = "cancel" <=> op.at = "cancel_write"
    /\ op.by = "none" => op.at = "idle"
    /\ op.at = "applied" => op.by = "auto"
    /\ op.by # "tick" => ~op.jumped /\ op.at \notin {"look", "restore"}
    /\ op.at \in {"look", "verify", "claim", "recheck", "reverify",
                  "dispatch", "confirm"} => op.result = "none"
    /\ op.at = "resolve" => /\ op.result = op.outcome
                            /\ op.outcome # "in_flight"

\* One coroutine at a time takes a run to the gate, and it stays there while
\* the gate is asked for or held for it.
OneCoroutine(r) ==
    /\ pend[r] # "none" =>
          /\ task[r].at \notin Working \cup {"gate", "failed"}
          /\ rows[r].status # "absent"
    /\ Requested(r) => ~(op.by = "auto" /\ op.run = r)
    /\ Requested(r) \/ (op.by = "auto" /\ op.run = r) => task[r].at = "gate"

\* A run without a row has no attempts, and one that waits for the gate with a
\* row has none yet.
NoStrayAttempts(r) == ~Present(r) \/ Requested(r) => attempts[r] = << >>

\* While the text is still to be chosen nothing is claimed.
ChoosingIsSafe(r) == Unchosen(r) => Untouched(r)

\* While a coroutine is on its way, its run is in work or was cancelled.
UnderwayRow(r) ==
    Present(r) /\ Underway(r) =>
        \/ rows[r].status \in {"recording", "processing", "cancelled"}
        \/ op.by = "auto" /\ op.run = r /\ op.at = "applied"

\* A run that waits, or is delivered without its coroutine, has none under way.
WaitersRest(r) ==
    r \in waiting \/ (op.by \in {"tick", "explicit"} /\ op.run = r) =>
        ~Underway(r)

\* A pending cleanup is that of a text not selected yet.
PendingIsOriginal(r) ==
    Present(r) =>
        /\ rows[r].cleanup = "pending" => rows[r].text = "original"
        /\ \/ rows[r].status = "awaiting_cleanup_choice"
           \/ pend[r] \notin {"none", "retry_stt"}
           \/ task[r].at = "start"
           => rows[r].cleanup # "pending"

Waits == {"awaiting_destination", "cancelled", "deleted"}

\* What waits, or will wait again, awaits its destination or is over.
WaitingRow(r) ==
    /\ \/ r \in waiting
       \/ op.run = r /\ op.by = "tick"
       \/ op.run = r /\ op.by = "explicit" /\ op.entry
       \/ op.run = r /\ op.at = "applied" /\ op.result = "awaiting"
       => rows[r].status \in Waits
    /\ op.run = r /\ op.by = "explicit" => r \notin waiting

\* With the version an explicit insert was asked for, the row takes it.
ExplicitRead(r) ==
    op.by = "explicit" /\ op.run = r /\ Present(r) =>
        /\ op.version <= rows[r].version
        /\ op.version = rows[r].version =>
              "insert" \in RecoveryActions[rows[r].status]

RouteOf(r) ==
    /\ OneCoroutine(r) /\ NoStrayAttempts(r) /\ ChoosingIsSafe(r)
    /\ UnderwayRow(r) /\ WaitersRest(r) /\ PendingIsOriginal(r)
    /\ WaitingRow(r) /\ ExplicitRead(r)

\* The text of a run is claimed for one delivery at a time, and only once it
\* was chosen.
RouteInvariant ==
    DownIsStill /\ AskedOnce /\ OperationRoute /\ \A r \in Runs : RouteOf(r)

-----------------------------------------------------------------------------
(* Which claims may dispatch, and over which. *)

\* An automatic claim for r finds nothing typed, or is refused.
Clear(r) == typed[r] = 0 \/ HasAutomatic(r) \/ ~Present(r)

Unclaimed == {"look", "verify", "claim"}
Undispatched == {"recheck", "reverify", "dispatch"}

\* The explicit operation will give the waiting entry of its run back.
WillWait ==
    /\ op.by = "explicit" /\ op.entry
    /\ op.at # "confirm" /\ op.result \notin DispatchResults \cup {"cancelled"}

\* What may still lead to an automatic claim is clear; and what is about to be
\* dispatched was not typed before, unless its user acknowledged that.
AutomaticIsClear(r) ==
    /\ r \in waiting => Clear(r)
    /\ op.run = r /\ op.by \in {"auto", "tick"} => Clear(r)
    /\ op.run = r /\ WillWait => Clear(r)
    /\ op.run = r /\ op.by \in {"auto", "tick"} /\ op.at \in Undispatched =>
          typed[r] = 0
    /\ op.run = r /\ op.by = "explicit" /\ ~op.ack
       /\ op.at \in Unclaimed \cup Undispatched => typed[r] = 0

\* The attempt b of r is in flight and no operation will store its outcome.
Loose(r, b) ==
    /\ b \in DOMAIN attempts[r] /\ attempts[r][b].outcome = "in_flight"
    /\ ~(op.at \in Claimed /\ op.run = r /\ op.attempt = b)

HasLoose(r) == \E b \in DOMAIN attempts[r] : Loose(r, b)

\* A claim over a loose attempt is one for a run past its age, whose row goes
\* before anything is dispatched.
LooseIsStuck(r) ==
    /\ HasLoose(r) =>
          \/ r \in aged \/ HasAutomatic(r)
          \/ r \notin waiting /\ ~(op.run = r /\ (op.by = "tick" \/ WillWait))
    /\ op.run = r /\ op.by = "auto" =>
          /\ attempts[r] = << >> \/ HasAutomatic(r)
          /\ op.at \in Unclaimed => attempts[r] = << >>
          /\ op.at \in Claimed => ~HasLoose(r)
    /\ op.run = r /\ op.by = "explicit" /\ op.at \in Unclaimed \cup Claimed =>
          ~HasLoose(r)
    /\ op.run = r /\ op.at = "recheck" /\ HasLoose(r) => r \in aged
    /\ /\ op.run = r
       /\ \/ op.at \in {"reverify", "dispatch", "confirm"}
          \/ op.at = "resolve" /\ op.outcome \in {"inserted", "uncertain"}
       => ~HasLoose(r)

\* A known insertion is not claimed over.
InsertedIsFinal(r) ==
    /\ HasAttempt(r, "inserted") => ~HasAttempt(r, "in_flight")
    /\ op.run = r /\ op.by = "explicit" /\ op.at \in Unclaimed =>
          ~HasAttempt(r, "inserted")

\* The claim of the operation is of its kind.
ClaimIsOfKind(r) ==
    op.run = r /\ op.at \in Claimed /\ Present(r) =>
        attempts[r][op.attempt].kind = Kind

\* As long as every outcome could be stored, the application leaves no attempt
\* in flight without an operation.
NothingLoose(r) == used["fault"] = 0 /\ up # "down" => ~HasLoose(r)

\* A run has one automatic attempt at most, and while every outcome could be
\* stored it has one attempt in flight at most.
OneAttempt(r) ==
    \A a, b \in DOMAIN attempts[r] : a # b =>
        /\ ~(/\ attempts[r][a].kind = "automatic"
             /\ attempts[r][b].kind = "automatic")
        /\ used["fault"] = 0 =>
              ~(/\ attempts[r][a].outcome = "in_flight"
                /\ attempts[r][b].outcome = "in_flight")

DeliveryOf(r) ==
    /\ AutomaticIsClear(r) /\ LooseIsStuck(r) /\ InsertedIsFinal(r)
    /\ ClaimIsOfKind(r) /\ NothingLoose(r) /\ OneAttempt(r)

\* A dispatch has one claim, and that claim was allowed.
DeliveryInvariant == \A r \in Runs : DeliveryOf(r)

-----------------------------------------------------------------------------
(* Cancels and deletions, where the user recovers nothing. *)

NoRecovery == Limits["recover"] = 0

\* Every coroutine is the one its run began with, and nobody inserts again.
NeverRecovered ==
    /\ \A r \in Runs : /\ task[r].kind = "process" /\ task[r].at # "start"
                       /\ pend[r] = "none" /\ orphan[r] = "none"
    /\ op.by # "explicit"
    /\ \A i \in DOMAIN queue : queue[i].by # "explicit"

\* A cancel has asked for the gate, or holds it.
CancelAsked(r) ==
    \/ op.run = r /\ op.by = "cancel"
    \/ \E i \in DOMAIN queue : queue[i].by = "cancel" /\ queue[i].run = r

\* It asks only when there is nothing left to tell: the run rests.
CancelRests(r) ==
    CancelAsked(r) =>
        ~TaskActive(r) /\ r \notin waiting /\ rows[r].status # "absent"

\* A tick delivers a run that awaits its destination, or was deleted since.
TickRow(r) ==
    op.by = "tick" /\ op.run = r =>
        rows[r].status \in {"awaiting_destination", "deleted"}

\* The work of a run that is being deleted is told so, and finds out before
\* its dispatch.
DeletedIsMarked(r) ==
    /\ r \in deleting => /\ rows[r].status # "absent" /\ r \notin waiting
                         /\ TaskActive(r) => r \in aborted
    /\ /\ rows[r].status = "deleted"
       /\ op.run = r /\ op.at \in {"recheck", "reverify"}
       => /\ op.by = "auto" => r \in aborted
          /\ op.by = "tick" => r \notin waiting

\* So is that of a run its user cancelled, unless there is nothing to stop.
CancelIsMarked(r) ==
    r \in cancelWanted =>
        /\ rows[r].status # "absent"
        /\ TaskActive(r) => r \in flagged
        /\ r \in waiting => \/ r \in flagged \/ ~Visible(r)
                            \/ rows[r].status = "cancelled"
        /\ ~(op.run = r /\ op.at = "dispatch")

\* A cancel or a deletion reaches the work it is about.
MarksInvariant ==
    /\ NeverRecovered
    /\ \A r \in Runs : /\ CancelRests(r) /\ TickRow(r)
                       /\ DeletedIsMarked(r) /\ CancelIsMarked(r)

-----------------------------------------------------------------------------
(* What a cancel finds, where nothing fails either. *)

Undisturbed ==
    NoRecovery /\ Limits["fault"] = 0 /\ Limits["crash"] = 0

\* The coroutine of a run is the only writer of its row until it is delivered.
OnlyWriter(r) ==
    /\ task[r].at = "recording" /\ Present(r) => rows[r].status = "recording"
    /\ /\ task[r].at \in {"stt", "stored", "cleaning", "gate"} /\ Present(r)
       /\ ~(op.run = r /\ op.at = "applied")
       => rows[r].status = "processing"
    /\ /\ task[r].at \in {"stored", "cleaning", "gate"} /\ Present(r)
       /\ ~(op.run = r /\ op.at = "applied")
       => rows[r].version = task[r].version
    /\ \A i \in DOMAIN queue : queue[i].by = "auto" /\ queue[i].run = r =>
          queue[i].version = task[r].version
    /\ op.by = "auto" /\ op.run = r => op.version = task[r].version

\* An operation that is over knows its result, and a dispatch that may have
\* typed says so.
ResultIsKnown ==
    op.at \in {"restore", "result"} => op.result # "none"
TypedIsReported(r) ==
    typed[r] > 0 /\ op.run = r /\ op.by \in {"auto", "tick"} =>
        \/ op.at = "confirm"
        \/ /\ op.at \in {"resolve", "restore", "result", "applied"}
           /\ op.result \in {"inserted", "uncertain"}
        \/ op.at = "applied" /\ op.result = "none"

\* What is still on its way to a delivery was not typed.
UndeliveredIsUntyped(r) ==
    \/ task[r].at \in Working \cup {"failed"}
    \/ Requested(r)
    \/ r \in waiting /\ ~(op.by = "tick" /\ op.run = r)
    => typed[r] = 0

\* Only deletions abort.
AbortedIsDeleted(r) ==
    /\ r \in aborted => r \in deleting \/ rows[r].status = "deleted"
    /\ r \in deferred => rows[r].status = "deleted"

\* A run that was typed takes no cancel, but while it is being delivered.
TypedIsOver(r) ==
    /\ Visible(r) /\ r \notin deleting /\ typed[r] > 0
    /\ Accepts(rows[r].status, "cancel")
    => op.run = r /\ op.by \in {"auto", "tick"} /\ op.at # "applied"

\* A run that ends as cancelled was not typed.
CalmInvariant ==
    /\ up = "up" /\ ResultIsKnown
    /\ \A r \in Runs : /\ OnlyWriter(r) /\ TypedIsReported(r)
                       /\ UndeliveredIsUntyped(r) /\ AbortedIsDeleted(r)
                       /\ TypedIsOver(r)
    /\ CancelledNeverTyped

=============================================================================
