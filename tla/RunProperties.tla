---------------------------- MODULE RunProperties ----------------------------
(***************************************************************************)
(* What must hold of RunController: safety invariants, properties of       *)
(* steps, liveness, and the delivery ledger it implements.                 *)
(***************************************************************************)
EXTENDS RunController

-----------------------------------------------------------------------------
(* Invariants. *)

\* The claim is durable before the text can be: a row whose text may have been
\* typed has an attempt that says so (claim_attempt before dispatch, and
\* _resolve that never records less than was observed).
WriteAheadClaim ==
    \A r \in Runs :
        typed[r] > 0 /\ Present(r) =>
            \E outcome \in {"in_flight", "inserted", "uncertain"} :
                HasAttempt(r, outcome)

\* A run is reported done only if its text was dispatched.
DoneMeansTyped ==
    \A r \in Runs :
        /\ rows[r].status = "done" => typed[r] > 0
        /\ HasAttempt(r, "inserted") => typed[r] > 0

\* A run has one automatic attempt at most, and while every outcome could be
\* stored it has one attempt in flight at most.
OneAttemptAtATime ==
    \A r \in Runs : \A a, b \in DOMAIN attempts[r] :
        LET both(S) == attempts[r][a] \in S /\ attempts[r][b] \in S
        IN  a # b =>
              /\ ~both([kind : {"automatic"}, outcome : Outcomes])
              /\ used["fault"] = 0 =>
                    ~both([kind : {"automatic", "explicit"},
                           outcome : {"in_flight"}])

\* While the cleanup choice is open, and while there is no text, nothing was
\* claimed: choosing again cannot insert a second time.
ChoiceUntouched ==
    \A r \in Runs :
        /\ Present(r)
        /\ rows[r].status = "awaiting_cleanup_choice" \/ rows[r].text = "none"
        => attempts[r] = << >> /\ r \notin waiting

\* A waiting entry stands for a row that awaits its destination, or for one
\* that was cancelled or deleted meanwhile and that the tick will drop: never
\* for a run with an outcome, nor for one the user has to settle.
WaitingMatchesRow ==
    \A r \in waiting :
        rows[r].status \in {"awaiting_destination", "cancelled", "deleted"}

\* Nothing was typed for a run that ended as cancelled (and is not about to
\* be deleted: the abort of a delete keeps the outcome from the row).
CancelledNeverTyped ==
    \A r \in Runs \ deleting : rows[r].status = "cancelled" => typed[r] = 0

\* What the status of a run says of its delivery is true: an open choice has no
\* claim, and what waits awaits its destination.
StatusTellsClaims == ChoiceUntouched /\ WaitingMatchesRow

-----------------------------------------------------------------------------
(* Properties of steps. *)

\* Text that may be in the field already is typed again only by an explicit
\* insert whose user acknowledged it.
NoSilentDuplicate ==
    [][\A r \in Runs : typed'[r] > typed[r] /\ typed[r] > 0 =>
            op.by = "explicit" /\ op.ack]_vars

\* A status that ends a run stays until the row is deleted, and a recorded
\* outcome stays as it is: a late result cannot overwrite what was settled.
SettledStays ==
    [][\A r \in Runs :
         /\ rows[r].status \in Terminal =>
                rows'[r].status \in {rows[r].status, "deleted"}
         /\ \A a \in DOMAIN attempts[r] :
                attempts[r][a].outcome # "in_flight" =>
                    \/ attempts'[r] = << >>
                    \/ attempts'[r][a] = attempts[r][a]]_vars

\* A cancellation processed before the dispatch suppresses it: only a later
\* recovery command may type the text of a run its user cancelled.
CancelSuppressesDispatch ==
    [][\A r \in Runs : typed'[r] > typed[r] => r \notin cancelWanted]_vars

\* A cancellation is obeyed: it keeps the text out of the field, and a run that
\* ends as cancelled has typed nothing.
CancelIsObeyed == []CancelledNeverTyped /\ CancelSuppressesDispatch

\* A delivery the application began by itself does not reach its dispatch
\* once the run is deleted.
DeletedNotDelivered ==
    [][op.at # "dispatch" /\ op'.at = "dispatch" /\ op.by # "explicit" =>
            Present(op.run)]_vars

\* The same of an explicit insert: abort stops the work of a deleted run.
DeletedNotDispatched ==
    [][op.at # "dispatch" /\ op'.at = "dispatch" /\ op.by = "explicit" =>
            Present(op.run)]_vars

\* One version of a run authorises one explicit insertion.
VersionInsertsOnce ==
    [][typed' # typed /\ op.by = "explicit" =>
            <<op.run, op.version>> \notin spent]_vars

-----------------------------------------------------------------------------
(* Liveness. *)

\* A run does not stay in processing, whatever interrupts it, and does not wait
\* for ever, not even behind an older one (oldest first, wait limit).
ProcessingEnds ==
    \A r \in Runs :
        rows[r].status = "processing" ~> rows[r].status # "processing"
WaitingEnds == \A r \in Runs : r \in waiting ~> r \notin waiting

\* A run cancelled while it waits does not wait for ever.
CancelEndsWaiting ==
    \A r \in Runs :
        r \in cancelWanted /\ rows[r].status = "awaiting_destination" ~>
            rows[r].status # "awaiting_destination"

-----------------------------------------------------------------------------
(* The ledger the attempts implement. *)

LedgerOf(r) ==
    IF ~Present(r) /\ rows[r].status # "absent" THEN "gone"
    ELSE IF HasAttempt(r, "in_flight") THEN "open"
    ELSE IF HasAttempt(r, "inserted") THEN "inserted"
    ELSE IF HasAttempt(r, "uncertain") THEN "unsure"
    ELSE "clean"

Ledger == INSTANCE DeliveryLedger WITH
    ledger <- [r \in Runs |-> LedgerOf(r)],
    armed <- IF op.at \in {"recheck", "reverify", "dispatch"}
             THEN {op.run} ELSE {},
    text <- typed

\* The attempts keep the promise of the ledger, step by step.
LedgerKept == Ledger!LedgerSpec

=============================================================================
