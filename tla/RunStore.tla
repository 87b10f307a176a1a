------------------------------ MODULE RunStore ------------------------------
(***************************************************************************)
(* The run and insertion-attempt tables of history/repo.py (HistoryRepo).  *)
(* Every database call of the code runs as one transaction, so each        *)
(* operator below is one atomic step of whichever action performs it.      *)
(*                                                                         *)
(* A row keeps the columns the controller decides by; since is the rank of *)
(* awaiting_since among the runs.  The statuses "absent" and "deleted"     *)
(* stand for no row: run ids are never used twice.  aged holds the runs    *)
(* past the retention period whose row an attempt in flight still protects.*)
(* deferred holds the runs whose on_run_evicted callback is scheduled.     *)
(* used counts the environment's steps against their Limits.               *)
(***************************************************************************)
EXTENDS Naturals, Sequences, RunLifecycle

CONSTANTS Runs, NoRun, Limits

Budgets == {"cancel", "recover", "fault", "crash", "removal"}

ASSUME RunsAssumption == NoRun \notin Runs
ASSUME LimitsAssumption == Limits \in [Budgets -> Nat]

VARIABLES rows, attempts, aged, deferred, used

Texts == {"none", "original", "selected"}
Cleanups == {"off", "pending", "settled"}

Row == [status : Status \cup {"absent", "deleted"}, version : Nat,
        text : Texts, cleanup : Cleanups, since : Nat]

Outcomes == {"in_flight", "inserted", "failed", "uncertain", "cancelled"}
Attempt == [kind : {"automatic", "explicit"}, outcome : Outcomes]

\* One of the steps counted against the budget k.
Use(k) == used[k] < Limits[k] /\ used' = [used EXCEPT ![k] = @ + 1]

Present(r) == rows[r].status \in Status
HasAttempt(r, outcome) ==
    \E a \in DOMAIN attempts[r] : attempts[r][a].outcome = outcome
\* Mutant: the unique index covers only attempts in flight.
HasAutomaticInFlight(r) ==
    \E a \in DOMAIN attempts[r] :
        attempts[r][a] = [kind |-> "automatic", outcome |-> "in_flight"]
HasAutomatic(r) ==
    \E a \in DOMAIN attempts[r] : attempts[r][a].kind = "automatic"

\* get and update_run first delete what has expired, except protected rows.
Visible(r) == Present(r) /\ (r \in aged => HasAttempt(r, "in_flight"))

\* create_run.
CreateRow(r) ==
    rows' = [rows EXCEPT ![r] = [status |-> "recording", version |-> 1,
                                 text |-> "none", cleanup |-> "off",
                                 since |-> 0]]

\* update_run: the caller has checked the version; every update raises it.
Write(r, row) ==
    rows' = [rows EXCEPT ![r] = [row EXCEPT !.version = rows[r].version + 1]]

\* The row of r after one event of the state machine.
Moved(r, event) == [rows[r] EXCEPT !.status = Moves[@][event]]

\* Mutant: the reason is written to the column of the status.
EndedWithReason(row) ==
    [row EXCEPT !.cleanup = IF @ = "pending" THEN "cancelled" ELSE @]

\* The cleanup column of a run that ends while its cleanup is pending.
Ended(row) ==
    [row EXCEPT !.cleanup = IF @ = "pending" THEN "settled" ELSE @]

\* The rank of an awaiting_since read from the clock now.
NextSince(n) ==
    /\ n \in {rows[q].since + 1 : q \in Runs}
    /\ \A q \in Runs : rows[q].since < n

\* claim_attempt for a run that may be claimed; the index of the new attempt.
NextAttempt(r) == Len(attempts[r]) + 1
AddAttempt(r, kind) ==
    attempts' = [attempts EXCEPT ![r] =
                    Append(@, [kind |-> kind, outcome |-> "in_flight"])]

\* resolve_attempt: only an attempt still in flight changes.
Resolvable(r, a) ==
    a \in DOMAIN attempts[r] /\ attempts[r][a].outcome = "in_flight"
SetOutcome(r, a, outcome) ==
    attempts' = [attempts EXCEPT ![r][a].outcome = outcome]

\* _delete_rows; the foreign key deletes the attempts with their run.
Tombstone(r) ==
    [status |-> "deleted", version |-> 0, text |-> "none", cleanup |-> "off",
     since |-> rows[r].since]
DeleteRow(r) ==
    /\ rows' = [rows EXCEPT ![r] = Tombstone(r)]
    /\ attempts' = [attempts EXCEPT ![r] = << >>]
    /\ aged' = aged \ {r}

\* _expire, or the eviction at MAX_RUNS, with the callback it schedules.
RetentionDelete(r) == DeleteRow(r) /\ deferred' = deferred \cup {r}

\* recover_on_startup: a cleanup that was pending is the user's to settle, and
\* an attempt in flight becomes uncertain, for its dispatch may have begun.
RecoveredRow(r) ==
    IF r \in aged THEN Tombstone(r)
    ELSE IF rows[r].status = "processing" /\ rows[r].cleanup = "pending"
    THEN [rows[r] EXCEPT !.status = "awaiting_cleanup_choice",
                         !.cleanup = "settled", !.version = @ + 1]
    ELSE rows[r]
GivenUp(attempt) ==
    IF attempt.outcome = "in_flight"
    THEN [attempt EXCEPT !.outcome = "uncertain"] ELSE attempt
RecoveredAttempts(r) ==
    IF r \in aged THEN << >>
    ELSE [a \in DOMAIN attempts[r] |-> GivenUp(attempts[r][a])]
RecoverStore ==
    /\ rows' = [r \in Runs |-> RecoveredRow(r)]
    /\ attempts' = [r \in Runs |-> RecoveredAttempts(r)]
    /\ aged' = {}
    /\ deferred' = {}

StoreTypeOK ==
    /\ rows \in [Runs -> Row]
    /\ attempts \in [Runs -> Seq(Attempt)]
    /\ aged \subseteq Runs
    /\ deferred \subseteq Runs
    /\ used \in [Budgets -> Nat]

StoreInit ==
    /\ rows = [r \in Runs |-> [status |-> "absent", version |-> 0,
                               text |-> "none", cleanup |-> "off",
                               since |-> 0]]
    /\ attempts = [r \in Runs |-> << >>]
    /\ aged = {}
    /\ deferred = {}
    /\ used = [k \in Budgets |-> 0]

=============================================================================
