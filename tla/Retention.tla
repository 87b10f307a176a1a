------------------------------ MODULE Retention ------------------------------
(***************************************************************************)
(* How long a run and its recording stay: HistoryRepo of history/repo.py   *)
(* (creation, eviction, expiry, deletion, recovery), the retention loop of *)
(* app.py and the WAV writer.  The database runs one transaction at a      *)
(* time; what an operation does with files and with the result comes       *)
(* afterwards, in steps of its own.  A file is named by its run.           *)
(*                                                                         *)
(*   now, created    the clock, and created_at of a run                    *)
(*   live            runs that have a row                                  *)
(*   held            runs with an attempt in flight                        *)
(*   pending         rows of pending_deletions                             *)
(*   files           recordings on disk                                    *)
(*   wav             the WAV writer of a run: none, ready, open or closed  *)
(*   op              the operations under way: where they are, the paths   *)
(*                   they have still to remove, the runs they removed      *)
(*   evicted         on_run_evicted calls that are due on the event loop   *)
(*   next            _next_expiry                                          *)
(*   wake            when the retention loop wakes; 0 while it does not    *)
(*                   sleep                                                 *)
(*   sweep           the operation the loop waits for, if any              *)
(*   up              the application runs                                  *)
(*   allowed         what users may do, and what may still go wrong        *)
(***************************************************************************)
EXTENDS Naturals, FiniteSets

CONSTANTS Runs, Ops, NoRun,
          Max,       \* MAX_RETAINED_RUNS
          Limit,     \* RUN_RETENTION_SECONDS
          Sweep,     \* the delay of the loop while there is no expiry
          Horizon,   \* bound of the clock
          Workloads  \* what users may do and what may go wrong, per behaviour

\* What users do besides reading, how many runs they start and attempts they
\* make, and how many files the system holds on to and processes it ends.
Uses == [kinds: SUBSET {"delete", "clear", "claim"},
         starts: Nat, claims: Nat, fails: Nat, crashes: Nat]

\* Runs are numbered in the order of their creation, Ops arbitrarily; the loop
\* looks for an expiry more often than runs expire.
HistoryConstantsOK ==
    /\ Runs \cup Ops \subseteq Nat /\ NoRun \notin Runs
    /\ {Max, Limit, Sweep} \subseteq Nat \ {0} /\ Sweep <= Limit
    /\ Horizon \in Nat
    /\ Workloads \subseteq Uses
ASSUME HistoryAssumption == HistoryConstantsOK

VARIABLES now, created, live, held, pending, files, wav, op, evicted, next,
          wake, sweep, up, allowed

rowVars == <<created, live, held, pending>>
loopVars == <<next, wake, sweep, up>>
historyVars == <<now, rowVars, files, wav, op, evicted, loopVars, allowed>>

Never == Horizon + Limit + 1     \* no expiry

Resting == [at |-> "idle", todo |-> {}, gone |-> {}, path |-> NoRun]

HistoryTypeOK ==
    /\ now \in 0..Horizon
    /\ created \in [Runs -> 0..Horizon]
    /\ live \subseteq Runs /\ held \subseteq live /\ pending \subseteq Runs
    /\ files \subseteq Runs /\ evicted \subseteq Runs
    /\ wav \in [Runs -> {"none", "ready", "open", "closed"}]
    /\ op \in [Ops -> [at: {"idle", "listed", "paths", "removing", "clearing",
                            "orphans", "refreshing"},
                       todo: SUBSET Runs, gone: SUBSET Runs,
                       path: Runs \cup {NoRun}]]
    /\ next \in 0..Never
    /\ wake \in 0..(Horizon + Limit + Sweep) /\ sweep \subseteq Ops
    /\ up \in BOOLEAN
    /\ allowed \in Uses

HistoryInit ==
    /\ now = 0 /\ created = [r \in Runs |-> 0]
    /\ live = {} /\ held = {} /\ pending = {} /\ files = {} /\ evicted = {}
    /\ wav = [r \in Runs |-> "none"]
    /\ op = [o \in Ops |-> Resting]
    /\ next = Never /\ wake = 0 /\ sweep = {} /\ up = TRUE
    /\ allowed \in Workloads

-----------------------------------------------------------------------------
(* Rules of retention.py and the transactions of repo.py. *)

\* is_expired: inclusive.
IsExpired(r) == created[r] + Limit <= now

\* _expire: not while an attempt is in flight.
Expired == {r \in live \ held : IsExpired(r)}

\* Mutant: the newest are evicted.
NewestOf(set, n) ==
    CHOOSE s \in SUBSET set : /\ Cardinality(s) = n
                              /\ \A r \in s, q \in set \ s :
                                    created[r] >= created[q]
\* The rows are ordered by creation.
OldestOf(set, n) ==
    CHOOSE s \in SUBSET set : /\ Cardinality(s) = n
                              /\ \A r \in s, q \in set \ s :
                                    created[r] <= created[q]

Beyond(n) == IF n > Max THEN n - Max ELSE 0

\* Mutant: the run that is created does not count.
OldRowsOnly(kept) == Beyond(Cardinality(kept))
\* How many runs there are too many with the one that is created.
TooMany(kept) == Beyond(Cardinality(kept) + 1)

\* The eviction of create_run, among rows without an attempt in flight.
Surplus(kept) ==
    LET free == kept \ held
        over == TooMany(kept)
    IN  OldestOf(free, IF over < Cardinality(free) THEN over
                       ELSE Cardinality(free))

\* Mutant: the path is listed when its removal has failed, not with the rows.
NotListed(gone) == pending
\* _delete_rows: the paths are listed in the transaction that removes the rows.
Listed(gone) == pending \cup gone

DeleteRows(gone) ==
    /\ live' = live \ gone
    /\ held' = held \ gone
    /\ pending' = Listed(gone)

\* An operation that has removed runs goes on with every pending path.
Continues(o, at, todo, gone) ==
    op' = [op EXCEPT ![o] =
             [at |-> at, todo |-> todo, gone |-> gone, path |-> NoRun]]

AfterExpiry(o, gone) ==
    Continues(o, IF gone = {} THEN "refreshing" ELSE "paths", {}, gone)

\* abort closes the WAV writer of a run it still works on.
Aborted(w, set) == [r \in Runs |-> IF r \in set /\ w[r] \in {"ready", "open"}
                                   THEN "closed" ELSE w[r]]

\* The first operation that is idle stands for a new one.
Ready(o) == up /\ op[o].at = "idle" /\ \A p \in Ops : p < o => op[p].at # "idle"
Recording == \E r \in Runs : wav[r] \in {"ready", "open"}

-----------------------------------------------------------------------------
(* Operations: the first transaction. *)

\* create_run; the recording of the new run begins once it returns.
Create(o, r) ==
    /\ allowed.starts > 0
    /\ allowed' = [allowed EXCEPT !.starts = @ - 1]
    /\ Ready(o) /\ ~Recording
    /\ wav[r] = "none" /\ \A q \in Runs : q < r => wav[q] # "none"
    /\ LET kept == live \ Expired
           gone == Expired \cup Surplus(kept)
       IN  /\ live' = (live \ gone) \cup {r}
           /\ held' = held
           /\ pending' = Listed(gone)
           /\ AfterExpiry(o, gone)
    /\ created' = [created EXCEPT ![r] = now]
    /\ wav' = [wav EXCEPT ![r] = "ready"]
    /\ UNCHANGED <<now, files, evicted, loopVars>>

\* _expire_first: every list, get, update and claim begins with it.
Read(o) ==
    /\ Ready(o) /\ Expired # {}
    /\ DeleteRows(Expired)
    /\ AfterExpiry(o, Expired)
    /\ UNCHANGED <<now, created, files, wav, evicted, loopVars, allowed>>

\* history_delete aborts the run and then deletes it.
DeleteRun(o, r) ==
    /\ "delete" \in allowed.kinds
    /\ Ready(o) /\ r \in live
    /\ wav' = Aborted(wav, {r})
    /\ DeleteRows({r})
    /\ Continues(o, "removing", {r}, {})
    /\ UNCHANGED <<now, created, files, evicted, loopVars, allowed>>

\* history_delete_all aborts the runs it lists ...
DeleteAll(o) ==
    /\ "clear" \in allowed.kinds
    /\ Ready(o) /\ Expired = {}
    /\ wav' = Aborted(wav, live)
    /\ Continues(o, "listed", {}, {})
    /\ UNCHANGED <<now, rowVars, files, evicted, loopVars, allowed>>

\* ... and deletes the runs there are by then; those are aborted in the end.
DeleteAllRows(o) ==
    /\ op[o].at = "listed"
    /\ DeleteRows(live)
    /\ Continues(o, "removing", live, live)
    /\ UNCHANGED <<now, created, files, wav, evicted, loopVars, allowed>>

\* Mutant: the row of the run is not looked up.
ClaimAnyway(o, r) ==
    /\ "claim" \in allowed.kinds /\ allowed.claims > 0
    /\ allowed' = [allowed EXCEPT !.claims = @ - 1]
    /\ Ready(o) /\ r \notin held
    /\ held' = held \cup {r}
    /\ Continues(o, "refreshing", {}, {})
    /\ UNCHANGED <<now, created, live, pending, files, wav, evicted, loopVars>>

\* claim_attempt protects a run, resolve_attempt ends that.
Claim(o, r) ==
    /\ "claim" \in allowed.kinds /\ allowed.claims > 0
    /\ allowed' = [allowed EXCEPT !.claims = @ - 1]
    /\ Ready(o) /\ r \in live \ held /\ Expired = {}
    /\ held' = held \cup {r}
    /\ Continues(o, "refreshing", {}, {})
    /\ UNCHANGED <<now, created, live, pending, files, wav, evicted, loopVars>>

\* Mutant: the end of an attempt leaves the expiry as it is.
EndsThere(o) == op' = op
Refreshes(o) == Continues(o, "refreshing", {}, {})

Resolve(o, r) ==
    /\ Ready(o) /\ r \in held
    /\ held' = held \ {r}
    /\ Refreshes(o)
    /\ UNCHANGED <<now, created, live, pending, files, wav, evicted, loopVars,
                   allowed>>

-----------------------------------------------------------------------------
(* What follows a transaction. *)

opRest == <<now, created, live, held, wav, evicted, loopVars>>

\* _pending_paths_for_ids reads every pending path.
ReadPaths(o) ==
    /\ op[o].at = "paths"
    /\ Continues(o, "removing", pending, op[o].gone)
    /\ UNCHANGED <<opRest, pending, files, allowed>>

\* _remove_paths, a file that is gone or not there.
RemoveFile(o, p) ==
    /\ op[o].at = "removing" /\ p \in op[o].todo
    /\ wav[p] # "open"
    /\ files' = files \ {p}
    /\ op' = [op EXCEPT ![o].at = "clearing", ![o].path = p, ![o].todo = @ \ {p}]
    /\ UNCHANGED <<opRest, pending, allowed>>

\* A file that is open, or that the system does not let go.
RemoveFails(o, p) ==
    /\ op[o].at = "removing" /\ p \in op[o].todo \cap files
    /\ IF wav[p] = "open" THEN UNCHANGED allowed
       ELSE allowed.fails > 0 /\ allowed' = [allowed EXCEPT !.fails = @ - 1]
    /\ op' = [op EXCEPT ![o].todo = @ \ {p}]
    /\ UNCHANGED <<opRest, pending, files>>

ClearPending(o) ==
    /\ op[o].at = "clearing"
    /\ pending' = pending \ {op[o].path}
    /\ op' = [op EXCEPT ![o].at = "removing", ![o].path = NoRun]
    /\ UNCHANGED <<opRest, files, allowed>>

AllRemoved(o) ==
    /\ op[o].at = "removing" /\ op[o].todo = {}
    /\ op' = [op EXCEPT ![o].at = IF up THEN "refreshing" ELSE "orphans"]
    /\ UNCHANGED <<opRest, pending, files, allowed>>

\* Mutant: the expiry of the youngest.
LatestExpiry ==
    IF live \ held = {} THEN Never
    ELSE LET youngest == CHOOSE r \in live \ held :
                            \A q \in live \ held : created[r] >= created[q]
         IN  created[youngest] + Limit
\* The expiry of the oldest run that can expire.
NextExpiry ==
    IF live \ held = {} THEN Never
    ELSE LET first == CHOOSE r \in live \ held :
                         \A q \in live \ held : created[r] <= created[q]
         IN  created[first] + Limit

\* _refresh_next_expiry, then the evictions are handed to the event loop; the
\* end of recovery is the start of the application.
Refresh(o) ==
    /\ op[o].at = "refreshing"
    /\ next' = NextExpiry
    /\ evicted' = evicted \cup op[o].gone
    /\ op' = [op EXCEPT ![o] = Resting]
    /\ up' = TRUE
    /\ wake' = IF up THEN wake ELSE 0
    /\ sweep' = sweep \ {o}
    /\ UNCHANGED <<now, rowVars, files, wav, allowed>>

\* on_run_evicted
Evict(r) ==
    /\ r \in evicted /\ up
    /\ evicted' = evicted \ {r}
    /\ wav' = Aborted(wav, {r})
    /\ UNCHANGED <<now, rowVars, files, op, loopVars, allowed>>

-----------------------------------------------------------------------------
(* The recording, the clock, the retention loop. *)

\* The first samples open the file.
WriteSamples(r) ==
    /\ up /\ wav[r] = "ready"
    /\ wav' = [wav EXCEPT ![r] = "open"]
    /\ files' = files \cup {r}
    /\ UNCHANGED <<now, rowVars, op, evicted, loopVars, allowed>>

CloseWav(r) ==
    /\ up /\ wav[r] \in {"ready", "open"}
    /\ wav' = [wav EXCEPT ![r] = "closed"]
    /\ UNCHANGED <<now, rowVars, files, op, evicted, loopVars, allowed>>

\* No recording lasts as long as its run is kept; the loop wakes in time.
Tick ==
    /\ up /\ now < Horizon
    /\ wake > now
    /\ \A r \in Runs : wav[r] \in {"ready", "open"} => created[r] + Limit > now + 1
    /\ now' = now + 1
    /\ UNCHANGED <<rowVars, files, wav, op, evicted, loopVars, allowed>>

\* _retention_loop: enforce_retention, then it sleeps until the next expiry.
\* At the bound of the clock it goes on without it.
LoopWakes(o) ==
    /\ Ready(o) /\ wake # 0
    /\ wake <= now \/ now = Horizon
    /\ wake' = 0 /\ sweep' = {o}
    /\ DeleteRows(Expired)
    /\ AfterExpiry(o, Expired)
    /\ UNCHANGED <<now, created, files, wav, evicted, next, up, allowed>>

LoopSleeps ==
    /\ up /\ wake = 0 /\ sweep = {}
    /\ wake' = IF next = Never THEN now + Sweep
               ELSE IF next > now THEN next ELSE now
    /\ UNCHANGED <<now, rowVars, files, wav, op, evicted, next, sweep, up,
                   allowed>>

-----------------------------------------------------------------------------
(* Crash, and recover_on_startup. *)

Crashes ==
    /\ allowed.crashes > 0
    /\ allowed' = [allowed EXCEPT !.crashes = @ - 1]
    /\ up' = FALSE
    /\ op' = [o \in Ops |-> Resting]
    /\ evicted' = {} /\ next' = Never /\ sweep' = {}
    /\ wav' = Aborted(wav, Runs)
    /\ UNCHANGED <<now, rowVars, files, wake>>

Recover(o) ==
    /\ ~up /\ \A p \in Ops : op[p].at = "idle" /\ o <= p
    /\ held' = {}
    /\ LET gone == {r \in live : IsExpired(r)}
       IN  /\ live' = live \ gone
           /\ pending' = Listed(gone)
           /\ Continues(o, "paths", {}, gone)
    /\ UNCHANGED <<now, created, files, wav, evicted, loopVars, allowed>>

\* Mutant: recordings of runs are taken for orphans.
Unlisted == files \ pending
\* Recordings that neither a row nor a pending deletion names.
Orphans == files \ (live \cup pending)

\* Each by itself; the system may hold on to some of them, in one failure.
RemoveOrphans(o) ==
    /\ op[o].at = "orphans"
    /\ \/ files' = files \ Orphans /\ UNCHANGED allowed
       \/ \E stay \in SUBSET Orphans \ {{}} :
             /\ allowed.fails > 0
             /\ allowed' = [allowed EXCEPT !.fails = @ - 1]
             /\ files' = files \ (Orphans \ stay)
    /\ op' = [op EXCEPT ![o].at = "refreshing"]
    /\ UNCHANGED <<opRest, pending>>

-----------------------------------------------------------------------------
Follow(o) ==
    \/ DeleteAllRows(o) \/ ReadPaths(o) \/ ClearPending(o) \/ AllRemoved(o)
    \/ Refresh(o) \/ RemoveOrphans(o)
    \/ \E p \in Runs : RemoveFile(o, p) \/ RemoveFails(o, p)

HistoryNext ==
    \/ \E o \in Ops : \/ Read(o) \/ DeleteAll(o) \/ LoopWakes(o) \/ Recover(o)
                      \/ Follow(o)
                      \/ \E r \in Runs : \/ Create(o, r) \/ DeleteRun(o, r)
                                         \/ Claim(o, r) \/ Resolve(o, r)
    \/ \E r \in Runs : Evict(r) \/ WriteSamples(r) \/ CloseWav(r)
    \/ Tick \/ LoopSleeps \/ Crashes

HistorySpec == HistoryInit /\ [][HistoryNext]_historyVars

-----------------------------------------------------------------------------
\* A recording whose run is gone stays listed until it is removed, whatever
\* fails or crashes on the way: it can never stay on disk unseen.  (delete_all
\* removes runs that began after it listed them, and they write on.)
FilesListed ==
    "clear" \notin allowed.kinds =>
       \A f \in files : f \in live \/ f \in pending \/ wav[f] = "open"

\* A recording of a run in the history is never removed, not by recovery either.
KeepsLiveFiles == (files \ files') \cap live' = {}

\* Both together: the files on disk are those of the rows and of the list.
FilesFollowRows == []FilesListed /\ [][KeepsLiveFiles]_historyVars

\* Eviction and expiry take the oldest runs that no attempt protects, never a
\* younger one before them.
OldestLeave ==
    \A o \in Ops : op[o].at = "idle" /\ op'[o].at = "paths" =>
       \A r \in op'[o].gone, q \in live' :
          created'[q] < created[r] => q \in held

\* While nothing is under way, the retention loop sees the expiry of the oldest
\* run that can expire, also after an attempt ended or the application crashed.
AtRest == \A o \in Ops : op[o].at = "idle"
ExpiryIsRight == up /\ AtRest => next = NextExpiry

\* Where no attempt delays it, no run is kept beyond its age: "expire at
\* equality".
NeverOverdue ==
    "claim" \notin allowed.kinds => \A r \in live : now <= created[r] + Limit

\* A run that is created finds room: no more than MAX_RETAINED_RUNS stay with it,
\* or none but those with an attempt in flight (create_run).
MakesRoom ==
    \/ live' \subseteq live
    \/ Cardinality(live') <= Max
    \/ live \cap live' \subseteq held
NeverCrowded == [][MakesRoom]_historyVars

\* The age alone decides who leaves, and when (retention.py, _retention_loop).
AgeDecides == [](NeverOverdue /\ ExpiryIsRight) /\ [][OldestLeave]_historyVars

===============================================================================
