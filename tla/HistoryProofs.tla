---------------------------- MODULE HistoryProofs ----------------------------
(***************************************************************************)
(* What is proved about the history (Retention), for any number of runs    *)
(* and operations, any limits, and whatever users delete, the system holds *)
(* on to and a crash interrupts: the files on disk are those of the rows   *)
(* and of the list of what is to be removed, and the age alone decides who *)
(* leaves, and when.                                                       *)
(***************************************************************************)
EXTENDS Retention, FiniteSetTheorems, WellFoundedInduction, TLAPS

-----------------------------------------------------------------------------
(* The invariant. *)

\* The clock is behind no creation; the loop sleeps no longer than runs stay,
\* and knows no later expiry.
ClockIsAhead ==
    /\ \A r \in Runs : created[r] <= now
    /\ wake <= now + Limit
    /\ next = Never \/ next <= now + Limit

\* A run that is listed, or on its way off the disk, has no row any more ...
PathsAreGone ==
    /\ pending \cap live = {}
    /\ \A o \in Ops : op[o].todo \cap live = {} /\ op[o].path \notin live

\* ... and one that has not been created is nowhere.
UnbornIsNowhere ==
    \A r \in Runs : wav[r] = "none" =>
       /\ r \notin live \cup pending
       /\ \A o \in Ops : r \notin op[o].todo /\ op[o].path # r

\* A recording ends before its run expires.
RecordingIsYoung ==
    \A r \in Runs : wav[r] \in {"ready", "open"} => created[r] + Limit > now

\* Without a deletion of everything, recordings begin and stay under their rows.
RowsHoldFiles ==
    "clear" \notin allowed.kinds =>
       /\ \A o \in Ops : /\ op[o].at # "listed"
                         /\ op[o].at = "clearing" => op[o].path \notin files
       /\ \A r \in Runs : wav[r] \in {"ready", "open"} => r \in live
       /\ files \subseteq live \cup pending

\* Without attempts, the loop is awake, or wakes before the oldest run is over;
\* when its sweep is over it knows every run, except those of this very moment.
LoopIsInTime ==
    "claim" \notin allowed.kinds =>
       /\ held = {}
       /\ \A r \in live :
             /\ now <= created[r] + Limit
             /\ (IF up THEN wake = 0 ELSE ~AtRest) =>
                   now < created[r] + Limit
             /\ up /\ wake # 0 => wake <= created[r] + Limit
             /\ up /\ wake = 0 /\ sweep = {} =>
                   next <= created[r] + Limit \/ created[r] = now

\* What every reachable state satisfies and every step keeps.
HistoryInv ==
    /\ HistoryTypeOK /\ IsFiniteSet(live)
    /\ ClockIsAhead /\ PathsAreGone /\ UnbornIsNowhere
    /\ RecordingIsYoung /\ RowsHoldFiles
    /\ ExpiryIsRight /\ LoopIsInTime

-----------------------------------------------------------------------------
(* The oldest of a set, and how the operations move. *)

\* A finite set that is not empty has an element that comes first.
LEMMA FirstExists ==
  ASSUME NEW S, IsFiniteSet(S), S # {}, NEW f, \A x \in S : f[x] \in Int
  PROVE  \E x \in S : \A y \in S : f[x] <= f[y]
<1> DEFINE Before(x) == {y \in S : f[y] < f[x]}
           All == {Before(x) : x \in S}
<1>1. All \subseteq FiniteSubsetsOf(S) /\ All # {}
  <2>1. \A x \in S : Before(x) \in SUBSET S /\ IsFiniteSet(Before(x))
    <3> TAKE x \in S
    <3>1. Before(x) \subseteq S
      OBVIOUS
    <3> HIDE DEF Before
    <3> QED
      BY <3>1, FS_Subset
  <2> HIDE DEF Before
  <2> QED
    BY <2>1 DEF FiniteSubsetsOf
<1>2. PICK T \in All : \A U \in All : <<U, T>> \notin StrictSubsetOrdering(S)
  BY <1>1, WFMin, FS_StrictSubsetOrderingWellFounded
<1>3. PICK x \in S : T = Before(x)
  BY <1>2
<1>4. ASSUME NEW y \in S, f[y] < f[x]
      PROVE  FALSE
  <2>1. Before(y) \subseteq Before(x) /\ y \in Before(x) /\ y \notin Before(y)
    BY <1>4
  <2>2. Before(y) \in All /\ Before(x) \subseteq S /\ Before(y) # Before(x)
    BY <2>1
  <2> HIDE DEF Before
  <2>3. <<Before(y), Before(x)>> \in (SUBSET S) \X (SUBSET S)
    BY <2>1, <2>2
  <2> QED
    BY <1>2, <1>3, <2>1, <2>2, <2>3 DEF StrictSubsetOrdering
<1> QED
  BY <1>4

\* So there are as many oldest ones as one asks for.
LEMMA OldestExist ==
  ASSUME NEW S \in SUBSET Runs, IsFiniteSet(S), NEW n \in Nat,
         n <= Cardinality(S), \A r \in S : created[r] \in Nat
  PROVE  /\ OldestOf(S, n) \subseteq S
         /\ Cardinality(OldestOf(S, n)) = n
         /\ \A r \in OldestOf(S, n), q \in S \ OldestOf(S, n) :
              created[r] <= created[q]
<1> DEFINE Old(s) == \A r \in s, q \in S \ s : created[r] <= created[q]
           All == {s \in SUBSET S : Old(s) /\ n <= Cardinality(s)}
<1>1. All \subseteq FiniteSubsetsOf(S) /\ S \in All
  BY FS_Subset DEF FiniteSubsetsOf
<1>2. PICK s \in All : \A u \in All : <<u, s>> \notin StrictSubsetOrdering(S)
  BY <1>1, WFMin, FS_StrictSubsetOrderingWellFounded
<1>3. IsFiniteSet(s) /\ Cardinality(s) \in Nat
  BY <1>2, FS_Subset, FS_CardinalityType
<1>4. ASSUME Cardinality(s) # n
      PROVE  FALSE
  <2>1. s # {} /\ Cardinality(s) > n
    BY <1>2, <1>3, <1>4, FS_EmptySet
  <2> DEFINE f == [r \in s |-> -created[r]]
  <2>2. \A r \in s : f[r] \in Int
    BY <1>2
  <2>3. PICK x \in s : \A y \in s : f[x] <= f[y]
    BY <1>3, <2>1, <2>2, FirstExists
  <2>4. \A y \in s : created[y] <= created[x]
    BY <1>2, <2>3
  <2>5. Cardinality(s \ {x}) = Cardinality(s) - 1
    BY <1>3, FS_RemoveElement
  <2>6. s \ {x} \in All
    BY <1>2, <1>3, <2>1, <2>4, <2>5
  <2> QED
    BY <1>2, <2>6 DEF StrictSubsetOrdering
<1>5. s \in SUBSET S /\ Cardinality(s) = n /\ Old(s)
  BY <1>2, <1>4
<1> QED
  BY <1>5 DEF OldestOf

\* Where an operation may be, and what it carries.
Places == [at: {"idle", "listed", "paths", "removing", "clearing", "orphans",
                "refreshing"},
           todo: SUBSET Runs, gone: SUBSET Runs, path: Runs \cup {NoRun}]

\* An operation that goes on has its new place, the others keep theirs.
LEMMA GoingOn ==
    ASSUME HistoryTypeOK, NEW o \in Ops, NEW at, NEW todo \in SUBSET Runs,
           NEW gone \in SUBSET Runs, Continues(o, at, todo, gone),
           at \in {"idle", "listed", "paths", "removing", "clearing",
                   "orphans", "refreshing"}
    PROVE  /\ op' \in [Ops -> Places]
           /\ op'[o] = [at |-> at, todo |-> todo, gone |-> gone, path |-> NoRun]
           /\ \A p \in Ops \ {o} : op'[p] = op[p]
  BY DEF HistoryTypeOK, Continues, Places

\* After runs were removed, the operation goes on to the paths.
LEMMA GoingToPaths ==
    ASSUME HistoryTypeOK, NEW o \in Ops, NEW gone \in SUBSET Runs,
           AfterExpiry(o, gone)
    PROVE  /\ op' \in [Ops -> Places]
           /\ op'[o].at = (IF gone = {} THEN "refreshing" ELSE "paths")
           /\ op'[o].todo = {} /\ op'[o].gone = gone /\ op'[o].path = NoRun
           /\ \A p \in Ops \ {o} : op'[p] = op[p]
<1>1. CASE gone = {}
  <2>1. Continues(o, "refreshing", {}, gone)
    BY <1>1 DEF AfterExpiry
  <2>2. /\ op' \in [Ops -> Places]
        /\ op'[o] = [at |-> "refreshing", todo |-> {}, gone |-> gone,
                     path |-> NoRun]
        /\ \A p \in Ops \ {o} : op'[p] = op[p]
    BY <2>1, GoingOn
  <2> QED
    BY <1>1, <2>2
<1>2. CASE gone # {}
  <2>1. Continues(o, "paths", {}, gone)
    BY <1>2 DEF AfterExpiry
  <2>2. /\ op' \in [Ops -> Places]
        /\ op'[o] = [at |-> "paths", todo |-> {}, gone |-> gone, path |-> NoRun]
        /\ \A p \in Ops \ {o} : op'[p] = op[p]
    BY <2>1, GoingOn
  <2> QED
    BY <1>2, <2>2
<1> QED
  BY <1>1, <1>2

\* A recording that is aborted is over; none begins.
LEMMA Aborting ==
    ASSUME HistoryTypeOK, NEW set \in SUBSET Runs
    PROVE  /\ Aborted(wav, set) \in
                 [Runs -> {"none", "ready", "open", "closed"}]
           /\ \A r \in Runs :
                 /\ Aborted(wav, set)[r] = "none" => wav[r] = "none"
                 /\ Aborted(wav, set)[r] \in {"ready", "open"} =>
                       r \notin set /\ wav[r] \in {"ready", "open"}
  BY DEF HistoryTypeOK, Aborted

\* Rows that are deleted are listed, and no row comes in their place.
LEMMA Deleting ==
    ASSUME HistoryTypeOK, IsFiniteSet(live), NEW gone \in SUBSET live,
           DeleteRows(gone)
    PROVE  /\ live' = live \ gone /\ held' = held \ gone
           /\ pending' = pending \cup gone
           /\ held' \subseteq live' /\ live' \subseteq Runs
           /\ pending' \subseteq Runs /\ IsFiniteSet(live')
  BY FS_Difference DEF HistoryTypeOK, DeleteRows, Listed

\* What a user or a failure takes from the workload is not its kinds.
LEMMA Spending ==
    ASSUME HistoryTypeOK,
           \/ /\ allowed.starts > 0
              /\ allowed' = [allowed EXCEPT !.starts = @ - 1]
           \/ /\ allowed.claims > 0
              /\ allowed' = [allowed EXCEPT !.claims = @ - 1]
           \/ /\ allowed.fails > 0
              /\ allowed' = [allowed EXCEPT !.fails = @ - 1]
           \/ /\ allowed.crashes > 0
              /\ allowed' = [allowed EXCEPT !.crashes = @ - 1]
    PROVE  allowed' \in Uses /\ allowed'.kinds = allowed.kinds
<1>1. /\ allowed.kinds \in SUBSET {"delete", "clear", "claim"}
      /\ allowed.starts \in Nat /\ allowed.claims \in Nat
      /\ allowed.fails \in Nat /\ allowed.crashes \in Nat
      /\ allowed = [kinds |-> allowed.kinds, starts |-> allowed.starts,
                    claims |-> allowed.claims, fails |-> allowed.fails,
                    crashes |-> allowed.crashes]
  BY DEF HistoryTypeOK, Uses
<1>2. CASE allowed.starts > 0 /\ allowed' = [allowed EXCEPT !.starts = @ - 1]
  <2>1. allowed' = [kinds |-> allowed.kinds, starts |-> allowed.starts - 1,
                    claims |-> allowed.claims, fails |-> allowed.fails,
                    crashes |-> allowed.crashes]
    BY <1>1, <1>2
  <2>2. allowed.starts - 1 \in Nat
    BY <1>1, <1>2
  <2> QED
    BY <1>1, <2>1, <2>2 DEF Uses
<1>3. CASE allowed.claims > 0 /\ allowed' = [allowed EXCEPT !.claims = @ - 1]
  <2>1. allowed' = [kinds |-> allowed.kinds, starts |-> allowed.starts,
                    claims |-> allowed.claims - 1, fails |-> allowed.fails,
                    crashes |-> allowed.crashes]
    BY <1>1, <1>3
  <2>2. allowed.claims - 1 \in Nat
    BY <1>1, <1>3
  <2> QED
    BY <1>1, <2>1, <2>2 DEF Uses
<1>4. CASE allowed.fails > 0 /\ allowed' = [allowed EXCEPT !.fails = @ - 1]
  <2>1. allowed' = [kinds |-> allowed.kinds, starts |-> allowed.starts,
                    claims |-> allowed.claims, fails |-> allowed.fails - 1,
                    crashes |-> allowed.crashes]
    BY <1>1, <1>4
  <2>2. allowed.fails - 1 \in Nat
    BY <1>1, <1>4
  <2> QED
    BY <1>1, <2>1, <2>2 DEF Uses
<1>5. CASE allowed.crashes > 0 /\ allowed' = [allowed EXCEPT !.crashes = @ - 1]
  <2>1. allowed' = [kinds |-> allowed.kinds, starts |-> allowed.starts,
                    claims |-> allowed.claims, fails |-> allowed.fails,
                    crashes |-> allowed.crashes - 1]
    BY <1>1, <1>5
  <2>2. allowed.crashes - 1 \in Nat
    BY <1>1, <1>5
  <2> QED
    BY <1>1, <2>1, <2>2 DEF Uses
<1> QED
  BY <1>2, <1>3, <1>4, <1>5

\* Eviction takes the oldest rows that no attempt protects.
LEMMA SurplusIsOldest ==
    ASSUME HistoryTypeOK, NEW kept \in SUBSET live, IsFiniteSet(kept)
    PROVE  /\ Surplus(kept) \subseteq kept \ held
           /\ \/ Surplus(kept) = kept \ held
              \/ Cardinality(kept \ Surplus(kept)) < Max
           /\ \A r \in Surplus(kept), q \in (kept \ held) \ Surplus(kept) :
                 created[r] <= created[q]
<1> DEFINE free  == kept \ held
           over  == TooMany(kept)
           count == IF over < Cardinality(free) THEN over ELSE Cardinality(free)
<1>1. IsFiniteSet(free) /\ free \in SUBSET Runs
  BY FS_Difference DEF HistoryTypeOK
<1>2. Cardinality(kept) \in Nat /\ Cardinality(free) \in Nat
  BY <1>1, FS_CardinalityType
<1>3. over \in Nat /\ Max \in Nat /\ Cardinality(kept) - over < Max
  BY <1>2, HistoryAssumption DEF HistoryConstantsOK, TooMany, Beyond
<1>4. count \in Nat /\ count <= Cardinality(free)
  BY <1>2, <1>3
<1>5. \A r \in free : created[r] \in Nat
  BY <1>1 DEF HistoryTypeOK
<1>6. Surplus(kept) = OldestOf(free, count)
  BY DEF Surplus
<1> HIDE DEF free, count, over
<1>7. /\ Surplus(kept) \subseteq free
      /\ Cardinality(Surplus(kept)) = count
      /\ \A r \in Surplus(kept), q \in free \ Surplus(kept) :
            created[r] <= created[q]
  BY <1>1, <1>4, <1>5, <1>6, OldestExist
<1>8. CASE over < Cardinality(free)
  <2>1. Cardinality(Surplus(kept)) = over
    BY <1>7, <1>8 DEF count
  <2>2. Surplus(kept) \subseteq kept
    BY <1>7 DEF free
  <2>3. kept \cap Surplus(kept) = Surplus(kept)
    BY <2>2
  <2>4. Cardinality(kept \ Surplus(kept)) = Cardinality(kept) - over
    BY <2>1, <2>3, FS_Difference
  <2> QED
    BY <1>3, <1>7, <2>4 DEF free
<1>9. CASE ~(over < Cardinality(free))
  <2>1. Cardinality(Surplus(kept)) = Cardinality(free)
    BY <1>7, <1>9 DEF count
  <2>2. Surplus(kept) = free
    BY <1>1, <1>7, <2>1, FS_Subset
  <2> QED
    BY <1>7, <2>2 DEF free
<1> QED
  BY <1>8, <1>9

\* The next expiry is that of the oldest run that can expire.
LEMMA ExpiryIsFirst ==
    ASSUME HistoryTypeOK, IsFiniteSet(live)
    PROVE  /\ NextExpiry \in 0..Never
           /\ live \ held = {} => NextExpiry = Never
           /\ live \ held # {} => NextExpiry < Never
           /\ live \ held # {} =>
                 \E r \in live \ held : NextExpiry = created[r] + Limit
           /\ \A r \in live \ held : NextExpiry <= created[r] + Limit
<1> DEFINE free == live \ held
<1> USE HistoryAssumption DEF HistoryConstantsOK
<1>1. CASE free = {}
  BY <1>1 DEF NextExpiry, Never
<1>2. CASE free # {}
  <2>1. IsFiniteSet(free) /\ \A r \in free : created[r] \in 0..Horizon
    BY FS_Difference DEF HistoryTypeOK
  <2>2. \E r \in free : \A q \in free : created[r] <= created[q]
    BY <1>2, <2>1, FirstExists
  <2>3. PICK r \in free : /\ \A q \in free : created[r] <= created[q]
                          /\ NextExpiry = created[r] + Limit
    BY <1>2, <2>2 DEF NextExpiry
  <2> QED
    BY <1>2, <2>1, <2>3 DEF Never
<1> QED
  BY <1>1, <1>2

\* The next expiry depends on the rows alone.
LEMMA ExpiryStays ==
    ASSUME UNCHANGED <<live, held, created>>
    PROVE  NextExpiry' = NextExpiry
  BY DEF NextExpiry

-----------------------------------------------------------------------------
(* Every action keeps the invariant. *)

\* Reading removes what has expired.
LEMMA ReadKeeps ==
    ASSUME HistoryInv, NEW o \in Ops, Read(o)
    PROVE  HistoryInv'
<1> USE HistoryAssumption DEF HistoryInv, HistoryConstantsOK, loopVars
<1>1. /\ op' \in [Ops -> Places] /\ \A p \in Ops \ {o} : op'[p] = op[p]
      /\ op'[o].at \in {"refreshing", "paths"}
      /\ op'[o].todo = {} /\ op'[o].path = NoRun
      /\ live' = live \ Expired /\ held' = held \ Expired
      /\ pending' = pending \cup Expired
      /\ held' \subseteq live' /\ live' \subseteq Runs
      /\ pending' \subseteq Runs
      /\ IsFiniteSet(live')
      /\ Expired \subseteq live
      /\ \A r \in live : ~IsExpired(r) \/ r \in Expired \/ r \in held
      /\ \A r \in Expired : created[r] + Limit <= now
      /\ UNCHANGED <<now, created, files, wav, evicted, next, wake, sweep, up,
                     allowed>>
  <2>1. Expired \in SUBSET live /\ Expired \in SUBSET Runs
    BY DEF Expired, HistoryTypeOK
  <2>2. DeleteRows(Expired) /\ AfterExpiry(o, Expired)
    BY DEF Read
  <2>3. /\ op' \in [Ops -> Places] /\ \A p \in Ops \ {o} : op'[p] = op[p]
        /\ op'[o].at \in {"refreshing", "paths"}
        /\ op'[o].todo = {} /\ op'[o].path = NoRun
    BY <2>1, <2>2, GoingToPaths
  <2>4. /\ \A r \in live : ~IsExpired(r) \/ r \in Expired \/ r \in held
        /\ \A r \in Expired : created[r] + Limit <= now
    BY DEF Expired, IsExpired
  <2> QED
    BY <2>1, <2>2, <2>3, <2>4, Deleting DEF Read
<1>2. HistoryTypeOK' /\ IsFiniteSet(live')
  BY <1>1
     DEF HistoryTypeOK, Places, Never
<1>3. /\ ClockIsAhead' /\ PathsAreGone' /\ UnbornIsNowhere'
      /\ RecordingIsYoung' /\ ExpiryIsRight'
  BY <1>1, ExpiryStays
     DEF HistoryTypeOK, Places, ClockIsAhead, PathsAreGone, UnbornIsNowhere,
         RecordingIsYoung, ExpiryIsRight, AtRest
<1>4. RowsHoldFiles'
  <2> SUFFICES ASSUME "clear" \notin allowed'.kinds
               PROVE  /\ \A p \in Ops :
                            /\ op'[p].at # "listed"
                            /\ op'[p].at = "clearing" =>
                                  op'[p].path \notin files'
                      /\ \A q \in Runs :
                            wav'[q] \in {"ready", "open"} => q \in live'
                      /\ files' \subseteq live' \cup pending'
    BY DEF RowsHoldFiles
  <2>1. /\ \A p \in Ops : /\ op[p].at # "listed"
                          /\ op[p].at = "clearing" => op[p].path \notin files
        /\ \A q \in Runs : wav[q] \in {"ready", "open"} => q \in live
        /\ files \subseteq live \cup pending
    BY <1>1 DEF RowsHoldFiles
  <2>2. ASSUME NEW p \in Ops
        PROVE  /\ op'[p].at # "listed"
               /\ op'[p].at = "clearing" => op'[p].path \notin files'
    BY <1>1, <2>1
  <2>3. \A q \in Runs : wav'[q] \in {"ready", "open"} => q \in live'
    BY <1>1, <2>1 DEF RecordingIsYoung, HistoryTypeOK
  <2>4. files' \subseteq live' \cup pending'
    BY <1>1, <2>1
  <2> QED
    BY <2>2, <2>3, <2>4
<1>5. LoopIsInTime'
  BY <1>1 DEF HistoryTypeOK, LoopIsInTime, AtRest, IsExpired, Read, Ready
<1> QED
  BY <1>2, <1>3, <1>4, <1>5

\* So does the loop, which then does not sleep.
LEMMA LoopWakesKeeps ==
    ASSUME HistoryInv, NEW o \in Ops, LoopWakes(o)
    PROVE  HistoryInv'
<1> USE HistoryAssumption DEF HistoryInv, HistoryConstantsOK, loopVars
<1>1. /\ op' \in [Ops -> Places] /\ \A p \in Ops \ {o} : op'[p] = op[p]
      /\ op'[o].at \in {"refreshing", "paths"}
      /\ op'[o].todo = {} /\ op'[o].path = NoRun
      /\ live' = live \ Expired /\ held' = held \ Expired
      /\ pending' = pending \cup Expired
      /\ held' \subseteq live' /\ live' \subseteq Runs
      /\ pending' \subseteq Runs
      /\ IsFiniteSet(live')
      /\ Expired \subseteq live
      /\ \A r \in live : ~IsExpired(r) \/ r \in Expired \/ r \in held
      /\ \A r \in Expired : created[r] + Limit <= now
      /\ wake' = 0 /\ sweep' = {o}
      /\ UNCHANGED <<now, created, files, wav, evicted, next, up, allowed>>
  <2>1. Expired \in SUBSET live /\ Expired \in SUBSET Runs
    BY DEF Expired, HistoryTypeOK
  <2>2. DeleteRows(Expired) /\ AfterExpiry(o, Expired)
    BY DEF LoopWakes
  <2>3. /\ op' \in [Ops -> Places] /\ \A p \in Ops \ {o} : op'[p] = op[p]
        /\ op'[o].at \in {"refreshing", "paths"}
        /\ op'[o].todo = {} /\ op'[o].path = NoRun
    BY <2>1, <2>2, GoingToPaths
  <2>4. /\ \A r \in live : ~IsExpired(r) \/ r \in Expired \/ r \in held
        /\ \A r \in Expired : created[r] + Limit <= now
    BY DEF Expired, IsExpired
  <2> QED
    BY <2>1, <2>2, <2>3, <2>4, Deleting DEF LoopWakes
<1>2. HistoryTypeOK' /\ IsFiniteSet(live')
  BY <1>1
     DEF HistoryTypeOK, Places, Never
<1>3. /\ ClockIsAhead' /\ PathsAreGone' /\ UnbornIsNowhere'
      /\ RecordingIsYoung' /\ ExpiryIsRight'
  BY <1>1, ExpiryStays
     DEF HistoryTypeOK, Places, ClockIsAhead, PathsAreGone, UnbornIsNowhere,
         RecordingIsYoung, ExpiryIsRight, AtRest
<1>4. RowsHoldFiles'
  <2> SUFFICES ASSUME "clear" \notin allowed'.kinds
               PROVE  /\ \A p \in Ops :
                            /\ op'[p].at # "listed"
                            /\ op'[p].at = "clearing" =>
                                  op'[p].path \notin files'
                      /\ \A q \in Runs :
                            wav'[q] \in {"ready", "open"} => q \in live'
                      /\ files' \subseteq live' \cup pending'
    BY DEF RowsHoldFiles
  <2>1. /\ \A p \in Ops : /\ op[p].at # "listed"
                          /\ op[p].at = "clearing" => op[p].path \notin files
        /\ \A q \in Runs : wav[q] \in {"ready", "open"} => q \in live
        /\ files \subseteq live \cup pending
    BY <1>1 DEF RowsHoldFiles
  <2>2. ASSUME NEW p \in Ops
        PROVE  /\ op'[p].at # "listed"
               /\ op'[p].at = "clearing" => op'[p].path \notin files'
    BY <1>1, <2>1
  <2>3. \A q \in Runs : wav'[q] \in {"ready", "open"} => q \in live'
    BY <1>1, <2>1 DEF RecordingIsYoung, HistoryTypeOK
  <2>4. files' \subseteq live' \cup pending'
    BY <1>1, <2>1
  <2> QED
    BY <2>2, <2>3, <2>4
<1>5. LoopIsInTime'
  BY <1>1 DEF HistoryTypeOK, LoopIsInTime, AtRest, IsExpired, LoopWakes,
                Ready
<1> QED
  BY <1>2, <1>3, <1>4, <1>5

\* A run that is deleted is listed; it is not recorded any more.
LEMMA DeleteRunKeeps ==
    ASSUME HistoryInv, NEW o \in Ops, NEW r \in Runs, DeleteRun(o, r)
    PROVE  HistoryInv'
<1> USE HistoryAssumption DEF HistoryInv, HistoryConstantsOK, loopVars
<1>1. /\ r \in live /\ up
      /\ op' \in [Ops -> Places] /\ \A p \in Ops \ {o} : op'[p] = op[p]
      /\ op'[o] = [at |-> "removing", todo |-> {r}, gone |-> {},
                  path |-> NoRun]
      /\ live' = live \ {r} /\ held' = held \ {r}
      /\ pending' = pending \cup {r}
      /\ held' \subseteq live' /\ live' \subseteq Runs
      /\ pending' \subseteq Runs
      /\ IsFiniteSet(live')
      /\ wav' \in [Runs -> {"none", "ready", "open", "closed"}]
      /\ \A q \in Runs : wav'[q] = "none" => wav[q] = "none"
      /\ \A q \in Runs : wav'[q] \in {"ready", "open"} =>
                        q \notin {r} /\ wav[q] \in {"ready", "open"}
      /\ UNCHANGED <<now, created, files, evicted, next, wake, sweep, up,
                     allowed>>
  <2>1. r \in live /\ up /\ {r} \in SUBSET live /\ {r} \in SUBSET Runs
    BY DEF DeleteRun, Ready, HistoryTypeOK
  <2>2. /\ wav' = Aborted(wav, {r}) /\ DeleteRows({r})
        /\ Continues(o, "removing", {r}, {})
        /\ UNCHANGED <<now, created, files, evicted, next, wake, sweep, up,
                      allowed>>
    BY DEF DeleteRun
  <2>3. /\ op' \in [Ops -> Places] /\ \A p \in Ops \ {o} : op'[p] = op[p]
        /\ op'[o] = [at |-> "removing", todo |-> {r}, gone |-> {},
                    path |-> NoRun]
    BY <2>1, <2>2, GoingOn
  <2>4. /\ live' = live \ {r} /\ held' = held \ {r}
        /\ pending' = pending \cup {r}
        /\ held' \subseteq live' /\ live' \subseteq Runs
        /\ pending' \subseteq Runs
        /\ IsFiniteSet(live')
    BY <2>1, <2>2, Deleting
  <2> QED
    BY <2>1, <2>2, <2>3, <2>4, Aborting
<1>2. HistoryTypeOK' /\ IsFiniteSet(live')
  BY <1>1
     DEF HistoryTypeOK, Places, Never
<1>3. ClockIsAhead'
  BY <1>1
     DEF HistoryTypeOK, Places, ClockIsAhead
<1>4. PathsAreGone'
  BY <1>1
     DEF HistoryTypeOK, Places, PathsAreGone
<1>5. UnbornIsNowhere'
  BY <1>1
     DEF HistoryTypeOK, Places, UnbornIsNowhere
<1>6. RecordingIsYoung'
  BY <1>1
     DEF HistoryTypeOK, Places, RecordingIsYoung
<1>7. RowsHoldFiles'
  BY <1>1
     DEF HistoryTypeOK, Places, RowsHoldFiles
<1>8. ExpiryIsRight'
  BY <1>1, ExpiryStays
     DEF HistoryTypeOK, Places, ExpiryIsRight, AtRest
<1>9. LoopIsInTime'
  BY <1>1
     DEF HistoryTypeOK, Places, LoopIsInTime, AtRest
<1> QED
  BY <1>2, <1>3, <1>4, <1>5, <1>6, <1>7, <1>8, <1>9

\* What is to be deleted is aborted first.
LEMMA DeleteAllKeeps ==
    ASSUME HistoryInv, NEW o \in Ops, DeleteAll(o)
    PROVE  HistoryInv'
<1> USE HistoryAssumption DEF HistoryInv, HistoryConstantsOK, loopVars
<1>1. /\ up
      /\ op' \in [Ops -> Places] /\ \A p \in Ops \ {o} : op'[p] = op[p]
      /\ op'[o] = [at |-> "listed", todo |-> {}, gone |-> {},
                  path |-> NoRun]
      /\ wav' \in [Runs -> {"none", "ready", "open", "closed"}]
      /\ \A q \in Runs : wav'[q] = "none" => wav[q] = "none"
      /\ \A q \in Runs : wav'[q] \in {"ready", "open"} =>
                        q \notin live /\ wav[q] \in {"ready", "open"}
      /\ "clear" \in allowed.kinds
      /\ UNCHANGED <<now, created, live, held, pending, files, evicted, next,
                     wake, sweep, up, allowed>>
  <2>1. live \in SUBSET Runs /\ up /\ "clear" \in allowed.kinds
    BY DEF DeleteAll, Ready, HistoryTypeOK
  <2>2. /\ wav' = Aborted(wav, live) /\ Continues(o, "listed", {}, {})
        /\ UNCHANGED <<now, created, live, held, pending, files, evicted, next,
                      wake, sweep, up, allowed>>
    BY DEF DeleteAll, rowVars
  <2>3. /\ op' \in [Ops -> Places] /\ \A p \in Ops \ {o} : op'[p] = op[p]
        /\ op'[o] = [at |-> "listed", todo |-> {}, gone |-> {},
                    path |-> NoRun]
    BY <2>2, GoingOn
  <2> QED
    BY <2>1, <2>2, <2>3, Aborting
<1>2. HistoryTypeOK' /\ IsFiniteSet(live')
  BY <1>1
     DEF HistoryTypeOK, Places, Never
<1>3. ClockIsAhead' /\ PathsAreGone' /\ UnbornIsNowhere' /\ RecordingIsYoung'
  BY <1>1
     DEF HistoryTypeOK, Places, ClockIsAhead, PathsAreGone, UnbornIsNowhere,
         RecordingIsYoung
<1>4. RowsHoldFiles' /\ ExpiryIsRight' /\ LoopIsInTime'
  BY <1>1, ExpiryStays
     DEF HistoryTypeOK, Places, RowsHoldFiles, ExpiryIsRight, AtRest,
         LoopIsInTime
<1> QED
  BY <1>2, <1>3, <1>4

\* Then there are no rows.
LEMMA DeleteAllRowsKeeps ==
    ASSUME HistoryInv, NEW o \in Ops, DeleteAllRows(o)
    PROVE  HistoryInv'
<1> USE HistoryAssumption DEF HistoryInv, HistoryConstantsOK, loopVars
<1>1. /\ op' \in [Ops -> Places] /\ \A p \in Ops \ {o} : op'[p] = op[p]
      /\ op'[o] = [at |-> "removing", todo |-> live, gone |-> live,
                  path |-> NoRun]
      /\ live' = live \ live /\ held' = held \ live
      /\ pending' = pending \cup live
      /\ held' \subseteq live' /\ live' \subseteq Runs
      /\ pending' \subseteq Runs
      /\ IsFiniteSet(live')
      /\ op[o].at = "listed"
      /\ live \subseteq Runs
      /\ UNCHANGED <<now, created, files, wav, evicted, next, wake, sweep, up,
                     allowed>>
  BY GoingOn, Deleting DEF DeleteAllRows, HistoryTypeOK
<1>2. HistoryTypeOK' /\ IsFiniteSet(live')
  BY <1>1
     DEF HistoryTypeOK, Places, Never
<1>3. /\ ClockIsAhead' /\ PathsAreGone' /\ UnbornIsNowhere'
      /\ RecordingIsYoung' /\ RowsHoldFiles' /\ ExpiryIsRight'
      /\ LoopIsInTime'
  BY <1>1, ExpiryStays
     DEF HistoryTypeOK, Places, ClockIsAhead, PathsAreGone, UnbornIsNowhere,
         RecordingIsYoung, RowsHoldFiles, ExpiryIsRight, AtRest, LoopIsInTime
<1> QED
  BY <1>2, <1>3

\* An attempt protects its run.
LEMMA ClaimKeeps ==
    ASSUME HistoryInv, NEW o \in Ops, NEW r \in Runs, Claim(o, r)
    PROVE  HistoryInv'
<1> USE HistoryAssumption DEF HistoryInv, HistoryConstantsOK, loopVars
<1>1. /\ op' \in [Ops -> Places] /\ \A p \in Ops \ {o} : op'[p] = op[p]
      /\ op'[o] = [at |-> "refreshing", todo |-> {}, gone |-> {},
                  path |-> NoRun]
      /\ "claim" \in allowed.kinds
      /\ held' = held \cup {r} /\ r \in live
      /\ allowed' \in Uses /\ allowed'.kinds = allowed.kinds
      /\ UNCHANGED <<now, created, live, pending, files, wav, evicted, next,
                     wake, sweep, up>>
  BY GoingOn, Spending DEF Claim
<1>2. HistoryTypeOK' /\ IsFiniteSet(live')
  BY <1>1
     DEF HistoryTypeOK, Places, Never
<1>3. ClockIsAhead'
  BY <1>1
     DEF HistoryTypeOK, Places, ClockIsAhead
<1>4. PathsAreGone'
  BY <1>1
     DEF HistoryTypeOK, Places, PathsAreGone
<1>5. UnbornIsNowhere'
  BY <1>1
     DEF HistoryTypeOK, Places, UnbornIsNowhere
<1>6. RecordingIsYoung'
  BY <1>1
     DEF HistoryTypeOK, Places, RecordingIsYoung
<1>7. RowsHoldFiles'
  BY <1>1
     DEF HistoryTypeOK, Places, RowsHoldFiles
<1>8. ExpiryIsRight'
  BY <1>1, ExpiryStays
     DEF HistoryTypeOK, Places, ExpiryIsRight, AtRest
<1>9. LoopIsInTime'
  BY <1>1
     DEF HistoryTypeOK, Places, LoopIsInTime, AtRest
<1> QED
  BY <1>2, <1>3, <1>4, <1>5, <1>6, <1>7, <1>8, <1>9

\* Its end leads to another expiry.
LEMMA ResolveKeeps ==
    ASSUME HistoryInv, NEW o \in Ops, NEW r \in Runs, Resolve(o, r)
    PROVE  HistoryInv'
<1> USE HistoryAssumption DEF HistoryInv, HistoryConstantsOK, loopVars
<1>1. /\ op' \in [Ops -> Places] /\ \A p \in Ops \ {o} : op'[p] = op[p]
      /\ op'[o] = [at |-> "refreshing", todo |-> {}, gone |-> {},
                  path |-> NoRun]
      /\ held' = held \ {r} /\ r \in held
      /\ UNCHANGED <<now, created, live, pending, files, wav, evicted, next,
                     wake, sweep, up, allowed>>
  BY GoingOn DEF Resolve, Refreshes
<1>2. HistoryTypeOK' /\ IsFiniteSet(live')
  BY <1>1
     DEF HistoryTypeOK, Places, Never
<1>3. ClockIsAhead'
  BY <1>1
     DEF HistoryTypeOK, Places, ClockIsAhead
<1>4. PathsAreGone'
  BY <1>1
     DEF HistoryTypeOK, Places, PathsAreGone
<1>5. UnbornIsNowhere'
  BY <1>1
     DEF HistoryTypeOK, Places, UnbornIsNowhere
<1>6. RecordingIsYoung'
  BY <1>1
     DEF HistoryTypeOK, Places, RecordingIsYoung
<1>7. RowsHoldFiles'
  BY <1>1
     DEF HistoryTypeOK, Places, RowsHoldFiles
<1>8. ExpiryIsRight'
  BY <1>1, ExpiryStays
     DEF HistoryTypeOK, Places, ExpiryIsRight, AtRest
<1>9. LoopIsInTime'
  BY <1>1
     DEF HistoryTypeOK, Places, LoopIsInTime, AtRest
<1> QED
  BY <1>2, <1>3, <1>4, <1>5, <1>6, <1>7, <1>8, <1>9

\* What is to be removed is listed, so it has no row.
LEMMA ReadPathsKeeps ==
    ASSUME HistoryInv, NEW o \in Ops, ReadPaths(o)
    PROVE  HistoryInv'
<1> USE HistoryAssumption DEF HistoryInv, HistoryConstantsOK, loopVars
<1>1. /\ op' \in [Ops -> Places] /\ \A p \in Ops \ {o} : op'[p] = op[p]
      /\ op'[o] = [at |-> "removing", todo |-> pending, gone |-> op[o].gone,
                  path |-> NoRun]
      /\ pending \subseteq Runs
      /\ op[o].at = "paths"
      /\ UNCHANGED <<now, created, live, held, wav, evicted, next, wake,
                     sweep, up>>
      /\ UNCHANGED <<pending, files, allowed>>
  <2>1. pending \in SUBSET Runs /\ op[o].gone \in SUBSET Runs
    BY DEF HistoryTypeOK
  <2> QED
    BY <2>1, GoingOn DEF ReadPaths, opRest
<1>2. HistoryTypeOK' /\ IsFiniteSet(live')
  BY <1>1
     DEF HistoryTypeOK, Places, Never
<1>3. ClockIsAhead'
  BY <1>1
     DEF HistoryTypeOK, Places, ClockIsAhead
<1>4. PathsAreGone'
  BY <1>1
     DEF HistoryTypeOK, Places, PathsAreGone
<1>5. UnbornIsNowhere'
  BY <1>1
     DEF HistoryTypeOK, Places, UnbornIsNowhere
<1>6. RecordingIsYoung'
  BY <1>1
     DEF HistoryTypeOK, Places, RecordingIsYoung
<1>7. RowsHoldFiles'
  BY <1>1
     DEF HistoryTypeOK, Places, RowsHoldFiles
<1>8. ExpiryIsRight'
  BY <1>1, ExpiryStays
     DEF HistoryTypeOK, Places, ExpiryIsRight, AtRest
<1>9. LoopIsInTime'
  BY <1>1
     DEF HistoryTypeOK, Places, LoopIsInTime, AtRest
<1> QED
  BY <1>2, <1>3, <1>4, <1>5, <1>6, <1>7, <1>8, <1>9

\* A file that is removed has no row.
LEMMA RemoveFileKeeps ==
    ASSUME HistoryInv, NEW o \in Ops, NEW f \in Runs, RemoveFile(o, f)
    PROVE  HistoryInv'
<1> USE HistoryAssumption DEF HistoryInv, HistoryConstantsOK, loopVars
<1>1. /\ op' \in [Ops -> Places] /\ \A q \in Ops \ {o} : op'[q] = op[q]
      /\ op'[o].at = "clearing" /\ op'[o].path = f
      /\ op'[o].todo = op[o].todo \ {f} /\ f \in op[o].todo
      /\ op[o].at = "removing"
      /\ files' = files \ {f}
      /\ UNCHANGED <<now, created, live, held, wav, evicted, next, wake,
                     sweep, up>>
      /\ UNCHANGED <<pending, allowed>>
  BY DEF RemoveFile, opRest, HistoryTypeOK, Places
<1>2. HistoryTypeOK' /\ IsFiniteSet(live')
  BY <1>1
     DEF HistoryTypeOK, Places, Never
<1>3. /\ ClockIsAhead' /\ PathsAreGone' /\ UnbornIsNowhere'
      /\ RecordingIsYoung' /\ RowsHoldFiles' /\ ExpiryIsRight'
      /\ LoopIsInTime'
  BY <1>1, ExpiryStays
     DEF HistoryTypeOK, Places, ClockIsAhead, PathsAreGone, UnbornIsNowhere,
         RecordingIsYoung, RowsHoldFiles, ExpiryIsRight, AtRest, LoopIsInTime
<1> QED
  BY <1>2, <1>3

\* One that stays is listed.
LEMMA RemoveFailsKeeps ==
    ASSUME HistoryInv, NEW o \in Ops, NEW f \in Runs, RemoveFails(o, f)
    PROVE  HistoryInv'
<1> USE HistoryAssumption DEF HistoryInv, HistoryConstantsOK, loopVars
<1>1. /\ op' \in [Ops -> Places] /\ \A q \in Ops \ {o} : op'[q] = op[q]
      /\ op'[o].at = "removing" /\ op'[o].path = op[o].path
      /\ op'[o].todo = op[o].todo \ {f}
      /\ op[o].at = "removing"
      /\ allowed' \in Uses /\ allowed'.kinds = allowed.kinds
      /\ UNCHANGED <<now, created, live, held, wav, evicted, next, wake,
                     sweep, up>>
      /\ UNCHANGED <<pending, files>>
  <2>1. /\ op' \in [Ops -> Places] /\ \A q \in Ops \ {o} : op'[q] = op[q]
        /\ op'[o].at = "removing" /\ op'[o].path = op[o].path
        /\ op'[o].todo = op[o].todo \ {f}
    BY DEF RemoveFails, HistoryTypeOK, Places
  <2>2. allowed' \in Uses /\ allowed'.kinds = allowed.kinds
    BY Spending DEF RemoveFails, HistoryTypeOK
  <2> QED
    BY <2>1, <2>2 DEF RemoveFails, opRest
<1>2. HistoryTypeOK' /\ IsFiniteSet(live')
  BY <1>1
     DEF HistoryTypeOK, Places, Never
<1>3. ClockIsAhead'
  BY <1>1
     DEF HistoryTypeOK, Places, ClockIsAhead
<1>4. PathsAreGone'
  BY <1>1
     DEF HistoryTypeOK, Places, PathsAreGone
<1>5. UnbornIsNowhere'
  BY <1>1
     DEF HistoryTypeOK, Places, UnbornIsNowhere
<1>6. RecordingIsYoung'
  BY <1>1
     DEF HistoryTypeOK, Places, RecordingIsYoung
<1>7. RowsHoldFiles'
  BY <1>1
     DEF HistoryTypeOK, Places, RowsHoldFiles
<1>8. ExpiryIsRight'
  BY <1>1, ExpiryStays
     DEF HistoryTypeOK, Places, ExpiryIsRight, AtRest
<1>9. LoopIsInTime'
  BY <1>1
     DEF HistoryTypeOK, Places, LoopIsInTime, AtRest
<1> QED
  BY <1>2, <1>3, <1>4, <1>5, <1>6, <1>7, <1>8, <1>9

\* What is removed is not listed any more.
LEMMA ClearPendingKeeps ==
    ASSUME HistoryInv, NEW o \in Ops, ClearPending(o)
    PROVE  HistoryInv'
<1> USE HistoryAssumption DEF HistoryInv, HistoryConstantsOK, loopVars
<1>1. /\ op' \in [Ops -> Places] /\ \A q \in Ops \ {o} : op'[q] = op[q]
      /\ op'[o].at = "removing" /\ op'[o].path = NoRun
      /\ op'[o].todo = op[o].todo
      /\ op[o].at = "clearing"
      /\ pending' = pending \ {op[o].path}
      /\ UNCHANGED <<now, created, live, held, wav, evicted, next, wake,
                     sweep, up>>
      /\ UNCHANGED <<files, allowed>>
  <2>1. /\ op' \in [Ops -> Places] /\ \A q \in Ops \ {o} : op'[q] = op[q]
        /\ op'[o].at = "removing" /\ op'[o].path = NoRun
        /\ op'[o].todo = op[o].todo
    <3>1. op \in [Ops -> Places] /\ op[o] \in Places
      BY DEF HistoryTypeOK, Places
    <3> DEFINE new == [op[o] EXCEPT !.at = "removing", !.path = NoRun]
    <3>2. op' = [op EXCEPT ![o] = new]
      BY DEF ClearPending
    <3>3. /\ new \in Places /\ new.at = "removing" /\ new.path = NoRun
          /\ new.todo = op[o].todo
      BY <3>1 DEF Places
    <3> HIDE DEF new
    <3> QED
      BY <3>1, <3>2, <3>3
  <2> QED
    BY <2>1 DEF ClearPending, opRest
<1>2. HistoryTypeOK' /\ IsFiniteSet(live')
  BY <1>1
     DEF HistoryTypeOK, Places, Never
<1>3. ClockIsAhead'
  BY <1>1
     DEF HistoryTypeOK, Places, ClockIsAhead
<1>4. PathsAreGone'
  BY <1>1
     DEF HistoryTypeOK, Places, PathsAreGone
<1>5. UnbornIsNowhere'
  BY <1>1
     DEF HistoryTypeOK, Places, UnbornIsNowhere
<1>6. RecordingIsYoung'
  BY <1>1
     DEF HistoryTypeOK, Places, RecordingIsYoung
<1>7. RowsHoldFiles'
  BY <1>1
     DEF HistoryTypeOK, Places, RowsHoldFiles
<1>8. ExpiryIsRight'
  BY <1>1, ExpiryStays
     DEF HistoryTypeOK, Places, ExpiryIsRight, AtRest
<1>9. LoopIsInTime'
  BY <1>1
     DEF HistoryTypeOK, Places, LoopIsInTime, AtRest
<1> QED
  BY <1>2, <1>3, <1>4, <1>5, <1>6, <1>7, <1>8, <1>9

\* Then the operation goes on.
LEMMA AllRemovedKeeps ==
    ASSUME HistoryInv, NEW o \in Ops, AllRemoved(o)
    PROVE  HistoryInv'
<1> USE HistoryAssumption DEF HistoryInv, HistoryConstantsOK, loopVars
<1>1. /\ op' \in [Ops -> Places] /\ \A q \in Ops \ {o} : op'[q] = op[q]
      /\ op'[o].at \in {"refreshing", "orphans"}
      /\ op'[o].path = op[o].path /\ op'[o].todo = op[o].todo
      /\ op[o].at = "removing"
      /\ UNCHANGED <<now, created, live, held, wav, evicted, next, wake,
                     sweep, up>>
      /\ UNCHANGED <<pending, files, allowed>>
  BY DEF AllRemoved, opRest, HistoryTypeOK, Places
<1>2. HistoryTypeOK' /\ IsFiniteSet(live')
  BY <1>1
     DEF HistoryTypeOK, Places, Never
<1>3. ClockIsAhead' /\ PathsAreGone' /\ UnbornIsNowhere' /\ RecordingIsYoung'
  BY <1>1
     DEF HistoryTypeOK, Places, ClockIsAhead, PathsAreGone, UnbornIsNowhere,
         RecordingIsYoung
<1>4. RowsHoldFiles' /\ ExpiryIsRight' /\ LoopIsInTime'
  BY <1>1, ExpiryStays
     DEF HistoryTypeOK, Places, RowsHoldFiles, ExpiryIsRight, AtRest,
         LoopIsInTime
<1> QED
  BY <1>2, <1>3, <1>4

\* A file without a row and a deletion is removed.
LEMMA RemoveOrphansKeeps ==
    ASSUME HistoryInv, NEW o \in Ops, RemoveOrphans(o)
    PROVE  HistoryInv'
<1> USE HistoryAssumption DEF HistoryInv, HistoryConstantsOK, loopVars
<1>1. /\ op' \in [Ops -> Places] /\ \A q \in Ops \ {o} : op'[q] = op[q]
      /\ op'[o].at = "refreshing"
      /\ op'[o].path = op[o].path /\ op'[o].todo = op[o].todo
      /\ op[o].at = "orphans"
      /\ files' \subseteq files
      /\ allowed' \in Uses /\ allowed'.kinds = allowed.kinds
      /\ UNCHANGED <<now, created, live, held, wav, evicted, next, wake,
                     sweep, up>>
      /\ UNCHANGED <<pending>>
  <2>1. /\ op' \in [Ops -> Places] /\ \A q \in Ops \ {o} : op'[q] = op[q]
        /\ op'[o].at = "refreshing"
        /\ op'[o].path = op[o].path /\ op'[o].todo = op[o].todo
    BY DEF RemoveOrphans, HistoryTypeOK, Places
  <2>2. allowed' \in Uses /\ allowed'.kinds = allowed.kinds
    BY Spending DEF RemoveOrphans, HistoryTypeOK
  <2> QED
    BY <2>1, <2>2 DEF RemoveOrphans, opRest
<1>2. HistoryTypeOK' /\ IsFiniteSet(live')
  BY <1>1
     DEF HistoryTypeOK, Places, Never
<1>3. ClockIsAhead'
  BY <1>1
     DEF HistoryTypeOK, Places, ClockIsAhead
<1>4. PathsAreGone'
  BY <1>1
     DEF HistoryTypeOK, Places, PathsAreGone
<1>5. UnbornIsNowhere'
  BY <1>1
     DEF HistoryTypeOK, Places, UnbornIsNowhere
<1>6. RecordingIsYoung'
  BY <1>1
     DEF HistoryTypeOK, Places, RecordingIsYoung
<1>7. RowsHoldFiles'
  BY <1>1
     DEF HistoryTypeOK, Places, RowsHoldFiles
<1>8. ExpiryIsRight'
  BY <1>1, ExpiryStays
     DEF HistoryTypeOK, Places, ExpiryIsRight, AtRest
<1>9. LoopIsInTime'
  BY <1>1
     DEF HistoryTypeOK, Places, LoopIsInTime, AtRest
<1> QED
  BY <1>2, <1>3, <1>4, <1>5, <1>6, <1>7, <1>8, <1>9

\* The expiry is read again when all is done.
LEMMA RefreshKeeps ==
    ASSUME HistoryInv, NEW o \in Ops, Refresh(o)
    PROVE  HistoryInv'
<1> USE HistoryAssumption DEF HistoryInv, HistoryConstantsOK, loopVars
<1>1. /\ op' \in [Ops -> Places] /\ \A q \in Ops \ {o} : op'[q] = op[q]
      /\ op'[o] = Resting /\ op[o].at = "refreshing"
      /\ op'[o].at = "idle" /\ op'[o].todo = {} /\ op'[o].path = NoRun
      /\ next' = NextExpiry /\ next' \in 0..Never
      /\ next' = Never \/ next' <= now + Limit
      /\ \A r \in live \ held : next' <= created[r] + Limit
      /\ evicted' \subseteq Runs
      /\ up' = TRUE /\ wake' = IF up THEN wake ELSE 0
      /\ sweep' = sweep \ {o}
      /\ UNCHANGED <<now, created, live, held, pending, files, wav, allowed>>
  <2>1. /\ op' \in [Ops -> Places] /\ op'[o] = Resting
        /\ op'[o].at = "idle" /\ op'[o].todo = {} /\ op'[o].path = NoRun
    BY DEF Refresh, Resting, HistoryTypeOK, Places
  <2>2. evicted' \subseteq Runs
    BY DEF Refresh, HistoryTypeOK
  <2>3. /\ NextExpiry \in 0..Never
        /\ NextExpiry = Never \/ NextExpiry <= now + Limit
        /\ \A r \in live \ held : NextExpiry <= created[r] + Limit
    <3>1. \A r \in live : created[r] \in 0..Horizon /\ created[r] <= now
      BY DEF HistoryTypeOK, ClockIsAhead
    <3>2. now \in Nat
      BY DEF HistoryTypeOK
    <3> QED
      BY <3>1, <3>2, ExpiryIsFirst DEF HistoryTypeOK
  <2> QED
    BY <2>1, <2>2, <2>3 DEF Refresh, rowVars, HistoryTypeOK
<1>2. HistoryTypeOK' /\ IsFiniteSet(live')
  BY <1>1
     DEF HistoryTypeOK, Places, Never
<1>3. ClockIsAhead' /\ PathsAreGone' /\ UnbornIsNowhere' /\ RecordingIsYoung'
  BY <1>1
     DEF HistoryTypeOK, Places, ClockIsAhead, PathsAreGone, UnbornIsNowhere,
         RecordingIsYoung
<1>4. RowsHoldFiles' /\ ExpiryIsRight' /\ LoopIsInTime'
  BY <1>1, ExpiryStays
     DEF HistoryTypeOK, Places, RowsHoldFiles, ExpiryIsRight, AtRest,
         LoopIsInTime
<1> QED
  BY <1>2, <1>3, <1>4

\* A run that left is not recorded any more.
LEMMA EvictKeeps ==
    ASSUME HistoryInv, NEW r \in Runs, Evict(r)
    PROVE  HistoryInv'
<1> USE HistoryAssumption DEF HistoryInv, HistoryConstantsOK, loopVars
<1>1. /\ wav' \in [Runs -> {"none", "ready", "open", "closed"}]
      /\ \A q \in Runs : wav'[q] = "none" => wav[q] = "none"
      /\ \A q \in Runs : wav'[q] \in {"ready", "open"} =>
                        q \notin {r} /\ wav[q] \in {"ready", "open"}
      /\ evicted' \subseteq Runs
      /\ UNCHANGED <<now, created, live, held, pending, files, op, next, wake,
                     sweep, up, allowed>>
  BY Aborting DEF Evict, rowVars, HistoryTypeOK
<1>2. HistoryTypeOK' /\ IsFiniteSet(live')
  BY <1>1
     DEF HistoryTypeOK, Places, Never
<1>3. /\ ClockIsAhead' /\ PathsAreGone' /\ UnbornIsNowhere'
      /\ RecordingIsYoung' /\ RowsHoldFiles' /\ ExpiryIsRight'
      /\ LoopIsInTime'
  BY <1>1, ExpiryStays
     DEF HistoryTypeOK, Places, ClockIsAhead, PathsAreGone, UnbornIsNowhere,
         RecordingIsYoung, RowsHoldFiles, ExpiryIsRight, AtRest, LoopIsInTime
<1> QED
  BY <1>2, <1>3

\* The file of a recording belongs to its run.
LEMMA WriteSamplesKeeps ==
    ASSUME HistoryInv, NEW r \in Runs, WriteSamples(r)
    PROVE  HistoryInv'
<1> USE HistoryAssumption DEF HistoryInv, HistoryConstantsOK, loopVars
<1>1. /\ wav' = [wav EXCEPT ![r] = "open"] /\ wav[r] = "ready"
      /\ files' = files \cup {r}
      /\ UNCHANGED <<now, created, live, held, pending, op, evicted, next,
                     wake, sweep, up, allowed>>
  BY DEF WriteSamples, rowVars
<1>2. HistoryTypeOK' /\ IsFiniteSet(live')
  BY <1>1
     DEF HistoryTypeOK, Places, Never
<1>3. /\ ClockIsAhead' /\ PathsAreGone' /\ UnbornIsNowhere'
      /\ RecordingIsYoung' /\ ExpiryIsRight' /\ LoopIsInTime'
  BY <1>1, ExpiryStays
     DEF HistoryTypeOK, Places, ClockIsAhead, PathsAreGone, UnbornIsNowhere,
         RecordingIsYoung, ExpiryIsRight, AtRest, LoopIsInTime
<1>4. RowsHoldFiles'
  <2> SUFFICES ASSUME "clear" \notin allowed'.kinds
               PROVE  /\ \A p \in Ops :
                            /\ op'[p].at # "listed"
                            /\ op'[p].at = "clearing" =>
                                  op'[p].path \notin files'
                      /\ \A q \in Runs :
                            wav'[q] \in {"ready", "open"} => q \in live'
                      /\ files' \subseteq live' \cup pending'
    BY DEF RowsHoldFiles
  <2>1. /\ \A p \in Ops : /\ op[p].at # "listed"
                          /\ op[p].at = "clearing" => op[p].path \notin files
        /\ \A q \in Runs : wav[q] \in {"ready", "open"} => q \in live
        /\ files \subseteq live \cup pending
    BY <1>1 DEF RowsHoldFiles
  <2>2. ASSUME NEW p \in Ops
        PROVE  /\ op'[p].at # "listed"
               /\ op'[p].at = "clearing" => op'[p].path \notin files'
    BY <1>1, <2>1 DEF PathsAreGone
  <2>3. \A q \in Runs : wav'[q] \in {"ready", "open"} => q \in live'
    BY <1>1, <2>1
  <2>4. files' \subseteq live' \cup pending'
    BY <1>1, <2>1
  <2> QED
    BY <2>2, <2>3, <2>4
<1> QED
  BY <1>2, <1>3, <1>4

\* A recording ends.
LEMMA CloseWavKeeps ==
    ASSUME HistoryInv, NEW r \in Runs, CloseWav(r)
    PROVE  HistoryInv'
<1> USE HistoryAssumption DEF HistoryInv, HistoryConstantsOK, loopVars
<1>1. /\ wav' = [wav EXCEPT ![r] = "closed"] /\ wav[r] # "none"
      /\ UNCHANGED <<now, created, live, held, pending, files, op, evicted,
                     next, wake, sweep, up, allowed>>
  BY DEF CloseWav, rowVars
<1>2. HistoryTypeOK' /\ IsFiniteSet(live')
  BY <1>1
     DEF HistoryTypeOK, Places, Never
<1>3. /\ ClockIsAhead' /\ PathsAreGone' /\ UnbornIsNowhere'
      /\ RecordingIsYoung' /\ RowsHoldFiles' /\ ExpiryIsRight'
      /\ LoopIsInTime'
  BY <1>1, ExpiryStays
     DEF HistoryTypeOK, Places, ClockIsAhead, PathsAreGone, UnbornIsNowhere,
         RecordingIsYoung, RowsHoldFiles, ExpiryIsRight, AtRest, LoopIsInTime
<1> QED
  BY <1>2, <1>3

\* Time passes while the loop sleeps.
LEMMA TickKeeps ==
    ASSUME HistoryInv, Tick
    PROVE  HistoryInv'
<1> USE HistoryAssumption DEF HistoryInv, HistoryConstantsOK, loopVars
<1>1. /\ now' = now + 1 /\ now' \in 0..Horizon /\ up /\ now' <= wake /\ wake # 0
      /\ \A r \in Runs :
            wav[r] \in {"ready", "open"} => created[r] + Limit > now'
      /\ UNCHANGED <<created, live, held, pending, files, wav, op, evicted,
                     next, wake, sweep, up, allowed>>
  BY DEF Tick, rowVars, HistoryTypeOK
<1>2. HistoryTypeOK' /\ IsFiniteSet(live')
  BY <1>1
     DEF HistoryTypeOK, Places, Never
<1>3. /\ ClockIsAhead' /\ PathsAreGone' /\ UnbornIsNowhere'
      /\ RecordingIsYoung' /\ RowsHoldFiles' /\ ExpiryIsRight'
      /\ LoopIsInTime'
  BY <1>1, ExpiryStays
     DEF HistoryTypeOK, Places, ClockIsAhead, PathsAreGone, UnbornIsNowhere,
         RecordingIsYoung, RowsHoldFiles, ExpiryIsRight, AtRest, LoopIsInTime
<1> QED
  BY <1>2, <1>3

\* The loop sleeps until the next expiry that it knows, if it knows any.
LEMMA LoopSleepsKeeps ==
    ASSUME HistoryInv, LoopSleeps
    PROVE  HistoryInv'
<1> USE HistoryAssumption DEF HistoryInv, HistoryConstantsOK, loopVars
<1>1. /\ up /\ wake = 0 /\ wake' \in 0..(Horizon + Limit + Sweep)
      /\ wake' <= now + Limit
      /\ "claim" \notin allowed.kinds =>
            \A r \in live : wake' <= created[r] + Limit
      /\ UNCHANGED <<now, created, live, held, pending, files, wav, op,
                     evicted, next, sweep, up, allowed>>
  <2>1. /\ up /\ wake = 0 /\ sweep = {}
        /\ wake' = IF next = Never THEN now + Sweep
                   ELSE IF next > now THEN next ELSE now
        /\ UNCHANGED <<now, created, live, held, pending, files, wav, op,
                      evicted, next, sweep, up, allowed>>
    BY DEF LoopSleeps, rowVars
  <2>2. /\ now \in 0..Horizon /\ next \in 0..Never
        /\ \A r \in live : created[r] \in 0..Horizon
        /\ next = Never \/ next <= now + Limit
    BY DEF HistoryTypeOK, ClockIsAhead
  <2>3. "claim" \notin allowed.kinds =>
           \A r \in live : /\ next <= created[r] + Limit \/ created[r] = now
                           /\ now < created[r] + Limit
    BY <2>1 DEF LoopIsInTime
  <2>4. wake' \in 0..(Horizon + Limit + Sweep) /\ wake' <= now + Limit
    BY <2>1, <2>2 DEF Never
  <2>5. "claim" \notin allowed.kinds =>
           \A r \in live : wake' <= created[r] + Limit
    BY <2>1, <2>2, <2>3 DEF Never
  <2> QED
    BY <2>1, <2>4, <2>5
<1>2. HistoryTypeOK' /\ IsFiniteSet(live')
  BY <1>1
     DEF HistoryTypeOK, Places, Never
<1>3. /\ ClockIsAhead' /\ PathsAreGone' /\ UnbornIsNowhere'
      /\ RecordingIsYoung' /\ RowsHoldFiles' /\ ExpiryIsRight'
      /\ LoopIsInTime'
  BY <1>1, ExpiryStays
     DEF HistoryTypeOK, Places, ClockIsAhead, PathsAreGone, UnbornIsNowhere,
         RecordingIsYoung, RowsHoldFiles, ExpiryIsRight, AtRest, LoopIsInTime
<1> QED
  BY <1>2, <1>3

\* After a crash nothing is under way.
LEMMA CrashesKeeps ==
    ASSUME HistoryInv, Crashes
    PROVE  HistoryInv'
<1> USE HistoryAssumption DEF HistoryInv, HistoryConstantsOK, loopVars
<1>1. /\ up' = FALSE /\ next' = Never /\ next' \in 0..Never
      /\ sweep' = {} /\ evicted' \subseteq Runs
      /\ op' \in [Ops -> Places]
      /\ \A o \in Ops : /\ op'[o].at = "idle" /\ op'[o].todo = {}
                      /\ op'[o].path = NoRun
      /\ allowed' \in Uses /\ allowed'.kinds = allowed.kinds
      /\ wav' \in [Runs -> {"none", "ready", "open", "closed"}]
      /\ \A q \in Runs : wav'[q] = "none" => wav[q] = "none"
      /\ \A q \in Runs : wav'[q] \in {"ready", "open"} =>
                        q \notin Runs /\ wav[q] \in {"ready", "open"}
      /\ UNCHANGED <<now, created, live, held, pending, files, wake>>
  <2>1. /\ op' \in [Ops -> Places]
        /\ \A o \in Ops : /\ op'[o].at = "idle" /\ op'[o].todo = {}
                          /\ op'[o].path = NoRun
    BY DEF Crashes, Resting, Places
  <2>2. allowed' \in Uses /\ allowed'.kinds = allowed.kinds
    BY Spending DEF Crashes
  <2> QED
    BY <2>1, <2>2, Aborting DEF Crashes, rowVars, HistoryTypeOK, Never
<1>2. HistoryTypeOK' /\ IsFiniteSet(live')
  BY <1>1
     DEF HistoryTypeOK, Places, Never
<1>3. /\ ClockIsAhead' /\ PathsAreGone' /\ UnbornIsNowhere'
      /\ RecordingIsYoung' /\ RowsHoldFiles' /\ ExpiryIsRight'
      /\ LoopIsInTime'
  BY <1>1, ExpiryStays
     DEF HistoryTypeOK, Places, ClockIsAhead, PathsAreGone, UnbornIsNowhere,
         RecordingIsYoung, RowsHoldFiles, ExpiryIsRight, AtRest, LoopIsInTime
<1> QED
  BY <1>2, <1>3

\* Recovery ends what was under way and expires the rest.
LEMMA RecoverKeeps ==
    ASSUME HistoryInv, NEW o \in Ops, Recover(o)
    PROVE  HistoryInv'
<1> USE HistoryAssumption DEF HistoryInv, HistoryConstantsOK, loopVars
<1>1. /\ ~up /\ \A p \in Ops : op[p].at = "idle"
      /\ op' \in [Ops -> Places] /\ \A p \in Ops \ {o} : op'[p] = op[p]
      /\ op'[o].at = "paths" /\ op'[o].todo = {} /\ op'[o].path = NoRun
      /\ held' = {} /\ live' \subseteq live /\ IsFiniteSet(live')
      /\ pending' = pending \cup (live \ live')
      /\ live' \subseteq Runs /\ pending' \subseteq Runs
      /\ \A r \in live : r \in live' <=> now < created[r] + Limit
      /\ UNCHANGED <<now, created, files, wav, evicted, next, wake, sweep, up,
                     allowed>>
  <2> DEFINE gone == {r \in live : IsExpired(r)}
  <2>1. gone \in SUBSET live /\ gone \in SUBSET Runs
    BY DEF HistoryTypeOK
  <2>2. \A r \in live : r \in gone <=> ~(now < created[r] + Limit)
    <3>1. \A r \in live : created[r] \in Nat /\ now \in Nat
      BY DEF HistoryTypeOK
    <3> QED
      BY <3>1 DEF IsExpired
  <2>3. /\ live' = live \ gone /\ pending' = pending \cup gone /\ held' = {}
        /\ Continues(o, "paths", {}, gone)
        /\ ~up /\ \A p \in Ops : op[p].at = "idle"
        /\ UNCHANGED <<now, created, files, wav, evicted, next, wake, sweep, up,
                      allowed>>
    BY DEF Recover, Listed
  <2> HIDE DEF gone
  <2>4. /\ op' \in [Ops -> Places] /\ \A p \in Ops \ {o} : op'[p] = op[p]
        /\ op'[o] = [at |-> "paths", todo |-> {}, gone |-> gone, path |-> NoRun]
    <3>1. HistoryTypeOK
      OBVIOUS
    <3> HIDE DEF HistoryInv
    <3> QED
      BY <2>1, <2>3, <3>1, GoingOn
  <2>5. IsFiniteSet(live') /\ pending' \subseteq Runs
    BY <2>1, <2>3, FS_Difference DEF HistoryTypeOK
  <2> QED
    BY <2>1, <2>2, <2>3, <2>4, <2>5 DEF HistoryTypeOK
<1>2. HistoryTypeOK' /\ IsFiniteSet(live')
  BY <1>1
     DEF HistoryTypeOK, Places, Never
<1>3. /\ ClockIsAhead' /\ PathsAreGone' /\ UnbornIsNowhere'
      /\ RecordingIsYoung' /\ ExpiryIsRight' /\ LoopIsInTime'
  BY <1>1, ExpiryStays
     DEF HistoryTypeOK, Places, ClockIsAhead, PathsAreGone, UnbornIsNowhere,
         RecordingIsYoung, ExpiryIsRight, AtRest, LoopIsInTime
<1>4. RowsHoldFiles'
  <2> SUFFICES ASSUME "clear" \notin allowed'.kinds
               PROVE  /\ \A p \in Ops :
                            /\ op'[p].at # "listed"
                            /\ op'[p].at = "clearing" =>
                                  op'[p].path \notin files'
                      /\ \A q \in Runs :
                            wav'[q] \in {"ready", "open"} => q \in live'
                      /\ files' \subseteq live' \cup pending'
    BY DEF RowsHoldFiles
  <2>1. /\ \A p \in Ops : /\ op[p].at # "listed"
                          /\ op[p].at = "clearing" => op[p].path \notin files
        /\ \A q \in Runs : wav[q] \in {"ready", "open"} => q \in live
        /\ files \subseteq live \cup pending
    BY <1>1 DEF RowsHoldFiles
  <2>2. ASSUME NEW p \in Ops
        PROVE  /\ op'[p].at # "listed"
               /\ op'[p].at = "clearing" => op'[p].path \notin files'
    BY <1>1, <2>1
  <2>3. \A q \in Runs : wav'[q] \in {"ready", "open"} => q \in live'
    BY <1>1, <2>1 DEF RecordingIsYoung, HistoryTypeOK
  <2>4. files' \subseteq live' \cup pending'
    BY <1>1, <2>1
  <2> QED
    BY <2>2, <2>3, <2>4
<1> QED
  BY <1>2, <1>3, <1>4

\* A new run is young, and older ones make place for it.
LEMMA CreateKeeps ==
    ASSUME HistoryInv, NEW o \in Ops, NEW r \in Runs, Create(o, r)
    PROVE  HistoryInv'
<1> USE HistoryAssumption DEF HistoryInv, HistoryConstantsOK, loopVars
<1>1. /\ up /\ wav[r] = "none"
      /\ \A q \in Runs : wav[q] \notin {"ready", "open"}
      /\ op' \in [Ops -> Places] /\ \A p \in Ops \ {o} : op'[p] = op[p]
      /\ op'[o].at \in {"refreshing", "paths"}
      /\ op'[o].todo = {} /\ op'[o].path = NoRun
      /\ live' \subseteq live \cup {r} /\ r \in live' /\ IsFiniteSet(live')
      /\ held' = held /\ held \subseteq live'
      /\ pending' = pending \cup (live \ live')
      /\ live' \subseteq Runs /\ pending' \subseteq Runs
      /\ created' = [created EXCEPT ![r] = now]
      /\ wav' = [wav EXCEPT ![r] = "ready"]
      /\ allowed' \in Uses /\ allowed'.kinds = allowed.kinds
      /\ UNCHANGED <<now, files, evicted, next, wake, sweep, up>>
  <2> DEFINE kept == live \ Expired
             gone == Expired \cup Surplus(kept)
  <2>1. kept \in SUBSET live /\ IsFiniteSet(kept)
    BY FS_Difference
  <2>2. gone \in SUBSET (live \ held)
    BY <2>1, SurplusIsOldest DEF Expired
  <2>3. gone \in SUBSET Runs
    BY <2>2 DEF HistoryTypeOK
  <2>4. r \notin live /\ r \notin pending
    BY DEF Create, UnbornIsNowhere
  <2>5. /\ live' = (live \ gone) \cup {r} /\ held' = held
        /\ pending' = pending \cup gone /\ AfterExpiry(o, gone)
    BY DEF Create, Listed
  <2> HIDE DEF gone, kept
  <2>6. /\ op' \in [Ops -> Places] /\ \A p \in Ops \ {o} : op'[p] = op[p]
        /\ op'[o].at \in {"refreshing", "paths"}
        /\ op'[o].todo = {} /\ op'[o].path = NoRun
    BY <2>3, <2>5, GoingToPaths
  <2>7. IsFiniteSet(live')
    BY <2>5, FS_Difference, FS_AddElement
  <2>8. allowed' \in Uses /\ allowed'.kinds = allowed.kinds
    BY Spending DEF Create
  <2>9. pending' = pending \cup (live \ live') /\ held \subseteq live'
    BY <2>2, <2>4, <2>5 DEF HistoryTypeOK
  <2> QED
    BY <2>2, <2>3, <2>5, <2>6, <2>7, <2>8, <2>9
       DEF Create, Ready, Recording, HistoryTypeOK
<1>2. HistoryTypeOK' /\ IsFiniteSet(live')
  BY <1>1
     DEF HistoryTypeOK, Places, Never
<1>3. ClockIsAhead' /\ UnbornIsNowhere' /\ RecordingIsYoung'
  BY <1>1
     DEF HistoryTypeOK, Places, ClockIsAhead, UnbornIsNowhere,
         RecordingIsYoung
<1>4. RowsHoldFiles' /\ ExpiryIsRight'
  BY <1>1, ExpiryStays
     DEF HistoryTypeOK, Places, RowsHoldFiles, ExpiryIsRight, AtRest
<1>5. PathsAreGone'
  <2>1. /\ r \notin live /\ r \notin pending
        /\ \A p \in Ops : r \notin op[p].todo /\ op[p].path # r
    BY <1>1 DEF UnbornIsNowhere
  <2>2. /\ pending \cap live = {}
        /\ \A p \in Ops : op[p].todo \cap live = {} /\ op[p].path \notin live
    BY DEF PathsAreGone
  <2>3. pending' \cap live' = {}
    BY <1>1, <2>1, <2>2
  <2>4. ASSUME NEW p \in Ops
        PROVE  op'[p].todo \cap live' = {} /\ op'[p].path \notin live'
    <3>1. CASE p = o
      BY <1>1, <3>1
    <3>2. CASE p # o
      <4>1. op'[p] = op[p]
        BY <1>1, <3>2
      <4> QED
        BY <1>1, <2>1, <2>2, <4>1
    <3> QED
      BY <3>1, <3>2
  <2> QED
    BY <2>3, <2>4 DEF PathsAreGone
<1>6. LoopIsInTime'
  BY <1>1
     DEF HistoryTypeOK, Places, LoopIsInTime, AtRest, ClockIsAhead
<1> QED
  BY <1>2, <1>3, <1>4, <1>5, <1>6

-----------------------------------------------------------------------------
(* The theorems. *)

\* The history keeps its rules at every step.
THEOREM HistoryInvAlways == HistorySpec => []HistoryInv
<1> USE HistoryAssumption DEF HistoryConstantsOK
<1>1. ASSUME HistoryInit
      PROVE  HistoryInv
  <2>1. HistoryTypeOK /\ IsFiniteSet(live)
    BY <1>1, FS_EmptySet DEF HistoryInit, HistoryTypeOK, Resting, Never
  <2>2. next = NextExpiry /\ live = {}
    BY <1>1 DEF HistoryInit, NextExpiry
  <2> QED
    BY <1>1, <2>1, <2>2
       DEF HistoryInit, HistoryInv, HistoryTypeOK, ClockIsAhead, PathsAreGone,
           UnbornIsNowhere, RecordingIsYoung, RowsHoldFiles, ExpiryIsRight,
           LoopIsInTime, Resting
<1>2. ASSUME HistoryInv, HistoryNext
      PROVE  HistoryInv'
  <2>1. ASSUME NEW o \in Ops, \/ Read(o) \/ DeleteAll(o) \/ LoopWakes(o)
                              \/ Recover(o)
        PROVE  HistoryInv'
    BY <1>2, <2>1, ReadKeeps, DeleteAllKeeps, LoopWakesKeeps, RecoverKeeps
  <2>2. ASSUME NEW o \in Ops, Follow(o)
        PROVE  HistoryInv'
    BY <1>2, <2>2, DeleteAllRowsKeeps, ReadPathsKeeps, ClearPendingKeeps,
       AllRemovedKeeps, RefreshKeeps, RemoveOrphansKeeps, RemoveFileKeeps,
       RemoveFailsKeeps
       DEF Follow
  <2>3. ASSUME NEW o \in Ops, NEW r \in Runs,
               \/ Create(o, r) \/ DeleteRun(o, r)
               \/ Claim(o, r) \/ Resolve(o, r)
        PROVE  HistoryInv'
    BY <1>2, <2>3, CreateKeeps, DeleteRunKeeps, ClaimKeeps, ResolveKeeps
  <2>4. ASSUME NEW r \in Runs, Evict(r) \/ WriteSamples(r) \/ CloseWav(r)
        PROVE  HistoryInv'
    BY <1>2, <2>4, EvictKeeps, WriteSamplesKeeps, CloseWavKeeps
  <2>5. CASE Tick \/ LoopSleeps \/ Crashes
    BY <1>2, <2>5, TickKeeps, LoopSleepsKeeps, CrashesKeeps
  <2> QED
    BY <1>2, <2>1, <2>2, <2>3, <2>4, <2>5 DEF HistoryNext
<1>3. ASSUME HistoryInv, UNCHANGED historyVars
      PROVE  HistoryInv'
  <2>1. NextExpiry' = NextExpiry
    BY <1>3, ExpiryStays DEF historyVars, rowVars, loopVars
  <2> QED
    BY <1>3, <2>1
       DEF historyVars, rowVars, loopVars, HistoryInv, HistoryTypeOK,
           ClockIsAhead, PathsAreGone, UnbornIsNowhere, RecordingIsYoung,
           RowsHoldFiles, ExpiryIsRight, LoopIsInTime, AtRest
<1> QED
  BY <1>1, <1>2, <1>3, PTL DEF HistorySpec

\* No step takes the file of a run that stays in the history.
LEMMA StepKeepsFiles ==
    ASSUME HistoryInv, HistoryNext
    PROVE  KeepsLiveFiles
<1> USE DEF HistoryInv, KeepsLiveFiles
<1>1. ASSUME NEW o \in Ops, NEW f \in Runs, RemoveFile(o, f)
      PROVE  KeepsLiveFiles
  BY <1>1 DEF RemoveFile, opRest, PathsAreGone
<1>2. ASSUME NEW o \in Ops, RemoveOrphans(o)
      PROVE  KeepsLiveFiles
  BY <1>2 DEF RemoveOrphans, opRest, Orphans
<1>3. ASSUME files \subseteq files'
      PROVE  KeepsLiveFiles
  BY <1>3
<1>4. ASSUME NEW o \in Ops, Follow(o)
      PROVE  KeepsLiveFiles
  BY <1>1, <1>2, <1>3, <1>4
     DEF Follow, DeleteAllRows, ReadPaths, ClearPending, AllRemoved, Refresh,
         RemoveFails
<1>5. ASSUME NEW o \in Ops, \/ Read(o) \/ DeleteAll(o) \/ LoopWakes(o)
                            \/ Recover(o)
      PROVE  KeepsLiveFiles
  BY <1>3, <1>5 DEF Read, DeleteAll, LoopWakes, Recover
<1>6. ASSUME NEW o \in Ops, NEW r \in Runs,
             \/ Create(o, r) \/ DeleteRun(o, r) \/ Claim(o, r) \/ Resolve(o, r)
      PROVE  KeepsLiveFiles
  BY <1>3, <1>6 DEF Create, DeleteRun, Claim, Resolve
<1>7. ASSUME NEW r \in Runs, Evict(r) \/ WriteSamples(r) \/ CloseWav(r)
      PROVE  KeepsLiveFiles
  BY <1>3, <1>7 DEF Evict, WriteSamples, CloseWav
<1>8. CASE Tick \/ LoopSleeps \/ Crashes
  BY <1>3, <1>8 DEF Tick, LoopSleeps, Crashes
<1> QED
  BY <1>4, <1>5, <1>6, <1>7, <1>8 DEF HistoryNext

\* Whoever leaves by age was expired, and so was each that is older.
LEMMA ExpiredAreOldest ==
    ASSUME HistoryInv, NEW r \in live, IsExpired(r), NEW q \in live,
           created[q] < created[r], q \notin held
    PROVE  q \in Expired
<1>1. created[r] \in Nat /\ created[q] \in Nat /\ now \in Nat /\ Limit \in Nat
  BY HistoryAssumption DEF HistoryConstantsOK, HistoryInv, HistoryTypeOK
<1> QED
  BY <1>1 DEF IsExpired, Expired

\* The oldest leave in each step that removes runs for their age or number.
LEMMA StepTakesOldest ==
    ASSUME HistoryInv, HistoryNext
    PROVE  OldestLeave
<1> USE HistoryAssumption DEF HistoryInv, HistoryConstantsOK
<1> SUFFICES ASSUME NEW p \in Ops, op[p].at = "idle", op'[p].at = "paths",
                    NEW r \in op'[p].gone, NEW q \in live',
                    created'[q] < created[r]
             PROVE  q \in held
  BY DEF OldestLeave
<1>1. ASSUME NEW o \in Ops, Read(o) \/ LoopWakes(o)
      PROVE  q \in held
  <2>1. Expired \in SUBSET Runs /\ Expired \subseteq live
    BY DEF Expired, HistoryTypeOK
  <2>2. /\ AfterExpiry(o, Expired) /\ live' = live \ Expired
        /\ created' = created
    BY <1>1 DEF Read, LoopWakes, DeleteRows
  <2>3. p = o /\ op'[o].gone = Expired
    BY <2>1, <2>2, GoingToPaths
  <2>4. r \in live /\ IsExpired(r) /\ q \in live /\ q \notin Expired
    BY <2>1, <2>2, <2>3 DEF Expired
  <2> QED
    BY <2>2, <2>4, ExpiredAreOldest
<1>2. ASSUME NEW o \in Ops, NEW n \in Runs, Create(o, n)
      PROVE  q \in held
  <2> DEFINE kept == live \ Expired
             gone == Expired \cup Surplus(kept)
  <2>1. kept \in SUBSET live /\ IsFiniteSet(kept)
    BY FS_Difference
  <2>2. /\ Surplus(kept) \subseteq kept \ held
        /\ \A a \in Surplus(kept), b \in (kept \ held) \ Surplus(kept) :
              created[a] <= created[b]
    BY <2>1, SurplusIsOldest
  <2>3. gone \in SUBSET Runs /\ gone \subseteq live
    BY <2>2 DEF Expired, HistoryTypeOK
  <2>4. /\ AfterExpiry(o, gone) /\ live' = (live \ gone) \cup {n}
        /\ created' = [created EXCEPT ![n] = now] /\ wav[n] = "none"
    BY <1>2 DEF Create
  <2>5. p = o /\ op'[o].gone = gone
    <3> HIDE DEF gone
    <3> QED
      BY <2>3, <2>4, GoingToPaths
  <2>6. /\ r \in live /\ created[r] \in Nat /\ created[r] <= now
        /\ now \in Nat /\ n \notin live
    <3>1. r \in live
      <4> HIDE DEF gone
      <4> QED
        BY <2>3, <2>5
    <3>2. n \notin live
      BY <2>4 DEF UnbornIsNowhere
    <3> QED
      BY <3>1, <3>2 DEF HistoryTypeOK, ClockIsAhead
  <2>7. q # n /\ q \in live /\ q \notin gone /\ created'[q] = created[q]
    <3> HIDE DEF gone
    <3> QED
      BY <2>4, <2>6 DEF HistoryTypeOK
  <2>8. CASE r \in Expired
    <3>1. IsExpired(r)
      BY <2>8 DEF Expired
    <3> QED
      BY <2>6, <2>7, <3>1, ExpiredAreOldest
  <2>9. CASE r \in Surplus(kept)
    <3>1. created[q] \in Nat
      BY <2>7 DEF HistoryTypeOK
    <3>2. ~(created[r] <= created[q])
      BY <2>6, <2>7, <3>1
    <3> QED
      BY <2>2, <2>7, <2>9, <3>2
  <2> QED
    BY <2>5, <2>8, <2>9
<1>3. ASSUME NEW o \in Ops, Recover(o)
      PROVE  q \in held
  <2> DEFINE gone == {x \in live : IsExpired(x)}
  <2>1. gone \in SUBSET Runs
    BY DEF HistoryTypeOK
  <2>2. /\ Continues(o, "paths", {}, gone) /\ live' = live \ gone
        /\ created' = created
    BY <1>3 DEF Recover
  <2>3. p = o /\ op'[o].gone = gone
    <3> HIDE DEF gone
    <3>1. /\ op'[o] = [at |-> "paths", todo |-> {}, gone |-> gone,
                      path |-> NoRun]
          /\ \A x \in Ops \ {o} : op'[x] = op[x]
      BY <2>1, <2>2, GoingOn
    <3> QED
      BY <3>1
  <2>4. CASE q \notin held
    <3>1. r \in live /\ IsExpired(r) /\ q \in live /\ ~IsExpired(q)
      BY <2>2, <2>3
    <3>2. q \in Expired
      BY <2>2, <2>4, <3>1, ExpiredAreOldest
    <3> QED
      BY <3>1, <3>2 DEF Expired
  <2> QED
    BY <2>4
<1>4. ASSUME NEW o \in Ops, NEW at, NEW todo \in SUBSET Runs,
             at \in {"listed", "removing", "refreshing"},
             Continues(o, at, todo, {})
      PROVE  FALSE
  <2>1. /\ at \in {"idle", "listed", "paths", "removing", "clearing",
                   "orphans", "refreshing"}
        /\ {} \in SUBSET Runs
    BY <1>4
  <2> HIDE DEF HistoryInv
  <2>2. HistoryTypeOK
    BY DEF HistoryInv
  <2>3. /\ op'[o] = [at |-> at, todo |-> todo, gone |-> {}, path |-> NoRun]
        /\ \A x \in Ops \ {o} : op'[x] = op[x]
    BY <1>4, <2>1, <2>2, GoingOn
  <2> QED
    BY <1>4, <2>3
<1>5. ASSUME NEW o \in Ops, NEW n \in Runs,
             DeleteRun(o, n) \/ Claim(o, n) \/ Resolve(o, n)
      PROVE  FALSE
  BY <1>4, <1>5 DEF DeleteRun, Claim, Resolve, Refreshes
<1>6. ASSUME NEW o \in Ops, DeleteAll(o)
      PROVE  FALSE
  BY <1>4, <1>6 DEF DeleteAll
<1>7. ASSUME NEW o \in Ops, Follow(o)
      PROVE  FALSE
  <2>1. op[o].at # "idle" /\ \A x \in Ops \ {o} : op'[x] = op[x]
    BY <1>7
       DEF Follow, DeleteAllRows, ReadPaths, ClearPending, AllRemoved, Refresh,
           RemoveOrphans, RemoveFile, RemoveFails, Continues, HistoryTypeOK
  <2> QED
    BY <2>1
<1>8. ASSUME \/ \E n \in Runs : Evict(n) \/ WriteSamples(n) \/ CloseWav(n)
             \/ Tick \/ LoopSleeps \/ Crashes
      PROVE  FALSE
  <2>1. CASE Crashes
    <3>1. op'[p] = Resting
      BY <2>1 DEF Crashes
    <3> QED
      BY <3>1 DEF Resting
  <2>2. CASE op' = op
    BY <2>2
  <2> QED
    BY <1>8, <2>1, <2>2 DEF Evict, WriteSamples, CloseWav, Tick, LoopSleeps
<1> QED
  BY <1>1, <1>2, <1>3, <1>5, <1>6, <1>7, <1>8 DEF HistoryNext

\* The files on disk are those of the rows and of the list of what is to be
\* removed: no recording stays unseen, and none of a run in the history goes.
THEOREM FilesAlwaysFollowRows == HistorySpec => FilesFollowRows
<1>1. HistoryInv => FilesListed
  BY DEF HistoryInv, RowsHoldFiles, FilesListed
<1>2. HistoryInv /\ [HistoryNext]_historyVars => [KeepsLiveFiles]_historyVars
  BY StepKeepsFiles
<1> QED
  BY <1>1, <1>2, HistoryInvAlways, PTL DEF HistorySpec, FilesFollowRows

\* A run that is created finds room, or only runs with an attempt in flight.
LEMMA StepMakesRoom ==
    ASSUME HistoryInv, HistoryNext
    PROVE  MakesRoom
<1> USE DEF HistoryInv
<1>1. ASSUME NEW o \in Ops, NEW n \in Runs, Create(o, n)
      PROVE  MakesRoom
  <2> DEFINE kept == live \ Expired
  <2>1. kept \in SUBSET live /\ IsFiniteSet(kept)
    BY FS_Difference
  <2>2. live' = (kept \ Surplus(kept)) \cup {n}
    BY <1>1 DEF Create
  <2>3. \/ Surplus(kept) = kept \ held
        \/ Cardinality(kept \ Surplus(kept)) < Max
    BY <2>1, SurplusIsOldest
  <2>4. CASE Surplus(kept) = kept \ held
    <3>1. n \notin live
      BY <1>1 DEF Create, UnbornIsNowhere
    <3> QED
      BY <2>1, <2>2, <2>4, <3>1 DEF MakesRoom
  <2>5. CASE Cardinality(kept \ Surplus(kept)) < Max
    <3> DEFINE rest == kept \ Surplus(kept)
    <3>1. IsFiniteSet(rest) /\ Cardinality(rest) \in Nat
      BY <2>1, FS_Difference, FS_CardinalityType
    <3> HIDE DEF rest, kept
    <3>2. live' = rest \cup {n} /\ Cardinality(rest) < Max
      BY <2>2, <2>5 DEF rest
    <3>3. Cardinality(live') = IF n \in rest THEN Cardinality(rest)
                               ELSE Cardinality(rest) + 1
      BY <3>1, <3>2, FS_AddElement
    <3>4. Max \in Nat
      BY HistoryAssumption DEF HistoryConstantsOK
    <3>5. Cardinality(live') <= Max
      BY <3>1, <3>2, <3>3, <3>4
    <3> QED
      BY <3>5 DEF MakesRoom
  <2> QED
    BY <2>3, <2>4, <2>5
<1>2. CASE ~\E o \in Ops, n \in Runs : Create(o, n)
  <2>1. live' \subseteq live
    BY <1>2
       DEF HistoryNext, Read, DeleteAll, LoopWakes, Recover, Follow, DeleteRun,
           Claim, Resolve, Evict, WriteSamples, CloseWav, Tick, LoopSleeps,
           Crashes, DeleteAllRows, ReadPaths, ClearPending, AllRemoved,
           Refresh, RemoveOrphans, RemoveFile, RemoveFails, DeleteRows,
           opRest, rowVars
  <2> QED
    BY <2>1 DEF MakesRoom
<1> QED
  BY <1>1, <1>2

\* For any limits and any number of attempts, the history has room for a run
\* that is created, but for the runs that attempts protect.
THEOREM HistoryNeverCrowded == HistorySpec => NeverCrowded
<1>1. HistoryInv /\ [HistoryNext]_historyVars => [MakesRoom]_historyVars
  BY StepMakesRoom
<1> QED
  BY <1>1, HistoryInvAlways, PTL DEF HistorySpec, NeverCrowded

\* The age alone decides which runs leave, and when: the oldest first, none
\* beyond its age, and the loop always knows the next.
THEOREM AgeAlwaysDecides == HistorySpec => AgeDecides
<1>1. HistoryInv => NeverOverdue /\ ExpiryIsRight
  BY DEF HistoryInv, LoopIsInTime, NeverOverdue
<1>2. HistoryInv /\ [HistoryNext]_historyVars => [OldestLeave]_historyVars
  BY StepTakesOldest
<1> QED
  BY <1>1, <1>2, HistoryInvAlways, PTL DEF HistorySpec, AgeDecides

===============================================================================
