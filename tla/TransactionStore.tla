-------------------------- MODULE TransactionStore --------------------------
(***************************************************************************)
(* What the program's repositories are promised by the database: a schema  *)
(* that only grows, by one migration at a time, and writes that are stored *)
(* whole or not at all and whose answer tells which.  A caller that gave   *)
(* up, or whose process died, is told nothing.                             *)
(***************************************************************************)
EXTENDS Naturals

CONSTANTS Writes,  \* the transactions callers ask for
          Parts    \* the statements of each

VARIABLES tables,  \* the migrations whose tables exist
          rows,    \* what the writes stored
          answer   \* what the caller of each write was told

storeVars == <<tables, rows, answer>>

PartsOf(w) == {w} \X Parts

Init ==
  /\ tables = {}
  /\ rows = {}
  /\ answer = [w \in Writes |-> "none"]

Migrate ==
  /\ \E n \in tables' : tables = 1..(n - 1) /\ tables' = 1..n
  /\ UNCHANGED <<rows, answer>>

Submit(w) ==
  /\ answer[w] = "none"
  /\ answer' = [answer EXCEPT ![w] = "waiting"]
  /\ UNCHANGED <<tables, rows>>

\* A write whose caller was not refused is stored, all of it.
Store(w) ==
  /\ answer[w] \in {"waiting", "given_up"}
  /\ rows' = rows \cup PartsOf(w)
  /\ UNCHANGED <<tables, answer>>

Confirm(w) ==
  /\ answer[w] = "waiting"
  /\ PartsOf(w) \subseteq rows
  /\ answer' = [answer EXCEPT ![w] = "ok"]
  /\ UNCHANGED <<tables, rows>>

Refuse(w) ==
  /\ answer[w] \in {"none", "waiting"}
  /\ PartsOf(w) \cap rows = {}
  /\ answer' = [answer EXCEPT ![w] = "failed"]
  /\ UNCHANGED <<tables, rows>>

GiveUp(callers) ==
  /\ answer' = [w \in Writes |->
                  IF w \in callers /\ answer[w] = "waiting" THEN "given_up"
                  ELSE answer[w]]
  /\ UNCHANGED <<tables, rows>>

Next ==
  \/ Migrate
  \/ \E w \in Writes : Submit(w) \/ Store(w) \/ Confirm(w) \/ Refuse(w)
  \/ \E callers \in SUBSET Writes : GiveUp(callers)

Spec == Init /\ [][Next]_storeVars
=============================================================================
