---------------------------- MODULE OutputProofs ----------------------------
(***************************************************************************)
(* What is proved about the way of a text to its field.  Of the hosted     *)
(* cleanup (CleanupChain): no model of the chain starves, for any chain,   *)
(* any budget and any number of dictations.  Of the insertion              *)
(* (Destination): what it reports is true and what it borrowed is given    *)
(* back, for any windows, tabs and fields, and however often the user and  *)
(* other programs interfere.  Of what the attempts promise of a run        *)
(* (DeliveryLedger): it is true, for any runs.                             *)
(***************************************************************************)
EXTENDS CleanupChain, Destination, DeliveryLedger, FiniteSetTheorems, TLAPS

-----------------------------------------------------------------------------
(* The cleanup. *)

\* What the call still owes a try: eligible models it has not come to.
Owing(c) == call[c].owed \ call[c].tried

\* They are behind the one it is at, nobody avoids them, and the attempt
\* leaves them time.
OwedIsReached(c) ==
    Running(c) =>
        /\ \A i \in DOMAIN Chain : Chain[i] \in Owing(c) => i > call[c].index
        /\ \A m \in Owing(c) : cooling[m] = 0
        /\ Owing(c) # {} => call[c].left > call[c].share

\* A call has time when it begins, and ends only when it owes nothing or for
\* a reason that no other model could mend.
CallIsSound(c) ==
    /\ call[c].at = "new" => call[c].left = Budget /\ call[c].outcome = "none"
    /\ call[c].at # "done" => call[c].outcome = "none"
    /\ Running(c) => call[c].index \in DOMAIN Chain
    /\ OwedIsReached(c)

ChainInvariant ==
    CleanupTypeOK /\ NoneStarved /\ \A c \in Calls : CallIsSound(c)

-----------------------------------------------------------------------------
(* The step along the chain. *)

\* Who shares with at least one other model leaves that one something.
LEMMA PartIsSmall ==
    ASSUME NEW left \in Nat \ {0}, NEW n \in Nat, n > 1
    PROVE  left \div n \in Nat /\ left \div n < left
BY SMT

\* A share is a part of what is left, and while others wait a smaller one.
LEMMA ShareIsPart ==
    ASSUME NEW left \in 1 .. Budget, NEW n \in Nat \ {0}
    PROVE  /\ Share(left, n) \in 0 .. left
           /\ n > 1 => Share(left, n) < left
<1>1. Budget \in Nat /\ Attempt \in Nat
    BY CleanupAssumption DEF CleanupConstantsOK
<1>2. left \div 1 = left
    BY SMT
<1>3. left \div n \in 0 .. left /\ (n > 1 => left \div n < left)
    BY <1>2, PartIsSmall
<1> QED
    BY <1>1, <1>3 DEF Share

\* The record of a call.
CallRecord ==
    [at: {"new", "posted", "asleep", "done"},
     index: 0 .. Len(Chain), left: 0 .. Budget, share: 0 .. Budget,
     cancelled: BOOLEAN, outcome: Outcomes,
     tried: SUBSET Models, owed: SUBSET Models]

\* A set of numbers has a least one.
LEMMA LeastNumber ==
    ASSUME NEW S, S \subseteq Nat, S # {}
    PROVE  \E k \in S : \A j \in S : k <= j
<1>1. PICK k \in S : \A j \in S : ~(<<j, k>> \in OpToRel(<, Nat))
    BY WFMin, NatLessThanWellFounded
<1>2. ASSUME NEW j \in S
      PROVE  k <= j
    <2>1. j \in Nat /\ k \in Nat
        OBVIOUS
    <2>2. ~(j < k)
        BY <1>1, <2>1 DEF OpToRel
    <2> QED
        BY <2>1, <2>2
<1> QED
    BY <1>2

\* The models eligible from a position on are finitely many, one of them is
\* the first, and there are others if one more is owed.
LEMMA EligibleCounts ==
    ASSUME NEW cool, NEW from \in Nat \ {0}, Eligible(cool, from) # {}
    PROVE  LET E == Eligible(cool, from)
               i == CHOOSE i \in E : \A j \in E : i <= j
           IN  /\ i \in E /\ \A j \in E : i <= j
               /\ i \in DOMAIN Chain
               /\ Cardinality(E) \in Nat \ {0}
               /\ \A j \in E : j # i => Cardinality(E) > 1
<1> DEFINE E == Eligible(cool, from)
           i == CHOOSE i \in E : \A j \in E : i <= j
<1>1. Len(Chain) \in Nat /\ DOMAIN Chain = 1 .. Len(Chain)
    BY CleanupAssumption DEF CleanupConstantsOK
<1>2. E \subseteq from .. Len(Chain) /\ E \subseteq Nat /\ E # {}
    BY <1>1 DEF Eligible
<1>3. \E k \in E : \A j \in E : k <= j
    BY <1>2, LeastNumber
<1>4. i \in E /\ \A j \in E : i <= j
    BY <1>3
<1>5. IsFiniteSet(E)
    <2>1. IsFiniteSet(from .. Len(Chain))
        BY <1>1, FS_Interval
    <2> QED
        BY <1>2, <2>1, FS_Subset
<1>6. Cardinality(E) \in Nat \ {0}
    BY <1>5, <1>2, FS_CardinalityType, FS_EmptySet
<1>7. ASSUME NEW j \in E, j # i
      PROVE  Cardinality(E) > 1
    <2>1. Cardinality(E) # 1
        BY <1>4, <1>5, <1>7, FS_Singleton
    <2> QED
        BY <1>6, <2>1
<1> QED
    BY <1>1, <1>2, <1>4, <1>6, <1>7

\* The loop goes on to the first model that is eligible.  What is still owed
\* lies behind that one, with time for it, and nothing is owed at the end.
LEMMA ProceedIsSound ==
    ASSUME NEW r \in CallRecord, NEW cool \in [Models -> 0 .. Cooldown],
           NEW from \in Nat \ {0},
           r.outcome = "none",
           \A i \in DOMAIN Chain : Chain[i] \in r.owed \ r.tried => i >= from,
           \A m \in r.owed \ r.tried : cool[m] = 0,
           r.owed \ r.tried # {} => r.left > 0
    PROVE  LET p == Proceed(r, cool, from)
           IN  /\ p \in CallRecord
               /\ p.owed = r.owed /\ r.tried \subseteq p.tried
               /\ p.at \in {"posted", "done"}
               /\ p.at # "done" =>
                    /\ p.outcome = "none" /\ p.index \in DOMAIN Chain
                    /\ \A i \in DOMAIN Chain :
                          Chain[i] \in p.owed \ p.tried => i > p.index
                    /\ p.owed \ p.tried # {} => p.left > p.share
               /\ p.outcome \in {"timeout", "exhausted"} => p.owed \subseteq p.tried
<1> DEFINE E == Eligible(cool, from)
           k == CHOOSE i \in E : \A j \in E : i <= j
           p == Proceed(r, cool, from)
           Claim == /\ p \in CallRecord
                    /\ p.owed = r.owed /\ r.tried \subseteq p.tried
                    /\ p.at \in {"posted", "done"}
                    /\ p.at # "done" =>
                         /\ p.outcome = "none" /\ p.index \in DOMAIN Chain
                         /\ \A i \in DOMAIN Chain :
                               Chain[i] \in p.owed \ p.tried => i > p.index
                         /\ p.owed \ p.tried # {} => p.left > p.share
                    /\ p.outcome \in {"timeout", "exhausted"} =>
                         p.owed \subseteq p.tried
<1>1. /\ Len(Chain) \in Nat /\ DOMAIN Chain = 1 .. Len(Chain)
      /\ Budget \in Nat /\ \A i \in DOMAIN Chain : Chain[i] \in Models
    BY CleanupAssumption DEF CleanupConstantsOK, Models
<1>2. \A i \in DOMAIN Chain : Chain[i] \in r.owed \ r.tried => i \in E
    BY <1>1 DEF Eligible
<1>3. \A m \in r.owed \ r.tried : \E i \in DOMAIN Chain : Chain[i] = m
    BY DEF CallRecord, Models
<1>4. ASSUME NEW o \in Outcomes, p = Done(r, o),
             o \in {"timeout", "exhausted"} => r.owed \subseteq r.tried
      PROVE  Claim
    BY <1>4 DEF Done, CallRecord
<1>5. CASE r.cancelled
    BY <1>4, <1>5 DEF Proceed, Outcomes
<1>6. CASE ~r.cancelled /\ E = {}
    <2>1. r.owed \subseteq r.tried
        BY <1>2, <1>3, <1>6
    <2> QED
        BY <1>4, <1>6, <2>1 DEF Proceed, Outcomes
<1>7. CASE ~r.cancelled /\ E # {} /\ r.left = 0
    <2>1. r.owed \subseteq r.tried
        BY <1>7
    <2> QED
        BY <1>4, <1>7, <2>1 DEF Proceed, Outcomes
<1>8. CASE ~r.cancelled /\ E # {} /\ r.left # 0 /\ ~key
    BY <1>4, <1>8 DEF Proceed, Outcomes
<1>9. CASE ~r.cancelled /\ E # {} /\ r.left # 0 /\ key
    <2> DEFINE n == Cardinality(E)
               s == Share(r.left, n)
    <2>1. /\ k \in E /\ \A j \in E : k <= j
          /\ k \in DOMAIN Chain
          /\ n \in Nat \ {0}
          /\ \A j \in E : j # k => n > 1
        BY <1>9, EligibleCounts
    <2>2. p = [r EXCEPT !.at = "posted", !.index = k, !.share = s,
                        !.tried = @ \cup {Chain[k]}]
        BY <1>9 DEF Proceed
    <2>3. r.left \in 1 .. Budget
        BY <1>1, <1>9 DEF CallRecord
    <2>4. s \in 0 .. r.left /\ (n > 1 => s < r.left)
        BY <2>1, <2>3, ShareIsPart
    <2> HIDE DEF k, s, n, p
    <2>5. /\ p \in CallRecord /\ p.owed = r.owed
          /\ p.tried = r.tried \cup {Chain[k]}
          /\ p.at = "posted" /\ p.outcome = "none" /\ p.index = k
          /\ p.left = r.left /\ p.share = s
        <3>1. p = [at |-> "posted", index |-> k, left |-> r.left, share |-> s,
                   cancelled |-> r.cancelled, outcome |-> r.outcome,
                   tried |-> r.tried \cup {Chain[k]}, owed |-> r.owed]
            BY <2>2 DEF CallRecord
        <3>2. /\ k \in 0 .. Len(Chain) /\ s \in 0 .. Budget
              /\ Chain[k] \in Models
            BY <1>1, <2>1, <2>3, <2>4
        <3> QED
            BY <3>1, <3>2 DEF CallRecord
    <2>6. ASSUME NEW i \in DOMAIN Chain, Chain[i] \in p.owed \ p.tried
          PROVE  i > k /\ n > 1
        <3>1. i \in E /\ i # k
            BY <1>2, <2>5, <2>6
        <3> QED
            BY <1>1, <2>1, <3>1
    <2>7. p.owed \ p.tried # {} => n > 1
        BY <1>3, <2>5, <2>6
    <2>8. p.owed \ p.tried # {} => p.left > p.share
        BY <1>1, <2>3, <2>4, <2>5, <2>7
    <2>9. Claim
        BY <2>1, <2>5, <2>6, <2>8
    <2> QED
        BY <2>9 DEF p
<1> QED
    BY <1>5, <1>6, <1>7, <1>8, <1>9

-----------------------------------------------------------------------------
(* The invariant. *)

LEMMA ChainInvariantInit == ASSUME CleanupInit PROVE ChainInvariant
<1>1. /\ Budget \in Nat /\ Cooldown \in Nat /\ Len(Chain) \in Nat
    BY CleanupAssumption DEF CleanupConstantsOK
<1>2. CleanupTypeOK
    BY <1>1 DEF CleanupInit, CleanupTypeOK, Outcomes
<1> QED
    BY <1>2 DEF CleanupInit, ChainInvariant, NoneStarved, CallIsSound,
                OwedIsReached, Running

\* One call comes to a sound state and the others stay; no model is avoided
\* that was not before.
LEMMA OneCallMoves ==
    ASSUME ChainInvariant, NEW c \in Calls, NEW x \in CallRecord,
           call' = [call EXCEPT ![c] = x], key' \in BOOLEAN,
           cooling' \in [Models -> 0 .. Cooldown],
           \A m \in Models : cooling[m] = 0 => cooling'[m] = 0,
           x.at = "new" => x.left = Budget,
           x.at # "done" => x.outcome = "none",
           x.at \in {"posted", "asleep"} =>
               /\ x.index \in DOMAIN Chain
               /\ \A i \in DOMAIN Chain :
                     Chain[i] \in x.owed \ x.tried => i > x.index
               /\ \A m \in x.owed \ x.tried : cooling'[m] = 0
               /\ x.owed \ x.tried # {} => x.left > x.share,
           x.outcome \in {"timeout", "exhausted"} => x.owed \subseteq x.tried
    PROVE  ChainInvariant'
<1>1. call \in [Calls -> CallRecord]
    BY DEF ChainInvariant, CleanupTypeOK, CallRecord
<1>2. /\ call' \in [Calls -> CallRecord] /\ call'[c] = x
      /\ \A d \in Calls : d # c => call'[d] = call[d]
    BY <1>1
<1>3. CleanupTypeOK'
    BY <1>2 DEF CleanupTypeOK, CallRecord
<1>4. NoneStarved'
    <2> SUFFICES ASSUME NEW d \in Calls,
                        call'[d].outcome \in {"timeout", "exhausted"}
                 PROVE  call'[d].owed \subseteq call'[d].tried
        BY DEF NoneStarved
    <2> QED
        BY <1>2 DEF ChainInvariant, NoneStarved
<1>5. ASSUME NEW d \in Calls
      PROVE  CallIsSound(d)'
    <2>1. CASE d = c
        BY <1>2, <2>1 DEF CallIsSound, OwedIsReached, Running, Owing
    <2>2. CASE d # c
        <3>1. call'[d] = call[d] /\ call[d].owed \subseteq Models
            BY <1>1, <1>2, <2>2 DEF CallRecord
        <3>2. CallIsSound(d)
            BY DEF ChainInvariant
        <3> QED
            BY <3>1, <3>2 DEF CallIsSound, OwedIsReached, Running, Owing
    <2> QED
        BY <2>1, <2>2
<1> QED
    BY <1>3, <1>4, <1>5 DEF ChainInvariant

\* A call that ends for a reason of its own, or owing nothing.
LEMMA EndKeeps ==
    ASSUME ChainInvariant, NEW c \in Calls, NEW o \in Outcomes, o # "exhausted",
           o = "timeout" => Running(c) /\ call[c].left = 0,
           call' = [call EXCEPT ![c] = Done(call[c], o)], key' = key,
           \/ cooling' = cooling
           \/ \E m \in Models : cooling' = [cooling EXCEPT ![m] = 0]
    PROVE  ChainInvariant'
<1> DEFINE x == Done(call[c], o)
<1>1. call[c] \in CallRecord /\ CallIsSound(c) /\ key \in BOOLEAN
      /\ cooling \in [Models -> 0 .. Cooldown] /\ Cooldown \in Nat
    BY CleanupAssumption
       DEF ChainInvariant, CleanupTypeOK, CallRecord, CleanupConstantsOK
<1>2. /\ x \in CallRecord /\ x.at = "done" /\ x.outcome = o
      /\ x.owed = call[c].owed /\ x.tried = call[c].tried
    BY <1>1 DEF Done, CallRecord
<1>3. /\ cooling' \in [Models -> 0 .. Cooldown]
      /\ \A m \in Models : cooling[m] = 0 => cooling'[m] = 0
    BY <1>1
<1>4. o = "timeout" => call[c].owed \subseteq call[c].tried
    <2> SUFFICES ASSUME o = "timeout"
                 PROVE  Owing(c) = {}
        BY DEF Owing
    <2>1. call[c].left = 0 /\ call[c].share \in Nat
        BY <1>1 DEF CallRecord
    <2> QED
        BY <1>1, <2>1 DEF CallIsSound, OwedIsReached
<1> HIDE DEF x
<1>5. call' = [call EXCEPT ![c] = x]
    BY DEF x
<1> QED
    BY <1>1, <1>2, <1>3, <1>4, <1>5, OneCallMoves

\* A call that goes on with the model it is at.
LEMMA GoesOnKeeps ==
    ASSUME ChainInvariant, NEW c \in Calls, NEW x \in CallRecord,
           call' = [call EXCEPT ![c] = x], UNCHANGED <<cooling, key>>,
           x = [call[c] EXCEPT !.at = x.at, !.cancelled = x.cancelled],
           \/ x.at = call[c].at
           \/ Running(c) /\ x.at \in {"posted", "asleep"}
    PROVE  ChainInvariant'
<1>1. call[c] \in CallRecord /\ CallIsSound(c) /\ key \in BOOLEAN
      /\ cooling \in [Models -> 0 .. Cooldown]
    BY DEF ChainInvariant, CleanupTypeOK, CallRecord
<1>2. /\ x.left = call[c].left /\ x.share = call[c].share
      /\ x.index = call[c].index /\ x.outcome = call[c].outcome
      /\ x.owed = call[c].owed /\ x.tried = call[c].tried
    BY <1>1 DEF CallRecord
<1>3. x.at \in {"posted", "asleep"} => Running(c)
    BY DEF Running
<1>4. call[c].outcome \in {"timeout", "exhausted"} =>
          call[c].owed \subseteq call[c].tried
    BY DEF ChainInvariant, NoneStarved
<1>5. x.at # "done" => call[c].at # "done"
    BY DEF Running
<1>6. x.at = "new" => call[c].at = "new"
    BY DEF Running
<1> QED
    BY <1>1, <1>2, <1>3, <1>4, <1>5, <1>6, OneCallMoves
       DEF CallIsSound, OwedIsReached, Owing

LEMMA BeginKeeps ==
    ASSUME ChainInvariant, NEW c \in Calls, Begin(c)
    PROVE  ChainInvariant'
<1> DEFINE owed == {m \in Models : cooling[m] = 0}
           r == [call[c] EXCEPT !.owed = owed]
           p == Proceed(r, cooling, 1)
<1>1. /\ call[c] \in CallRecord /\ CallIsSound(c) /\ key \in BOOLEAN
      /\ cooling \in [Models -> 0 .. Cooldown]
      /\ Budget \in Nat \ {0} /\ DOMAIN Chain \subseteq Nat \ {0}
    BY CleanupAssumption
       DEF ChainInvariant, CleanupTypeOK, CallRecord, CleanupConstantsOK
<1>2. /\ call[c].at = "new" /\ call[c].left = Budget
      /\ call[c].outcome = "none" /\ UNCHANGED <<cooling, key>>
    BY <1>1 DEF Begin, CallIsSound
<1>3. CASE ~call[c].cancelled /\ ~key
    BY <1>2, <1>3, EndKeeps DEF Begin, Outcomes
<1>4. CASE call[c].cancelled \/ key
    <2>1. call' = [call EXCEPT ![c] = p]
        BY <1>4 DEF Begin
    <2>2. /\ r \in CallRecord /\ r.outcome = "none"
          /\ r.owed = owed /\ r.left = Budget
        BY <1>1, <1>2 DEF CallRecord
    <2>3. \A i \in DOMAIN Chain : i >= 1
        BY <1>1
    <2> HIDE DEF r
    <2>4. /\ p \in CallRecord /\ p.owed = r.owed /\ r.tried \subseteq p.tried
          /\ p.at \in {"posted", "done"}
          /\ p.at # "done" =>
               /\ p.outcome = "none" /\ p.index \in DOMAIN Chain
               /\ \A i \in DOMAIN Chain :
                     Chain[i] \in p.owed \ p.tried => i > p.index
               /\ p.owed \ p.tried # {} => p.left > p.share
          /\ p.outcome \in {"timeout", "exhausted"} => p.owed \subseteq p.tried
        BY <1>1, <2>2, <2>3, ProceedIsSound
    <2> HIDE DEF p
    <2> QED
        BY <1>1, <1>2, <2>1, <2>2, <2>4, OneCallMoves
<1> QED
    BY <1>3, <1>4

\* The model that failed is avoided: the call goes on behind it, and the others
\* owe it no more.
LEMMA FailKeeps ==
    ASSUME ChainInvariant, NEW c \in Calls, Running(c), Fail(c)
    PROVE  ChainInvariant'
<1>1. /\ call \in [Calls -> CallRecord] /\ key \in BOOLEAN
      /\ cooling \in [Models -> 0 .. Cooldown] /\ Cooldown \in Nat
      /\ Len(Chain) \in Nat /\ DOMAIN Chain = 1 .. Len(Chain)
    BY CleanupAssumption
       DEF ChainInvariant, CleanupTypeOK, CallRecord, CleanupConstantsOK
<1>2. /\ CallIsSound(c) /\ call[c].outcome = "none"
      /\ call[c].index \in DOMAIN Chain /\ Model(c) \in Models
    BY DEF ChainInvariant, CallIsSound, Running, Model, Models
<1>3. PICK delay \in Delays :
        /\ cooling' = [cooling EXCEPT ![Model(c)] = delay]
        /\ call' = [d \in Calls |->
              IF d = c THEN Proceed(call[c], cooling', call[c].index + 1)
              ELSE IF call[d].at \in {"new", "done"} \/ Model(c) \in call[d].tried
              THEN call[d]
              ELSE [call[d] EXCEPT !.owed = @ \ {Model(c)}]]
        /\ UNCHANGED key
    BY DEF Fail
<1>4. /\ cooling' \in [Models -> 0 .. Cooldown]
      /\ \A m \in Models : m # Model(c) => cooling'[m] = cooling[m]
    BY <1>1, <1>2, <1>3 DEF Delays
<1> DEFINE r == call[c]
           from == call[c].index + 1
           p == Proceed(r, cooling', from)
<1>5. /\ p \in CallRecord
      /\ p.at \in {"posted", "done"}
      /\ p.at # "done" =>
           /\ p.outcome = "none" /\ p.index \in DOMAIN Chain
           /\ \A i \in DOMAIN Chain :
                 Chain[i] \in p.owed \ p.tried => i > p.index
           /\ p.owed \ p.tried # {} => p.left > p.share
      /\ p.outcome \in {"timeout", "exhausted"} => p.owed \subseteq p.tried
      /\ p.owed = r.owed /\ r.tried \subseteq p.tried
      /\ \A m \in r.owed \ r.tried : cooling'[m] = 0
    <2>1. r \in CallRecord /\ from \in Nat \ {0} /\ r.outcome = "none"
        BY <1>1, <1>2
    <2>2. \A i \in DOMAIN Chain : Chain[i] \in r.owed \ r.tried => i >= from
        BY <1>1, <1>2 DEF CallIsSound, OwedIsReached, Owing
    <2>3. Model(c) \notin r.owed \ r.tried
        BY <1>1, <1>2, <2>2 DEF Model
    <2>4. \A m \in r.owed \ r.tried : cooling'[m] = 0
        BY <1>2, <1>4, <2>1, <2>3
           DEF CallIsSound, OwedIsReached, Owing, CallRecord
    <2>5. r.owed \ r.tried # {} => r.left > 0
        BY <1>2, <2>1 DEF CallIsSound, OwedIsReached, Owing, CallRecord
    <2>6. \A cool \in [Models -> 0 .. Cooldown] :
              (\A m \in r.owed \ r.tried : cool[m] = 0) =>
              LET q == Proceed(r, cool, from)
              IN  /\ q \in CallRecord
                  /\ q.at \in {"posted", "done"}
                  /\ q.at # "done" =>
                       /\ q.outcome = "none" /\ q.index \in DOMAIN Chain
                       /\ \A i \in DOMAIN Chain :
                             Chain[i] \in q.owed \ q.tried => i > q.index
                       /\ q.owed \ q.tried # {} => q.left > q.share
                  /\ q.outcome \in {"timeout", "exhausted"} =>
                        q.owed \subseteq q.tried
                  /\ q.owed = r.owed /\ r.tried \subseteq q.tried
        <3> HIDE DEF r, from
        <3> QED
            BY <2>1, <2>2, <2>5, ProceedIsSound
    <2> HIDE DEF r, from
    <2> QED
        BY <1>4, <2>4, <2>6
<1>6. /\ call'[c] = p /\ call' \in [Calls -> CallRecord]
    <2> HIDE DEF p
    <2>1. call' = [d \in Calls |->
              IF d = c THEN p
              ELSE IF call[d].at \in {"new", "done"} \/ Model(c) \in call[d].tried
              THEN call[d]
              ELSE [call[d] EXCEPT !.owed = @ \ {Model(c)}]]
        BY <1>3 DEF p
    <2>2. \A d \in Calls :
              [call[d] EXCEPT !.owed = @ \ {Model(c)}] \in CallRecord
        BY <1>1 DEF CallRecord
    <2> QED
        BY <1>1, <1>5, <2>1, <2>2
<1>7. ASSUME NEW d \in Calls, d # c
      PROVE  /\ call'[d] = [call[d] EXCEPT !.owed = call'[d].owed]
             /\ call'[d] = call[d] \/ Running(d)
             /\ Running(d) =>
                  call'[d].owed \ call'[d].tried = Owing(d) \ {Model(c)}
    <2>1. call[d] \in CallRecord
        BY <1>1
    <2>2. CASE call[d].at \in {"new", "done"} \/ Model(c) \in call[d].tried
        BY <1>3, <1>7, <2>1, <2>2 DEF CallRecord, Running, Owing
    <2>3. CASE ~(call[d].at \in {"new", "done"} \/ Model(c) \in call[d].tried)
        BY <1>3, <1>7, <2>1, <2>3 DEF CallRecord, Running, Owing
    <2> QED
        BY <2>2, <2>3
<1> HIDE DEF p, from
<1>8. CleanupTypeOK'
    BY <1>1, <1>3, <1>4, <1>6 DEF CleanupTypeOK, CallRecord
<1>9. ASSUME NEW d \in Calls
      PROVE  /\ CallIsSound(d)'
             /\ call'[d].outcome \in {"timeout", "exhausted"} =>
                    call'[d].owed \subseteq call'[d].tried
    <2>1. CASE d = c
        <3>1. Owing(d)' \subseteq r.owed \ r.tried
            BY <1>5, <1>6, <2>1 DEF Owing
        <3> QED
            BY <1>5, <1>6, <2>1, <3>1
               DEF CallIsSound, OwedIsReached, Running, Owing
    <2>2. CASE d # c
        <3>1. CallIsSound(d) /\ call[d] \in CallRecord
            BY <1>1 DEF ChainInvariant
        <3>2. CASE call'[d] = call[d] /\ ~Running(d)
            BY <3>1, <3>2
               DEF CallIsSound, OwedIsReached, Running, ChainInvariant, NoneStarved
        <3>3. CASE Running(d)
            <4>1. /\ call'[d].at = call[d].at /\ call'[d].left = call[d].left
                  /\ call'[d].share = call[d].share
                  /\ call'[d].index = call[d].index
                  /\ call'[d].outcome = call[d].outcome
                  /\ Owing(d)' = Owing(d) \ {Model(c)}
                  /\ Owing(d) \subseteq Models
                BY <1>7, <2>2, <3>1, <3>3 DEF CallRecord, Owing
            <4>2. Running(d)' /\ call'[d].outcome = "none"
                BY <3>1, <3>3, <4>1 DEF Running, CallIsSound
            <4>3. \A m \in Owing(d)' : cooling'[m] = 0
                BY <1>4, <3>1, <3>3, <4>1 DEF CallIsSound, OwedIsReached
            <4> QED
                BY <3>1, <3>3, <4>1, <4>2, <4>3 DEF CallIsSound, OwedIsReached, Running
        <3> QED
            BY <1>7, <2>2, <3>2, <3>3
    <2> QED
        BY <2>1, <2>2
<1> QED
    BY <1>8, <1>9 DEF ChainInvariant, NoneStarved

LEMMA TimePassesKeeps ==
    ASSUME ChainInvariant, TimePasses
    PROVE  ChainInvariant'
<1>1. /\ call \in [Calls -> CallRecord] /\ key \in BOOLEAN
      /\ cooling \in [Models -> 0 .. Cooldown] /\ Cooldown \in Nat
      /\ Budget \in Nat
    BY CleanupAssumption
       DEF ChainInvariant, CleanupTypeOK, CallRecord, CleanupConstantsOK
<1>2. ASSUME NEW d \in Calls
      PROVE  /\ call'[d] \in CallRecord
             /\ ~Running(d) => call'[d] = call[d]
             /\ Running(d) =>
                  /\ call'[d].left = call[d].left - 1
                  /\ call'[d].share = call[d].share - 1
                  /\ call'[d] = [call[d] EXCEPT !.left = call'[d].left,
                                                !.share = call'[d].share]
    <2>1. call[d] \in CallRecord
        BY <1>1
    <2>2. CASE Running(d)
        <3>1. call'[d] = [call[d] EXCEPT !.left = @ - 1, !.share = @ - 1]
            BY <2>2 DEF TimePasses
        <3>2. call[d].left > 0 /\ call[d].share > 0
            BY <2>2 DEF TimePasses
        <3>3. call[d].left \in 0 .. Budget /\ call[d].share \in 0 .. Budget
            BY <2>1 DEF CallRecord
        <3>4. call[d].left - 1 \in 0 .. Budget /\ call[d].share - 1 \in 0 .. Budget
            BY <1>1, <3>2, <3>3
        <3> QED
            BY <2>1, <2>2, <3>1, <3>4 DEF CallRecord
    <2>3. CASE ~Running(d)
        BY <2>1, <2>3 DEF TimePasses
    <2> QED
        BY <2>2, <2>3
<1>3. /\ cooling' \in [Models -> 0 .. Cooldown]
      /\ \A m \in Models : cooling[m] = 0 => cooling'[m] = 0
    <2>1. cooling' = [m \in Models |-> IF cooling[m] > 0 THEN cooling[m] - 1 ELSE 0]
        BY DEF TimePasses
    <2>2. ASSUME NEW m \in Models
          PROVE  /\ cooling'[m] \in 0 .. Cooldown
                 /\ cooling[m] = 0 => cooling'[m] = 0
        <3>1. cooling[m] \in 0 .. Cooldown
            BY <1>1
        <3> QED
            BY <1>1, <2>1, <3>1
    <2> QED
        BY <2>1, <2>2
<1>4. CleanupTypeOK'
    <2>1. call' \in [Calls -> CallRecord]
        BY <1>2 DEF TimePasses
    <2> QED
        BY <1>1, <1>3, <2>1 DEF CleanupTypeOK, CallRecord, TimePasses
<1>5. ASSUME NEW d \in Calls
      PROVE  /\ CallIsSound(d)'
             /\ call'[d].outcome \in {"timeout", "exhausted"} =>
                    call'[d].owed \subseteq call'[d].tried
    <2>1. CallIsSound(d) /\ call[d] \in CallRecord
        BY <1>1 DEF ChainInvariant
    <2>2. CASE ~Running(d)
        BY <1>2, <2>1, <2>2
           DEF CallIsSound, OwedIsReached, Running, ChainInvariant, NoneStarved
    <2>3. CASE Running(d)
        <3>1. /\ call'[d].at = call[d].at /\ call'[d].index = call[d].index
              /\ call'[d].outcome = call[d].outcome
              /\ call'[d].left > call'[d].share <=> call[d].left > call[d].share
              /\ Owing(d)' = Owing(d) /\ Owing(d) \subseteq Models
            <4>1. call[d].left \in Int /\ call[d].share \in Int
                BY <1>1, <2>1 DEF CallRecord
            <4>2. /\ call'[d].left = call[d].left - 1
                  /\ call'[d].share = call[d].share - 1
                BY <1>2, <2>3
            <4>3. /\ call'[d].at = call[d].at /\ call'[d].index = call[d].index
                  /\ call'[d].outcome = call[d].outcome
                  /\ call'[d].owed = call[d].owed /\ call'[d].tried = call[d].tried
                <5> DEFINE l == call'[d].left
                           s == call'[d].share
                <5>1. call'[d] = [call[d] EXCEPT !.left = l, !.share = s]
                    BY <1>2, <2>3
                <5> HIDE DEF l, s
                <5> QED
                    BY <2>1, <5>1 DEF CallRecord
            <4>4. call[d].owed \subseteq Models
                BY <2>1 DEF CallRecord
            <4> QED
                BY <4>1, <4>2, <4>3, <4>4 DEF Owing
        <3>2. Running(d)' /\ call'[d].outcome = "none"
            BY <2>1, <2>3, <3>1 DEF Running, CallIsSound
        <3> QED
            BY <1>3, <2>1, <2>3, <3>1, <3>2 DEF CallIsSound, OwedIsReached, Running
    <2> QED
        BY <2>2, <2>3
<1> QED
    BY <1>4, <1>5 DEF ChainInvariant, NoneStarved

LEMMA ChainInvariantStep ==
    ASSUME ChainInvariant, [CleanupNext]_cleanupVars
    PROVE  ChainInvariant'
<1>1. /\ call \in [Calls -> CallRecord] /\ key \in BOOLEAN
      /\ cooling \in [Models -> 0 .. Cooldown]
      /\ \A c \in Calls : CallIsSound(c) /\ (Running(c) => Model(c) \in Models)
    BY DEF ChainInvariant, CleanupTypeOK, CallRecord, CallIsSound, Model, Models
<1>2. ASSUME NEW c \in Calls, Begin(c)
      PROVE  ChainInvariant'
    BY <1>2, BeginKeeps
<1>3. ASSUME NEW c \in Calls,
             AttemptTimesOut(c) \/ AttemptFails(c) \/ RequestFails(c)
      PROVE  ChainInvariant'
    BY <1>3, FailKeeps DEF AttemptTimesOut, AttemptFails, RequestFails, Running
<1>4. ASSUME NEW c \in Calls, DeadlinePasses(c)
      PROVE  ChainInvariant'
    BY <1>4, EndKeeps DEF DeadlinePasses, Outcomes
<1>5. ASSUME NEW c \in Calls, Refused(c) \/ Answered(c)
      PROVE  ChainInvariant'
    <2>1. PICK o \in {"cancelled", "refused", "cleaned"} :
              call' = [call EXCEPT ![c] = Done(call[c], o)]
        BY <1>5 DEF Refused, Answered, Unless
    <2>2. key' = key /\ Model(c) \in Models
        BY <1>1, <1>5 DEF Refused, Answered, Running
    <2>3. \/ cooling' = cooling
          \/ \E m \in Models : cooling' = [cooling EXCEPT ![m] = 0]
        BY <1>5, <2>2 DEF Refused, Answered
    <2> QED
        BY <2>1, <2>2, <2>3, EndKeeps DEF Outcomes
<1>6. ASSUME NEW c \in Calls, Pending(c) \/ PollPending(c)
      PROVE  ChainInvariant'
    <2>1. Running(c) /\ UNCHANGED <<cooling, key>>
        BY <1>6 DEF Pending, PollPending, Running
    <2>2. \/ \E o \in {"cancelled", "key"} :
                 call' = [call EXCEPT ![c] = Done(call[c], o)]
          \/ \E st \in {"posted", "asleep"} :
                 call' = [call EXCEPT ![c] = [call[c] EXCEPT !.at = st]]
        BY <1>6 DEF Pending, PollPending, Asks
    <2>3. CASE \E o \in {"cancelled", "key"} :
                 call' = [call EXCEPT ![c] = Done(call[c], o)]
        BY <2>1, <2>3, EndKeeps DEF Outcomes
    <2>4. ASSUME NEW st \in {"posted", "asleep"},
                 call' = [call EXCEPT ![c] = [call[c] EXCEPT !.at = st]]
          PROVE  ChainInvariant'
        <3> DEFINE x == [call[c] EXCEPT !.at = st]
        <3>1. /\ x \in CallRecord /\ x.at = st
              /\ x = [call[c] EXCEPT !.at = x.at, !.cancelled = x.cancelled]
            BY <1>1 DEF CallRecord
        <3>2. call' = [call EXCEPT ![c] = x]
            BY <2>4
        <3> HIDE DEF x
        <3> QED
            BY <2>1, <3>1, <3>2, GoesOnKeeps
    <2> QED
        BY <2>2, <2>3, <2>4
<1>7. ASSUME NEW c \in Calls, CancelRequested(c)
      PROVE  ChainInvariant'
    <2> DEFINE x == [call[c] EXCEPT !.cancelled = TRUE]
    <2>1. /\ x \in CallRecord /\ x.at = call[c].at
          /\ x = [call[c] EXCEPT !.at = x.at, !.cancelled = x.cancelled]
        BY <1>1 DEF CallRecord
    <2>2. call' = [call EXCEPT ![c] = x] /\ UNCHANGED <<cooling, key>>
        BY <1>7 DEF CancelRequested
    <2> HIDE DEF x
    <2> QED
        BY <2>1, <2>2, GoesOnKeeps
<1>8. CASE KeyCleared \/ UNCHANGED cleanupVars
    <2>1. call' = call /\ cooling' = cooling /\ key' \in BOOLEAN
        BY <1>1, <1>8 DEF KeyCleared, cleanupVars
    <2> QED
        BY <2>1 DEF ChainInvariant, CleanupTypeOK, NoneStarved, CallIsSound,
                    OwedIsReached, Running, Owing
<1>9. CASE TimePasses
    BY <1>9, TimePassesKeeps
<1> QED
    BY <1>2, <1>3, <1>4, <1>5, <1>6, <1>7, <1>8, <1>9 DEF CleanupNext

-----------------------------------------------------------------------------
\* What is owed lies ahead with time for it, in every interleaving of any
\* number of dictations (NvidiaCleanup.clean).
THEOREM ChainInvariantAlways == CleanupSpec => []ChainInvariant
BY ChainInvariantInit, ChainInvariantStep, PTL DEF CleanupSpec

\* Slow models do not starve the end of the chain: a dictation that gives up
\* has tried every model it could count on.
THEOREM NoneEverStarved == CleanupSpec => []NoneStarved
<1>1. ChainInvariant => NoneStarved
    BY DEF ChainInvariant
<1> QED
    BY <1>1, ChainInvariantAlways, PTL

-----------------------------------------------------------------------------
(* What a cancelled dictation does. *)

CancelledNotCleaned ==
    \A c \in Calls : call[c].cancelled => call[c].outcome # "cleaned"

\* A step of the loop posts nothing for a cancelled call.
LEMMA ProceedAsks ==
    ASSUME NEW r \in CallRecord, NEW cool, NEW from, r.outcome # "cleaned"
    PROVE  /\ Proceed(r, cool, from).outcome # "cleaned"
           /\ Proceed(r, cool, from).cancelled = r.cancelled
           /\ Proceed(r, cool, from).at = "posted" => ~r.cancelled
BY DEF Proceed, Done, CallRecord

\* Only what was not cancelled is sent or cleaned, call by call.
LEMMA StepAsks ==
    ASSUME ChainInvariant, CancelledNotCleaned, [CleanupNext]_cleanupVars,
           NEW d \in Calls
    PROVE  /\ call'[d].cancelled => call'[d].outcome # "cleaned"
           /\ call[d].cancelled => call'[d].outcome # "cleaned"
           /\ /\ call'[d].at = "posted"
              /\ call[d].at # "posted" \/ call'[d].index # call[d].index
              => ~call[d].cancelled
<1> DEFINE Claim == /\ call'[d].cancelled => call'[d].outcome # "cleaned"
                    /\ call[d].cancelled => call'[d].outcome # "cleaned"
                    /\ /\ call'[d].at = "posted"
                       /\ call[d].at # "posted" \/ call'[d].index # call[d].index
                       => ~call[d].cancelled
<1>1. /\ call \in [Calls -> CallRecord]
      /\ \A c \in Calls : call[c].at # "done" => call[c].outcome = "none"
      /\ call[d].cancelled => call[d].outcome # "cleaned"
    BY DEF ChainInvariant, CleanupTypeOK, CallRecord, CallIsSound,
           CancelledNotCleaned
<1>2. CASE call'[d] = call[d]
    BY <1>1, <1>2
<1>3. ASSUME NEW c \in Calls, NEW x, call' = [call EXCEPT ![c] = x],
             c = d => /\ x.cancelled \/ call[c].cancelled => x.outcome # "cleaned"
                      /\ /\ x.at = "posted"
                         /\ call[c].at # "posted" \/ x.index # call[c].index
                         => ~call[c].cancelled
      PROVE  Claim
    <2>1. CASE c = d
        BY <1>1, <1>3, <2>1
    <2>2. CASE c # d
        BY <1>1, <1>2, <1>3, <2>2
    <2> QED
        BY <2>1, <2>2
<1>4. ASSUME NEW c \in Calls, Begin(c)
      PROVE  Claim
    <2> DEFINE r == [call[c] EXCEPT !.owed = {m \in Models : cooling[m] = 0}]
    <2>1. /\ call[c].outcome = "none" /\ r \in CallRecord
          /\ r.outcome = "none" /\ r.cancelled = call[c].cancelled
        BY <1>1, <1>4 DEF Begin, CallRecord
    <2>2. CASE ~call[c].cancelled /\ ~key
        BY <1>1, <1>3, <1>4, <2>2 DEF Begin, Done, CallRecord
    <2>3. CASE call[c].cancelled \/ key
        <3>1. call' = [call EXCEPT ![c] = Proceed(r, cooling, 1)]
            BY <1>4, <2>3 DEF Begin
        <3> HIDE DEF r
        <3>2. /\ Proceed(r, cooling, 1).outcome # "cleaned"
              /\ Proceed(r, cooling, 1).at = "posted" => ~call[c].cancelled
            BY <2>1, ProceedAsks
        <3> QED
            BY <1>3, <3>1, <3>2
    <2> QED
        BY <2>2, <2>3
<1>5. ASSUME NEW c \in Calls,
             AttemptTimesOut(c) \/ AttemptFails(c) \/ RequestFails(c)
      PROVE  Claim
    <2>1. Fail(c) /\ Running(c)
        BY <1>5 DEF AttemptTimesOut, AttemptFails, RequestFails, Running
    <2>2. PICK cool : call' = [e \in Calls |->
              IF e = c THEN Proceed(call[c], cool, call[c].index + 1)
              ELSE IF call[e].at \in {"new", "done"} \/ Model(c) \in call[e].tried
              THEN call[e]
              ELSE [call[e] EXCEPT !.owed = @ \ {Model(c)}]]
        BY <2>1 DEF Fail
    <2>3. CASE c = d
        <3>1. call'[d] = Proceed(call[d], cool, call[d].index + 1)
            BY <2>2, <2>3
        <3>2. call[d].outcome = "none" /\ call[d] \in CallRecord
            BY <1>1, <2>1, <2>3 DEF Running
        <3> QED
            BY <3>1, <3>2, ProceedAsks
    <2>4. CASE c # d
        <3>1. /\ call'[d].at = call[d].at /\ call'[d].index = call[d].index
              /\ call'[d].cancelled = call[d].cancelled
              /\ call'[d].outcome = call[d].outcome
            BY <1>1, <2>2, <2>4 DEF CallRecord
        <3> QED
            BY <1>1, <3>1
    <2> QED
        BY <2>3, <2>4
<1>6. ASSUME NEW c \in Calls, DeadlinePasses(c) \/ Refused(c) \/ Answered(c)
      PROVE  Claim
    <2>1. PICK o : /\ call' = [call EXCEPT ![c] = Done(call[c], o)]
                   /\ o = "cleaned" => ~call[c].cancelled
        BY <1>6 DEF DeadlinePasses, Refused, Answered, Unless
    <2>2. /\ Done(call[c], o).at = "done" /\ Done(call[c], o).outcome = o
          /\ Done(call[c], o).cancelled = call[c].cancelled
        BY <1>1 DEF Done, CallRecord
    <2> QED
        BY <1>3, <2>1, <2>2
<1>7. ASSUME NEW c \in Calls, Pending(c) \/ PollPending(c)
      PROVE  Claim
    <2>1. call[c].outcome = "none" /\ call[c] \in CallRecord
        BY <1>1, <1>7 DEF Pending, PollPending
    <2>2. PICK x : /\ call' = [call EXCEPT ![c] = x]
                   /\ \/ x = Done(call[c], "cancelled") \/ x = Done(call[c], "key")
                      \/ x = [call[c] EXCEPT !.at = "asleep"]
                      \/ /\ x = [call[c] EXCEPT !.at = "posted"]
                         /\ ~call[c].cancelled
        BY <1>7 DEF Pending, PollPending, Asks
    <2>3. /\ x.outcome # "cleaned"
          /\ x.at = "posted" => ~call[c].cancelled
        <3>1. ASSUME NEW o \in {"cancelled", "key"}, x = Done(call[c], o)
              PROVE  x.outcome = o /\ x.at = "done"
            BY <2>1, <3>1 DEF Done, CallRecord
        <3>2. CASE x = [call[c] EXCEPT !.at = "asleep"]
            BY <2>1, <3>2 DEF CallRecord
        <3>3. CASE /\ x = [call[c] EXCEPT !.at = "posted"]
                   /\ ~call[c].cancelled
            BY <2>1, <3>3 DEF CallRecord
        <3> QED
            BY <2>2, <3>1, <3>2, <3>3
    <2> QED
        BY <1>3, <2>2, <2>3
<1>8. ASSUME NEW c \in Calls, CancelRequested(c)
      PROVE  Claim
    <2> DEFINE x == [call[c] EXCEPT !.cancelled = TRUE]
    <2>1. call' = [call EXCEPT ![c] = x]
        BY <1>8 DEF CancelRequested
    <2>2. /\ x.outcome = "none" /\ x.at = call[c].at
          /\ x.index = call[c].index
        BY <1>1, <1>8 DEF CancelRequested, CallRecord
    <2> HIDE DEF x
    <2> QED
        BY <1>3, <2>1, <2>2
<1>9. CASE KeyCleared \/ UNCHANGED cleanupVars
    BY <1>2, <1>9 DEF KeyCleared, cleanupVars
<1>10. CASE TimePasses
    <2>1. call'[d] = IF Running(d)
                     THEN [call[d] EXCEPT !.left = @ - 1, !.share = @ - 1]
                     ELSE call[d]
        BY <1>10 DEF TimePasses
    <2>2. /\ call'[d].at = call[d].at /\ call'[d].index = call[d].index
          /\ call'[d].cancelled = call[d].cancelled
          /\ call'[d].outcome = call[d].outcome
        BY <1>1, <2>1 DEF CallRecord
    <2> QED
        BY <1>1, <2>2
<1>11. Claim
    BY <1>4, <1>5, <1>6, <1>7, <1>8, <1>9, <1>10 DEF CleanupNext
<1> QED
    BY <1>11

\* A cancelled dictation sends nothing more and is not cleaned by an answer
\* that was under way (_check_cancelled).
THEOREM CancelledIsAlwaysOver == CleanupSpec => CancelledIsOver
<1>1. CleanupInit => CancelledNotCleaned
    BY DEF CleanupInit, CancelledNotCleaned
<1>2. ChainInvariant /\ CancelledNotCleaned /\ [CleanupNext]_cleanupVars =>
          CancelledNotCleaned' /\ SendsUncancelled /\ CleansUncancelled
    BY StepAsks DEF CancelledNotCleaned, SendsUncancelled, CleansUncancelled
<1> QED
    BY <1>1, <1>2, ChainInvariantAlways, PTL DEF CleanupSpec, CancelledIsOver

-----------------------------------------------------------------------------
(* The insertion, and its inductive invariant. *)

Preparing == {"waiting", "activate", "select", "focus", "settle", "look",
              "verify", "recheck"}
Sending == {"idle", "dispatch", "save", "set", "send"}
Capturing == {"capture", "capture tab", "capture field", "capture check"}
Unsent == Capturing \cup Preparing \cup Sending
Pasted == {"settle paste", "put back"}
Returning == {"restore", "restore tab"}
Stages == Unsent \cup Pasted \cup Returning \cup {"failed", "confirm", "over"}

Snapshots == [window : Windows \cup {None}, tab : Tabs \cup {None},
              field : Fields \cup {None},
              strategy : {"unicode", "paste", None}]
Foci == [jumped : BOOLEAN, window : Windows \cup {None},
         tab : Tabs \cup {None}]
Places == [window : Windows \cup {None}, tab : Tabs \cup {None},
           read : BOOLEAN]
Observations ==
  [landed : SUBSET Fields, moved : BOOLEAN, from : Places, copied : BOOLEAN,
   denied : BOOLEAN, users : {"old", "new", None}, moves : Nat]

\* The types of what the delivery holds.
DeliveryTyped ==
  /\ at \in Stages
  /\ snap \in Snapshots
  /\ saved \in {"old", "new", "text", None}
  /\ prev \in Foci
  /\ seen \in Observations

\* The snapshot is complete when it is used, and a window that is gone is not
\* in front.
SnapshotUsable ==
  /\ at # "capture" => snap.window \in Windows
  /\ at \in Sending \cup Pasted \cup {"confirm"} => snap.field \in Fields
  /\ front \notin closed

\* What the result may be at each call.
ResultSoFar ==
  /\ at \in Unsent => result \in Waiting
  /\ at = "failed" => result = "failed"
  /\ at \in Pasted => result \in Waiting \cup {"failed", "uncertain"}
  /\ at = "confirm" => result \in Waiting

\* The keys are sent once, and no attempt follows; the text lands once.
Sent == keys # None \/ seen.landed # {}
SentOnce ==
  /\ Sent => \/ at \in Pasted \cup {"confirm"} /\ result # "failed"
             \/ /\ at \in Returning \cup {"over"}
                /\ result \in {"uncertain", "inserted"}
  /\ keys # None => seen.landed = {}
  /\ \A f, g \in seen.landed : f = g

\* The text is in no field but those it was seen to land in.
Holds(s) == \E i \in DOMAIN s : s[i] = "text"
TextIsSeen == \A f \in Fields : Holds(content[f]) => f \in seen.landed

\* What is sent is taken by the field that was looked at, or the focus moved.
Aimed ==
  keys # None \/ at \in Sending =>
    seen.moved \/ (Focused = snap.field /\ snap.field # None)

\* From the copy of the transcript to the end of the finally clause.
Pasting ==
  at \in Pasted \cup {"set"} \/ (at = "send" /\ snap.strategy = "paste")

\* No attempt was made that could have touched the clipboard.
Untouched ==
  \/ at \in Unsent \ {"set", "send"}
  \/ at \in Returning /\ result \in Waiting

\* The clipboard is the user's or, during a paste, what is put back is.
ClipboardKept ==
  /\ at \in {"save", "set"} => snap.strategy = "paste"
  /\ Pasting => saved # "text" /\ (seen.copied \/ saved = seen.users)
  /\ ~Pasting => \/ seen.denied
                 \/ /\ clipboard # "text"
                    /\ seen.copied \/ clipboard = seen.users
  /\ Untouched => clipboard = seen.users

AtHome == seen.from # Nowhere => BackAt(seen.from)

\* A jump changes the tab of no window but that of the destination.
TabsKept ==
  seen.from # Nowhere =>
    \/ seen.from.window = snap.window
    \/ tab[seen.from.window] = seen.from.tab

\* What a jump remembers is where the user was, but for a tab it could not read.
Remembered ==
  /\ seen.from # Nowhere => seen.from.window \in Windows \ closed
  /\ Jumped /\ seen.from # Nowhere =>
       /\ prev.window = seen.from.window
       /\ prev.tab = (IF seen.from.read THEN seen.from.tab ELSE None)
       /\ seen.from.tab \in Tabs

\* The user is where he was, or the jump that is on knows where that is.
FocusKept ==
  /\ ~Jumped \/ at = "activate" => AtHome
  /\ TabsKept
  /\ Remembered
  /\ at \in {"activate", "select", "focus", "settle", "look"} \cup Returning =>
       Jumped
  /\ at \in Capturing \cup {"waiting", "over"} => ~Jumped
  /\ at \in Capturing => seen.from = Nowhere
  /\ at = "restore tab" =>
       /\ prev.window # None
       /\ seen.from # Nowhere => front = prev.window

DestinationInvariant ==
  /\ DestinationTypeOK
  /\ DeliveryTyped
  /\ SnapshotUsable
  /\ ResultSoFar
  /\ SentOnce
  /\ TextIsSeen
  /\ Aimed
  /\ ResultIsTrue
  /\ StrayNeedsMove
  /\ ClipboardKept
  /\ FocusKept

-----------------------------------------------------------------------------
(* The model's operators. *)

\* A text put into a field comes from the one who puts it there.
LEMMA InsertedText ==
  ASSUME NEW s \in Seq(Texts), NEW e \in Texts, NEW i \in 1 .. Len(s) + 1
  PROVE  /\ InsertAt(s, i, e) \in Seq(Texts)
         /\ Holds(InsertAt(s, i, e)) => e = "text" \/ Holds(s)
  <1> DEFINE left == SubSeq(s, 1, i - 1)
             right == SubSeq(s, i, Len(s))
             new == left \o <<e>> \o right
  <1>1. /\ left \in Seq(Texts)
        /\ Len(left) = i - 1
        /\ \A j \in 1 .. Len(left) : left[j] = s[j] /\ j \in 1 .. Len(s)
    OBVIOUS
  <1>2. /\ right \in Seq(Texts)
        /\ Len(right) = Len(s) + 1 - i
        /\ \A j \in 1 .. Len(right) :
             right[j] = s[i + j - 1] /\ i + j - 1 \in 1 .. Len(s)
    OBVIOUS
  <1>3. InsertAt(s, i, e) = new
    BY DEF InsertAt
  <1>4. new \in Seq(Texts)
    BY <1>1, <1>2
  <1>5. ASSUME NEW j \in DOMAIN new, new[j] = "text"
        PROVE  e = "text" \/ Holds(s)
    <2>. HIDE DEF left, right
    <2>1. j \in 1 .. Len(left) + 1 + Len(right)
      BY <1>1, <1>2, <1>5
    <2>2. CASE j \in 1 .. Len(left)
      <3>1. new[j] = left[j]
        BY <1>1, <1>2, <2>2
      <3>. QED
        BY <1>1, <1>5, <2>2, <3>1 DEF Holds
    <2>3. CASE j = Len(left) + 1
      <3>1. new[j] = e
        BY <1>1, <1>2, <2>3
      <3>. QED
        BY <1>5, <3>1
    <2>4. CASE j > Len(left) + 1
      <3>1. PICK k \in 1 .. Len(right) : new[j] = right[k]
        <4>1. /\ j - Len(left) - 1 \in 1 .. Len(right)
              /\ new[j] = right[j - Len(left) - 1]
          BY <1>1, <1>2, <2>1, <2>4
        <4>. QED
          BY <4>1
      <3>2. /\ i + k - 1 \in 1 .. Len(s)
            /\ s[i + k - 1] = "text"
        BY <1>2, <1>5, <3>1
      <3>. QED
        BY <3>2 DEF Holds
    <2>. QED
      BY <1>1, <2>1, <2>2, <2>3, <2>4
  <1>. QED
    BY <1>3, <1>4, <1>5 DEF Holds

LEMMA AppendedText ==
  ASSUME NEW s \in Seq(Texts), NEW e \in Texts
  PROVE  /\ Append(s, e) \in Seq(Texts)
         /\ Holds(Append(s, e)) => e = "text" \/ Holds(s)
  BY DEF Holds

\* One more copy of the transcript is a copy of the transcript.
LEMMA InsertionHolds ==
  ASSUME NEW old, NEW s \in Seq(Texts), OneInsertion(old, s)
  PROVE  Holds(s)
  BY DEF OneInsertion, Holds

LEMMA FieldHasHome ==
  ASSUME NEW f \in Fields
  PROVE  TabOf[f] \in Tabs /\ Home(f) \in Windows
  BY DestinationAssumption DEF DestinationConstantsOK, Home

LEMMA FocusedIsField ==
  ASSUME DestinationTypeOK
  PROVE  Focused \in Fields \cup {None}
  BY DestinationAssumption DEF DestinationTypeOK, DestinationConstantsOK, Focused

LEMMA NoneIsNothing ==
  /\ None \notin Windows
  /\ None \notin Tabs
  /\ None \notin Fields
  /\ None # "text"
  /\ None # "paste"
  BY DestinationAssumption DEF DestinationConstantsOK, Texts

LEMMA NoFocusIsNowhere ==
  /\ NoFocus \in Foci
  /\ ~NoFocus.jumped
  /\ NoFocus.window = None
  /\ Nowhere \in Places
  BY DEF NoFocus, Foci, Nowhere, Places

-----------------------------------------------------------------------------
(* What the properties see of each step that they look at. *)

LEMMA ElsewhereSees ==
  ASSUME NEW c \in BOOLEAN, seen \in Observations, Elsewhere(c)
  PROVE  /\ seen' \in Observations
         /\ seen'.landed = seen.landed
         /\ seen'.moved <=> seen.moved \/ ~c
         /\ seen'.from = (IF c THEN seen.from ELSE Nowhere)
         /\ seen'.copied <=> c \/ seen.copied
         /\ seen'.denied = seen.denied
         /\ seen'.users = IF c THEN "new" ELSE seen.users
         /\ UNCHANGED <<at, deliveryVars>>
  <1>1. seen' = [seen EXCEPT !.moves = @ + 1, !.moved = @ \/ ~c,
                             !.from = IF c THEN @ ELSE Nowhere,
                             !.copied = c \/ @,
                             !.users = IF c THEN "new" ELSE @]
    BY DEF Elsewhere, Seen
  <1>2. UNCHANGED <<at, deliveryVars>>
    BY DEF Elsewhere
  <1>3. seen' \in Observations
    <2>1. /\ (seen.moved \/ ~c) \in BOOLEAN
          /\ (IF c THEN seen.from ELSE Nowhere) \in Places
          /\ (c \/ seen.copied) \in BOOLEAN
      BY DEF Observations, Places, Nowhere
    <2>2. /\ (IF c THEN "new" ELSE seen.users) \in {"old", "new", None}
          /\ seen.moves + 1 \in Nat
      BY DEF Observations
    <2>. QED
      BY <1>1, <2>1, <2>2, Zenon DEF Observations
  <1>4. /\ seen'.landed = seen.landed
        /\ seen'.moved <=> seen.moved \/ ~c
    BY <1>1 DEF Observations
  <1>5. /\ seen'.from = (IF c THEN seen.from ELSE Nowhere)
        /\ seen'.copied <=> c \/ seen.copied
        /\ seen'.denied = seen.denied
    BY <1>1 DEF Observations
  <1>6. seen'.users = IF c THEN "new" ELSE seen.users
    BY <1>1 DEF Observations
  <1>. QED
    BY <1>2, <1>3, <1>4, <1>5, <1>6

LEMMA RecheckSees ==
  ASSUME seen \in Observations, Recheck
  PROVE  /\ seen' \in Observations
         /\ seen'.landed = seen.landed
         /\ ~seen'.moved
         /\ seen'.from = seen.from
         /\ seen'.copied = seen.copied
         /\ seen'.denied = seen.denied
         /\ seen'.users = seen.users
  BY DEF Recheck, Seen, Observations

LEMMA SaveClipboardSees ==
  ASSUME seen \in Observations, SaveClipboard
  PROVE  /\ seen' \in Observations
         /\ seen'.landed = seen.landed
         /\ seen'.moved = seen.moved
         /\ seen'.from = seen.from
         /\ ~seen'.copied
         /\ seen'.denied = seen.denied
         /\ seen'.users = seen.users
  BY DEF SaveClipboard, Seen, Observations

LEMMA JumpSees ==
  ASSUME seen \in Observations, NEW p \in Places, Seen([seen EXCEPT !.from = p])
  PROVE  /\ seen' \in Observations
         /\ seen'.landed = seen.landed
         /\ seen'.moved = seen.moved
         /\ seen'.from = p
         /\ seen'.copied = seen.copied
         /\ seen'.denied = seen.denied
         /\ seen'.users = seen.users
  BY DEF Seen, Observations

LEMMA DenialIsSeen ==
  ASSUME seen \in Observations, Seen([seen EXCEPT !.denied = TRUE])
  PROVE  /\ seen' \in Observations
         /\ seen'.landed = seen.landed
         /\ seen'.moved = seen.moved
         /\ seen'.from = seen.from
         /\ seen'.copied = seen.copied
         /\ seen'.denied
         /\ seen'.users = seen.users
  BY DEF Seen, Observations

LEMMA MoveIsSeen ==
  ASSUME seen \in Observations, Seen([seen EXCEPT !.moved = TRUE])
  PROVE  /\ seen' \in Observations
         /\ seen'.landed = seen.landed
         /\ seen'.moved
         /\ seen'.from = seen.from
         /\ seen'.copied = seen.copied
         /\ seen'.denied = seen.denied
         /\ seen'.users = seen.users
  BY DEF Seen, Observations

LEMMA RefusalIsSeen ==
  ASSUME seen \in Observations, Seen([seen EXCEPT !.from = Nowhere])
  PROVE  /\ seen' \in Observations
         /\ seen'.landed = seen.landed
         /\ seen'.moved = seen.moved
         /\ seen'.from = Nowhere
         /\ seen'.copied = seen.copied
         /\ seen'.denied = seen.denied
         /\ seen'.users = seen.users
  BY NoFocusIsNowhere DEF Seen, Observations

LEMMA LandingIsSeen ==
  ASSUME seen \in Observations, NEW f \in Fields,
         Seen([seen EXCEPT !.landed = @ \cup {f}])
  PROVE  /\ seen' \in Observations
         /\ seen'.landed = seen.landed \cup {f}
         /\ seen'.moved = seen.moved
         /\ seen'.from = seen.from
         /\ seen'.copied = seen.copied
         /\ seen'.denied = seen.denied
         /\ seen'.users = seen.users
  BY DEF Seen, Observations


LEMMA KeysArriveSees ==
  ASSUME DestinationTypeOK, seen \in Observations, KeysArrive
  PROVE  /\ seen' \in Observations
         /\ seen'.moved = seen.moved
         /\ seen'.from = seen.from
         /\ seen'.copied = seen.copied
         /\ seen'.denied = seen.denied
         /\ seen'.users = seen.users
         /\ \/ seen'.landed = seen.landed
            \/ /\ Focused \in Fields
               /\ seen'.landed = seen.landed \cup {Focused}
         /\ keys # None /\ keys' = None
         /\ UNCHANGED <<front, closed, tab, focus, clipboard, at, deliveryVars,
                        input>>
  <1>1. CASE UNCHANGED seen
    BY <1>1 DEF KeysArrive
  <1>2. CASE /\ Focused # None
             /\ Seen([seen EXCEPT !.landed = @ \cup {Focused}])
    <2>1. Focused \in Fields
      BY <1>2, FocusedIsField
    <2>2. /\ seen' \in Observations
          /\ seen'.landed = seen.landed \cup {Focused}
          /\ seen'.moved = seen.moved
          /\ seen'.from = seen.from
          /\ seen'.copied = seen.copied
          /\ seen'.denied = seen.denied
          /\ seen'.users = seen.users
      BY <1>2, <2>1, LandingIsSeen
    <2>. QED
      BY <2>1, <2>2 DEF KeysArrive
  <1>. QED
    BY <1>1, <1>2 DEF KeysArrive

\* A jump remembers the window in front, and its tab if it can read it.
LEMMA TickSees ==
  ASSUME DestinationTypeOK, prev \in Foci, seen \in Observations, Tick
  PROVE  \/ /\ at' # "activate"
            /\ UNCHANGED <<prev, input, seen>>
         \/ /\ at' = "activate"
            /\ UNCHANGED result
            /\ prev' \in Foci
            /\ prev'.jumped
            /\ prev'.window = front
            /\ seen' \in Observations
            /\ seen'.landed = seen.landed
            /\ seen'.moved = seen.moved
            /\ seen'.from = PlaceInFront(prev'.tab)
            /\ front # None => /\ prev'.tab \in {tab[front], None}
                              /\ tab[front] \in Tabs
            /\ seen'.copied = seen.copied
            /\ seen'.denied = seen.denied
            /\ seen'.users = seen.users
  <1>1. CASE at' = "activate"
    <2>1. PICK t \in ReadTab(front) :
            /\ prev' = [jumped |-> TRUE, window |-> front, tab |-> t]
            /\ Seen([seen EXCEPT !.from = PlaceInFront(t)])
            /\ UNCHANGED result
      BY <1>1 DEF Tick, Return, Onward
    <2>2. /\ front \in Windows \cup {None}
          /\ front # None => t \in {tab[front], None} /\ tab[front] \in Tabs
          /\ t \in Tabs \cup {None}
      BY NoneIsNothing DEF DestinationTypeOK, ReadTab
    <2>3. prev' \in Foci
      BY <2>1, <2>2, Zenon DEF Foci
    <2>4. /\ prev'.jumped
          /\ prev'.window = front
          /\ prev'.tab = t
      BY <2>1
    <2>5. PlaceInFront(t) \in Places
      BY <2>2 DEF PlaceInFront, Nowhere, Places
    <2>. QED
      BY <1>1, <2>1, <2>2, <2>3, <2>4, <2>5, JumpSees
  <1>2. CASE at' # "activate"
    BY <1>2 DEF Tick
  <1>. QED
    BY <1>1, <1>2

\* What arrives is a text, and the field with the focus takes it.
LEMMA WhatArrives ==
  ASSUME DestinationTypeOK, seen \in Observations, KeysArrive,
         ~UNCHANGED content
  PROVE  \E what \in Texts, i \in 1 .. Len(content[Focused]) + 1 :
           /\ Focused \in Fields
           /\ content' = [content EXCEPT ![Focused] = InsertAt(@, i, what)]
           /\ what = "text" => seen'.landed = seen.landed \cup {Focused}
  <1> DEFINE what == IF keys = "paste" THEN clipboard ELSE keys
  <1>1. /\ Focused # None
        /\ what # None
        /\ \E i \in 1 .. Len(content[Focused]) + 1 :
             content' = [content EXCEPT ![Focused] = InsertAt(@, i, what)]
        /\ what = "text" =>
             Seen([seen EXCEPT !.landed = @ \cup {Focused}])
    BY DEF KeysArrive
  <1>2. what \in Texts
    BY <1>1 DEF DestinationTypeOK, Texts, KeysArrive
  <1>3. Focused \in Fields
    BY <1>1, FocusedIsField
  <1>4. what = "text" => seen'.landed = seen.landed \cup {Focused}
    BY <1>1, <1>3, LandingIsSeen
  <1>. QED
    BY <1>1, <1>2, <1>3, <1>4

-----------------------------------------------------------------------------
(* The steps. *)

LEMMA PrevTyped ==
  ASSUME DestinationInvariant, DestinationNext
  PROVE  prev' \in Foci
  <1>0. /\ DestinationTypeOK
        /\ DeliveryTyped
    BY DEF DestinationInvariant
  <1>1. CASE Capture
    BY <1>0, <1>1
       DEF Capture, CaptureWindow, CaptureTab, CaptureField, CaptureCheck,
           DeliveryTyped, deliveryVars
  <1>2. CASE Tick
    BY <1>0, <1>2, TickSees DEF DeliveryTyped
  <1>3. CASE BringForward
    BY <1>0, <1>3, NoFocusIsNowhere
       DEF BringForward, Activate, SelectTab, JumpFails, FocusElement,
           SettleLook, SettleTimesOut, DeliveryTyped
  <1>4. CASE LookAgain
    BY <1>0, <1>4 DEF LookAgain, DeliveryTyped
  <1>5. CASE Checks
    BY <1>0, <1>5 DEF Checks, VerifyFirst, Recheck, IdleCheck, DeliveryTyped
  <1>6. CASE Dispatch
    BY <1>0, <1>6
       DEF Dispatch, ReadBefore, SaveClipboard, SetClipboard, Send,
           NothingSent, PasteSettles, RestoreClipboard, Confirm, DeliveryTyped,
           deliveryVars
  <1>7. CASE GivesBack
    BY <1>0, <1>7, NoFocusIsNowhere
       DEF GivesBack, RestoreWindow, RestoreTab, DeliveryTyped
  <1>8. CASE Desktop
    BY <1>0, <1>8, ElsewhereSees, KeysArriveSees
       DEF Desktop, GoesTo, Closes, Types, Copies, DeliveryTyped, deliveryVars
  <1>. QED
    BY <1>1, <1>2, <1>3, <1>4, <1>5, <1>6, <1>7, <1>8 DEF DestinationNext

LEMMA FrontTyped ==
  ASSUME DestinationInvariant, DestinationNext
  PROVE  /\ front' \in Windows \cup {None}
         /\ closed' \subseteq Windows
  <1>0. /\ DestinationTypeOK
        /\ DeliveryTyped
        /\ SnapshotUsable
    BY DEF DestinationInvariant
  <1>1. CASE Capture
    BY <1>0, <1>1
       DEF Capture, CaptureWindow, CaptureTab, CaptureField, CaptureCheck,
           DestinationTypeOK, desktopVars
  <1>2. CASE Tick
    BY <1>0, <1>2 DEF Tick, DestinationTypeOK, desktopVars
  <1>3. CASE Activate \/ SelectTab \/ SettleLook \/ SettleTimesOut
    BY <1>0, <1>3
       DEF Activate, SelectTab, SettleLook, SettleTimesOut, DestinationTypeOK,
           SnapshotUsable, desktopVars
  <1>4. CASE FocusElement
    <2>1. UNCHANGED closed
      BY <1>4 DEF FocusElement
    <2>2. \/ UNCHANGED front
          \/ snap.field \in Fields \cup {None} /\ snap.field # None
             /\ front' \in {front, Home(snap.field)}
      BY <1>0, <1>4 DEF FocusElement, JumpFails, DeliveryTyped, Snapshots
    <2>. QED
      BY <1>0, <2>1, <2>2, FieldHasHome DEF DestinationTypeOK
  <1>5. CASE LookAgain
    BY <1>0, <1>5 DEF LookAgain, DestinationTypeOK, desktopVars
  <1>6. CASE Checks
    BY <1>0, <1>6
       DEF Checks, VerifyFirst, Recheck, IdleCheck, DestinationTypeOK,
           desktopVars
  <1>7. CASE Dispatch
    BY <1>0, <1>7
       DEF Dispatch, ReadBefore, SaveClipboard, SetClipboard, Send,
           NothingSent, PasteSettles, RestoreClipboard, Confirm,
           DestinationTypeOK, desktopVars
  <1>8. CASE GivesBack
    BY <1>0, <1>8
       DEF GivesBack, RestoreWindow, RestoreTab, DestinationTypeOK,
           DeliveryTyped, Foci
  <1>9. CASE \E f \in Fields : GoesTo(f)
    <2>1. PICK f \in Fields : GoesTo(f)
      BY <1>9
    <2>2. front' = Home(f) /\ UNCHANGED closed
      BY <2>1 DEF GoesTo
    <2>. QED
      BY <1>0, <2>2, FieldHasHome DEF DestinationTypeOK
  <1>10. CASE \E w \in Windows : Closes(w)
    BY <1>0, <1>10 DEF Closes, DestinationTypeOK
  <1>11. CASE Types \/ Copies \/ KeysArrive
    BY <1>0, <1>11, KeysArriveSees
       DEF Types, Copies, DestinationTypeOK, DeliveryTyped
  <1>. QED
    BY <1>1, <1>2, <1>3, <1>4, <1>5, <1>6, <1>7, <1>8, <1>9, <1>10, <1>11
       DEF DestinationNext, BringForward, Desktop

LEMMA TabsTyped ==
  ASSUME DestinationInvariant, DestinationNext
  PROVE  tab' \in [Windows -> Tabs]
  <1>0. /\ DestinationTypeOK
        /\ DeliveryTyped
    BY DEF DestinationInvariant
  <1>1. CASE Capture
    BY <1>0, <1>1
       DEF Capture, CaptureWindow, CaptureTab, CaptureField, CaptureCheck,
           DestinationTypeOK, desktopVars
  <1>2. CASE Tick
    BY <1>0, <1>2 DEF Tick, DestinationTypeOK, desktopVars
  <1>3. CASE BringForward
    BY <1>0, <1>3
       DEF BringForward, Activate, SelectTab, FocusElement, SettleLook,
           SettleTimesOut, DestinationTypeOK, DeliveryTyped, Snapshots,
           desktopVars
  <1>4. CASE LookAgain
    BY <1>0, <1>4 DEF LookAgain, DestinationTypeOK, desktopVars
  <1>5. CASE Checks
    BY <1>0, <1>5
       DEF Checks, VerifyFirst, Recheck, IdleCheck, DestinationTypeOK,
           desktopVars
  <1>6. CASE Dispatch
    BY <1>0, <1>6
       DEF Dispatch, ReadBefore, SaveClipboard, SetClipboard, Send,
           NothingSent, PasteSettles, RestoreClipboard, Confirm,
           DestinationTypeOK, desktopVars
  <1>7. CASE GivesBack
    BY <1>0, <1>7
       DEF GivesBack, RestoreWindow, RestoreTab, DestinationTypeOK,
           DeliveryTyped, Foci
  <1>8. CASE Desktop
    BY <1>0, <1>8, ElsewhereSees, FieldHasHome, KeysArriveSees
       DEF Desktop, GoesTo, Closes, Types, Copies, DestinationTypeOK,
           DeliveryTyped
  <1>. QED
    BY <1>1, <1>2, <1>3, <1>4, <1>5, <1>6, <1>7, <1>8 DEF DestinationNext

LEMMA FocusTyped ==
  ASSUME DestinationInvariant, DestinationNext
  PROVE  focus' \in [Tabs -> Fields]
  <1>0. /\ DestinationTypeOK
        /\ DeliveryTyped
    BY DEF DestinationInvariant
  <1>1. CASE Capture
    BY <1>0, <1>1
       DEF Capture, CaptureWindow, CaptureTab, CaptureField, CaptureCheck,
           DestinationTypeOK, desktopVars
  <1>2. CASE Tick
    BY <1>0, <1>2 DEF Tick, DestinationTypeOK, desktopVars
  <1>3. CASE BringForward
    BY <1>0, <1>3
       DEF BringForward, Activate, SelectTab, FocusElement, SettleLook,
           SettleTimesOut, DestinationTypeOK, DeliveryTyped, Snapshots,
           desktopVars
  <1>4. CASE LookAgain
    BY <1>0, <1>4 DEF LookAgain, DestinationTypeOK, desktopVars
  <1>5. CASE Checks
    BY <1>0, <1>5
       DEF Checks, VerifyFirst, Recheck, IdleCheck, DestinationTypeOK,
           desktopVars
  <1>6. CASE Dispatch
    BY <1>0, <1>6
       DEF Dispatch, ReadBefore, SaveClipboard, SetClipboard, Send,
           NothingSent, PasteSettles, RestoreClipboard, Confirm,
           DestinationTypeOK, desktopVars
  <1>7. CASE GivesBack
    BY <1>0, <1>7 DEF GivesBack, RestoreWindow, RestoreTab, DestinationTypeOK
  <1>8. CASE Desktop
    BY <1>0, <1>8, NoneIsNothing, KeysArriveSees
       DEF Desktop, GoesTo, Closes, Types, Copies, DestinationTypeOK,
           DeliveryTyped
  <1>. QED
    BY <1>1, <1>2, <1>3, <1>4, <1>5, <1>6, <1>7, <1>8 DEF DestinationNext

LEMMA ContentTyped ==
  ASSUME DestinationInvariant, DestinationNext
  PROVE  content' \in [Fields -> Seq(Texts)]
  <1>0. /\ DestinationTypeOK
        /\ DeliveryTyped
    BY DEF DestinationInvariant
  <1>1. CASE Capture
    BY <1>0, <1>1
       DEF Capture, CaptureWindow, CaptureTab, CaptureField, CaptureCheck,
           DestinationTypeOK, desktopVars
  <1>2. CASE Tick
    BY <1>0, <1>2 DEF Tick, DestinationTypeOK, desktopVars
  <1>3. CASE BringForward
    BY <1>0, <1>3
       DEF BringForward, Activate, SelectTab, FocusElement, SettleLook,
           SettleTimesOut, DestinationTypeOK, desktopVars
  <1>4. CASE LookAgain
    BY <1>0, <1>4 DEF LookAgain, DestinationTypeOK, desktopVars
  <1>5. CASE Checks
    BY <1>0, <1>5
       DEF Checks, VerifyFirst, Recheck, IdleCheck, DestinationTypeOK,
           desktopVars
  <1>6. CASE Dispatch
    BY <1>0, <1>6
       DEF Dispatch, ReadBefore, SaveClipboard, SetClipboard, Send,
           NothingSent, PasteSettles, RestoreClipboard, Confirm,
           DestinationTypeOK, desktopVars
  <1>7. CASE GivesBack
    BY <1>0, <1>7 DEF GivesBack, RestoreWindow, RestoreTab, DestinationTypeOK
  <1>8. CASE \E f \in Fields : GoesTo(f)
    BY <1>0, <1>8 DEF GoesTo, DestinationTypeOK
  <1>9. CASE \E w \in Windows : Closes(w)
    BY <1>0, <1>9 DEF Closes, DestinationTypeOK
  <1>10. CASE Types
    <2>1. /\ Focused \in Fields
          /\ content' = [content EXCEPT ![Focused] = Append(@, "typed")]
      BY <1>0, <1>10, FocusedIsField DEF Types
    <2>2. Append(content[Focused], "typed") \in Seq(Texts)
      BY <1>0, <2>1, AppendedText DEF DestinationTypeOK, Texts
    <2>. QED
      BY <1>0, <2>1, <2>2 DEF DestinationTypeOK
  <1>11. CASE Copies
    BY <1>0, <1>11 DEF Copies, DestinationTypeOK
  <1>12. CASE KeysArrive
    <2>1. CASE UNCHANGED content
      BY <1>0, <2>1 DEF DestinationTypeOK
    <2>2. CASE ~UNCHANGED content
      <3>1. PICK what \in Texts, i \in 1 .. Len(content[Focused]) + 1 :
              /\ Focused \in Fields
              /\ content' = [content EXCEPT ![Focused] = InsertAt(@, i, what)]
        BY <1>0, <1>12, <2>2, WhatArrives DEF DeliveryTyped
      <3>2. InsertAt(content[Focused], i, what) \in Seq(Texts)
        BY <1>0, <3>1, InsertedText DEF DestinationTypeOK
      <3>. QED
        BY <1>0, <3>1, <3>2 DEF DestinationTypeOK
    <2>. QED
      BY <2>1, <2>2
  <1>. QED
    BY <1>1, <1>2, <1>3, <1>4, <1>5, <1>6, <1>7, <1>8, <1>9, <1>10, <1>11,
       <1>12
       DEF DestinationNext, Desktop

LEMMA RestTyped ==
  ASSUME DestinationInvariant, DestinationNext
  PROVE  /\ clipboard' \in {"old", "new", "text", None}
         /\ keys' \in {None, "text", "part", "paste"}
         /\ result' \in Results
         /\ input' \in BOOLEAN
         /\ stable' \in BOOLEAN
  <1>0. /\ DestinationTypeOK
        /\ DeliveryTyped
    BY DEF DestinationInvariant
  <1>1. CASE Capture
    BY <1>0, <1>1
       DEF Capture, CaptureWindow, CaptureTab, CaptureField, CaptureCheck,
           DestinationTypeOK, desktopVars, deliveryVars
  <1>2. CASE Tick
    BY <1>0, <1>2 DEF Tick, Return, DestinationTypeOK, Results, desktopVars
  <1>3. CASE BringForward
    BY <1>0, <1>3, NoFocusIsNowhere
       DEF BringForward, Activate, SelectTab, JumpFails, FocusElement,
           SettleLook, SettleTimesOut, DestinationTypeOK, DeliveryTyped,
           Results, desktopVars
  <1>4. CASE LookAgain
    BY <1>0, <1>4
       DEF LookAgain, Return, Awaits, DestinationTypeOK, Results, desktopVars
  <1>5. CASE Checks
    BY <1>0, <1>5
       DEF Checks, VerifyFirst, Return, Awaits, Recheck, IdleCheck,
           DestinationTypeOK, Results, desktopVars
  <1>6. CASE ReadBefore
    BY <1>0, <1>6 DEF ReadBefore, DestinationTypeOK, desktopVars
  <1>7. CASE SaveClipboard
    BY <1>0, <1>7
       DEF SaveClipboard, Raises, Return, DestinationTypeOK, Results,
           desktopVars
  <1>8. CASE SetClipboard
    BY <1>0, <1>8 DEF SetClipboard, DestinationTypeOK, Results
  <1>9. CASE Send
    BY <1>0, <1>9 DEF Send, DestinationTypeOK, Results
  <1>10. CASE NothingSent
    BY <1>0, <1>10
       DEF NothingSent, Return, DestinationTypeOK, Results, desktopVars
  <1>11. CASE PasteSettles
    BY <1>0, <1>11
       DEF PasteSettles, DestinationTypeOK, desktopVars, deliveryVars
  <1>12. CASE RestoreClipboard
    BY <1>0, <1>12
       DEF RestoreClipboard, PutBack, Raises, Return, DestinationTypeOK,
           DeliveryTyped, Results
  <1>13. CASE Confirm
    BY <1>0, <1>13
       DEF Confirm, Return, DestinationTypeOK, Results, desktopVars
  <1>14. CASE GivesBack
    BY <1>0, <1>14 DEF GivesBack, RestoreWindow, RestoreTab, DestinationTypeOK
  <1>15. CASE Desktop
    <2>1. Heeded \in BOOLEAN /\ (Heeded /\ input) \in BOOLEAN
      BY DEF Heeded
    <2>. QED
      BY <1>0, <1>15, <2>1, ElsewhereSees, KeysArriveSees
         DEF Desktop, GoesTo, Closes, Types, Copies, DestinationTypeOK,
             DeliveryTyped, deliveryVars
  <1>. QED
    BY <1>1, <1>2, <1>3, <1>4, <1>5, <1>6, <1>7, <1>8, <1>9, <1>10, <1>11,
       <1>12, <1>13, <1>14, <1>15
       DEF DestinationNext, Dispatch

LEMMA StagesKnown ==
  ASSUME DestinationInvariant, DestinationNext
  PROVE  at' \in Stages
  <1>0. /\ DestinationTypeOK
        /\ DeliveryTyped
        /\ ResultSoFar
    BY DEF DestinationInvariant
  <1>1. CASE Capture
    BY <1>1
       DEF Capture, CaptureWindow, CaptureTab, CaptureField, CaptureCheck,
           Stages, Unsent, Preparing, Capturing
  <1>2. CASE Tick
    BY <1>2 DEF Tick, Return, Onward, Stages, Unsent, Preparing, Returning
  <1>3. CASE BringForward
    BY <1>3
       DEF BringForward, Activate, SelectTab, JumpFails, FocusElement,
           SettleLook, SettleTimesOut, Stages, Unsent, Preparing, Returning
  <1>4. CASE LookAgain
    BY <1>4
       DEF LookAgain, Return, Onward, Awaits, Stages, Unsent, Preparing,
           Returning
  <1>5. CASE Checks
    BY <1>5
       DEF Checks, VerifyFirst, Return, Onward, Awaits, Recheck, IdleCheck,
           Stages, Unsent, Preparing, Sending, Returning
  <1>6. CASE Dispatch
    BY <1>6
       DEF Dispatch, ReadBefore, SaveClipboard, Raises, Return, Onward,
           SetClipboard, Send, NothingSent, PasteSettles, RestoreClipboard,
           Confirm, Stages, Unsent, Preparing, Sending, Pasted, Returning
  <1>7. CASE GivesBack
    BY <1>7
       DEF GivesBack, RestoreWindow, Onward, RestoreTab, Stages, Unsent,
           Preparing, Returning
  <1>8. CASE Desktop
    BY <1>0, <1>8, ElsewhereSees, KeysArriveSees
       DEF Desktop, GoesTo, Closes, Types, Copies, DeliveryTyped
  <1>. QED
    BY <1>1, <1>2, <1>3, <1>4, <1>5, <1>6, <1>7, <1>8 DEF DestinationNext

LEMMA SnapshotTyped ==
  ASSUME DestinationInvariant, DestinationNext
  PROVE  snap' \in Snapshots
  <1>0. /\ DestinationTypeOK
        /\ DeliveryTyped
        /\ SnapshotUsable
    BY DEF DestinationInvariant
  <1>1. CASE CaptureWindow
    <2>1. PICK s \in {"unicode", "paste"} :
            snap' = [snap EXCEPT !.window = front, !.strategy = s]
      BY <1>1 DEF CaptureWindow
    <2>. QED
      BY <1>0, <2>1 DEF DestinationTypeOK, DeliveryTyped, Snapshots
  <1>2. CASE CaptureTab \/ CaptureField \/ CaptureCheck
    BY <1>0, <1>2, FocusedIsField
       DEF CaptureTab, ReadTab, CaptureField, CaptureCheck, DestinationTypeOK,
           DeliveryTyped, SnapshotUsable, Snapshots, deliveryVars
  <1>3. CASE Tick
    BY <1>0, <1>3 DEF Tick, DeliveryTyped
  <1>4. CASE BringForward
    BY <1>0, <1>4
       DEF BringForward, Activate, SelectTab, FocusElement, SettleLook,
           SettleTimesOut, DeliveryTyped
  <1>5. CASE LookAgain
    BY <1>0, <1>5 DEF LookAgain, DeliveryTyped
  <1>6. CASE Checks
    BY <1>0, <1>6 DEF Checks, VerifyFirst, Recheck, IdleCheck, DeliveryTyped
  <1>7. CASE Dispatch
    BY <1>0, <1>7
       DEF Dispatch, ReadBefore, SaveClipboard, SetClipboard, Send,
           NothingSent, PasteSettles, RestoreClipboard, Confirm, DeliveryTyped,
           deliveryVars
  <1>8. CASE GivesBack
    BY <1>0, <1>8 DEF GivesBack, RestoreWindow, RestoreTab, DeliveryTyped
  <1>9. CASE Desktop
    BY <1>0, <1>9, ElsewhereSees, KeysArriveSees
       DEF Desktop, GoesTo, Closes, Types, Copies, DeliveryTyped, deliveryVars
  <1>. QED
    BY <1>1, <1>2, <1>3, <1>4, <1>5, <1>6, <1>7, <1>8, <1>9
       DEF DestinationNext, Capture

LEMMA SavedTyped ==
  ASSUME DestinationInvariant, DestinationNext
  PROVE  saved' \in {"old", "new", "text", None}
  <1>0. /\ DestinationTypeOK
        /\ DeliveryTyped
    BY DEF DestinationInvariant
  <1>1. CASE Capture
    BY <1>0, <1>1
       DEF Capture, CaptureWindow, CaptureTab, CaptureField, CaptureCheck,
           DeliveryTyped, deliveryVars
  <1>2. CASE Tick
    BY <1>0, <1>2 DEF Tick, DeliveryTyped
  <1>3. CASE BringForward
    BY <1>0, <1>3
       DEF BringForward, Activate, SelectTab, FocusElement, SettleLook,
           SettleTimesOut, DeliveryTyped
  <1>4. CASE LookAgain
    BY <1>0, <1>4 DEF LookAgain, DeliveryTyped
  <1>5. CASE Checks
    BY <1>0, <1>5 DEF Checks, VerifyFirst, Recheck, IdleCheck, DeliveryTyped
  <1>6. CASE Dispatch
    BY <1>0, <1>6
       DEF Dispatch, ReadBefore, SaveClipboard, SetClipboard, Send,
           NothingSent, PasteSettles, RestoreClipboard, Confirm,
           DestinationTypeOK, DeliveryTyped, deliveryVars
  <1>7. CASE GivesBack
    BY <1>0, <1>7 DEF GivesBack, RestoreWindow, RestoreTab, DeliveryTyped
  <1>8. CASE Desktop
    BY <1>0, <1>8, ElsewhereSees, KeysArriveSees
       DEF Desktop, GoesTo, Closes, Types, Copies, DeliveryTyped, deliveryVars
  <1>. QED
    BY <1>1, <1>2, <1>3, <1>4, <1>5, <1>6, <1>7, <1>8 DEF DestinationNext

LEMMA SeenTyped ==
  ASSUME DestinationInvariant, DestinationNext
  PROVE  seen' \in Observations
  <1>0. /\ DestinationTypeOK
        /\ DeliveryTyped
        /\ SnapshotUsable
    BY DEF DestinationInvariant
  <1>1. CASE Capture
    BY <1>0, <1>1
       DEF Capture, CaptureWindow, CaptureTab, CaptureField, CaptureCheck,
           DeliveryTyped
  <1>2. CASE Tick
    BY <1>0, <1>2, TickSees DEF DeliveryTyped
  <1>3. CASE BringForward
    BY <1>0, <1>3
       DEF BringForward, Activate, SelectTab, FocusElement, SettleLook,
           SettleTimesOut, DeliveryTyped
  <1>4. CASE LookAgain
    BY <1>0, <1>4 DEF LookAgain, DeliveryTyped
  <1>5. CASE Checks
    BY <1>0, <1>5, RecheckSees
       DEF Checks, VerifyFirst, IdleCheck, DeliveryTyped
  <1>6. CASE Dispatch
    BY <1>0, <1>6, SaveClipboardSees, DenialIsSeen
       DEF Dispatch, ReadBefore, SetClipboard, Send, NothingSent, PasteSettles,
           RestoreClipboard, Confirm, DeliveryTyped
  <1>7. CASE GivesBack
    BY <1>0, <1>7, MoveIsSeen, RefusalIsSeen
       DEF GivesBack, RestoreWindow, RestoreTab, DeliveryTyped
  <1>8. CASE Desktop
    BY <1>0, <1>8, ElsewhereSees, KeysArriveSees
       DEF Desktop, GoesTo, Closes, Types, Copies, DeliveryTyped
  <1>. QED
    BY <1>1, <1>2, <1>3, <1>4, <1>5, <1>6, <1>7, <1>8 DEF DestinationNext

LEMMA SnapshotStaysUsable ==
  ASSUME DestinationInvariant, DestinationNext
  PROVE  SnapshotUsable'
  <1>0. /\ DestinationTypeOK
        /\ DeliveryTyped
        /\ SnapshotUsable
    BY DEF DestinationInvariant
  <1>1. CASE CaptureWindow
    <2>1. /\ front \in Windows
          /\ \E s : snap' = [snap EXCEPT !.window = front, !.strategy = s]
          /\ at' = "capture tab"
          /\ UNCHANGED <<front, closed, prev, seen>>
      BY <1>0, <1>1 DEF CaptureWindow, DestinationTypeOK, desktopVars
    <2>2. snap'.window = front
      BY <1>0, <2>1 DEF DeliveryTyped, Snapshots
    <2>. QED
      BY <1>0, <2>1, <2>2
         DEF SnapshotUsable, Sending, Pasted
  <1>2. CASE CaptureTab \/ CaptureField \/ CaptureCheck
    BY <1>0, <1>2
       DEF CaptureTab, CaptureField, CaptureCheck, DestinationTypeOK,
           DeliveryTyped, SnapshotUsable, Snapshots, Sending, Pasted,
           desktopVars, deliveryVars
  <1>3. CASE Tick
    <2>1. /\ UNCHANGED <<front, closed, tab, snap>>
          /\ at = "waiting"
          /\ at' \in {"waiting", "over", "restore", "verify", "activate"}
      BY <1>3 DEF Tick, Return, Onward, desktopVars
    <2>. QED
      BY <1>0, <2>1 DEF SnapshotUsable, Sending, Pasted
  <1>4. CASE BringForward
    BY <1>0, <1>4
       DEF BringForward, Activate, SelectTab, JumpFails, FocusElement,
           SettleLook, SettleTimesOut, SnapshotUsable, Sending, Pasted,
           desktopVars
  <1>5. CASE LookAgain
    BY <1>0, <1>5
       DEF LookAgain, Return, Onward, Awaits, SnapshotUsable, Sending, Pasted,
           desktopVars
  <1>6. CASE Checks
    BY <1>0, <1>6, RecheckSees
       DEF Checks, VerifyFirst, Return, Onward, Awaits, Recheck, IdleCheck,
           Verdicts, DeliveryTyped, SnapshotUsable, Snapshots, Sending, Pasted,
           desktopVars
  <1>7. CASE Dispatch
    BY <1>0, <1>7, SaveClipboardSees, DenialIsSeen
       DEF Dispatch, ReadBefore, SaveClipboard, Return, Onward, SetClipboard,
           Send, NothingSent, PasteSettles, RestoreClipboard, Confirm,
           DeliveryTyped, SnapshotUsable, Sending, Pasted, desktopVars,
           deliveryVars
  <1>8. CASE GivesBack
    BY <1>0, <1>8
       DEF GivesBack, RestoreWindow, Onward, RestoreTab, DeliveryTyped,
           SnapshotUsable, Sending, Pasted
  <1>9. CASE \E f \in Fields : GoesTo(f)
    <2>1. PICK f \in Fields : GoesTo(f)
      BY <1>9
    <2>2. /\ front' = Home(f) /\ Home(f) \notin closed
          /\ UNCHANGED closed
          /\ Elsewhere(FALSE)
      BY <2>1 DEF GoesTo
    <2>3. UNCHANGED <<at, snap>>
      BY <1>0, <2>2, ElsewhereSees DEF DeliveryTyped, deliveryVars
    <2>. QED
      BY <1>0, <2>2, <2>3 DEF SnapshotUsable
  <1>10. CASE \E w \in Windows : Closes(w)
    <2>1. PICK w \in Windows : Closes(w)
      BY <1>10
    <2>2. /\ closed' = closed \cup {w}
          /\ front' \in IF front = w THEN (Windows \ closed') \cup {None}
                        ELSE {front}
          /\ Elsewhere(FALSE)
      BY <2>1 DEF Closes
    <2>3. UNCHANGED <<at, snap>>
      BY <1>0, <2>2, ElsewhereSees DEF DeliveryTyped, deliveryVars
    <2>4. front' \notin closed'
      BY <1>0, <2>1, <2>2, NoneIsNothing DEF SnapshotUsable, DestinationTypeOK
    <2>. QED
      BY <1>0, <2>3, <2>4 DEF SnapshotUsable
  <1>11. CASE Types \/ Copies \/ KeysArrive
    BY <1>0, <1>11, ElsewhereSees, KeysArriveSees
       DEF Types, Copies, DeliveryTyped, SnapshotUsable, deliveryVars
  <1>. QED
    BY <1>1, <1>2, <1>3, <1>4, <1>5, <1>6, <1>7, <1>8, <1>9, <1>10, <1>11
       DEF DestinationNext, Capture, Desktop

LEMMA ResultFollows ==
  ASSUME DestinationInvariant, DestinationNext
  PROVE  ResultSoFar'
  <1>0. /\ DestinationTypeOK
        /\ DeliveryTyped
        /\ ResultSoFar
    BY DEF DestinationInvariant
  <1>1. CASE Capture
    BY <1>0, <1>1
       DEF Capture, CaptureWindow, CaptureTab, CaptureField, CaptureCheck,
           ResultSoFar, Unsent, Capturing, deliveryVars
  <1>2. CASE Tick
    BY <1>0, <1>2
       DEF Tick, Return, Onward, ResultSoFar, Unsent, Preparing, Sending,
           Capturing, Pasted
  <1>3. CASE BringForward
    BY <1>0, <1>3
       DEF BringForward, Activate, SelectTab, JumpFails, FocusElement,
           SettleLook, SettleTimesOut, ResultSoFar, Unsent, Preparing, Sending,
           Capturing, Pasted, Waiting
  <1>4. CASE LookAgain
    BY <1>0, <1>4
       DEF LookAgain, Return, Onward, Awaits, ResultSoFar, Unsent, Preparing,
           Sending, Capturing, Pasted
  <1>5. CASE Checks
    BY <1>0, <1>5
       DEF Checks, VerifyFirst, Return, Onward, Awaits, Recheck, IdleCheck,
           ResultSoFar, Unsent, Preparing, Sending, Capturing, Pasted
  <1>6. CASE Dispatch
    BY <1>0, <1>6
       DEF Dispatch, ReadBefore, SaveClipboard, Raises, Return, Onward,
           SetClipboard, Send, NothingSent, PasteSettles, RestoreClipboard,
           Confirm, ResultSoFar, Unsent, Preparing, Sending, Capturing, Pasted,
           deliveryVars
  <1>7. CASE GivesBack
    BY <1>7
       DEF GivesBack, RestoreWindow, Onward, RestoreTab, ResultSoFar, Unsent,
           Preparing, Sending, Capturing, Pasted
  <1>8. CASE Desktop
    BY <1>0, <1>8, ElsewhereSees, KeysArriveSees
       DEF Desktop, GoesTo, Closes, Types, Copies, DeliveryTyped, ResultSoFar,
           deliveryVars
  <1>. QED
    BY <1>1, <1>2, <1>3, <1>4, <1>5, <1>6, <1>7, <1>8 DEF DestinationNext

LEMMA SentOnceKept ==
  ASSUME DestinationInvariant, DestinationNext
  PROVE  SentOnce'
  <1>0. /\ DestinationTypeOK
        /\ DeliveryTyped
        /\ ResultSoFar
        /\ SentOnce
    BY DEF DestinationInvariant
  <1>1. CASE Capture
    BY <1>0, <1>1
       DEF Capture, CaptureWindow, CaptureTab, CaptureField, CaptureCheck,
           SentOnce, Sent, Pasted, Returning, desktopVars
  <1>2. CASE Tick
    BY <1>0, <1>2, TickSees
       DEF Tick, DeliveryTyped, SentOnce, Sent, Pasted, Returning, desktopVars
  <1>3. CASE BringForward
    BY <1>0, <1>3
       DEF BringForward, Activate, SelectTab, FocusElement, SettleLook,
           SettleTimesOut, SentOnce, Sent, Pasted, Returning, desktopVars
  <1>4. CASE LookAgain
    BY <1>0, <1>4
       DEF LookAgain, SentOnce, Sent, Pasted, Returning, desktopVars
  <1>5. CASE Checks
    BY <1>0, <1>5, RecheckSees
       DEF Checks, VerifyFirst, Recheck, IdleCheck, DeliveryTyped, SentOnce,
           Sent, Pasted, Returning, desktopVars
  <1>6. CASE Dispatch
    BY <1>0, <1>6, SaveClipboardSees, DenialIsSeen
       DEF Dispatch, ReadBefore, SaveClipboard, Raises, Return, Onward,
           SetClipboard, Send, NothingSent, PasteSettles, RestoreClipboard,
           Confirm, DeliveryTyped, ResultSoFar, SentOnce, Sent, Unsent,
           Sending, Pasted, Returning, Waiting, desktopVars, deliveryVars
  <1>7. CASE GivesBack
    BY <1>0, <1>7, MoveIsSeen, RefusalIsSeen
       DEF GivesBack, RestoreWindow, Onward, RestoreTab, DeliveryTyped,
           SentOnce, Sent, Pasted, Returning, Waiting
  <1>8. CASE Desktop
    BY <1>0, <1>8, ElsewhereSees, KeysArriveSees
       DEF Desktop, GoesTo, Closes, Types, Copies, DeliveryTyped, SentOnce,
           Sent, deliveryVars
  <1>. QED
    BY <1>1, <1>2, <1>3, <1>4, <1>5, <1>6, <1>7, <1>8 DEF DestinationNext

LEMMA TextStaysSeen ==
  ASSUME DestinationInvariant, DestinationNext
  PROVE  TextIsSeen'
  <1>0. /\ DestinationTypeOK
        /\ DeliveryTyped
        /\ TextIsSeen
    BY DEF DestinationInvariant
  <1>1. CASE Capture
    BY <1>0, <1>1
       DEF Capture, CaptureWindow, CaptureTab, CaptureField, CaptureCheck,
           TextIsSeen, desktopVars
  <1>2. CASE Tick
    BY <1>0, <1>2, TickSees DEF Tick, DeliveryTyped, TextIsSeen, desktopVars
  <1>3. CASE BringForward
    BY <1>0, <1>3
       DEF BringForward, Activate, SelectTab, FocusElement, SettleLook,
           SettleTimesOut, TextIsSeen, desktopVars
  <1>4. CASE LookAgain
    BY <1>0, <1>4 DEF LookAgain, TextIsSeen, desktopVars
  <1>5. CASE Checks
    BY <1>0, <1>5, RecheckSees
       DEF Checks, VerifyFirst, Recheck, IdleCheck, DeliveryTyped, TextIsSeen,
           desktopVars
  <1>6. CASE Dispatch
    BY <1>0, <1>6, SaveClipboardSees, DenialIsSeen
       DEF Dispatch, ReadBefore, SaveClipboard, SetClipboard, Send,
           NothingSent, PasteSettles, RestoreClipboard, Confirm, DeliveryTyped,
           TextIsSeen, desktopVars
  <1>7. CASE GivesBack
    BY <1>0, <1>7, MoveIsSeen, RefusalIsSeen
       DEF GivesBack, RestoreWindow, RestoreTab, DeliveryTyped, TextIsSeen
  <1>8. CASE \E f \in Fields : GoesTo(f)
    BY <1>0, <1>8, ElsewhereSees DEF GoesTo, DeliveryTyped, TextIsSeen
  <1>9. CASE \E w \in Windows : Closes(w)
    BY <1>0, <1>9, ElsewhereSees DEF Closes, DeliveryTyped, TextIsSeen
  <1>10. CASE Types
    <2>1. /\ Focused \in Fields
          /\ content' = [content EXCEPT ![Focused] = Append(@, "typed")]
      BY <1>0, <1>10, FocusedIsField DEF Types
    <2>2. Holds(Append(content[Focused], "typed")) => Holds(content[Focused])
      BY <1>0, <2>1, AppendedText DEF DestinationTypeOK, Texts
    <2>3. \A f \in Fields : Holds(content'[f]) => Holds(content[f])
      BY <1>0, <2>1, <2>2 DEF DestinationTypeOK
    <2>4. seen'.landed = seen.landed
      BY <1>0, <1>10, ElsewhereSees DEF Types, DeliveryTyped
    <2>. QED
      BY <1>0, <2>3, <2>4 DEF TextIsSeen
  <1>11. CASE Copies
    BY <1>0, <1>11, ElsewhereSees DEF Copies, DeliveryTyped, TextIsSeen
  <1>12. CASE KeysArrive
    <2>1. CASE UNCHANGED content
      BY <1>0, <1>12, <2>1, KeysArriveSees DEF DeliveryTyped, TextIsSeen
    <2>2. CASE ~UNCHANGED content
      <3>1. PICK what \in Texts, i \in 1 .. Len(content[Focused]) + 1 :
              /\ Focused \in Fields
              /\ content' = [content EXCEPT ![Focused] = InsertAt(@, i, what)]
              /\ what = "text" => seen'.landed = seen.landed \cup {Focused}
        BY <1>0, <1>12, <2>2, WhatArrives DEF DeliveryTyped
      <3>2. Holds(InsertAt(content[Focused], i, what)) =>
              what = "text" \/ Holds(content[Focused])
        BY <1>0, <3>1, InsertedText DEF DestinationTypeOK
      <3>3. \A f \in Fields : Holds(content'[f]) =>
              Holds(content[f]) \/ (f = Focused /\ what = "text")
        BY <1>0, <3>1, <3>2 DEF DestinationTypeOK
      <3>4. seen.landed \subseteq seen'.landed
        BY <1>0, <1>12, KeysArriveSees DEF DeliveryTyped
      <3>. QED
        BY <1>0, <3>1, <3>3, <3>4 DEF TextIsSeen
    <2>. QED
      BY <2>1, <2>2
  <1>. QED
    BY <1>1, <1>2, <1>3, <1>4, <1>5, <1>6, <1>7, <1>8, <1>9, <1>10, <1>11,
       <1>12
       DEF DestinationNext, Desktop

LEMMA AimKept ==
  ASSUME DestinationInvariant, DestinationNext
  PROVE  Aimed'
  <1>0. /\ DestinationTypeOK
        /\ DeliveryTyped
        /\ SnapshotUsable
        /\ SentOnce
        /\ Aimed
    BY DEF DestinationInvariant
  <1>1. CASE Capture
    BY <1>0, <1>1
       DEF Capture, CaptureWindow, CaptureTab, CaptureField, CaptureCheck,
           SentOnce, Sent, Aimed, Sending, Pasted, Returning, desktopVars
  <1>2. CASE Tick
    BY <1>0, <1>2, TickSees
       DEF Tick, Return, Onward, DeliveryTyped, Aimed, Sending, Focused,
           desktopVars
  <1>3. CASE BringForward
    BY <1>0, <1>3
       DEF BringForward, Activate, SelectTab, JumpFails, FocusElement,
           SettleLook, SettleTimesOut, SentOnce, Sent, Aimed, Sending, Pasted,
           Returning, desktopVars
  <1>4. CASE LookAgain
    BY <1>0, <1>4
       DEF LookAgain, Return, Onward, Awaits, Aimed, Sending, Focused,
           desktopVars
  <1>5. CASE Checks
    BY <1>0, <1>5
       DEF Checks, VerifyFirst, Return, Onward, Awaits, Recheck, IdleCheck,
           Verdicts, FieldHasFocus, SentOnce, Sent, Aimed, Sending, Focused,
           Pasted, Returning, desktopVars
  <1>6. CASE Dispatch
    BY <1>0, <1>6, SaveClipboardSees, DenialIsSeen
       DEF Dispatch, ReadBefore, SaveClipboard, Raises, Return, Onward,
           SetClipboard, Send, NothingSent, PasteSettles, RestoreClipboard,
           Confirm, DeliveryTyped, Aimed, Sending, Focused, desktopVars,
           deliveryVars
  <1>7. CASE GivesBack
    BY <1>0, <1>7, MoveIsSeen, RefusalIsSeen
       DEF GivesBack, RestoreWindow, Onward, RestoreTab, DeliveryTyped, Aimed,
           Sending, Focused
  <1>8. CASE Desktop
    BY <1>0, <1>8, ElsewhereSees, KeysArriveSees
       DEF Desktop, GoesTo, Closes, Types, Copies, DeliveryTyped, Aimed,
           Focused, deliveryVars
  <1>. QED
    BY <1>1, <1>2, <1>3, <1>4, <1>5, <1>6, <1>7, <1>8 DEF DestinationNext

LEMMA ResultStaysTrue ==
  ASSUME DestinationInvariant, DestinationNext
  PROVE  ResultIsTrue'
  <1>0. /\ DestinationTypeOK
        /\ DeliveryTyped
        /\ SnapshotUsable
        /\ ResultSoFar
        /\ SentOnce
        /\ TextIsSeen
        /\ ResultIsTrue
    BY DEF DestinationInvariant
  <1>1. CASE Capture
    BY <1>0, <1>1
       DEF Capture, CaptureWindow, CaptureTab, CaptureField, CaptureCheck,
           ResultSoFar, ResultIsTrue, Unsent, Capturing, Waiting, deliveryVars
  <1>2. CASE Tick
    BY <1>0, <1>2
       DEF Tick, Return, ResultSoFar, ResultIsTrue, Unsent, Preparing, Waiting
  <1>3. CASE BringForward
    BY <1>0, <1>3
       DEF BringForward, Activate, SelectTab, JumpFails, FocusElement,
           SettleLook, SettleTimesOut, ResultSoFar, ResultIsTrue, Unsent,
           Preparing, Waiting
  <1>4. CASE LookAgain
    BY <1>0, <1>4
       DEF LookAgain, Return, Awaits, ResultSoFar, ResultIsTrue, Unsent,
           Preparing, Waiting
  <1>5. CASE Checks
    BY <1>0, <1>5, RecheckSees
       DEF Checks, VerifyFirst, Return, Awaits, Recheck, IdleCheck,
           DeliveryTyped, SentOnce, Sent, ResultIsTrue, Pasted, Returning,
           desktopVars
  <1>6. CASE \/ ReadBefore
              \/ SaveClipboard
              \/ SetClipboard
              \/ Send
              \/ NothingSent
              \/ PasteSettles
              \/ RestoreClipboard
    BY <1>0, <1>6
       DEF ReadBefore, SaveClipboard, Raises, Return, SetClipboard, Send,
           NothingSent, PasteSettles, RestoreClipboard, ResultSoFar, SentOnce,
           Sent, ResultIsTrue, Unsent, Sending, Pasted, Waiting, desktopVars,
           deliveryVars
  <1>7. CASE Confirm
    <2>1. result' \in {"uncertain", "inserted"} /\ UNCHANGED <<seen, snap>>
      BY <1>7 DEF Confirm, Return, deliveryVars
    <2>2. ASSUME result' = "inserted"
          PROVE  seen.landed = {snap.field}
      <3>1. OneInsertion(before, content[snap.field])
        BY <1>7, <2>2 DEF Confirm, Return, Confirmed
      <3>2. /\ snap.field \in Fields
            /\ content[snap.field] \in Seq(Texts)
        BY <1>0, <1>7 DEF Confirm, SnapshotUsable, DestinationTypeOK
      <3>3. snap.field \in seen.landed
        BY <1>0, <3>1, <3>2, InsertionHolds DEF TextIsSeen
      <3>. QED
        BY <1>0, <3>3 DEF SentOnce
    <2>. QED
      BY <2>1, <2>2 DEF ResultIsTrue
  <1>8. CASE GivesBack
    BY <1>0, <1>8, MoveIsSeen, RefusalIsSeen
       DEF GivesBack, RestoreWindow, RestoreTab, DeliveryTyped, ResultIsTrue
  <1>9. CASE Desktop
    BY <1>0, <1>9, ElsewhereSees, KeysArriveSees
       DEF Desktop, GoesTo, Closes, Types, Copies, DeliveryTyped, SentOnce,
           ResultIsTrue, deliveryVars
  <1>. QED
    BY <1>1, <1>2, <1>3, <1>4, <1>5, <1>6, <1>7, <1>8, <1>9
       DEF DestinationNext, Dispatch

LEMMA StrayKept ==
  ASSUME DestinationInvariant, DestinationNext
  PROVE  StrayNeedsMove'
  <1>0. /\ DestinationTypeOK
        /\ DeliveryTyped
        /\ SentOnce
        /\ Aimed
        /\ StrayNeedsMove
    BY DEF DestinationInvariant
  <1>1. CASE Capture
    BY <1>0, <1>1
       DEF Capture, CaptureWindow, CaptureTab, CaptureField, CaptureCheck,
           SentOnce, Sent, StrayNeedsMove, Pasted, Returning
  <1>2. CASE Tick
    BY <1>0, <1>2, TickSees DEF Tick, DeliveryTyped, StrayNeedsMove
  <1>3. CASE BringForward
    BY <1>0, <1>3
       DEF BringForward, Activate, SelectTab, FocusElement, SettleLook,
           SettleTimesOut, StrayNeedsMove
  <1>4. CASE LookAgain
    BY <1>0, <1>4 DEF LookAgain, StrayNeedsMove
  <1>5. CASE Checks
    BY <1>0, <1>5, RecheckSees
       DEF Checks, VerifyFirst, Recheck, IdleCheck, DeliveryTyped, SentOnce,
           Sent, StrayNeedsMove, Pasted, Returning
  <1>6. CASE Dispatch
    BY <1>0, <1>6, SaveClipboardSees, DenialIsSeen
       DEF Dispatch, ReadBefore, SaveClipboard, SetClipboard, Send,
           NothingSent, PasteSettles, RestoreClipboard, Confirm, DeliveryTyped,
           StrayNeedsMove, deliveryVars
  <1>7. CASE GivesBack
    BY <1>0, <1>7, MoveIsSeen, RefusalIsSeen
       DEF GivesBack, RestoreWindow, RestoreTab, DeliveryTyped, StrayNeedsMove
  <1>8. CASE \E f \in Fields : GoesTo(f)
    BY <1>0, <1>8, ElsewhereSees DEF GoesTo, DeliveryTyped, StrayNeedsMove
  <1>9. CASE \E w \in Windows : Closes(w)
    BY <1>0, <1>9, ElsewhereSees DEF Closes, DeliveryTyped, StrayNeedsMove
  <1>10. CASE Types \/ Copies
    BY <1>0, <1>10, ElsewhereSees
       DEF Types, Copies, DeliveryTyped, StrayNeedsMove, deliveryVars
  <1>11. CASE KeysArrive
    <2>1. /\ keys # None
          /\ UNCHANGED snap
          /\ seen'.moved = seen.moved
          /\ \/ seen'.landed = seen.landed
             \/ seen'.landed = seen.landed \cup {Focused}
      BY <1>0, <1>11, KeysArriveSees DEF DeliveryTyped, deliveryVars
    <2>2. /\ seen.landed = {}
          /\ seen.moved \/ Focused = snap.field
      BY <1>0, <2>1 DEF SentOnce, Aimed
    <2>. QED
      BY <2>1, <2>2 DEF StrayNeedsMove
  <1>. QED
    BY <1>1, <1>2, <1>3, <1>4, <1>5, <1>6, <1>7, <1>8, <1>9, <1>10, <1>11
       DEF DestinationNext, Desktop

LEMMA ClipboardStaysKept ==
  ASSUME DestinationInvariant, DestinationNext
  PROVE  ClipboardKept'
  <1>0. /\ DestinationTypeOK
        /\ DeliveryTyped
        /\ ResultSoFar
        /\ ClipboardKept
    BY DEF DestinationInvariant
  <1>1. CASE Capture
    BY <1>0, <1>1
       DEF Capture, CaptureWindow, CaptureTab, CaptureField, CaptureCheck,
           ClipboardKept, Pasting, Untouched, Unsent, Capturing, Pasted,
           desktopVars
  <1>2. CASE Tick
    BY <1>0, <1>2, TickSees
       DEF Tick, Return, Onward, DeliveryTyped, ClipboardKept, Pasting,
           Untouched, Unsent, Preparing, Pasted, desktopVars
  <1>3. CASE BringForward
    BY <1>0, <1>3
       DEF BringForward, Activate, SelectTab, JumpFails, FocusElement,
           SettleLook, SettleTimesOut, ClipboardKept, Pasting, Untouched,
           Unsent, Preparing, Pasted, desktopVars
  <1>4. CASE LookAgain
    BY <1>0, <1>4
       DEF LookAgain, Return, Onward, Awaits, ClipboardKept, Pasting,
           Untouched, Unsent, Preparing, Pasted, desktopVars
  <1>5. CASE Checks
    BY <1>0, <1>5, RecheckSees
       DEF Checks, VerifyFirst, Return, Onward, Awaits, Recheck, IdleCheck,
           DeliveryTyped, ClipboardKept, Pasting, Untouched, Unsent, Preparing,
           Sending, Pasted, desktopVars
  <1>6. CASE \/ ReadBefore
              \/ SetClipboard
              \/ Send
              \/ NothingSent
              \/ PasteSettles
              \/ RestoreClipboard
              \/ Confirm
    BY <1>0, <1>6, DenialIsSeen
       DEF ReadBefore, SetClipboard, Send, NothingSent, Return, Onward,
           PasteSettles, RestoreClipboard, PutBack, Raises, Confirm,
           DeliveryTyped, ClipboardKept, Pasting, Untouched, Unsent, Preparing,
           Sending, Capturing, Pasted, Returning, Waiting, desktopVars,
           deliveryVars
  <1>7. CASE SaveClipboard
    <2>1. /\ at = "save"
          /\ UNCHANGED <<clipboard, snap>>
          /\ seen'.users = seen.users
          /\ \/ saved' = clipboard /\ at' = "set"
             \/ result' = "uncertain" /\ at' \in {"restore", "over"}
      BY <1>0, <1>7, SaveClipboardSees
         DEF SaveClipboard, Raises, Return, Onward, Waiting, DeliveryTyped,
             desktopVars
    <2>2. clipboard = seen.users
      BY <1>0, <2>1
         DEF ClipboardKept, Untouched, Unsent, Preparing, Sending, Capturing
    <2>3. seen.users # "text"
      BY <1>0, NoneIsNothing DEF DeliveryTyped, Observations
    <2>4. snap.strategy = "paste"
      BY <1>0, <2>1 DEF ClipboardKept
    <2>. QED
      BY <2>1, <2>2, <2>3, <2>4
         DEF ClipboardKept, Pasting, Untouched, Unsent, Preparing, Sending,
             Capturing, Pasted, Returning, Waiting
  <1>8. CASE GivesBack
    BY <1>0, <1>8, MoveIsSeen, RefusalIsSeen
       DEF GivesBack, RestoreWindow, Onward, RestoreTab, DeliveryTyped,
           ClipboardKept, Pasting, Untouched, Unsent, Preparing, Sending,
           Capturing, Pasted, Returning
  <1>9. CASE Desktop
    BY <1>0, <1>9, ElsewhereSees, KeysArriveSees
       DEF Desktop, GoesTo, Closes, Types, Copies, DeliveryTyped,
           ClipboardKept, Pasting, Untouched, deliveryVars
  <1>. QED
    BY <1>1, <1>2, <1>3, <1>4, <1>5, <1>6, <1>7, <1>8, <1>9
       DEF DestinationNext, Dispatch

LEMMA FocusStaysKept ==
  ASSUME DestinationInvariant, DestinationNext
  PROVE  FocusKept'
  <1>0. /\ DestinationTypeOK
        /\ DeliveryTyped
        /\ SnapshotUsable
        /\ FocusKept
    BY DEF DestinationInvariant
  <1> USE DEF AtHome, BackAt, TabLost, TabsKept, Remembered
  <1>1. CASE Capture
    <2>1. /\ UNCHANGED <<desktopVars, prev, seen>>
          /\ ~Jumped /\ seen.from = Nowhere
      BY <1>0, <1>1
         DEF Capture, CaptureWindow, CaptureTab, CaptureField, CaptureCheck,
             FocusKept, Capturing, deliveryVars
    <2>. QED
      BY <1>0, <1>1, <2>1
         DEF Capture, CaptureWindow, CaptureTab, CaptureField, CaptureCheck,
             FocusKept, Capturing, Returning, Jumped, desktopVars
  <1>2. CASE Tick
    <2>1. /\ at = "waiting" /\ UNCHANGED <<front, closed, tab, snap>>
          /\ at' \in {"waiting", "over", "restore", "verify", "activate"}
          /\ at' = "restore" => Jumped
      BY <1>2 DEF Tick, Return, Onward, desktopVars
    <2>2. CASE at' # "activate"
      BY <1>0, <1>2, <2>1, <2>2, TickSees
         DEF FocusKept, DeliveryTyped, Jumped, Capturing, Returning
    <2>3. CASE at' = "activate" /\ front = None
      BY <1>0, <1>2, <2>1, <2>3, TickSees
         DEF FocusKept, DeliveryTyped, Jumped, Capturing, Returning,
             PlaceInFront
    <2>4. CASE at' = "activate" /\ front # None
      <3>1. /\ seen'.from = PlaceInFront(prev'.tab)
            /\ prev'.jumped
            /\ prev'.window = front
            /\ prev'.tab \in {tab[front], None}
            /\ tab[front] \in Tabs
            /\ front \in Windows \ closed
        BY <1>0, <1>2, <2>1, <2>4, TickSees
           DEF DeliveryTyped, DestinationTypeOK, SnapshotUsable
      <3>2. /\ seen'.from.window = front
            /\ seen'.from.tab = tab[front]
            /\ seen'.from.read = (prev'.tab # None)
        BY <2>4, <3>1 DEF PlaceInFront
      <3>. QED
        BY <2>1, <2>4, <3>1, <3>2, NoneIsNothing
           DEF FocusKept, Jumped, Capturing, Returning
    <2>. QED
      BY <2>2, <2>3, <2>4
  <1>3. CASE BringForward
    <2>1. CASE SelectTab
      <3>1. /\ at = "select" /\ at' \in {"focus", "restore"}
            /\ UNCHANGED <<front, closed, prev, snap, seen>>
            /\ \/ UNCHANGED tab
               \/ tab' = [tab EXCEPT ![snap.window] = snap.tab]
        BY <2>1 DEF SelectTab, JumpFails
      <3>2. \A w \in Windows : w # snap.window => tab'[w] = tab[w]
        BY <1>0, <3>1 DEF DestinationTypeOK
      <3>. QED
        BY <1>0, <3>1, <3>2 DEF FocusKept, Jumped, Capturing, Returning
    <2>2. CASE ~SelectTab
      BY <1>0, <1>3, <2>2, NoFocusIsNowhere
         DEF BringForward, Activate, JumpFails, FocusElement, SettleLook,
             SettleTimesOut, FocusKept, Capturing, Returning, Jumped,
             desktopVars
    <2>. QED
      BY <2>1, <2>2
  <1>4. CASE LookAgain
    BY <1>0, <1>4
       DEF LookAgain, Return, Jumped, Awaits, FocusKept, Capturing, desktopVars
  <1>5. CASE Checks
    BY <1>0, <1>5, RecheckSees
       DEF Checks, VerifyFirst, Return, Onward, Jumped, Awaits, Recheck,
           IdleCheck, DeliveryTyped, FocusKept, Capturing, Returning,
           desktopVars
  <1>6. CASE Dispatch
    BY <1>0, <1>6, SaveClipboardSees, DenialIsSeen
       DEF Dispatch, ReadBefore, SaveClipboard, Raises, Return, Onward, Jumped,
           SetClipboard, Send, NothingSent, PasteSettles, RestoreClipboard,
           Confirm, DeliveryTyped, FocusKept, Capturing, Returning,
           desktopVars, deliveryVars
  <1>7. CASE RestoreWindow
    <2>1. /\ at = "restore" /\ UNCHANGED <<closed, tab, snap>>
          /\ Jumped
      BY <1>0, <1>7 DEF RestoreWindow, FocusKept, Returning
    <2>2. CASE prev.window \in closed \cup {None}
      <3>1. /\ at' \in {"waiting", "over"}
            /\ prev' = NoFocus
            /\ UNCHANGED <<front, seen>>
        BY <1>7, <2>2 DEF RestoreWindow, Onward
      <3>2. seen.from = Nowhere
        BY <1>0, <2>1, <2>2, NoneIsNothing DEF FocusKept
      <3>. QED
        BY <2>1, <3>1, <3>2, NoFocusIsNowhere
           DEF FocusKept, Capturing, Returning, Jumped
    <2>3. CASE prev.window \notin closed \cup {None}
      <3>1. /\ at' = "restore tab" /\ UNCHANGED prev
            /\ \/ front' = prev.window /\ seen'.from = seen.from
               \/ seen'.from = Nowhere
        BY <1>0, <1>7, <2>3, MoveIsSeen, RefusalIsSeen
           DEF RestoreWindow, DeliveryTyped
      <3>. QED
        BY <1>0, <2>1, <2>3, <3>1 DEF FocusKept, Capturing, Returning, Jumped
    <2>. QED
      BY <2>2, <2>3
  <1>8. CASE RestoreTab
    <2>1. /\ at = "restore tab" /\ at' \in {"waiting", "over"}
          /\ prev' = NoFocus
          /\ UNCHANGED <<front, closed, snap>>
      BY <1>8 DEF RestoreTab, Onward
    <2>2. \/ seen'.from = Nowhere
          \/ /\ seen'.from = seen.from
             /\ \/ prev.tab = None /\ UNCHANGED tab
                \/ /\ prev.tab # None
                   /\ tab' = [tab EXCEPT ![prev.window] = prev.tab]
      BY <1>0, <1>8, MoveIsSeen, RefusalIsSeen DEF RestoreTab, DeliveryTyped
    <2>3. ASSUME seen'.from = seen.from, seen.from # Nowhere,
                 \/ prev.tab = None /\ UNCHANGED tab
                 \/ /\ prev.tab # None
                    /\ tab' = [tab EXCEPT ![prev.window] = prev.tab]
          PROVE  AtHome' /\ TabsKept' /\ Remembered'
      <3>1. /\ front = seen.from.window
            /\ prev.window = seen.from.window
            /\ prev.tab = (IF seen.from.read THEN seen.from.tab ELSE None)
            /\ seen.from.tab \in Tabs
            /\ seen.from.window \in Windows \ closed
            /\ seen.from.read \in BOOLEAN
        BY <1>0, <2>1, <2>3
           DEF FocusKept, Returning, DeliveryTyped, Observations, Places
      <3>2. seen.from.read => tab'[seen.from.window] = seen.from.tab
        BY <1>0, <2>3, <3>1, NoneIsNothing DEF DestinationTypeOK
      <3>3. ~seen.from.read => UNCHANGED tab
        BY <2>3, <3>1
      <3>. QED
        BY <1>0, <2>1, <2>3, <3>1, <3>2, <3>3, NoFocusIsNowhere
           DEF FocusKept, Jumped
    <2>4. AtHome' /\ TabsKept' /\ Remembered'
      BY <2>1, <2>2, <2>3, NoFocusIsNowhere DEF Jumped
    <2>. QED
      BY <2>1, <2>4, NoFocusIsNowhere
         DEF FocusKept, Jumped, Capturing, Returning
  <1>9. CASE Desktop
    <2>1. CASE KeysArrive \/ Copies
      BY <1>0, <2>1, ElsewhereSees, KeysArriveSees
         DEF Copies, DeliveryTyped, FocusKept, Jumped, deliveryVars
    <2>2. CASE ~(KeysArrive \/ Copies)
      <3>1. Elsewhere(FALSE)
        BY <1>9, <2>2 DEF Desktop, GoesTo, Closes, Types
      <3>2. /\ seen'.from = Nowhere
            /\ UNCHANGED <<at, prev, snap>>
        BY <1>0, <3>1, ElsewhereSees DEF DeliveryTyped, deliveryVars
      <3>. QED
        BY <1>0, <3>2 DEF FocusKept, Jumped
    <2>. QED
      BY <2>1, <2>2
  <1>. QED
    BY <1>1, <1>2, <1>3, <1>4, <1>5, <1>6, <1>7, <1>8, <1>9
       DEF DestinationNext, GivesBack

-----------------------------------------------------------------------------
(* The theorems. *)

LEMMA DestinationStarts == DestinationInit => DestinationInvariant
  <1> SUFFICES ASSUME DestinationInit
               PROVE  DestinationInvariant
    OBVIOUS
  <1>1. DestinationTypeOK
    <2>1. /\ \A w \in Windows : \E t \in Tabs : WindowOf[t] = w
          /\ \A t \in Tabs : \E f \in Fields : TabOf[f] = t
      BY DestinationAssumption DEF DestinationConstantsOK
    <2>2. /\ tab \in [Windows -> Tabs]
          /\ focus \in [Tabs -> Fields]
      BY <2>1 DEF DestinationInit
    <2>3. content \in [Fields -> Seq(Texts)]
      <3>1. <<>> \in Seq(Texts)
        OBVIOUS
      <3>. QED
        BY <3>1 DEF DestinationInit
    <2>4. /\ front \in Windows
          /\ closed = {}
          /\ clipboard \in {"old", None}
          /\ keys = None
          /\ result = "none"
          /\ input = FALSE
          /\ stable = FALSE
      BY DEF DestinationInit
    <2>. QED
      BY <2>2, <2>3, <2>4 DEF DestinationTypeOK, Results
  <1>2. DeliveryTyped
    <2>1. snap \in Snapshots
      BY DEF DestinationInit, Snapshots
    <2>2. NoFocus \in Foci /\ Nowhere \in Places
      BY NoFocusIsNowhere
    <2>3. seen \in Observations
      BY <2>2 DEF DestinationInit, Observations
    <2>. QED
      BY <2>1, <2>2, <2>3
         DEF DestinationInit, DeliveryTyped, Stages, Unsent, Capturing
  <1>3. /\ seen.landed = {}
        /\ seen.from = Nowhere
        /\ seen.users = clipboard
    BY DEF DestinationInit
  <1>4. SnapshotUsable
    BY <1>3, NoFocusIsNowhere, NoneIsNothing
       DEF DestinationInit, SnapshotUsable, Sending, Pasted
  <1>5. ResultSoFar /\ ResultIsTrue
    BY DEF DestinationInit, ResultSoFar, ResultIsTrue, Waiting, Pasted
  <1>6. SentOnce /\ StrayNeedsMove
    BY <1>3 DEF DestinationInit, SentOnce, Sent, StrayNeedsMove
  <1>7. TextIsSeen /\ Aimed
    BY DEF DestinationInit, TextIsSeen, Holds, Aimed, Sending
  <1>8. ClipboardKept
    BY <1>3, NoneIsNothing
       DEF DestinationInit, ClipboardKept, Pasting, Pasted, Untouched, Unsent,
           Capturing, Returning
  <1>9. FocusKept
    BY <1>3, NoFocusIsNowhere
       DEF DestinationInit, FocusKept, AtHome, TabsKept, Remembered, Jumped,
           Returning
  <1>. QED
    BY <1>1, <1>2, <1>4, <1>5, <1>6, <1>7, <1>8, <1>9
       DEF DestinationInvariant

LEMMA DestinationStuttersSafely ==
  ASSUME DestinationInvariant, UNCHANGED destinationVars
  PROVE  DestinationInvariant'
  <1> USE DEF destinationVars, desktopVars, deliveryVars
  <1>0. DestinationTypeOK'
    BY DEF DestinationInvariant, DestinationTypeOK
  <1>1. DeliveryTyped' /\ SnapshotUsable'
    BY DEF DestinationInvariant, DeliveryTyped, SnapshotUsable
  <1>2. ResultSoFar' /\ SentOnce' /\ TextIsSeen'
    BY DEF DestinationInvariant, ResultSoFar, SentOnce, Sent, TextIsSeen
  <1>3. Aimed' /\ ResultIsTrue' /\ StrayNeedsMove'
    BY DEF DestinationInvariant, Aimed, Focused, ResultIsTrue, StrayNeedsMove
  <1>4. ClipboardKept' /\ FocusKept'
    BY DEF DestinationInvariant, ClipboardKept, Pasting, Untouched, FocusKept,
           AtHome, BackAt, TabLost, TabsKept, Remembered, Jumped
  <1>. QED
    BY <1>0, <1>1, <1>2, <1>3, <1>4 DEF DestinationInvariant

LEMMA DestinationSteps ==
  ASSUME DestinationInvariant, DestinationNext
  PROVE  DestinationInvariant'
  <1>1. DestinationTypeOK'
    BY FrontTyped, TabsTyped, FocusTyped, ContentTyped, RestTyped
       DEF DestinationTypeOK
  <1>2. DeliveryTyped'
    BY StagesKnown, SnapshotTyped, SavedTyped, PrevTyped, SeenTyped
       DEF DeliveryTyped
  <1>. QED
    BY <1>1, <1>2, SnapshotStaysUsable, ResultFollows, SentOnceKept,
       TextStaysSeen, AimKept, ResultStaysTrue, StrayKept, ClipboardStaysKept,
       FocusStaysKept
       DEF DestinationInvariant

LEMMA DestinationInvariantAlways ==
  DestinationSpec => []DestinationInvariant
  <1>1. DestinationInvariant /\ [DestinationNext]_destinationVars
          => DestinationInvariant'
    BY DestinationSteps, DestinationStuttersSafely
  <1>. QED
    BY <1>1, DestinationStarts, PTL DEF DestinationSpec

\* An attempt that reports "inserted" has put the text into the field of its
\* snapshot and into no other, one that reports "failed" has put it nowhere and
\* never will, and it strays only where the focus moved after the last look
\* (verify, dispatch, confirm).
THEOREM OutcomeIsAlwaysTrue == DestinationSpec => []OutcomeIsTrue
  <1>1. DestinationInvariant => OutcomeIsTrue
    BY DEF DestinationInvariant, OutcomeIsTrue
  <1>. QED
    BY <1>1, DestinationInvariantAlways, PTL

\* Whatever way a paste or a jump ends, the clipboard holds what the user left
\* in it and he is back at the window and tab he was taken from, but for a
\* copy or a move of his own and for what Windows refused (the finally clauses
\* of dispatch and bring_forward, restore).
THEOREM BorrowedIsGivenBack == DestinationSpec => []BorrowedGivenBack
  <1>1. ASSUME DestinationInvariant
        PROVE  ClipboardGivenBack
    BY <1>1, NoneIsNothing
       DEF DestinationInvariant, ClipboardKept, ClipboardGivenBack, Pasting,
           Pasted
  <1>2. ASSUME DestinationInvariant
        PROVE  FocusGivenBack
    BY <1>2
       DEF DestinationInvariant, FocusKept, FocusGivenBack, AtHome, Jumped,
           Capturing
  <1>. QED
    BY <1>1, <1>2, DestinationInvariantAlways, PTL DEF BorrowedGivenBack

-----------------------------------------------------------------------------
(* The ledger of the insertion attempts: what every implementation inherits, *)
(* its type and the truth of what it says, for any set of runs. *)

LedgerInv == LedgerTypeOK /\ LedgerTruth

\* Every step of the ledger keeps its type and its truth.
LEMMA LedgerStep ==
    LedgerInv /\ [LedgerNext]_ledgerVars => LedgerInv'
<1> SUFFICES ASSUME LedgerInv, [LedgerNext]_ledgerVars
             PROVE  LedgerInv'
    OBVIOUS
<1> USE DEF LedgerInv, LedgerTypeOK, LedgerTruth
<1>1. ASSUME NEW r \in Runs, Open(r)
      PROVE  LedgerInv'
    BY <1>1 DEF Open
<1>2. ASSUME NEW r \in Runs, Type(r)
      PROVE  LedgerInv'
    BY <1>2 DEF Type
<1>3. ASSUME NEW r \in Runs, Disarm(r)
      PROVE  LedgerInv'
    BY <1>3 DEF Disarm
<1>4. ASSUME NEW r \in Runs, Settle(r)
      PROVE  LedgerInv'
    BY <1>4 DEF Settle
<1>5. ASSUME NEW r \in Runs, Forget(r)
      PROVE  LedgerInv'
    BY <1>5 DEF Forget
<1>6. CASE Drop
    BY <1>6 DEF Drop
<1>7. CASE Restart
    BY <1>7 DEF Restart
<1>8. CASE UNCHANGED ledgerVars
    BY <1>8 DEF ledgerVars
<1> QED
    BY <1>1, <1>2, <1>3, <1>4, <1>5, <1>6, <1>7, <1>8 DEF LedgerNext

\* The ledger is always true: clean means that nothing was typed, inserted that
\* something was, and only an open claim, or a run deleted under it, is armed.
THEOREM LedgerIsTrue == LedgerSpec => [](LedgerTypeOK /\ LedgerTruth)
<1>1. LedgerInit => LedgerInv
    BY DEF LedgerInit, LedgerInv, LedgerTypeOK, LedgerTruth
<1>2. QED
    BY <1>1, LedgerStep, PTL DEF LedgerSpec, LedgerInv

=============================================================================
