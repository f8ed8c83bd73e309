-------------------------- MODULE ChunkSchedulerProofs --------------------------
(***************************************************************************)
(* Proofs about the two models of ChunkScheduler (src/stream-schedule.ts): *)
(* TurnBudget, for any number of streams, any budget and any times of the  *)
(* calls, and CallPrediction, for any codec, any block and any times.      *)
(***************************************************************************)
EXTENDS TurnBudget, CallPrediction, FiniteSetTheorems, SequenceTheorems,
        FunctionTheorems, TLAPS

--------------------------------------------------------------------------------
(* TurnBudget.                                                             *)

(* One call at most goes on after a turn, and it finds a new budget. *)
ResumedInv ==
    \A s \in Streams :
        pc[s] = "resumed" =>
            /\ spent = 0
            /\ \A t \in Streams : pc[t] = "resumed" => t = s

(* The budget is overdrawn by less than one call; what the loop was held      *)
(* beyond it is the time of calls that threw.                              *)
SpentInv ==
    /\ spent < Yield + MaxCost
    /\ heldFor <= spent + MaxCost * Cardinality(Failed)

BudgetInv ==
    /\ TypeOK
    /\ NoLostTurn
    /\ QueueIsExact
    /\ ResumedInv
    /\ SpentInv
    /\ WaitIsBounded

--------------------------------------------------------------------------------

(* The failed streams are finitely many, and a stream that fails counts    *)
(* once.                                                                   *)
LEMMA FailedIsFinite ==
    /\ IsFiniteSet(Failed)
    /\ Cardinality(Failed) \in Nat
<1>1. Failed \in SUBSET Streams
  BY DEF Failed
<1> QED
  BY <1>1, StreamsAssumption, FS_Subset, FS_CardinalityType

(* A bound on the time of failed calls grows by one call with each stream  *)
(* that fails.                                                             *)
LEMMA OneMoreFailed ==
    ASSUME TypeOK, NEW s \in Streams, pc[s] # "failed",
           pc' = [pc EXCEPT ![s] = "failed"]
    PROVE  Cardinality(Failed') = Cardinality(Failed) + 1
<1>1. Failed' = Failed \cup {s}
  BY DEF Failed, TypeOK
<1>2. s \notin Failed
  BY DEF Failed
<1> QED
  BY <1>1, <1>2, FailedIsFinite, FS_AddElement

(* A queue without repetitions is no longer than there are streams. *)
LEMMA QueueFits ==
    ASSUME NEW q \in Seq(Streams),
           \A i, j \in 1 .. Len(q) : q[i] = q[j] => i = j
    PROVE  Len(q) <= Cardinality(Streams)
<1>1. q \in [1 .. Len(q) -> Streams] /\ Len(q) \in Nat
  BY LenProperties
<1>2. q \in Injection(1 .. Len(q), Streams)
  BY <1>1, Fun_IsInj
<1>3. Cardinality(1 .. Len(q)) <= Cardinality(Streams)
  BY <1>2, StreamsAssumption, FS_Injection
<1>4. Cardinality(1 .. Len(q)) = Len(q)
  <2>1. \A n \in Int : Cardinality(1 .. n) = IF 1 > n THEN 0 ELSE n - 1 + 1
    BY FS_Interval
  <2> QED
    BY <1>1, <2>1
<1> QED
  BY <1>3, <1>4

LEMMA BudgetInitially == Init => BudgetInv
<1> SUFFICES ASSUME Init
             PROVE  BudgetInv
  OBVIOUS
<1> USE YieldAssumption, CostsAssumption DEF Init
<1>1. TypeOK
  BY EmptySeq DEF TypeOK, Places
<1>2. NoLostTurn /\ QueueIsExact /\ ResumedInv /\ WaitIsBounded
  BY DEF NoLostTurn, QueueIsExact, ResumedInv, WaitIsBounded, Waiting
<1>3. SpentInv
  <2>1. MaxCost * Cardinality(Failed) \in Nat
    BY FailedIsFinite
  <2> QED
    BY <2>1 DEF SpentInv
<1> QED
  BY <1>1, <1>2, <1>3 DEF BudgetInv

(* Every step keeps the invariant. *)
LEMMA BudgetInductive == BudgetInv /\ [Next]_vars => BudgetInv'
<1> SUFFICES ASSUME BudgetInv, [Next]_vars
             PROVE  BudgetInv'
  OBVIOUS
<1> USE YieldAssumption, CostsAssumption DEF BudgetInv, TypeOK, Places
<1>1. Cardinality(Failed) \in Nat /\ IsFiniteSet(Failed)
  BY FailedIsFinite
<1>2. ASSUME NEW s \in Streams, WaitForTurn(s)
      PROVE  BudgetInv'
  <2> USE <1>2 DEF WaitForTurn, Calls, ThreadIsFree, scheduleTurn
  <2>1. /\ waiting' \in Seq(Streams)
        /\ Len(waiting') = Len(waiting) + 1
        /\ \A i \in 1 .. Len(waiting) : waiting'[i] = waiting[i]
        /\ waiting'[Len(waiting) + 1] = s
        /\ waiting' # <<>>
    BY AppendProperties
  <2>2. Len(waiting) \in Nat
    BY LenProperties
  <2>3. \A i \in 1 .. Len(waiting) : waiting[i] \in Streams /\ waiting[i] # s
    BY ElementOfSeq DEF QueueIsExact, Waiting
  <2>4. \A i \in 1 .. Len(waiting') :
            \/ i \in 1 .. Len(waiting)
            \/ i = Len(waiting) + 1
    BY <2>1, <2>2
  <2>5. TypeOK'
    BY <2>1
  <2>6. NoLostTurn'
    BY DEF NoLostTurn
  <2>7. QueueIsExact'
    <3>1. \A t \in Streams : pc'[t] = "waiting" <=> Waiting(t)'
      BY <2>1, <2>2, <2>4 DEF QueueIsExact, Waiting
    <3>2. \A i, j \in 1 .. Len(waiting') : waiting'[i] = waiting'[j] => i = j
      BY <2>1, <2>2, <2>3, <2>4 DEF QueueIsExact
    <3> QED
      BY <3>1, <3>2 DEF QueueIsExact
  <2>8. ResumedInv'
    BY DEF ResumedInv
  <2>9. SpentInv'
    <3>1. Failed' = Failed
      BY DEF Failed
    <3> QED
      BY <3>1 DEF SpentInv
  <2>10. WaitIsBounded'
    <3>1. Len(waiting') <= Cardinality(Streams)
      BY <2>1, <2>7, QueueFits DEF QueueIsExact
    <3>2. pc[s] # "resumed"
      BY DEF ResumedInv
    <3>3. waits' = [waits EXCEPT ![s] = 0]
      BY <3>2
    <3> QED
      BY <2>1, <2>2, <2>3, <2>4, <3>1, <3>3 DEF WaitIsBounded
  <2> QED
    BY <2>5, <2>6, <2>7, <2>8, <2>9, <2>10
<1>3. ASSUME NEW s \in Streams, CallAsync(s)
      PROVE  BudgetInv'
  <2> USE <1>3 DEF CallAsync, Calls, ThreadIsFree
  <2>1. TypeOK' /\ NoLostTurn' /\ ResumedInv'
    BY DEF NoLostTurn, ResumedInv
  <2>2. QueueIsExact' /\ WaitIsBounded'
    BY DEF QueueIsExact, Waiting, WaitIsBounded
  <2>3. SpentInv'
    <3>1. Failed' = Failed
      BY DEF Failed
    <3> QED
      BY <3>1 DEF SpentInv
  <2> QED
    BY <2>1, <2>2, <2>3
<1>4. ASSUME NEW s \in Streams, NEW elapsed \in Costs, CallSync(s, elapsed)
      PROVE  BudgetInv'
  <2> USE <1>4 DEF CallSync, Calls, ThreadIsFree, scheduleTurn
  <2>1. TypeOK' /\ NoLostTurn'
    BY DEF NoLostTurn
  <2>2. ResumedInv'
    BY DEF ResumedInv
  <2>3. QueueIsExact' /\ WaitIsBounded'
    BY DEF QueueIsExact, Waiting, WaitIsBounded
  <2>4. SpentInv'
    <3>1. Failed' = Failed
      BY DEF Failed
    <3>2. MaxCost * Cardinality(Failed) \in Nat
      BY <1>1
    <3> QED
      BY <3>1, <3>2 DEF SpentInv
  <2> QED
    BY <2>1, <2>2, <2>3, <2>4
<1>5. ASSUME NEW s \in Streams, NEW elapsed \in Costs,
             CallThrows(s, elapsed)
      PROVE  BudgetInv'
  <2> USE <1>5 DEF CallThrows, Calls, ThreadIsFree
  <2>1. TypeOK' /\ NoLostTurn'
    BY DEF NoLostTurn
  <2>2. ResumedInv'
    BY DEF ResumedInv
  <2>3. QueueIsExact' /\ WaitIsBounded'
    BY DEF QueueIsExact, Waiting, WaitIsBounded
  <2>4. SpentInv'
    <3>1. Cardinality(Failed') = Cardinality(Failed) + 1
      BY OneMoreFailed
    <3>2. MaxCost * (Cardinality(Failed) + 1)
            = MaxCost * Cardinality(Failed) + MaxCost
      BY <1>1
    <3>3. MaxCost * Cardinality(Failed) \in Nat
      BY <1>1
    <3> QED
      BY <3>1, <3>2, <3>3 DEF SpentInv
  <2> QED
    BY <2>1, <2>2, <2>3, <2>4
<1>6. ASSUME NEW s \in Streams, NEW place \in {"idle", "failed"},
             Settle(s, place)
      PROVE  BudgetInv'
  <2> USE <1>6 DEF Settle, ThreadIsFree
  <2>1. TypeOK' /\ NoLostTurn' /\ ResumedInv'
    BY DEF NoLostTurn, ResumedInv
  <2>2. QueueIsExact' /\ WaitIsBounded'
    BY DEF QueueIsExact, Waiting, WaitIsBounded
  <2>3. SpentInv'
    <3>1. CASE place = "idle"
      <4>1. Failed' = Failed
        BY <3>1 DEF Failed
      <4> QED
        BY <4>1 DEF SpentInv
    <3>2. CASE place = "failed"
      <4>1. Cardinality(Failed') = Cardinality(Failed) + 1
        BY <3>2, OneMoreFailed
      <4>2. MaxCost * (Cardinality(Failed) + 1)
              = MaxCost * Cardinality(Failed) + MaxCost
        BY <1>1
      <4>3. MaxCost * Cardinality(Failed) \in Nat
        BY <1>1
      <4> QED
        BY <4>1, <4>2, <4>3 DEF SpentInv
    <3> QED
      BY <3>1, <3>2
  <2> QED
    BY <2>1, <2>2, <2>3
<1>7. ASSUME NextTurn, NoneWaits
      PROVE  BudgetInv'
  <2> USE <1>7 DEF NextTurn, NoneWaits, NewBudget, ThreadIsFree
  <2>1. TypeOK' /\ NoLostTurn' /\ ResumedInv'
    <3>1. TypeOK'
      OBVIOUS
    <3>2. NoLostTurn'
      BY DEF NoLostTurn
    <3>3. ResumedInv'
      BY DEF ResumedInv
    <3> QED
      BY <3>1, <3>2, <3>3
  <2>2. QueueIsExact' /\ WaitIsBounded'
    BY DEF QueueIsExact, Waiting, WaitIsBounded
  <2>3. SpentInv'
    <3>1. Failed' = Failed
      BY DEF Failed
    <3>2. MaxCost * Cardinality(Failed) \in Nat
      BY <1>1
    <3> QED
      BY <3>1, <3>2 DEF SpentInv
  <2> QED
    BY <2>1, <2>2, <2>3
<1>8. ASSUME NextTurn, OldestGoesOn
      PROVE  BudgetInv'
  <2> USE <1>8 DEF NextTurn, OldestGoesOn, NewBudget, ThreadIsFree, TurnsWaited
  <2>1. /\ Head(waiting) \in Streams
        /\ waiting' \in Seq(Streams)
        /\ Len(waiting') = Len(waiting) - 1
        /\ \A i \in 1 .. Len(waiting') : waiting'[i] = waiting[i + 1]
    BY HeadTailProperties
  <2>2. /\ Len(waiting) \in Nat \ {0}
        /\ Head(waiting) = waiting[1]
    BY LenProperties
  <2>3. \A i \in 1 .. Len(waiting) :
            waiting[i] \in Streams /\ pc[waiting[i]] = "waiting"
    BY ElementOfSeq DEF QueueIsExact, Waiting
  <2>4. \A i \in 1 .. Len(waiting) : i = 1 \/ i - 1 \in 1 .. Len(waiting')
    BY <2>1, <2>2
  <2>5. TypeOK'
    BY <2>1
  <2>6. NoLostTurn' /\ ResumedInv'
    <3>1. NoLostTurn'
      <4>1. waiting' # <<>> => turnScheduled'
        BY Zenon
      <4>2. ~(spent' > 0)
        OBVIOUS
      <4> QED
        BY <4>1, <4>2, Zenon DEF NoLostTurn
    <3>2. ResumedInv'
      BY <2>1 DEF ResumedInv
    <3> QED
      BY <3>1, <3>2
  <2>7. QueueIsExact'
    <3>1. \A t \in Streams :
              Waiting(t)' <=> Waiting(t) /\ t # Head(waiting)
      <4> SUFFICES ASSUME NEW t \in Streams
                   PROVE  Waiting(t)' <=> Waiting(t) /\ t # Head(waiting)
        OBVIOUS
      <4>1. ASSUME Waiting(t)'
            PROVE  Waiting(t) /\ t # Head(waiting)
        BY <4>1, <2>1, <2>2 DEF Waiting, QueueIsExact
      <4>2. ASSUME Waiting(t), t # Head(waiting)
            PROVE  Waiting(t)'
        <5>1. PICK i \in 1 .. Len(waiting) : waiting[i] = t
          BY <4>2 DEF Waiting
        <5>2. i - 1 \in 1 .. Len(waiting')
          BY <2>2, <2>4, <4>2, <5>1
        <5>3. waiting'[i - 1] = t
          BY <2>1, <2>2, <5>1, <5>2
        <5> QED
          BY <5>2, <5>3 DEF Waiting
      <4> QED
        BY <4>1, <4>2
    <3>2. \A t \in Streams : pc'[t] = "waiting" <=> Waiting(t)'
      BY <2>1, <3>1 DEF QueueIsExact
    <3>3. \A i, j \in 1 .. Len(waiting') : waiting'[i] = waiting'[j] => i = j
      BY <2>1, <2>2 DEF QueueIsExact
    <3> QED
      BY <3>2, <3>3 DEF QueueIsExact
  <2>8. SpentInv'
    <3>1. Failed' = Failed
      BY <2>1, <2>2, <2>3 DEF Failed
    <3>2. MaxCost * Cardinality(Failed) \in Nat
      BY <1>1
    <3> QED
      BY <3>1, <3>2 DEF SpentInv
  <2>9. WaitIsBounded'
    <3> SUFFICES ASSUME NEW i \in 1 .. Len(waiting')
                 PROVE  waits'[waiting'[i]] + i <= Cardinality(Streams)
      BY DEF WaitIsBounded
    <3>1. i + 1 \in 1 .. Len(waiting) /\ waiting'[i] = waiting[i + 1]
      BY <2>1, <2>2
    <3>2. waits'[waiting'[i]] = waits[waiting[i + 1]] + 1
      BY <2>3, <3>1
    <3>3. waits[waiting[i + 1]] + (i + 1) <= Cardinality(Streams)
      BY <3>1 DEF WaitIsBounded
    <3>4. Cardinality(Streams) \in Nat /\ waits[waiting[i + 1]] \in Nat
      BY StreamsAssumption, FS_CardinalityType, <2>3, <3>1
    <3> QED
      BY <3>2, <3>3, <3>4
  <2> QED
    BY <2>5, <2>6, <2>7, <2>8, <2>9
<1>9. ASSUME IdleTurn \/ UNCHANGED vars
      PROVE  BudgetInv'
  <2> USE <1>9 DEF IdleTurn, vars
  <2>1. TypeOK' /\ NoLostTurn' /\ ResumedInv'
    BY DEF NoLostTurn, ResumedInv
  <2>2. QueueIsExact' /\ WaitIsBounded'
    BY DEF QueueIsExact, Waiting, WaitIsBounded
  <2>3. SpentInv'
    <3>1. Failed' = Failed
      BY DEF Failed
    <3>2. MaxCost * Cardinality(Failed) \in Nat
      BY <1>1
    <3> QED
      BY <3>1, <3>2 DEF SpentInv
  <2> QED
    BY <2>1, <2>2, <2>3
<1> QED
  BY <1>2, <1>3, <1>4, <1>5, <1>6, <1>7, <1>8, <1>9 DEF Next, Call, NextTurn

THEOREM BudgetInvariance == Spec => []BudgetInv
  BY BudgetInitially, BudgetInductive, PTL DEF Spec

--------------------------------------------------------------------------------

(* The variables keep their types, so the budget is never negative. *)
THEOREM BudgetTypeCorrect == Spec => []TypeOK
  BY BudgetInvariance, PTL DEF BudgetInv

(* nextTurn() is scheduled whenever a call waits or time was spent: no     *)
(* stream of the thread is stalled by a turn that nobody asked for.        *)
THEOREM TurnIsNeverLost == Spec => []NoLostTurn
  BY BudgetInvariance, PTL DEF BudgetInv

(* `waiting` holds each call that waits once, and no other. *)
THEOREM QueueHoldsWaiters == Spec => []QueueIsExact
  BY BudgetInvariance, PTL DEF BudgetInv

(* However many streams a thread has, its event loop is held for less than *)
(* the budget and one more call, apart from calls that throw.              *)
THEOREM HoldBound == Spec => []HoldIsBounded
<1>1. BudgetInv => HoldIsBounded
  <2> SUFFICES ASSUME BudgetInv
               PROVE  HoldIsBounded
    OBVIOUS
  <2>1. Cardinality(Failed) \in Nat /\ MaxCost \in Nat /\ Yield \in Nat
    BY FailedIsFinite, YieldAssumption, CostsAssumption
  <2>2. MaxCost * (1 + Cardinality(Failed))
          = MaxCost + MaxCost * Cardinality(Failed)
    BY <2>1
  <2>3. MaxCost * Cardinality(Failed) \in Nat
    BY <2>1
  <2> QED
    BY <2>1, <2>2, <2>3 DEF BudgetInv, TypeOK, SpentInv, HoldIsBounded
<1> QED
  BY <1>1, BudgetInvariance, PTL

(* A call waits for no more turns than there are streams, whatever the     *)
(* other streams do.                                                       *)
THEOREM WaitBound == Spec => []WaitIsBounded
  BY BudgetInvariance, PTL DEF BudgetInv

(* The call that a turn lets go on finds a budget and never queues again.  *)
THEOREM TurnIsKept == Spec => TurnIsUsed
<1>1. BudgetInv /\ [Next]_vars
        => [\A s \in Streams : pc[s] = "resumed" => pc'[s] # "waiting"]_vars
  <2> SUFFICES ASSUME BudgetInv, [Next]_vars, NEW s \in Streams,
                      pc[s] = "resumed", pc'[s] = "waiting"
               PROVE  UNCHANGED vars
    OBVIOUS
  <2>1. spent = 0
    BY DEF BudgetInv, ResumedInv
  <2>2. ASSUME NEW t \in Streams, WaitForTurn(t)
        PROVE  FALSE
    BY <2>2, <2>1, YieldAssumption DEF WaitForTurn, BudgetInv, TypeOK
  <2>3. ASSUME NEW t \in Streams,
               \/ CallAsync(t)
               \/ \E elapsed \in Costs :
                     CallSync(t, elapsed) \/ CallThrows(t, elapsed)
               \/ \E place \in {"idle", "failed"} : Settle(t, place)
        PROVE  FALSE
    BY <2>3 DEF CallAsync, CallSync, CallThrows, Settle, BudgetInv, TypeOK
  <2>4. CASE NextTurn \/ IdleTurn
    BY <2>4 DEF NextTurn, IdleTurn, ThreadIsFree
  <2> QED
    BY <2>2, <2>3, <2>4 DEF Next, Call, vars
<1> QED
  BY <1>1, BudgetInvariance, PTL DEF Spec, TurnIsUsed

--------------------------------------------------------------------------------
(* CallPrediction.                                                         *)

(* ASYNC_MS is some time, and no stream that ends in flush(), as those of  *)
(* the package root do, has a set-up as long: flush() does not count it.   *)
FlushIsCheap ==
    /\ AsyncMs > 0
    /\ \A m \in Models : m.flushesAtEnd => m.setup < AsyncMs

(* The set-up is foreseen until it is done; only the first call does it.   *)
SetupInv ==
    ended = "no" =>
        /\ SetupWork <= setupMs
        /\ ~ready => pending = 0 /\ input = 0

(* Only a context that holds its input does not stream. *)
HoldInv == ~streaming => Holds > 0

PredictionInv ==
    /\ PredictionTypeOK
    /\ SetupInv
    /\ HoldInv
    /\ AccountMirrorsContext
    /\ EndIsCounted

--------------------------------------------------------------------------------
(* Arithmetic of blocks. *)

LEMMA DivMod ==
    ASSUME NEW a \in Nat, NEW n \in Nat \ {0}
    PROVE  /\ a \div n \in Nat /\ a % n \in 0 .. n - 1
           /\ a = n * (a \div n) + (a % n)
OBVIOUS

LEMMA DivUnique ==
    ASSUME NEW n \in Nat \ {0}, NEW q \in Nat, NEW r \in 0 .. n - 1
    PROVE  (n * q + r) \div n = q /\ (n * q + r) % n = r
OBVIOUS

(* Input that follows whole blocks and a rest of one. *)
LEMMA DivShift ==
    ASSUME NEW n \in Nat \ {0}, NEW a \in Nat, NEW bytes \in Nat
    PROVE  /\ (a + bytes) \div n = (a \div n) + (((a % n) + bytes) \div n)
           /\ (a + bytes) % n = ((a % n) + bytes) % n
<1> DEFINE q == a \div n
           r == (a % n) + bytes
<1>1. q \in Nat /\ r \in Nat /\ a + bytes = n * q + r
  BY DivMod
<1>2. r \div n \in Nat /\ r % n \in 0 .. n - 1 /\ r = n * (r \div n) + (r % n)
  BY <1>1, DivMod
<1>3. q + (r \div n) \in Nat
  BY <1>1, <1>2
<1> HIDE DEF q, r
<1>4. a + bytes = n * (q + (r \div n)) + (r % n)
  <2> DEFINE d == r \div n
  <2>1. a + bytes = n * q + (n * d + (r % n))
    BY <1>1, <1>2
  <2>2. n * (q + d) = n * q + n * d
    BY <1>1, <1>2
  <2>3. n * q \in Nat /\ n * d \in Nat /\ r % n \in Nat
    BY <1>1, <1>2
  <2> QED
    BY <2>1, <2>2, <2>3
<1>5. (a + bytes) \div n = q + (r \div n) /\ (a + bytes) % n = r % n
  <2>1. /\ (n * (q + (r \div n)) + (r % n)) \div n = q + (r \div n)
        /\ (n * (q + (r \div n)) + (r % n)) % n = r % n
    BY <1>2, <1>3, DivUnique, Zenon
  <2> QED
    BY <1>4, <2>1, Zenon
<1> QED
  BY <1>5 DEF q, r

(* More work takes at least as much time. *)
LEMMA MoreTakesLonger ==
    ASSUME NEW t \in Nat, NEW a \in Nat, NEW b \in Nat, a <= b
    PROVE  t * a <= t * b /\ t * a \in Nat /\ t * b \in Nat
OBVIOUS

--------------------------------------------------------------------------------

LEMMA ModelTypes ==
    ASSUME model \in Models
    PROVE  /\ Block \in Nat /\ Holds \in Nat /\ Setup \in Nat
           /\ FlushesAtEnd \in BOOLEAN
           /\ Holds > 0 => Block > 0
BY ModelsAssumption DEF Block, Holds, Setup, FlushesAtEnd

LEMMA PredictionInitially == PredictionInit => PredictionInv
<1> SUFFICES ASSUME PredictionInit
             PROVE  PredictionInv
  OBVIOUS
<1> USE ModelTypes, SizesAssumption DEF PredictionInit
<1>1. PredictionTypeOK
  <2>1. Holds \in Nat /\ Setup \in Nat /\ Block \in Nat
    OBVIOUS
  <2>2. 0 \in 0 .. Larger(Block - 1, 0)
    BY <2>1 DEF Larger
  <2>3. held \in -1 .. Holds /\ input \in 0 .. Holds /\ total \in 0 .. MaxInput
    BY <2>1
  <2> QED
    BY <2>1, <2>2, <2>3 DEF PredictionTypeOK
<1>2. (ready <=> Setup = 0) /\ (streaming <=> Holds = 0)
  BY Zenon
<1>3. SetupInv /\ HoldInv
  BY <1>2 DEF SetupInv, HoldInv, SetupWork
<1>4. AccountMirrorsContext
  <2>1. Block > 0 => 0 % Block = 0
    OBVIOUS
  <2> QED
    BY <1>2, <2>1 DEF AccountMirrorsContext
<1>5. EndIsCounted
  BY DEF EndIsCounted, FinishWork
<1> QED
  BY <1>1, <1>3, <1>4, <1>5 DEF PredictionInv

(* What a chunk makes the context process is at most what #work counts.    *)
LEMMA WorkIsCounted ==
    ASSUME PredictionTypeOK, HoldInv, AccountMirrorsContext, ended = "no",
           NEW bytes \in Nat
    PROVE  /\ TransformWork(bytes) \in Nat /\ Work(bytes) \in Nat
           /\ TransformWork(bytes) <= Work(bytes)
<1> USE ModelTypes DEF PredictionTypeOK
<1>1. /\ held \in Int /\ input \in Nat /\ pending \in Nat /\ blocked \in Nat
      /\ Holds \in Nat /\ Block \in Nat
  OBVIOUS
<1>2. /\ held >= 0 <=> ~streaming
      /\ held >= 0 => held = input
      /\ held < 0 /\ Block > 0 => blocked % Block = pending
  BY DEF AccountMirrorsContext
<1>3. CASE Fits(bytes)
  BY <1>1, <1>2, <1>3 DEF Fits, TransformWork, Work
<1>4. CASE ~Fits(bytes) /\ ~streaming
  <2> DEFINE rest == input + bytes - Holds
  <2>1. Block \in Nat \ {0} /\ rest \in Nat /\ Holds + rest = input + bytes
    BY <1>1, <1>4 DEF Fits, HoldInv
  <2>2. /\ rest \div Block \in Nat /\ rest % Block \in 0 .. Block - 1
        /\ rest = Block * (rest \div Block) + (rest % Block)
    <3> HIDE DEF rest
    <3> QED
      BY <2>1, DivMod
  <2>3. Block * (rest \div Block) \in Nat
    <3> HIDE DEF rest
    <3> QED
      BY <2>1, <2>2
  <2>4. TransformWork(bytes) = Holds + Block * (rest \div Block)
    BY <1>4 DEF TransformWork, Blocks
  <2>5. Work(bytes) = input + bytes
    BY <1>1, <1>2, <1>4 DEF Work, Fits
  <2> HIDE DEF rest
  <2>6. rest % Block \in Nat
    BY <2>1, <2>2
  <2>7. Block * (rest \div Block) <= rest
    BY <2>1, <2>2, <2>3, <2>6
  <2> QED
    BY <1>1, <2>1, <2>3, <2>4, <2>5, <2>7
<1>5. CASE streaming
  <2>1. ~(held >= 0) /\ TransformWork(bytes) = Fed(bytes)
    BY <1>2, <1>5 DEF TransformWork, Fits
  <2>2. CASE Block = 0
    BY <2>1, <2>2 DEF Fed, Work
  <2>3. CASE Block # 0
    <3> DEFINE d == (pending + bytes) \div Block
    <3>1. Block \in Nat \ {0} /\ blocked % Block = pending
      BY <1>1, <1>2, <2>1, <2>3
    <3>2. /\ blocked \div Block \in Nat /\ d \in Nat
          /\ (blocked + bytes) \div Block = (blocked \div Block) + d
      <4>1. blocked \div Block \in Nat
        BY <1>1, <3>1, DivMod
      <4>2. pending + bytes \in Nat
        BY <1>1
      <4>3. d \in Nat
        BY <3>1, <4>2, DivMod
      <4>4. (blocked + bytes) \div Block
              = (blocked \div Block) + (((blocked % Block) + bytes) \div Block)
        BY <1>1, <3>1, DivShift
      <4> QED
        BY <3>1, <4>1, <4>3, <4>4
    <3>3. Fed(bytes) = Block * d
      BY <2>3 DEF Fed, Blocks
    <3>4. Work(bytes) = Larger(bytes, Block * d)
      <4>1. Work(bytes)
              = Larger(bytes, Block * (((blocked + bytes) \div Block) - (blocked \div Block)))
        BY <2>1, <2>3 DEF Work, Blocks
      <4>2. ((blocked + bytes) \div Block) - (blocked \div Block) = d
        BY <3>2
      <4> QED
        BY <4>1, <4>2
    <3> HIDE DEF d
    <3>5. Block * d \in Nat
      BY <3>1, <3>2
    <3> QED
      BY <2>1, <3>3, <3>4, <3>5 DEF Larger
  <2> QED
    BY <2>2, <2>3
<1> QED
  BY <1>3, <1>4, <1>5

(* What the scheduler and the context hold after a chunk agrees again.     *)
LEMMA AccountIsKept ==
    ASSUME PredictionTypeOK, HoldInv, AccountMirrorsContext, ended = "no",
           NEW bytes \in Nat, CountInput(bytes), ContextTransform(bytes),
           model' = model
    PROVE  /\ held' \in -1 .. Holds /\ blocked' \in Nat
           /\ input' \in 0 .. Holds /\ streaming' \in BOOLEAN
           /\ pending' \in 0 .. Larger(Block - 1, 0)
           /\ HoldInv' /\ AccountMirrorsContext'
           /\ FinishWork \in Nat /\ FinishWork' \in Nat
           /\ FinishWork' <= FinishWork + bytes
<1> USE ModelTypes DEF PredictionTypeOK, Block, Holds
<1>1. /\ held \in Int /\ input \in Nat /\ pending \in Nat /\ blocked \in Nat
      /\ Holds \in Nat /\ Block \in Nat
  OBVIOUS
<1>2. /\ held >= 0 <=> ~streaming
      /\ held >= 0 => held = input
      /\ held < 0 /\ Block > 0 => blocked % Block = pending
  BY DEF AccountMirrorsContext
<1>3. CASE Fits(bytes)
  BY <1>1, <1>2, <1>3
     DEF Fits, CountInput, ContextTransform, HoldInv, AccountMirrorsContext, FinishWork
<1>4. CASE ~Fits(bytes)
  <2> DEFINE rest == IF streaming THEN pending + bytes ELSE input + bytes - Holds
  <2>1. /\ streaming' = TRUE /\ input' = 0 /\ held' = -1
        /\ pending' = IF Block = 0 THEN 0 ELSE rest % Block
        /\ blocked' = IF held >= 0 THEN held + bytes - Holds ELSE blocked + bytes
    BY <1>1, <1>2, <1>4 DEF Fits, CountInput, ContextTransform
  <2>2. rest \in Nat /\ rest <= FinishWork + bytes /\ FinishWork \in Nat
    BY <1>1, <1>4 DEF Fits, FinishWork
  <2>3. blocked' \in Nat
    BY <1>1, <1>2, <1>4, <2>1 DEF Fits
  <2>4. CASE Block = 0
    <3>1. pending' = 0
      BY <2>1, <2>4
    <3> QED
      BY <1>1, <2>1, <2>2, <2>3, <2>4, <3>1
         DEF HoldInv, AccountMirrorsContext, FinishWork, Larger
  <2>5. CASE Block # 0
    <3>1. Block \in Nat \ {0} /\ pending' = rest % Block
      BY <1>1, <2>1, <2>5
    <3>2. /\ rest % Block \in 0 .. Block - 1
          /\ Block * (rest \div Block) \in Nat
          /\ rest = Block * (rest \div Block) + (rest % Block)
      <4>1. /\ rest \div Block \in Nat /\ rest % Block \in 0 .. Block - 1
            /\ rest = Block * (rest \div Block) + (rest % Block)
        BY <2>2, <3>1, DivMod
      <4> QED
        BY <3>1, <4>1
    <3>3. blocked' % Block = pending'
      <4>1. CASE streaming
        <5>1. blocked' = blocked + bytes /\ blocked % Block = pending
              /\ rest = pending + bytes
          BY <1>1, <1>2, <2>1, <3>1, <4>1
        <5>2. (blocked + bytes) % Block = ((blocked % Block) + bytes) % Block
          BY <1>1, <3>1, DivShift
        <5> QED
          BY <3>1, <5>1, <5>2
      <4>2. CASE ~streaming
        <5>1. blocked' = rest
          BY <1>1, <1>2, <2>1, <4>2
        <5> QED
          BY <3>1, <5>1
      <4> QED
        BY <4>1, <4>2
    <3> HIDE DEF rest
    <3>4. rest % Block <= rest /\ pending' \in Nat /\ pending' <= rest
      BY <2>2, <3>1, <3>2
    <3>5. pending' \in 0 .. Larger(Block - 1, 0)
      BY <3>1, <3>2 DEF Larger
    <3>6. FinishWork' = pending'
      BY <2>1 DEF FinishWork
    <3>7. AccountMirrorsContext' /\ HoldInv'
      BY <2>1, <3>3 DEF AccountMirrorsContext, HoldInv
    <3> QED
      BY <1>1, <2>1, <2>2, <2>3, <3>4, <3>5, <3>6, <3>7
  <2> QED
    BY <2>4, <2>5
<1> QED
  BY <1>3, <1>4

(* What is left to finish() is in the numbers of the scheduler. *)
LEMMA EndTypes ==
    ASSUME PredictionTypeOK
    PROVE  /\ FinishWork \in Nat /\ rate \in Nat /\ AsyncMs \in Nat
           /\ pending \in Nat /\ input \in Nat
BY ModelTypes, SizesAssumption DEF PredictionTypeOK, FinishWork, Larger

(* A flush() or finish() that stays on the thread has little to process.   *)
LEMMA EndGoesAsync ==
    ASSUME PredictionTypeOK, EndsAsync, NEW work \in Nat, work <= unflushed
    PROVE  /\ wentAsync' \in BOOLEAN /\ rate * work \in Nat
           /\ wentAsync => wentAsync'
           /\ wentAsync' \/ rate * work < AsyncMs
<1>1. unflushed \in Nat /\ rate \in Nat /\ AsyncMs \in Nat /\ wentAsync \in BOOLEAN
  BY EndTypes DEF PredictionTypeOK
<1>2. /\ rate * work <= rate * unflushed
      /\ rate * work \in Nat /\ rate * unflushed \in Nat
  BY <1>1, MoreTakesLonger
<1>3. /\ wentAsync' \in BOOLEAN
      /\ wentAsync => wentAsync'
      /\ wentAsync' \/ ~(rate * unflushed >= AsyncMs)
  BY <1>1, Zenon DEF EndsAsync, Predict
<1> QED
  BY <1>1, <1>2, <1>3

LEMMA PredictionInductive == PredictionInv /\ [PredictionNext]_predictionVars => PredictionInv'
<1> SUFFICES ASSUME PredictionInv, [PredictionNext]_predictionVars
             PROVE  PredictionInv'
  OBVIOUS
<1>1. PredictionTypeOK /\ SetupInv /\ HoldInv /\ AccountMirrorsContext /\ EndIsCounted
  BY DEF PredictionInv
<1>2. /\ model \in Models /\ Setup \in Nat /\ Holds \in Nat /\ Block \in Nat
      /\ AsyncMs \in Nat /\ rate \in Nat /\ FinishWork \in Nat
      /\ blocked \in Nat /\ unflushed \in Nat /\ pending \in Nat /\ input \in Nat
      /\ setupMs \in {0, Setup} /\ SetupWork \in Nat
  BY <1>1, ModelTypes, EndTypes DEF PredictionTypeOK, SetupWork
<1>3. ASSUME NEW bytes \in Chunks, Transform(bytes)
      PROVE  PredictionInv'
  <2>1. /\ ended = "no" /\ ended' = "no" /\ model' = model /\ setupMs' = 0
        /\ total' = total + bytes /\ total + bytes <= MaxInput
        /\ unflushed' = unflushed + bytes
        /\ CountInput(bytes) /\ ContextTransform(bytes) /\ Learn(Work(bytes))
        /\ ready' = TRUE
    BY <1>3 DEF Transform, ContextTransform
  <2>2. bytes \in Nat
    BY SizesAssumption
  <2>3. /\ held' \in -1 .. Holds /\ blocked' \in Nat
        /\ input' \in 0 .. Holds /\ streaming' \in BOOLEAN
        /\ pending' \in 0 .. Larger(Block - 1, 0)
        /\ HoldInv' /\ AccountMirrorsContext'
        /\ FinishWork' \in Nat
        /\ FinishWork' <= FinishWork + bytes
    BY <1>1, <2>1, <2>2, AccountIsKept
  <2>4. rate' \in Rates
    BY <1>1, <2>1 DEF Learn, PredictionTypeOK
  <2>5. blocking' \in Nat /\ wentAsync' \in BOOLEAN
    <3>1. TransformWork(bytes) \in Nat
      BY <1>1, <2>1, <2>2, WorkIsCounted
    <3>2. rate * TransformWork(bytes) \in Nat
      BY <1>2, <3>1
    <3>3. CASE wentAsync' = TRUE /\ blocking' = 0
      BY <3>3
    <3>4. CASE /\ blocking' = SetupWork + rate * TransformWork(bytes)
               /\ UNCHANGED wentAsync
      BY <1>1, <1>2, <3>2, <3>4 DEF PredictionTypeOK
    <3> QED
      BY <1>3, <3>3, <3>4 DEF Transform
  <2>6. PredictionTypeOK'
    <3>1. /\ Holds' = Holds /\ Block' = Block /\ Setup' = Setup
          /\ Larger(Block - 1, 0)' = Larger(Block - 1, 0)
      BY <2>1 DEF Holds, Block, Setup, Larger
    <3>2. model' \in Models /\ held' \in -1 .. Holds' /\ setupMs' \in {0, Setup'}
          /\ input' \in 0 .. Holds' /\ pending' \in 0 .. Larger(Block - 1, 0)'
      BY <1>2, <2>1, <2>3, <3>1
    <3>3. total' \in 0 .. MaxInput /\ unflushed' \in Nat
      BY <1>1, <1>2, <2>1, <2>2, SizesAssumption DEF PredictionTypeOK
    <3> QED
      BY <2>1, <2>3, <2>4, <2>5, <3>2, <3>3 DEF PredictionTypeOK
  <2>7. SetupInv'
    BY <2>1 DEF SetupInv, SetupWork
  <2>8. EndIsCounted'
    <3>1. FinishWork <= unflushed
      BY <1>1, <2>1 DEF EndIsCounted
    <3>2. FinishWork' <= unflushed'
      BY <1>2, <2>1, <2>2, <2>3, <3>1
    <3> QED
      BY <2>1, <3>2 DEF EndIsCounted
  <2> QED
    BY <2>3, <2>6, <2>7, <2>8 DEF PredictionInv
<1>4. ASSUME Flush
      PROVE  PredictionInv'
  <2>1. /\ ended = "no" /\ ended' = "flushed" /\ EndsAsync
        /\ UNCHANGED <<model, held, setupMs, rate, total, streaming, input>>
        /\ unflushed' = 0 /\ blocked' = 0 /\ pending' = 0 /\ ready' = TRUE
        /\ blocking' = IF wentAsync' THEN 0
                       ELSE SetupWork + rate * (IF streaming THEN pending ELSE 0)
    BY <1>4 DEF Flush, EndsAsync, ContextFlush
  <2>2. /\ wentAsync' \in BOOLEAN
        /\ wentAsync' \/ rate * FinishWork < AsyncMs
        /\ rate * FinishWork \in Nat
    <3>1. FinishWork <= unflushed
      BY <1>1, <2>1 DEF EndIsCounted
    <3> QED
      BY <1>1, <1>2, <2>1, <3>1, EndGoesAsync
  <2>3. blocking' \in Nat
    <3>1. rate * pending \in Nat /\ rate * 0 = 0
      BY <1>2
    <3> QED
      BY <1>2, <2>1, <3>1
  <2>4. PredictionTypeOK'
    <3>1. /\ Holds' = Holds /\ Setup' = Setup
          /\ 0 \in 0 .. Larger(Block - 1, 0)'
      BY <1>2, <2>1 DEF Holds, Block, Setup, Larger
    <3> QED
      BY <1>1, <2>1, <2>2, <2>3, <3>1 DEF PredictionTypeOK
  <2>5. SetupInv' /\ AccountMirrorsContext'
    BY <2>1 DEF SetupInv, AccountMirrorsContext
  <2>6. HoldInv'
    BY <1>1, <2>1 DEF HoldInv, Holds
  <2>7. EndIsCounted'
    <3>1. FinishWork' <= FinishWork /\ FinishWork' \in Nat
      BY <1>2, <2>1 DEF FinishWork
    <3>2. rate * FinishWork' <= rate * FinishWork /\ rate * FinishWork' \in Nat
      BY <1>2, <3>1, MoreTakesLonger
    <3>3. wentAsync' \/ rate' * FinishWork' < AsyncMs
      BY <1>2, <2>1, <2>2, <3>2
    <3> QED
      BY <2>1, <3>3 DEF EndIsCounted
  <2> QED
    BY <2>4, <2>5, <2>6, <2>7 DEF PredictionInv
<1>5. ASSUME Finish
      PROVE  PredictionInv'
  <2>1. /\ ended' = "finished"
        /\ UNCHANGED <<model, held, setupMs, rate, total, ready>>
        /\ unflushed' = 0 /\ blocked' = 0 /\ pending' = 0 /\ input' = 0
        /\ streaming' = TRUE
        /\ wentAsync' = (wentAsync \/ Predict(unflushed) >= AsyncMs)
        /\ blocking' = IF wentAsync' THEN 0 ELSE rate * FinishWork
    BY <1>5 DEF Finish, EndsAsync, ContextFinish
  <2>2. blocking' \in Nat
    <3>1. rate * FinishWork \in Nat
      BY <1>2
    <3> QED
      BY <2>1, <3>1
  <2>3. wentAsync' \in BOOLEAN
    <3>1. wentAsync \in BOOLEAN
      BY <1>1 DEF PredictionTypeOK
    <3> QED
      BY <2>1, <3>1, Zenon
  <2>4. PredictionTypeOK'
    <3>1. /\ Holds' = Holds /\ Setup' = Setup
          /\ 0 \in 0 .. Larger(Block - 1, 0)' /\ 0 \in 0 .. Holds
      BY <1>2, <2>1 DEF Holds, Block, Setup, Larger
    <3> QED
      BY <1>1, <2>1, <2>2, <2>3, <3>1 DEF PredictionTypeOK
  <2>5. SetupInv' /\ HoldInv' /\ AccountMirrorsContext' /\ EndIsCounted'
    BY <2>1 DEF SetupInv, HoldInv, AccountMirrorsContext, EndIsCounted
  <2> QED
    BY <2>4, <2>5 DEF PredictionInv
<1>6. CASE UNCHANGED predictionVars
  BY <1>1, <1>6
     DEF PredictionInv, predictionVars, schedVars, ctxVars, PredictionTypeOK, SetupInv, HoldInv, AccountMirrorsContext,
         EndIsCounted, Holds, Block, Setup, Larger, SetupWork, FinishWork
<1> QED
  BY <1>3, <1>4, <1>5, <1>6 DEF PredictionNext

(* A call that runs on the thread is one that #work and #endsAsync count.  *)
LEMMA StepIsCheap ==
    ASSUME FlushIsCheap, PredictionInv, SyncIsCheap, [PredictionNext]_predictionVars
    PROVE  SyncIsCheap'
<1>1. PredictionTypeOK /\ SetupInv /\ HoldInv /\ AccountMirrorsContext /\ EndIsCounted
  BY DEF PredictionInv
<1>2. /\ Setup \in Nat /\ AsyncMs \in Nat /\ AsyncMs > 0 /\ rate \in Nat
      /\ FinishWork \in Nat /\ pending \in Nat /\ setupMs \in Nat /\ SetupWork \in Nat
  BY <1>1, ModelTypes, EndTypes DEF PredictionTypeOK, SetupWork, FlushIsCheap
<1>3. ASSUME NEW bytes \in Chunks, Transform(bytes)
      PROVE  SyncIsCheap'
  <2>1. ended = "no" /\ bytes \in Nat
    BY <1>3, SizesAssumption DEF Transform
  <2>2. /\ TransformWork(bytes) \in Nat /\ Work(bytes) \in Nat
        /\ TransformWork(bytes) <= Work(bytes)
    BY <1>1, <2>1, WorkIsCounted
  <2>3. /\ rate * TransformWork(bytes) <= rate * Work(bytes)
        /\ rate * TransformWork(bytes) \in Nat /\ rate * Work(bytes) \in Nat
    BY <1>2, <2>2, MoreTakesLonger
  <2>4. SetupWork <= setupMs
    BY <1>1, <2>1 DEF SetupInv
  <2>5. CASE blocking' = 0
    BY <1>2, <2>5 DEF SyncIsCheap
  <2>6. CASE /\ TransformTime(bytes) < AsyncMs
             /\ blocking' = SetupWork + rate * TransformWork(bytes)
    <3>1. setupMs + rate * Work(bytes) < AsyncMs
      BY <2>6 DEF TransformTime, Predict
    <3>2. blocking' < AsyncMs
      BY <1>2, <2>3, <2>4, <2>6, <3>1
    <3> QED
      BY <3>2 DEF SyncIsCheap
  <2> QED
    BY <1>3, <2>5, <2>6 DEF Transform
<1>4. ASSUME Flush
      PROVE  SyncIsCheap'
  <2>1. /\ ended = "no" /\ FlushesAtEnd /\ EndsAsync
        /\ blocking' = IF wentAsync' THEN 0
                       ELSE SetupWork + rate * (IF streaming THEN pending ELSE 0)
    BY <1>4 DEF Flush
  <2>2. (wentAsync' \/ rate * FinishWork < AsyncMs) /\ rate * FinishWork \in Nat
    <3>1. FinishWork <= unflushed
      BY <1>1, <2>1 DEF EndIsCounted
    <3> QED
      BY <1>1, <1>2, <2>1, <3>1, EndGoesAsync
  <2>3. CASE wentAsync'
    BY <1>2, <2>1, <2>3 DEF SyncIsCheap
  <2>4. CASE ~wentAsync' /\ ~ready
    <3>1. pending = 0 /\ Setup < AsyncMs /\ SetupWork = Setup
      BY <1>1, <2>1, <2>4
         DEF SetupInv, SetupWork, FlushIsCheap, PredictionTypeOK, FlushesAtEnd, Setup
    <3>2. rate * 0 = 0
      BY <1>2
    <3> QED
      BY <1>2, <2>1, <2>4, <3>1, <3>2 DEF SyncIsCheap
  <2>5. CASE ~wentAsync' /\ ready /\ streaming
    <3>1. SetupWork = 0 /\ FinishWork = pending
      BY <2>5 DEF SetupWork, FinishWork
    <3>2. blocking' = 0 + rate * FinishWork
      BY <2>1, <2>5, <3>1
    <3> QED
      BY <1>2, <2>2, <2>5, <3>2 DEF SyncIsCheap
  <2>6. CASE ~wentAsync' /\ ready /\ ~streaming
    <3>1. SetupWork = 0 /\ rate * 0 = 0
      BY <1>2, <2>6 DEF SetupWork
    <3> QED
      BY <1>2, <2>1, <2>6, <3>1 DEF SyncIsCheap
  <2> QED
    BY <2>3, <2>4, <2>5, <2>6
<1>5. ASSUME Finish
      PROVE  SyncIsCheap'
  <2>1. /\ ended = IF FlushesAtEnd THEN "flushed" ELSE "no"
        /\ EndsAsync
        /\ blocking' = IF wentAsync' THEN 0 ELSE rate * FinishWork
    BY <1>5 DEF Finish
  <2>2. wentAsync' \/ rate * FinishWork < AsyncMs
    <3>1. CASE ended = "no"
      <4>1. FinishWork <= unflushed
        BY <1>1, <3>1 DEF EndIsCounted
      <4> QED
        BY <1>1, <1>2, <2>1, <4>1, EndGoesAsync
    <3>2. CASE ended = "flushed"
      <4>1. 0 \in Nat /\ 0 <= unflushed
        BY <1>1 DEF PredictionTypeOK
      <4>2. wentAsync => wentAsync'
        BY <1>1, <2>1, <4>1, EndGoesAsync
      <4> QED
        BY <1>1, <3>2, <4>2 DEF EndIsCounted
    <3> QED
      BY <2>1, <3>1, <3>2
  <2> QED
    BY <1>2, <2>1, <2>2 DEF SyncIsCheap
<1>6. CASE UNCHANGED predictionVars
  BY <1>6 DEF predictionVars, SyncIsCheap
<1> QED
  BY <1>3, <1>4, <1>5, <1>6 DEF PredictionNext

--------------------------------------------------------------------------------
(* The invariant holds of every stream. *)
THEOREM PredictionInvariance == PredictionSpec => []PredictionInv
<1> QED
  BY PredictionInitially, PredictionInductive, PTL DEF PredictionSpec

(* What the scheduler believes its context holds, and where it believes    *)
(* the block of the context is, is so before every call.                   *)
THEOREM AccountsAgree == PredictionSpec => []AccountMirrorsContext
<1>1. PredictionInv => AccountMirrorsContext
  BY DEF PredictionInv
<1> QED
  BY <1>1, PredictionInvariance, PTL

(* finish() has no input left that the scheduler has not counted, unless   *)
(* the stream has gone to the pool.                                        *)
THEOREM EndsAreForeseen == PredictionSpec => []EndIsCounted
<1>1. PredictionInv => EndIsCounted
  BY DEF PredictionInv
<1> QED
  BY <1>1, PredictionInvariance, PTL

(* No call holds the JavaScript thread for ASYNC_MS at the rate learnt, if *)
(* a stream that ends in flush() never has a set-up of that length; the    *)
(* run prediction_setup shows a stream that has one.                   *)
THEOREM SyncCallsAreCheap ==
    ASSUME FlushIsCheap
    PROVE  PredictionSpec => []SyncIsCheap
<1>1. PredictionInit => SyncIsCheap
  BY DEF PredictionInit, SyncIsCheap, FlushIsCheap
<1>2. PredictionInv /\ SyncIsCheap /\ [PredictionNext]_predictionVars => SyncIsCheap'
  BY StepIsCheap
<1> QED
  BY <1>1, <1>2, PredictionInvariance, PTL DEF PredictionSpec
================================================================================
