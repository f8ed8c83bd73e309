-------------------------- MODULE AbortableCallProofs --------------------------
(***************************************************************************)
(* Proofs about AbortableCall, for any number of calls and any pool.       *)
(***************************************************************************)
EXTENDS AbortableCall, FiniteSetTheorems, SequenceTheorems, TLAPS

Busy == {c \in Calls : OnThread(c)}

(* The queue holds tasks that no thread has reached, each once. *)
QueueInv ==
    /\ \A i \in 1 .. Len(queue) : task[queue[i]] = "queued"
    /\ \A i, j \in 1 .. Len(queue) : queue[i] = queue[j] => i = j

(* A call listens from its start to its end or the abort. *)
ListenInv ==
    \A c \in Calls :
        /\ js[c] = "new" => task[c] = "none" /\ race[c] = "pending" /\ ~claim[c]
        /\ js[c] = "awaiting" => task[c] # "none"
        /\ js[c] # "settled" => outcome[c] = "none"
        /\ listener[c] <=> js[c] = "awaiting" /\ ~aborted

(* The claim is taken by the abort, which then settles the call, or by the *)
(* thread, which then runs the task.                                       *)
ClaimInv ==
    \A c \in Calls :
        /\ aborted /\ js[c] = "awaiting" => claim[c]
        /\ race[c] = "withdrawn" => aborted /\ claim[c]
        /\ claim[c] /\ task[c] \in {"queued", "reached"} => race[c] = "withdrawn"
        /\ task[c] = "refused" => race[c] = "withdrawn"
        /\ task[c] \in {"running", "ok"} => claim[c]

(* What the race gave is what became of the task. *)
RaceInv ==
    \A c \in Calls :
        /\ race[c] = "result" => task[c] = "ok"
        /\ race[c] = "error" => task[c] = "failed"
        /\ task[c] = "failed" => claim[c] \/ race[c] = "error"

IInv ==
    /\ TypeOK
    /\ IsFiniteSet(Busy)
    /\ QueueInv
    /\ ListenInv
    /\ ClaimInv
    /\ RaceInv
    /\ WithdrawnNeverRuns
    /\ OutcomeIsTrue

--------------------------------------------------------------------------------

(* Threads that come free do no harm to the bound. *)
LEMMA Fewer ==
    ASSUME TypeOK, IsFiniteSet(Busy), Busy' \subseteq Busy
    PROVE  IsFiniteSet(Busy') /\ Cardinality(Busy') <= Threads
<1>1. /\ IsFiniteSet(Busy') /\ Cardinality(Busy') <= Cardinality(Busy)
      /\ Cardinality(Busy') \in Nat /\ Cardinality(Busy) \in Nat
  BY FS_Subset, FS_CardinalityType
<1> QED
  BY <1>1, ThreadsAssumption DEF TypeOK, Busy

LEMMA Initially == Init => IInv
<1> SUFFICES ASSUME Init
             PROVE  IInv
  OBVIOUS
<1>1. Busy = {}
  BY DEF Init, Busy, OnThread
<1>2. IsFiniteSet(Busy) /\ Cardinality(Busy) = 0
  BY <1>1, FS_EmptySet
<1>3. TypeOK
  <2>1. Cardinality({c \in Calls : OnThread(c)}) <= Threads
    BY <1>2, ThreadsAssumption DEF Busy
  <2> QED
    BY <2>1, EmptySeq DEF Init, TypeOK
<1>4. QueueInv /\ ListenInv /\ ClaimInv /\ RaceInv /\ WithdrawnNeverRuns /\ OutcomeIsTrue
  BY DEF Init, QueueInv, ListenInv, ClaimInv, RaceInv, WithdrawnNeverRuns, OutcomeIsTrue
<1> QED
  BY <1>2, <1>3, <1>4 DEF IInv

(* The parts of the invariant that look at one call at a time. *)
CallsInv == ListenInv /\ ClaimInv /\ RaceInv /\ WithdrawnNeverRuns /\ OutcomeIsTrue

(* The types, but for the number of busy threads. *)
Fields ==
    /\ aborted \in BOOLEAN
    /\ js \in [Calls -> {"new", "awaiting", "settled"}]
    /\ listener \in [Calls -> BOOLEAN]
    /\ race \in [Calls -> {"pending", "result", "error", "withdrawn"}]
    /\ outcome \in [Calls -> {"none", "result", "error", "reason"}]
    /\ queue \in Seq(Calls)
    /\ task \in [Calls -> {"none", "queued", "reached", "running",
                           "ok", "failed", "refused"}]
    /\ claim \in [Calls -> BOOLEAN] /\ delivered \in [Calls -> BOOLEAN]

LEMMA Together ==
    ASSUME Fields', IsFiniteSet(Busy'), Cardinality(Busy') <= Threads, QueueInv', CallsInv'
    PROVE  IInv'
BY DEF Fields, TypeOK, Busy, OnThread, CallsInv, IInv

LEMMA StartAbortedKeeps ==
    ASSUME IInv, NEW c \in Calls, StartAborted(c)
    PROVE  IInv'
<1>1. TypeOK /\ Fields /\ IsFiniteSet(Busy) /\ QueueInv /\ CallsInv
  BY DEF IInv, TypeOK, Fields, CallsInv
<1>2. Fields'
  BY <1>1 DEF Fields, StartAborted, jsVars, poolVars, JsFree
<1>3. IsFiniteSet(Busy') /\ Cardinality(Busy') <= Threads
  <2>1. Busy' \subseteq Busy
    BY <1>1 DEF Busy, OnThread, Fields, StartAborted, jsVars, poolVars, JsFree
  <2> QED
    BY <1>1, <2>1, Fewer
<1>4. QueueInv'
  BY <1>1 DEF QueueInv, Fields, StartAborted, jsVars, poolVars, JsFree
<1>5. CallsInv'
  BY <1>1 DEF CallsInv, ListenInv, ClaimInv, RaceInv, WithdrawnNeverRuns, OutcomeIsTrue,
             Fields, StartAborted, jsVars, poolVars, JsFree
<1> QED
  BY <1>2, <1>3, <1>4, <1>5, Together

LEMMA StartFailsKeeps ==
    ASSUME IInv, NEW c \in Calls, StartFails(c)
    PROVE  IInv'
<1>1. TypeOK /\ Fields /\ IsFiniteSet(Busy) /\ QueueInv /\ CallsInv
  BY DEF IInv, TypeOK, Fields, CallsInv
<1>2. Fields'
  BY <1>1 DEF Fields, StartFails, jsVars, poolVars, JsFree
<1>3. IsFiniteSet(Busy') /\ Cardinality(Busy') <= Threads
  <2>1. Busy' \subseteq Busy
    BY <1>1 DEF Busy, OnThread, Fields, StartFails, jsVars, poolVars, JsFree
  <2> QED
    BY <1>1, <2>1, Fewer
<1>4. QueueInv'
  <2>1. task[c] = "none" /\ \A i \in 1 .. Len(queue) : queue[i] \in Calls
    BY <1>1, ElementOfSeq DEF CallsInv, ListenInv, Fields, StartFails
  <2> QED
    BY <1>1, <2>1 DEF QueueInv, Fields, StartFails, jsVars, poolVars
<1>5. CallsInv'
  BY <1>1 DEF CallsInv, ListenInv, ClaimInv, RaceInv, WithdrawnNeverRuns, OutcomeIsTrue,
             Fields, StartFails, jsVars, poolVars, JsFree
<1> QED
  BY <1>2, <1>3, <1>4, <1>5, Together

LEMMA AbortKeeps ==
    ASSUME IInv, Abort
    PROVE  IInv'
<1>1. TypeOK /\ Fields /\ IsFiniteSet(Busy) /\ QueueInv /\ CallsInv
  BY DEF IInv, TypeOK, Fields, CallsInv
<1>2. Fields'
  BY <1>1 DEF Fields, Abort, jsVars, poolVars, JsFree
<1>3. IsFiniteSet(Busy') /\ Cardinality(Busy') <= Threads
  <2>1. Busy' \subseteq Busy
    BY <1>1 DEF Busy, OnThread, Fields, Abort, jsVars, poolVars, JsFree
  <2> QED
    BY <1>1, <2>1, Fewer
<1>4. QueueInv'
  BY <1>1 DEF QueueInv, Fields, Abort, jsVars, poolVars, JsFree
<1>5. CallsInv'
  <2> SUFFICES ASSUME NEW c \in Calls
               PROVE  /\ js'[c] = "new" => task'[c] = "none" /\ race'[c] = "pending" /\ ~claim'[c]
                      /\ js'[c] = "awaiting" => task'[c] # "none"
                      /\ js'[c] # "settled" => outcome'[c] = "none"
                      /\ listener'[c] <=> js'[c] = "awaiting" /\ ~aborted'
                      /\ aborted' /\ js'[c] = "awaiting" => claim'[c]
                      /\ race'[c] = "withdrawn" => aborted' /\ claim'[c]
                      /\ claim'[c] /\ task'[c] \in {"queued", "reached"} => race'[c] = "withdrawn"
                      /\ task'[c] = "refused" => race'[c] = "withdrawn"
                      /\ task'[c] \in {"running", "ok"} => claim'[c]
                      /\ race'[c] = "result" => task'[c] = "ok"
                      /\ race'[c] = "error" => task'[c] = "failed"
                      /\ task'[c] = "failed" => claim'[c] \/ race'[c] = "error"
                      /\ race'[c] = "withdrawn" => task'[c] \in {"queued", "reached", "refused"}
                      /\ outcome'[c] = "result" => task'[c] = "ok"
                      /\ outcome'[c] = "error" => task'[c] = "failed"
                      /\ outcome'[c] = "reason" => aborted'
                      /\ task'[c] = "refused" => aborted'
    BY DEF CallsInv, ListenInv, ClaimInv, RaceInv, WithdrawnNeverRuns, OutcomeIsTrue
  <2>1. /\ claim'[c] <=> claim[c] \/ listener[c]
        /\ race'[c] = IF listener[c] /\ ~claim[c] THEN "withdrawn" ELSE race[c]
        /\ ~listener'[c] /\ aborted' /\ ~aborted
        /\ js'[c] = js[c] /\ outcome'[c] = outcome[c] /\ task'[c] = task[c]
    BY DEF Abort, poolVars
  <2>2. listener[c] => js[c] = "awaiting" /\ race[c] = "pending"
    BY <1>1 DEF Abort, JsFree, CallsInv, ListenInv
  <2> QED
    BY <1>1, <2>1, <2>2 DEF Fields, CallsInv, ListenInv, ClaimInv, RaceInv, WithdrawnNeverRuns,
       OutcomeIsTrue
<1> QED
  BY <1>2, <1>3, <1>4, <1>5, Together

LEMMA DeliverKeeps ==
    ASSUME IInv, NEW c \in Calls, Deliver(c)
    PROVE  IInv'
<1>1. TypeOK /\ Fields /\ IsFiniteSet(Busy) /\ QueueInv /\ CallsInv
  BY DEF IInv, TypeOK, Fields, CallsInv
<1>2. Fields'
  BY <1>1 DEF Fields, Deliver, jsVars, poolVars, JsFree
<1>3. IsFiniteSet(Busy') /\ Cardinality(Busy') <= Threads
  <2>1. Busy' \subseteq Busy
    BY <1>1 DEF Busy, OnThread, Fields, Deliver, jsVars, poolVars, JsFree
  <2> QED
    BY <1>1, <2>1, Fewer
<1>4. QueueInv'
  BY <1>1 DEF QueueInv, Fields, Deliver, jsVars, poolVars, JsFree
<1>5. CallsInv'
  BY <1>1 DEF CallsInv, ListenInv, ClaimInv, RaceInv, WithdrawnNeverRuns, OutcomeIsTrue,
             Fields, Deliver, jsVars, poolVars, JsFree
<1> QED
  BY <1>2, <1>3, <1>4, <1>5, Together

LEMMA ContinueKeeps ==
    ASSUME IInv, NEW c \in Calls, Continue(c)
    PROVE  IInv'
<1>1. TypeOK /\ Fields /\ IsFiniteSet(Busy) /\ QueueInv /\ CallsInv
  BY DEF IInv, TypeOK, Fields, CallsInv
<1>2. Fields'
  <2>1. aborted \/ race[c] \in {"result", "error"}
    BY <1>1 DEF CallsInv, ClaimInv, Continue, Fields
  <2> QED
    BY <1>1, <2>1 DEF Fields, Continue, jsVars, poolVars
<1>3. IsFiniteSet(Busy') /\ Cardinality(Busy') <= Threads
  <2>1. Busy' \subseteq Busy
    BY <1>1 DEF Busy, OnThread, Fields, Continue, jsVars, poolVars
  <2> QED
    BY <1>1, <2>1, Fewer
<1>4. QueueInv'
  BY <1>1 DEF QueueInv, Fields, Continue, jsVars, poolVars
<1>5. CallsInv'
  BY <1>1 DEF CallsInv, ListenInv, ClaimInv, RaceInv, WithdrawnNeverRuns, OutcomeIsTrue,
             Fields, Continue, jsVars, poolVars
<1> QED
  BY <1>2, <1>3, <1>4, <1>5, Together

LEMMA MayRunKeeps ==
    ASSUME IInv, NEW c \in Calls, MayRun(c)
    PROVE  IInv'
<1>1. TypeOK /\ Fields /\ IsFiniteSet(Busy) /\ QueueInv /\ CallsInv
  BY DEF IInv, TypeOK, Fields, CallsInv
<1>2. Fields'
  BY <1>1 DEF Fields, MayRun, jsVars, poolVars
<1>3. IsFiniteSet(Busy') /\ Cardinality(Busy') <= Threads
  <2>1. Busy' \subseteq Busy
    BY <1>1 DEF Busy, OnThread, Fields, MayRun, jsVars, poolVars
  <2> QED
    BY <1>1, <2>1, Fewer
<1>4. QueueInv'
  BY <1>1 DEF QueueInv, Fields, MayRun, jsVars, poolVars
<1>5. CallsInv'
  BY <1>1 DEF CallsInv, ListenInv, ClaimInv, RaceInv, WithdrawnNeverRuns, OutcomeIsTrue,
             Fields, MayRun, jsVars, poolVars
<1> QED
  BY <1>2, <1>3, <1>4, <1>5, Together

LEMMA ComputeKeeps ==
    ASSUME IInv, NEW c \in Calls, Compute(c)
    PROVE  IInv'
<1>1. TypeOK /\ Fields /\ IsFiniteSet(Busy) /\ QueueInv /\ CallsInv
  BY DEF IInv, TypeOK, Fields, CallsInv
<1>2. Fields'
  BY <1>1 DEF Fields, Compute, jsVars, poolVars
<1>3. IsFiniteSet(Busy') /\ Cardinality(Busy') <= Threads
  <2>1. Busy' \subseteq Busy
    BY <1>1 DEF Busy, OnThread, Fields, Compute, jsVars, poolVars
  <2> QED
    BY <1>1, <2>1, Fewer
<1>4. QueueInv'
  BY <1>1 DEF QueueInv, Fields, Compute, jsVars, poolVars
<1>5. CallsInv'
  BY <1>1 DEF CallsInv, ListenInv, ClaimInv, RaceInv, WithdrawnNeverRuns, OutcomeIsTrue,
             Fields, Compute, jsVars, poolVars
<1> QED
  BY <1>2, <1>3, <1>4, <1>5, Together

LEMMA StartKeeps ==
    ASSUME IInv, NEW c \in Calls, Start(c)
    PROVE  IInv'
<1>1. TypeOK /\ Fields /\ IsFiniteSet(Busy) /\ QueueInv /\ CallsInv
  BY DEF IInv, TypeOK, Fields, CallsInv
<1>2. Fields'
  BY <1>1, AppendProperties DEF Fields, Start, jsVars, poolVars, JsFree
<1>3. IsFiniteSet(Busy') /\ Cardinality(Busy') <= Threads
  <2>1. Busy' \subseteq Busy
    BY <1>1 DEF Busy, OnThread, Fields, Start, jsVars, poolVars, JsFree
  <2> QED
    BY <1>1, <2>1, Fewer
<1>4. QueueInv'
  <2>1. c \in Calls /\ task[c] = "none" /\ queue' = Append(queue, c)
    BY <1>1 DEF CallsInv, ListenInv, Start
  <2>2. /\ Len(queue) \in Nat /\ Len(queue') = Len(queue) + 1
        /\ \A i \in 1 .. Len(queue) : queue[i] \in Calls /\ queue'[i] = queue[i] /\ queue[i] # c
        /\ queue'[Len(queue) + 1] = c
    <3>1. queue \in Seq(Calls) /\ Len(queue) \in Nat
      BY <1>1, LenProperties DEF Fields
    <3>2. /\ Len(queue') = Len(queue) + 1 /\ queue'[Len(queue) + 1] = c
          /\ \A i \in 1 .. Len(queue) : queue'[i] = queue[i]
      BY <2>1, <3>1, AppendProperties
    <3>3. \A i \in 1 .. Len(queue) : queue[i] \in Calls /\ queue[i] # c
      BY <1>1, <2>1, <3>1, ElementOfSeq DEF QueueInv
    <3> QED
      BY <3>1, <3>2, <3>3
  <2>3. \A i \in 1 .. Len(queue') : task'[queue'[i]] = "queued"
    BY <1>1, <2>1, <2>2 DEF Start, Fields, QueueInv
  <2>4. \A i, j \in 1 .. Len(queue') : queue'[i] = queue'[j] => i = j
    BY <1>1, <2>2 DEF QueueInv
  <2> QED
    BY <2>3, <2>4 DEF QueueInv
<1>5. CallsInv'
  BY <1>1 DEF CallsInv, ListenInv, ClaimInv, RaceInv, WithdrawnNeverRuns, OutcomeIsTrue,
             Fields, Start, jsVars, poolVars, JsFree
<1> QED
  BY <1>2, <1>3, <1>4, <1>5, Together

LEMMA ReachKeeps ==
    ASSUME IInv, Reach
    PROVE  IInv'
<1>1. TypeOK /\ Fields /\ IsFiniteSet(Busy) /\ QueueInv /\ CallsInv
  BY DEF IInv, TypeOK, Fields, CallsInv
<1>2. Fields'
  BY <1>1, HeadTailProperties, ElementOfSeq DEF Fields, Reach, jsVars, poolVars
<1>3. IsFiniteSet(Busy') /\ Cardinality(Busy') <= Threads
  <2>1. Head(queue) \in Calls /\ task[Head(queue)] = "queued"
    BY <1>1, HeadTailProperties, ElementOfSeq DEF Reach, Fields, QueueInv
  <2>2. Busy' = Busy \cup {Head(queue)} /\ Head(queue) \notin Busy
    BY <1>1, <2>1 DEF Busy, OnThread, Reach, Fields
  <2>3. /\ IsFiniteSet(Busy') /\ Cardinality(Busy') = Cardinality(Busy) + 1
        /\ Cardinality(Busy) \in Nat
    BY <1>1, <2>2, FS_AddElement, FS_CardinalityType
  <2> QED
    BY <2>3, ThreadsAssumption DEF Reach, Busy
<1>4. QueueInv'
  <2>1. /\ queue' = Tail(queue) /\ Len(queue) \in Nat \ {0} /\ Len(queue') = Len(queue) - 1
        /\ \A i \in 1 .. Len(queue') : queue'[i] = queue[i + 1] /\ queue[i + 1] \in Calls
        /\ Head(queue) = queue[1]
    BY <1>1, HeadTailProperties, ElementOfSeq, LenProperties, EmptySeq DEF Reach, Fields
  <2>2. \A i \in 1 .. Len(queue') : queue'[i] # Head(queue)
    BY <1>1, <2>1 DEF QueueInv
  <2>3. \A i \in 1 .. Len(queue') : task'[queue'[i]] = "queued"
    BY <1>1, <2>1, <2>2 DEF QueueInv, Reach, Fields
  <2>4. \A i, j \in 1 .. Len(queue') : queue'[i] = queue'[j] => i = j
    BY <1>1, <2>1 DEF QueueInv
  <2> QED
    BY <2>3, <2>4 DEF QueueInv
<1>5. CallsInv'
  <2>1. Head(queue) \in Calls /\ task[Head(queue)] = "queued"
    BY <1>1, HeadTailProperties, ElementOfSeq DEF Reach, Fields, QueueInv
  <2> QED
    BY <1>1, <2>1 DEF CallsInv, ListenInv, ClaimInv, RaceInv, WithdrawnNeverRuns,
       OutcomeIsTrue, Fields, Reach, jsVars
<1> QED
  BY <1>2, <1>3, <1>4, <1>5, Together

LEMMA Step == IInv /\ [Next]_vars => IInv'
<1> SUFFICES ASSUME IInv, [Next]_vars
             PROVE  IInv'
  OBVIOUS
<1>1. CASE Abort
  BY <1>1, AbortKeeps
<1>2. CASE Reach
  BY <1>2, ReachKeeps
<1>3. ASSUME NEW c \in Calls,
             Js(c) \/ Deliver(c) \/ Continue(c) \/ MayRun(c) \/ Compute(c)
      PROVE  IInv'
  BY <1>3, StartAbortedKeeps, StartFailsKeeps, StartKeeps, DeliverKeeps, ContinueKeeps,
     MayRunKeeps, ComputeKeeps DEF Js
<1>4. CASE UNCHANGED vars
  <2>1. UNCHANGED <<aborted, js, listener, race, outcome, queue, task, claim, delivered>>
    BY <1>4 DEF vars, jsVars, poolVars
  <2> QED
    BY <2>1 DEF IInv, TypeOK, Busy, OnThread, QueueInv, ListenInv, ClaimInv, RaceInv,
       WithdrawnNeverRuns, OutcomeIsTrue
<1> QED
  BY <1>1, <1>2, <1>3, <1>4 DEF Next

(* The invariant holds of every run. *)
THEOREM Invariance == Spec => []IInv
<1> QED
  BY Initially, Step, PTL DEF Spec

(* Types, and the bound on the busy threads of the pool. *)
THEOREM TypesAreKept == Spec => []TypeOK
<1>1. IInv => TypeOK
  BY DEF IInv
<1> QED
  BY <1>1, Invariance, PTL

(* Work that an abort reported as withdrawn is never run: the abort and the *)
(* thread that reaches the task take one claim.                            *)
THEOREM WithdrawalIsFinal == Spec => []WithdrawnNeverRuns
<1>1. IInv => WithdrawnNeverRuns
  BY DEF IInv
<1> QED
  BY <1>1, Invariance, PTL

(* What a call settles to is what its own work gave, or the reason of a    *)
(* signal that did abort.                                                  *)
THEOREM OutcomesAreTrue == Spec => []OutcomeIsTrue
<1>1. IInv => OutcomeIsTrue
  BY DEF IInv
<1> QED
  BY <1>1, Invariance, PTL

(* An abort settles the call of work that has not begun by itself, without *)
(* the pool.                                                               *)
THEOREM AbortsArePrompt == Spec => []AbortIsPrompt
<1>1. IInv => AbortIsPrompt
  BY DEF IInv, ClaimInv, AbortIsPrompt
<1> QED
  BY <1>1, Invariance, PTL

(* A call that settles after the abort gives its reason. *)
THEOREM AbortsWin == Spec => AbortWins
<1>1. IInv /\ [Next]_vars =>
        [\A c \in Calls : aborted /\ outcome[c] = "none" => outcome'[c] \in {"none", "reason"}]_vars
  <2> SUFFICES ASSUME IInv, Next, NEW c \in Calls, aborted, outcome[c] = "none"
               PROVE  outcome'[c] \in {"none", "reason"}
    OBVIOUS
  <2>1. outcome \in [Calls -> {"none", "result", "error", "reason"}]
    BY DEF IInv, TypeOK
  <2>2. CASE Abort \/ Reach
    BY <2>2 DEF Abort, Reach, jsVars
  <2>3. ASSUME NEW d \in Calls,
               Js(d) \/ Deliver(d) \/ Continue(d) \/ MayRun(d) \/ Compute(d)
        PROVE  outcome'[c] \in {"none", "reason"}
    BY <2>1, <2>3 DEF Js, StartAborted, StartFails, Start, Deliver, Continue, MayRun, Compute, jsVars
  <2> QED
    BY <2>2, <2>3 DEF Next
<1> QED
  BY <1>1, Invariance, PTL DEF Spec, AbortWins
================================================================================
