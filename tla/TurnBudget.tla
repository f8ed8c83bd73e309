------------------------------ MODULE TurnBudget -------------------------------
(***************************************************************************)
(* The budget of synchronous work that all the ChunkSchedulers of a thread *)
(* share (src/stream-schedule.ts): `spent`, the calls that wait for a turn *)
(* of the event loop, and nextTurn(), which setImmediate() runs.           *)
(*                                                                         *)
(* A stream makes one call at a time: transform(), flush() and finish()    *)
(* pass the budget in the same way.  Which calls are predicted to be       *)
(* expensive, and so go to the thread pool, is any choice here: module     *)
(* CallPrediction models it.                                               *)
(*                                                                         *)
(* JavaScript runs to completion: a call that nextTurn() lets go on does   *)
(* so in a microtask, before anything else runs on the thread.             *)
(***************************************************************************)
EXTENDS Integers, Sequences, FiniteSets

CONSTANTS
    Streams,  \* the streams of the thread, each with a scheduler
    Yield,    \* YIELD_MS
    Costs,    \* what a synchronous call may take, in ms
    MaxCost   \* the most that it may take

ASSUME YieldAssumption == Yield \in Nat \ {0}
ASSUME CostsAssumption == MaxCost \in Nat /\ Costs \subseteq 0 .. MaxCost
ASSUME StreamsAssumption == IsFiniteSet(Streams)

VARIABLES
    spent,          \* time of the synchronous calls since the last turn
    waiting,        \* the streams whose call waits for a turn, oldest first
    turnScheduled,  \* setImmediate(nextTurn) was called
    pc,             \* what the call of each stream does
    heldFor,        \* time for which calls really held the event loop since
                    \* it last turned
    waits           \* turns that the call of a stream has waited for in all

vars == <<spent, waiting, turnScheduled, pc, heldFor, waits>>

Places == {"idle", "waiting", "resumed", "pool", "failed"}

Waiting(s) == \E i \in 1 .. Len(waiting) : waiting[i] = s

TypeOK ==
    /\ spent \in Nat /\ heldFor \in Nat
    /\ waiting \in Seq(Streams)
    /\ turnScheduled \in BOOLEAN
    /\ pc \in [Streams -> Places]
    /\ waits \in [Streams -> Nat]

Init ==
    /\ spent = 0 /\ heldFor = 0
    /\ waiting = <<>>
    /\ turnScheduled = FALSE
    /\ pc = [s \in Streams |-> "idle"]
    /\ waits = [s \in Streams |-> 0]

--------------------------------------------------------------------------------

(* No call that nextTurn() has let go on is still on its way.              *)
ThreadIsFree == \A s \in Streams : pc[s] # "resumed"

(* A call of `s` that begins, or that goes on after its turn: it looks at  *)
(* the budget (again).                                                     *)
Calls(s) ==
    \/ pc[s] = "resumed"
    \/ pc[s] = "idle" /\ ThreadIsFree

scheduleTurn == turnScheduled' = TRUE

(* waitForTurn, once the budget is spent; a call that goes on after a turn *)
(* would wait again.                                                       *)
WaitForTurn(s) ==
    /\ Calls(s)
    /\ spent >= Yield
    /\ waiting' = Append(waiting, s)
    /\ scheduleTurn
    /\ pc' = [pc EXCEPT ![s] = "waiting"]
    /\ waits' = [waits EXCEPT ![s] = IF pc[s] = "resumed" THEN @ ELSE 0]
    /\ UNCHANGED <<spent, heldFor>>

(* A call that is predicted to be expensive runs on the thread pool. *)
CallAsync(s) ==
    /\ Calls(s)
    /\ spent < Yield
    /\ pc' = [pc EXCEPT ![s] = "pool"]
    /\ UNCHANGED <<spent, waiting, turnScheduled, heldFor, waits>>

(* Mutant: the time of the call is not added to the budget. *)
CallSyncUncounted(s, elapsed) ==
    /\ Calls(s)
    /\ spent < Yield
    /\ scheduleTurn
    /\ heldFor' = heldFor + elapsed
    /\ pc' = [pc EXCEPT ![s] = "idle"]
    /\ UNCHANGED <<spent, waiting, waits>>

(* A cheap call runs synchronously, and addSpent() counts its time. *)
CallSync(s, elapsed) ==
    /\ Calls(s)
    /\ spent < Yield
    /\ spent' = spent + elapsed
    /\ scheduleTurn
    /\ heldFor' = heldFor + elapsed
    /\ pc' = [pc EXCEPT ![s] = "idle"]
    /\ UNCHANGED <<waiting, waits>>

(* A synchronous call that throws, which ends its stream, leaves without   *)
(* addSpent().                                                             *)
CallThrows(s, elapsed) ==
    /\ Calls(s)
    /\ spent < Yield
    /\ heldFor' = heldFor + elapsed
    /\ pc' = [pc EXCEPT ![s] = "failed"]
    /\ UNCHANGED <<spent, waiting, turnScheduled, waits>>

(* The Promise of a call on the thread pool settles. *)
Settle(s, place) ==
    /\ pc[s] = "pool" /\ ThreadIsFree
    /\ pc' = [pc EXCEPT ![s] = place]
    /\ UNCHANGED <<spent, waiting, turnScheduled, heldFor, waits>>

(* Mutant: nextTurn() does not reset the budget. *)
NewBudgetForgotten == heldFor' = 0 /\ UNCHANGED spent

NewBudget == spent' = 0 /\ heldFor' = 0

TurnsWaited ==
    [s \in Streams |-> IF pc[s] = "waiting" THEN waits[s] + 1 ELSE waits[s]]

(* Mutant: no turn is scheduled for the calls that still wait. *)
OldestGoesOnOnce ==
    /\ waiting # <<>>
    /\ waiting' = Tail(waiting)
    /\ turnScheduled' = FALSE
    /\ pc' = [pc EXCEPT ![Head(waiting)] = "resumed"]
    /\ waits' = TurnsWaited

(* The call that has waited longest goes on, one per turn. *)
OldestGoesOn ==
    /\ waiting # <<>>
    /\ waiting' = Tail(waiting)
    /\ turnScheduled' = (Tail(waiting) # <<>>)
    /\ pc' = [pc EXCEPT ![Head(waiting)] = "resumed"]
    /\ waits' = TurnsWaited

NoneWaits ==
    /\ waiting = <<>>
    /\ turnScheduled' = FALSE
    /\ UNCHANGED <<waiting, pc, waits>>

(* nextTurn, when the event loop turns. *)
NextTurn ==
    /\ turnScheduled
    /\ ThreadIsFree
    /\ NewBudget
    /\ NoneWaits \/ OldestGoesOn

(* The event loop turns with nothing scheduled. *)
IdleTurn ==
    /\ ~turnScheduled
    /\ ThreadIsFree
    /\ heldFor' = 0
    /\ UNCHANGED <<spent, waiting, turnScheduled, pc, waits>>

Call(s) ==
    \/ WaitForTurn(s) \/ CallAsync(s)
    \/ \E elapsed \in Costs : CallSync(s, elapsed) \/ CallThrows(s, elapsed)

Next ==
    \/ \E s \in Streams :
          Call(s) \/ \E place \in {"idle", "failed"} : Settle(s, place)
    \/ NextTurn \/ IdleTurn

Spec == Init /\ [][Next]_vars

(* The event loop runs its immediates, and a microtask runs at once.  No   *)
(* stream owes a call, and the pool owes no answer.                        *)
FairSpec ==
    /\ Spec
    /\ WF_vars(NextTurn)
    /\ \A s \in Streams : WF_vars(pc[s] = "resumed" /\ Call(s))

--------------------------------------------------------------------------------
(* Properties. *)

(* A turn is scheduled whenever there is a budget to renew or a call that  *)
(* waits: a lost turn would stall every stream of the thread for ever.     *)
NoLostTurn == spent > 0 \/ waiting # <<>> => turnScheduled

(* A call waits exactly while it is in the queue, and only once in it. *)
QueueIsExact ==
    /\ \A s \in Streams : pc[s] = "waiting" <=> Waiting(s)
    /\ \A i, j \in 1 .. Len(waiting) : waiting[i] = waiting[j] => i = j

(* "Many streams together hold the event loop no longer than one does":    *)
(* between two turns, the calls of all streams hold the thread for less    *)
(* than the budget and one more call, but for calls that throw, of which a *)
(* stream makes one.                                                       *)
Failed == {s \in Streams : pc[s] = "failed"}
HoldIsBounded == heldFor < Yield + MaxCost * (1 + Cardinality(Failed))

(* A call that waited for its turn goes on in it, and never queues again   *)
(* behind later calls.                                                     *)
TurnIsUsed == [][\A s \in Streams : pc[s] = "resumed" => pc'[s] # "waiting"]_vars

(* One call goes on per turn, in the order in which they started to wait,  *)
(* and for good: with the turns that it waited for before it went on, no   *)
(* call waits for more turns than there are streams, however many calls    *)
(* the other streams make meanwhile.                                       *)
WaitIsBounded ==
    \A i \in 1 .. Len(waiting) : waits[waiting[i]] + i <= Cardinality(Streams)

(* Every call that waits goes on. *)
CallsGoOn == \A s \in Streams : pc[s] = "waiting" ~> pc[s] # "waiting"
================================================================================
