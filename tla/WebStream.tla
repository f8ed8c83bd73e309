------------------------------- MODULE WebStream -------------------------------
(***************************************************************************)
(* A Web stream of the package: a TransformStream of the runtime, the      *)
(* transformer that drives a stream context, and the context.              *)
(*                                                                         *)
(*   "root": closingStream() of src/streams.ts, with contextStream()       *)
(*   "next": codecStream() of src/next/api.ts, over scheduled() of         *)
(*           src/next/native.ts                                            *)
(*                                                                         *)
(* The context is what module ContextContract promises.  A call that the   *)
(* scheduler makes waits for a turn of the event loop or not, and runs     *)
(* synchronously or on the thread pool (modules TurnBudget, CallPrediction).*)
(* The TransformStream is that of the Streams standard, without            *)
(* backpressure, which only delays a chunk.                                *)
(***************************************************************************)
EXTENDS Integers

CONSTANTS
    Helpers,    \* the helpers that may make the stream, of "root" and "next"
    MaxChunks   \* the chunks that the user writes at most

ASSUME HelpersAssumption == Helpers \subseteq {"root", "next"}
ASSUME ChunksAssumption == MaxChunks \in Nat

VARIABLES
    helper,              \* the helper that made the stream
    current, kind, answer, finished, closed, charged,  \* the context
    writable, readable,  \* the states of the two sides
    written,             \* chunks that the user has written
    pending,             \* chunks that the writable side holds
    op,                  \* what the transformer is asked to do
    finishPromise,       \* which end of the stream came first
    closeReq, cancelReq, abortReq,  \* the Promises that the user holds
    phase,               \* where the transformer is in `op`
    method,              \* the method of the context that it calls
    calls,               \* the calls that it has made
    open,                \* codecStream: close() was not called
    cancelled,           \* the transformer knows that the reader is gone
    produced,            \* calls that returned output
    delivered            \* calls whose output the reader gets

ctxVars == <<current, kind, answer, finished, closed, charged>>
sideVars == <<writable, readable, written, pending, finishPromise>>
reqVars == <<closeReq, cancelReq, abortReq>>
outVars == <<produced, delivered>>
vars == <<helper, ctxVars, sideVars, reqVars, outVars, op, phase, method, calls,
          open, cancelled>>

Calls == 1 .. MaxChunks + 2
ctx == INSTANCE ContextContract WITH None <- 0

Promises == {"none", "pending", "ok", "rejected"}

TypeOK ==
    /\ helper \in Helpers
    /\ current \in Calls \cup {0}
    /\ kind \in [Calls -> {"transform", "flush", "finish"}]
    /\ answer \in [Calls -> {"none", "ok", "failed", "Finished", "Closed", "Busy"}]
    /\ {finished, closed, charged, open, cancelled} \subseteq BOOLEAN
    /\ writable \in {"writable", "erroring", "errored", "closed"}
    /\ readable \in {"readable", "errored", "closed"}
    /\ written \in 0 .. MaxChunks /\ pending \in 0 .. written
    /\ op \in {"none", "write", "close"}
    /\ finishPromise \in {"none", "close", "cancel", "abort"}
    /\ {closeReq, cancelReq, abortReq} \subseteq Promises
    /\ phase \in {"none", "start", "turn", "go", "js", "pool", "emit", "end",
                  "error", "throw", "abort"}
    /\ method \in {"transform", "flush", "finish"}
    /\ calls \in 0 .. MaxChunks + 2
    /\ produced \subseteq 1 .. calls /\ delivered \subseteq produced

Init ==
    /\ helper \in Helpers
    /\ ctx!Init
    /\ writable = "writable" /\ readable = "readable"
    /\ written = 0 /\ pending = 0
    /\ op = "none" /\ finishPromise = "none"
    /\ closeReq = "none" /\ cancelReq = "none" /\ abortReq = "none"
    /\ phase = "none" /\ method = "transform" /\ calls = 0
    /\ open = TRUE /\ cancelled = FALSE
    /\ produced = {} /\ delivered = {}

--------------------------------------------------------------------------------
(* The transformer. *)

(* User code runs only between the tasks of the stream. *)
JsFree == phase \in {"none", "turn", "pool"}

(* close: codecStream calls it once, closingStream whenever it may. *)
CloseContext ==
    IF helper = "root" \/ open
    THEN ctx!Close /\ open' = FALSE
    ELSE UNCHANGED <<ctxVars, open>>

(* Mutant: the context of a cancelled stream is left to the collector. *)
HelperCancelKeeps == cancelled' = TRUE /\ UNCHANGED <<ctxVars, open>>

(* cancel(), which the standard calls for a cancel and for an abort. *)
HelperCancel == cancelled' = TRUE /\ CloseContext

(* The scheduler has the call wait for a turn of the event loop ... *)
WaitForTurn ==
    /\ phase = "start" /\ phase' = "turn"
    /\ UNCHANGED <<ctxVars, sideVars, reqVars, outVars, op, method, calls,
                   open, cancelled>>

(* ... which comes. *)
GoOn ==
    /\ phase = "turn" /\ phase' = "go"
    /\ UNCHANGED <<ctxVars, sideVars, reqVars, outVars, op, method, calls,
                   open, cancelled>>

(* It calls the context here or on the pool.  A call that the context      *)
(* refuses throws or returns a rejected Promise.                           *)
CallContext ==
    /\ phase \in {"start", "go"}
    /\ calls' = calls + 1
    /\ \/ /\ ctx!Begin(calls')
          /\ phase' \in {"js", "pool"}
       \/ /\ ctx!Refuse(calls')
          /\ answer'[calls'] # "InvalidArg"
          /\ phase' = "error"
    /\ kind'[calls'] = method
    /\ UNCHANGED <<sideVars, reqVars, outVars, op, method, open, cancelled>>

Outcome == phase' = IF answer'[calls] = "ok" THEN "emit" ELSE "error"

ReturnSync ==
    /\ phase = "js"
    /\ ctx!Complete(calls)
    /\ Outcome
    /\ UNCHANGED <<sideVars, reqVars, outVars, op, method, calls, open, cancelled>>

PoolWorks ==
    /\ phase = "pool"
    /\ ctx!Answer(calls) \/ ctx!End(calls)
    /\ UNCHANGED <<sideVars, reqVars, outVars, op, phase, method, calls, open,
                   cancelled>>

(* Mutant: the failure of a call on the pool is swallowed. *)
PoolSettlesQuietly ==
    /\ phase = "pool"
    /\ ctx!Retire(calls)
    /\ phase' = IF answer'[calls] = "ok" THEN "emit" ELSE "none"
    /\ UNCHANGED <<sideVars, reqVars, outVars, op, method, calls, open, cancelled>>

PoolSettles ==
    /\ phase = "pool"
    /\ ctx!Retire(calls)
    /\ Outcome
    /\ UNCHANGED <<sideVars, reqVars, outVars, op, method, calls, open, cancelled>>

--------------------------------------------------------------------------------
(* What becomes of the output of a call. *)

Settled(req, outcome) == IF req = "pending" THEN outcome ELSE req

(* The transform is over once its chunk is; a pending abort then runs. *)
WriteDone ==
    /\ op' = "none"
    /\ IF writable = "erroring" /\ finishPromise = "none"
       THEN phase' = "abort" /\ UNCHANGED <<sideVars, reqVars>>
       ELSE /\ phase' = "none"
            /\ IF writable = "writable"
               THEN UNCHANGED <<sideVars, reqVars>>
               ELSE /\ writable' = "errored" /\ pending' = 0
                    /\ closeReq' = Settled(closeReq, "rejected")
                    /\ abortReq' = Settled(abortReq, "ok")
                    /\ UNCHANGED <<readable, written, finishPromise, cancelReq>>

(* What follows the output: finishStream() calls finish() after flush().   *)
AfterEmit ==
    \/ method = "transform" /\ WriteDone /\ UNCHANGED method
    \/ /\ method = "flush"
       /\ method' = "finish" /\ phase' = "start"
       /\ UNCHANGED <<sideVars, reqVars, op>>
    \/ /\ method = "finish"
       /\ phase' = "end"
       /\ UNCHANGED <<sideVars, reqVars, op, method>>

Produce(nonempty) ==
    /\ phase = "emit"
    /\ produced' = IF nonempty THEN produced \cup {calls} ELSE produced

(* controller.enqueue(), unless it throws: the readable side is closed.    *)
Enqueue ==
    /\ readable = "readable"
    /\ delivered' = delivered \cup {calls}
    /\ UNCHANGED cancelled
    /\ AfterEmit

Drop == UNCHANGED <<delivered, cancelled>> /\ AfterEmit

(* Mutant: an error of enqueue() fails the step. *)
EmitRootThrows(nonempty) ==
    /\ helper = "root" /\ Produce(nonempty)
    /\ \/ (~nonempty \/ cancelled) /\ Drop
       \/ nonempty /\ ~cancelled /\ Enqueue
       \/ /\ nonempty /\ ~cancelled /\ readable # "readable"
          /\ phase' = "throw"
          /\ UNCHANGED <<sideVars, reqVars, op, method, delivered, cancelled>>
    /\ UNCHANGED <<ctxVars, calls, open>>

(* emitter of closingStream: the output is dropped once enqueue() throws.  *)
EmitRoot(nonempty) ==
    /\ helper = "root" /\ Produce(nonempty)
    /\ \/ (~nonempty \/ cancelled) /\ Drop
       \/ nonempty /\ ~cancelled /\ Enqueue
       \/ /\ nonempty /\ ~cancelled /\ readable # "readable"
          /\ cancelled' = TRUE /\ UNCHANGED delivered
          /\ AfterEmit
    /\ UNCHANGED <<ctxVars, calls, open>>

(* Mutant: only the end of the stream passes its output on. *)
EmitNextFinish(nonempty) ==
    /\ helper = "next" /\ Produce(nonempty)
    /\ \/ (~nonempty \/ cancelled \/ method = "transform") /\ Drop
       \/ nonempty /\ ~cancelled /\ method = "finish" /\ Enqueue
    /\ UNCHANGED <<ctxVars, calls, open>>

(* enqueue of codecStream: an error of enqueue() fails the step. *)
EmitNext(nonempty) ==
    /\ helper = "next" /\ Produce(nonempty)
    /\ \/ (~nonempty \/ cancelled) /\ Drop
       \/ nonempty /\ ~cancelled /\ Enqueue
       \/ /\ nonempty /\ ~cancelled /\ readable # "readable"
          /\ phase' = "throw"
          /\ UNCHANGED <<sideVars, reqVars, op, method, delivered, cancelled>>
    /\ UNCHANGED <<ctxVars, calls, open>>

--------------------------------------------------------------------------------
(* The end of an operation of the transformer, and what the standard makes *)
(* of it.                                                                  *)

(* flush() of the transformer is done: both sides close. *)
End ==
    /\ phase = "end"
    /\ CloseContext
    /\ op' = "none" /\ phase' = "none"
    /\ writable' = "closed"
    /\ readable' = IF readable = "readable" THEN "closed" ELSE readable
    /\ closeReq' = "ok"
    /\ cancelReq' = Settled(cancelReq, "ok")
    /\ abortReq' = Settled(abortReq, "ok")
    /\ UNCHANGED <<written, pending, finishPromise, outVars, method, calls,
                   cancelled>>

(* A step that failed errors both sides.  What an abort that waited then   *)
(* returns is up to the runtime.                                           *)
BothFail ==
    /\ op' = "none" /\ phase' = "none"
    /\ writable' = "errored" /\ pending' = 0
    /\ readable' = IF readable = "readable" THEN "errored" ELSE readable
    /\ closeReq' = Settled(closeReq, "rejected")
    /\ cancelReq' = Settled(cancelReq, "rejected")
    /\ \E outcome \in {"ok", "rejected"} : abortReq' = Settled(abortReq, outcome)
    /\ UNCHANGED <<written, finishPromise, outVars, method, calls, cancelled>>

(* Mutant: the error of a transform does not reach the stream. *)
FailQuietly ==
    /\ phase = "error"
    /\ CloseContext
    /\ IF op = "write"
       THEN WriteDone /\ UNCHANGED <<outVars, method, calls, cancelled>>
       ELSE BothFail

(* The handlers of a step that failed close the context. *)
Fail == phase = "error" /\ CloseContext /\ BothFail

(* enqueue() threw: no handler closes the context. *)
Throw == phase = "throw" /\ BothFail /\ UNCHANGED <<ctxVars, open>>

(* The abort that waited for a transform, or that came between two. *)
AbortNow ==
    /\ phase = "abort"
    /\ HelperCancel
    /\ op' = "none" /\ phase' = "none"
    /\ finishPromise' = "abort"
    /\ writable' = "errored" /\ pending' = 0
    /\ readable' = IF readable = "readable" THEN "errored" ELSE readable
    /\ closeReq' = Settled(closeReq, "rejected")
    /\ abortReq' = "ok"
    /\ UNCHANGED <<written, cancelReq, outVars, method, calls>>

--------------------------------------------------------------------------------
(* The writable side hands its chunks and its close to the transformer.    *)

TakeChunk ==
    /\ phase = "none" /\ op = "none"
    /\ writable = "writable" /\ pending > 0
    /\ pending' = pending - 1
    /\ op' = "write" /\ method' = "transform"
    /\ phase' \in {"start", "error"}  \* the chunk is bytes, or no bytes
    /\ UNCHANGED <<ctxVars, reqVars, outVars, writable, readable, written,
                   finishPromise, calls, open, cancelled>>

TakeClose ==
    /\ phase = "none" /\ op = "none"
    /\ writable = "writable" /\ pending = 0 /\ closeReq = "pending"
    /\ op' = "close" /\ finishPromise' = "close"
    /\ method' = IF helper = "root" THEN "flush" ELSE "finish"
    /\ phase' = "start"
    /\ UNCHANGED <<ctxVars, reqVars, outVars, writable, readable, written,
                   pending, calls, open, cancelled>>

--------------------------------------------------------------------------------
(* The user: a writer and a reader. *)

Write ==
    /\ JsFree
    /\ writable = "writable" /\ closeReq = "none" /\ written < MaxChunks
    /\ written' = written + 1 /\ pending' = pending + 1
    /\ UNCHANGED <<ctxVars, reqVars, outVars, writable, readable,
                   finishPromise, op, phase, method, calls, open, cancelled>>

Close ==
    /\ JsFree
    /\ writable = "writable" /\ closeReq = "none"
    /\ closeReq' = "pending"
    /\ UNCHANGED <<ctxVars, sideVars, outVars, cancelReq, abortReq, op, phase,
                   method, calls, open, cancelled>>

(* writer.abort() waits for the operation in progress. *)
Abort ==
    /\ JsFree
    /\ writable = "writable" /\ abortReq = "none"
    /\ abortReq' = "pending" /\ writable' = "erroring"
    /\ phase' = IF op = "none" THEN "abort" ELSE phase
    /\ UNCHANGED <<ctxVars, outVars, readable, written, pending, finishPromise,
                   closeReq, cancelReq, op, method, calls, open, cancelled>>

(* reader.cancel(): the readable side closes at once.  The standard calls  *)
(* cancel() of the transformer unless flush() is in progress, whose end it *)
(* waits for.                                                              *)
Cancel ==
    /\ JsFree
    /\ readable = "readable"
    /\ readable' = "closed"
    /\ \/ /\ finishPromise = "close"
          /\ cancelReq' = "pending"
          /\ UNCHANGED <<ctxVars, open, cancelled, writable, pending,
                         finishPromise, closeReq>>
       \/ /\ finishPromise = "none"
          /\ finishPromise' = "cancel"
          /\ HelperCancel
          /\ cancelReq' = "ok"
          /\ IF op = "none"
             THEN /\ writable' = "errored" /\ pending' = 0
                  /\ closeReq' = Settled(closeReq, "rejected")
             ELSE writable' = "erroring" /\ UNCHANGED <<pending, closeReq>>
    /\ UNCHANGED <<outVars, written, abortReq, op, phase, method, calls>>

--------------------------------------------------------------------------------

Transformer ==
    \/ WaitForTurn \/ GoOn \/ CallContext \/ ReturnSync
    \/ PoolWorks \/ PoolSettles
    \/ \E nonempty \in BOOLEAN : EmitRoot(nonempty) \/ EmitNext(nonempty)
    \/ End \/ Fail \/ Throw \/ AbortNow
    \/ TakeChunk \/ TakeClose

User == Write \/ Close \/ Abort \/ Cancel

Next == (Transformer \/ User) /\ UNCHANGED helper

Spec == Init /\ [][Next]_vars

(* The pool answers and settles every call (CallsSettle of NativeContext), *)
(* a call that waits gets its turn (CallsGoOn of TurnBudget), and the      *)
(* runtime goes on with the stream.  The user owes nothing.                *)
FairSpec == Spec /\ WF_vars(Transformer /\ UNCHANGED helper)

--------------------------------------------------------------------------------
(* Properties. *)

(* A stream that has ended, failed, or been cancelled or aborted, and has  *)
(* no call in flight, holds no native memory.                              *)
MemoryIsReleased ==
    writable \in {"closed", "errored"} => ~charged /\ (closed \/ finished)

(* A cancel that comes while the stream ends drops the output that is      *)
(* left: neither it nor the close fails unless a call of the context did.  *)
LateOutputIsDropped ==
    finishPromise = "close" /\ "rejected" \in {closeReq, cancelReq}
        => \E c \in Calls : answer[c] \in {"failed", "Finished", "Closed", "Busy"}

(* A stream that closes has passed on all the output of its context,       *)
(* unless the reader went.                                                 *)
OutputIsWhole == closeReq = "ok" /\ cancelReq = "none" => delivered = produced

(* The context never refuses a call for one in flight, nor for its own     *)
(* end; only a transform that waited for its turn meets a closed context,  *)
(* and only if the reader has gone.                                        *)
CallsAreInOrder ==
    \A c \in Calls :
        /\ answer[c] \notin {"Busy", "Finished"}
        /\ answer[c] = "Closed" => kind[c] = "transform" /\ cancelReq # "none"

(* closingStream() catches the error of enqueue() for it. *)
RootDropsLateOutput == helper = "root" => LateOutputIsDropped

(* What the user asks of the stream is answered. *)
RequestsSettle ==
    /\ closeReq = "pending" ~> closeReq # "pending"
    /\ cancelReq = "pending" ~> cancelReq # "pending"
    /\ abortReq = "pending" ~> abortReq # "pending"
================================================================================
