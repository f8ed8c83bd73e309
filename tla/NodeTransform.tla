----------------------------- MODULE NodeTransform -----------------------------
(***************************************************************************)
(* A Node.js Transform of src/node.ts over one stream context.             *)
(*                                                                         *)
(*   "context": contextTransform()                                         *)
(*   "detect":  createDecompressTransform(), which makes its context once  *)
(*              it knows the format of its input                           *)
(*                                                                         *)
(* The context is what module ContextContract promises.  The stream is     *)
(* that of node:stream: one operation at a time, a buffer that a reader    *)
(* empties or, in flowing mode, a 'data' listener that runs inside push(). *)
(***************************************************************************)
EXTENDS Integers

CONSTANTS
    Helpers,    \* the helpers that may make the stream, of "context", "detect"
    MaxChunks,  \* the chunks that the user writes at most
    MaxSlices   \* the slices that one result is pushed in at most

ASSUME HelpersAssumption == Helpers \subseteq {"context", "detect"}
ASSUME BoundsAssumption == MaxChunks \in Nat /\ MaxSlices \in Nat \ {0}

VARIABLES
    helper,     \* the helper that made the stream
    canMark,    \* canMarkUntransferable
    current, kind, answer, finished, closed, charged,  \* the context
    started,    \* the context has been made
    holding,    \* input is held until its format is known
    written,    \* chunks that the user has written
    pending,    \* chunks that the writable side holds
    ending,     \* the user called end()
    held,       \* the callback of a chunk waits for the reader
    buffer,     \* slices in the buffer of the readable side
    eof,        \* push(null) was called
    ended,      \* 'end' was emitted
    destroyed,
    op,         \* what the stream asks of the helper
    phase,      \* where the helper is in `op`
    method,     \* the method of the context that it calls
    calls,      \* the calls that it has made
    size, left, \* slices of the result in hand, and those not yet pushed
    owed,       \* slices that no reader has received
    spoiled     \* a reader detached slices that the buffer held

ctxVars == <<current, kind, answer, finished, closed, charged>>
helperVars == <<helper, canMark>>
detectVars == <<started, holding>>
inVars == <<written, pending, ending, held>>
outVars == <<buffer, eof, ended>>
callVars == <<method, calls, size, left>>
readVars == <<owed, spoiled>>
vars == <<helperVars, ctxVars, detectVars, inVars, outVars, destroyed, op, phase,
          callVars, readVars>>

\* Each chunk may make one call; the end may make three.
Calls == 1 .. MaxChunks + 3
ctx == INSTANCE ContextContract WITH None <- 0

TypeOK ==
    /\ helper \in Helpers /\ canMark \in BOOLEAN
    /\ current \in Calls \cup {0}
    /\ kind \in [Calls -> {"transform", "flush", "finish"}]
    /\ answer \in [Calls -> {"none", "ok", "failed", "Finished", "Closed", "Busy"}]
    /\ {finished, closed, charged, started, holding, ending, held, eof, ended,
        destroyed, spoiled} \subseteq BOOLEAN
    /\ written \in 0 .. MaxChunks /\ pending \in 0 .. written
    /\ op \in {"none", "write", "end"}
    /\ phase \in {"none", "detect", "start", "turn", "go", "js", "pool", "push",
                  "return", "error"}
    /\ method \in {"transform", "flush", "finish"}
    /\ calls \in 0 .. MaxChunks + 3
    /\ size \in 0 .. MaxSlices /\ left \in 0 .. size
    /\ buffer \in Nat /\ owed \in Nat

Init ==
    /\ helper \in Helpers /\ canMark \in BOOLEAN
    /\ ctx!Init
    /\ started = (helper = "context") /\ (charged => started)
    /\ holding = FALSE
    /\ written = 0 /\ pending = 0 /\ ending = FALSE /\ held = FALSE
    /\ buffer = 0 /\ eof = FALSE /\ ended = FALSE /\ destroyed = FALSE
    /\ op = "none" /\ phase = "none" /\ method = "transform" /\ calls = 0
    /\ size = 0 /\ left = 0 /\ owed = 0 /\ spoiled = FALSE

--------------------------------------------------------------------------------

(* User code runs between the tasks of the stream (and inside push(), see  *)
(* Emit).                                                                  *)
JsFree == phase \in {"none", "turn", "pool"}

(* Mutant: only an idle stream closes its context. *)
DestroyIdle ==
    /\ destroyed' = TRUE
    /\ holding' = FALSE
    /\ IF started /\ current = 0 THEN ctx!Close ELSE UNCHANGED ctxVars

(* destroy of the Transform. *)
Destroy ==
    /\ destroyed' = TRUE
    /\ holding' = FALSE
    /\ IF started THEN ctx!Close ELSE UNCHANGED ctxVars

--------------------------------------------------------------------------------
(* The stream asks the helper for something. *)

TakeChunk ==
    /\ op = "none" /\ ~destroyed /\ ~held /\ pending > 0
    /\ pending' = pending - 1
    /\ op' = "write" /\ method' = "transform"
    /\ phase' = IF started THEN "start" ELSE "detect"
    /\ UNCHANGED <<ctxVars, detectVars, written, ending, held, outVars, destroyed,
                   calls, size, left, readVars>>

TakeEnd ==
    /\ op = "none" /\ ~destroyed /\ ~held /\ ending /\ pending = 0 /\ ~eof
    /\ op' = "end" /\ method' = IF started THEN "flush" ELSE "transform"
    /\ phase' = IF started THEN "start" ELSE "detect"
    /\ UNCHANGED <<ctxVars, detectVars, inVars, outVars, destroyed, calls, size,
                   left, readVars>>

(* The format of the input so far: not known yet, which only a chunk may   *)
(* leave open; known, and the context is made; or an error.                *)
Detect ==
    /\ phase = "detect"
    /\ \/ /\ op = "write"
          /\ phase' = "return" /\ holding' = TRUE
          /\ UNCHANGED <<started, charged>>
       \/ /\ phase' = "start" /\ started' = TRUE /\ holding' = FALSE
          /\ charged' \in BOOLEAN
       \/ /\ phase' = "error" /\ holding' = (holding \/ op = "write")
          /\ UNCHANGED <<started, charged>>
    /\ UNCHANGED <<current, kind, answer, finished, closed, inVars, outVars,
                   destroyed, op, callVars, readVars>>

--------------------------------------------------------------------------------
(* A call of the scheduler: as in module WebStream. *)

Wait ==
    /\ \/ phase = "start" /\ phase' = "turn"
       \/ phase = "turn" /\ phase' = "go"
    /\ UNCHANGED <<ctxVars, detectVars, inVars, outVars, destroyed, op, callVars,
                   readVars>>

(* Mutant: the end does not wait for the data that decided the format. *)
CallContextAhead ==
    /\ phase \in {"start", "go"}
    /\ calls' = calls + 1
    /\ \/ /\ ctx!Begin(calls')
          /\ phase' = (IF op = "end" /\ method = "transform" THEN "start" ELSE "pool")
          /\ method' = (IF op = "end" /\ method = "transform" THEN "flush" ELSE method)
       \/ /\ ctx!Refuse(calls')
          /\ answer'[calls'] # "InvalidArg"
          /\ phase' = "error" /\ UNCHANGED method
    /\ kind'[calls'] = method
    /\ UNCHANGED <<detectVars, inVars, outVars, destroyed, op, size, left,
                   readVars>>

CallContext ==
    /\ phase \in {"start", "go"}
    /\ calls' = calls + 1
    /\ \/ /\ ctx!Begin(calls')
          /\ phase' \in {"js", "pool"}
       \/ /\ ctx!Refuse(calls')
          /\ answer'[calls'] # "InvalidArg"
          /\ phase' = "error"
    /\ kind'[calls'] = method
    /\ UNCHANGED <<detectVars, inVars, outVars, destroyed, op, method, size, left,
                   readVars>>

(* The result comes, or the error.  pushOutput() drops what comes after    *)
(* destroy().                                                              *)
Settle ==
    IF answer'[calls] = "ok"
    THEN \E n \in 0 .. MaxSlices :
            /\ size' = n /\ left' = (IF destroyed THEN 0 ELSE n)
            /\ owed' = owed + n
            /\ phase' = "push"
    ELSE phase' = "error" /\ UNCHANGED <<size, left, owed>>

ReturnSync ==
    /\ phase = "js"
    /\ ctx!Complete(calls)
    /\ Settle
    /\ UNCHANGED <<detectVars, inVars, outVars, destroyed, op, method, calls,
                   spoiled>>

PoolWorks ==
    /\ phase = "pool"
    /\ ctx!Answer(calls) \/ ctx!End(calls)
    /\ UNCHANGED <<detectVars, inVars, outVars, destroyed, op, phase, callVars,
                   readVars>>

PoolSettles ==
    /\ phase = "pool"
    /\ ctx!Retire(calls)
    /\ Settle
    /\ UNCHANGED <<detectVars, inVars, outVars, destroyed, op, method, calls,
                   spoiled>>

--------------------------------------------------------------------------------
(* pushSliced(). *)

(* The reader may transfer a chunk that shares no ArrayBuffer, and any     *)
(* chunk where the runtime cannot mark results.                            *)
Transferable == size = 1 \/ ~canMark

(* push() of a slice into the buffer. *)
Buffer ==
    /\ phase = "push" /\ left > 0 /\ ~destroyed
    /\ left' = left - 1 /\ buffer' = buffer + 1
    /\ UNCHANGED <<ctxVars, detectVars, inVars, eof, ended, destroyed, op, phase,
                   method, calls, size, readVars>>

(* Mutant: the result is not looked at after push(). *)
EmitUnchecked ==
    /\ phase = "push" /\ left > 0 /\ ~destroyed /\ buffer = 0
    /\ owed' = owed - 1
    /\ \/ left' = left - 1 /\ UNCHANGED <<ctxVars, holding, destroyed, phase>>
       \/ left' = 0 /\ UNCHANGED phase /\ Destroy
       \/ /\ Transferable
          /\ left' = 0
          /\ UNCHANGED <<ctxVars, holding, destroyed, phase>>
    /\ UNCHANGED <<started, inVars, outVars, op, method, calls, size, spoiled>>

(* In flowing mode push() runs the 'data' listener, which may destroy the  *)
(* stream, which then ignores the other slices, or transfer the chunk,     *)
(* which detaches them: the error of pushSliced().                         *)
Emit ==
    /\ phase = "push" /\ left > 0 /\ ~destroyed /\ buffer = 0
    /\ owed' = owed - 1
    /\ \/ left' = left - 1 /\ UNCHANGED <<ctxVars, holding, destroyed, phase>>
       \/ left' = 0 /\ UNCHANGED phase /\ Destroy
       \/ /\ Transferable
          /\ left' = 0
          /\ phase' = IF size = 1 THEN phase ELSE "error"
          /\ UNCHANGED <<ctxVars, holding, destroyed>>
    /\ UNCHANGED <<started, inVars, outVars, op, method, calls, size, spoiled>>

(* What follows a result: flush() after the data that decided the format   *)
(* at the end of the input, and finish() after flush().                    *)
Pushed ==
    /\ phase = "push" /\ left = 0
    /\ \/ /\ op = "write" /\ phase' = "return" /\ UNCHANGED method
       \/ /\ op = "end" /\ method = "transform"
          /\ method' = "flush" /\ phase' = "start"
       \/ /\ op = "end" /\ method = "flush"
          /\ method' = "finish" /\ phase' = "start"
       \/ /\ op = "end" /\ method = "finish"
          /\ phase' = "return" /\ UNCHANGED method
    /\ UNCHANGED <<ctxVars, detectVars, inVars, outVars, destroyed, op, calls,
                   size, left, readVars>>

--------------------------------------------------------------------------------
(* runStep() calls the callback. *)

(* The stream keeps the callback of a chunk whose output fills its buffer. *)
Return ==
    /\ phase = "return"
    /\ op' = "none" /\ phase' = "none"
    /\ IF op = "end"
       THEN eof' = TRUE /\ UNCHANGED held
       ELSE /\ held' \in BOOLEAN
            /\ held' => buffer > 0 /\ ~ending
            /\ UNCHANGED eof
    /\ UNCHANGED <<ctxVars, detectVars, written, pending, ending, buffer, ended,
                   destroyed, callVars, readVars>>

(* Mutant: a Promise that rejects does not call the callback. *)
FailQuietly ==
    /\ phase = "error"
    /\ phase' = "none"
    /\ UNCHANGED <<ctxVars, detectVars, inVars, outVars, destroyed, op, callVars,
                   readVars>>

(* An error destroys the stream.  One that comes after destroy() is        *)
(* dropped, by runStep() or by the stream.                                 *)
Fail ==
    /\ phase = "error"
    /\ op' = "none" /\ phase' = "none"
    /\ IF destroyed THEN UNCHANGED <<ctxVars, holding, destroyed>> ELSE Destroy
    /\ UNCHANGED <<started, inVars, outVars, callVars, readVars>>

--------------------------------------------------------------------------------
(* The user, and what the stream does of itself. *)

Write ==
    /\ JsFree /\ ~destroyed /\ ~ending /\ written < MaxChunks
    /\ written' = written + 1 /\ pending' = pending + 1
    /\ UNCHANGED <<ctxVars, detectVars, ending, held, outVars, destroyed, op,
                   phase, callVars, readVars>>

CallEnd ==
    /\ JsFree /\ ~destroyed /\ ~ending
    /\ ending' = TRUE
    /\ UNCHANGED <<ctxVars, detectVars, written, pending, held, outVars, destroyed,
                   op, phase, callVars, readVars>>

(* A reader takes a slice from the buffer, and may transfer it with those  *)
(* behind it where the runtime cannot mark results.  The stream lets the   *)
(* chunk go that waits for room, at the latest once its buffer is empty.   *)
Read ==
    /\ JsFree /\ ~destroyed /\ buffer > 0
    /\ buffer' = buffer - 1 /\ owed' = owed - 1
    /\ \/ UNCHANGED spoiled
       \/ ~canMark /\ spoiled' = TRUE
    /\ held' \in {FALSE, held /\ buffer' > 0}
    /\ UNCHANGED <<ctxVars, detectVars, written, pending, ending, eof, ended,
                   destroyed, op, phase, callVars>>

(* 'end', after which the stream destroys itself. *)
EmitEnd ==
    /\ JsFree /\ ~destroyed /\ eof /\ buffer = 0
    /\ ended' = TRUE
    /\ Destroy
    /\ UNCHANGED <<started, inVars, buffer, eof, op, phase, callVars, readVars>>

UserDestroy ==
    /\ JsFree /\ ~destroyed
    /\ Destroy
    /\ UNCHANGED <<started, inVars, outVars, op, phase, callVars, readVars>>

--------------------------------------------------------------------------------

Helper ==
    \/ TakeChunk \/ TakeEnd \/ Detect
    \/ Wait \/ CallContext \/ ReturnSync \/ PoolWorks \/ PoolSettles
    \/ Buffer \/ Emit \/ Pushed \/ Return \/ Fail
    \/ EmitEnd

User == Write \/ CallEnd \/ UserDestroy

Next == (Helper \/ Read \/ User) /\ UNCHANGED helperVars

Spec == Init /\ [][Next]_vars

(* The runtime and the pool go on, and a reader goes on reading, as that   *)
(* of a pipeline does until it destroys the stream.                        *)
FairSpec ==
    /\ Spec
    /\ WF_vars(Helper /\ UNCHANGED helperVars)
    /\ WF_vars(Read /\ UNCHANGED helperVars)

--------------------------------------------------------------------------------
(* Properties. *)

(* A stream that ended, failed or was destroyed keeps neither native       *)
(* memory nor input whose format it was still to detect, whatever call was *)
(* in flight or waiting when it did.                                       *)
MemoryIsReleased ==
    destroyed /\ op = "none" =>
        ~charged /\ ~holding /\ (started => closed \/ finished)

(* A stream that emits 'end' has passed on every slice of every result: it *)
(* fails if a listener detached the slices that it had yet to push.        *)
OutputIsWhole == ended /\ ~spoiled => owed = 0

(* The context refuses no call for one in flight or for its own end, and   *)
(* none for being closed while the stream lives.                           *)
CallsAreInOrder ==
    \A c \in Calls :
        /\ answer[c] \notin {"Busy", "Finished"}
        /\ answer[c] = "Closed" => destroyed

(* A stream whose input has ended closes: it ends or fails. *)
StreamCloses == ending ~> destroyed
================================================================================
