-------------------------- MODULE NodeTransformProofs --------------------------
(***************************************************************************)
(* Proofs about NodeTransform, for streams of any number of chunks and     *)
(* results of any number of slices.                                        *)
(***************************************************************************)
EXTENDS NodeTransform, TLAPS

ToCall == phase \in {"start", "turn", "go"}
InFlight == phase \in {"js", "pool"}

(* Where the helper is, and in which operation. *)
PhaseInv ==
    /\ op = "none" <=> phase = "none"
    /\ op = "write" => method = "transform"
    /\ op = "end" => pending = 0 /\ ending
    /\ op = "end" /\ phase = "return" => method = "finish"
    /\ eof => op = "none" /\ pending = 0 /\ ending
    /\ phase = "detect" => ~started /\ ~destroyed /\ method = "transform"
    /\ ToCall \/ InFlight \/ phase = "push" => started

(* Before its format is known the stream has no context, and only then     *)
(* does it hold input.                                                     *)
StartInv ==
    /\ ~started => ~charged /\ ~closed /\ ~finished
    /\ holding => ~started /\ ~destroyed

(* The context works on the last call of the helper, or on none. *)
CallInv ==
    /\ InFlight => current = calls /\ calls > 0 /\ kind[calls] = method
    /\ ~InFlight => current = 0
    /\ \A c \in Calls : c > calls => answer[c] = "none"
    /\ phase = "js" => answer[calls] = "none"

(* finish() is the last call; destroy() alone closes the context. *)
EndInv ==
    /\ finished => /\ op = "end" \/ eof \/ destroyed
                   /\ ~ToCall /\ phase \notin {"detect", "js"}
                   /\ phase = "pool" => answer[calls] # "none"
                   /\ phase \in {"pool", "push"} => method = "finish"
    /\ op = "end" /\ method = "finish" /\ phase \in {"push", "return"} => finished
    /\ closed => destroyed
    /\ destroyed /\ started => closed \/ finished
    /\ ~InFlight /\ (closed \/ finished) => ~charged

(* A chunk takes one call, the end up to three. *)
CountInv ==
    /\ op # "none" =>
           calls + (IF ToCall \/ phase = "detect" THEN 1 ELSE 0)
                 + (IF op # "end" \/ method = "finish" THEN 0
                    ELSE IF method = "flush" THEN 1 ELSE 2)
               <= written - pending + (IF op = "end" THEN 3 ELSE 0)
    /\ op = "none" /\ ~eof /\ ~destroyed => calls <= written - pending

(* Slices that no reader has are in the buffer or in hand, unless the      *)
(* stream fails.                                                           *)
OwedInv ==
    /\ left > 0 => phase = "push" /\ ~destroyed
    /\ buffer + left <= owed
    /\ ~destroyed /\ phase # "error" => owed = buffer + left
    /\ ended => eof /\ destroyed /\ owed = 0

IInv ==
    /\ TypeOK
    /\ PhaseInv
    /\ StartInv
    /\ CallInv
    /\ EndInv
    /\ CountInv
    /\ OwedInv
    /\ CallsAreInOrder

--------------------------------------------------------------------------------

LEMMA Initially == Init => IInv
<1> SUFFICES ASSUME Init
             PROVE  IInv
  OBVIOUS
<1> USE HelpersAssumption, BoundsAssumption DEF Init, ctx!Init, ctxVars
<1>1. /\ kind \in [Calls -> {"transform", "flush", "finish"}]
      /\ answer \in [Calls -> {"none", "ok", "failed", "Finished", "Closed", "Busy"}]
  OBVIOUS
<1>2. started \in BOOLEAN
  BY Zenon
<1>3. {finished, closed, charged, started, holding, ending, held, eof, ended,
       destroyed, spoiled} \subseteq BOOLEAN
  BY <1>2
<1>4. TypeOK
  BY <1>1, <1>3 DEF TypeOK
<1>5. PhaseInv /\ StartInv
  BY DEF PhaseInv, StartInv, ToCall, InFlight
<1>6. CallInv
  BY DEF CallInv, InFlight, Calls
<1>7. EndInv /\ CountInv /\ OwedInv
  BY DEF EndInv, CountInv, OwedInv, ToCall, InFlight
<1>8. CallsAreInOrder
  BY DEF CallsAreInOrder, Calls
<1> QED
  BY <1>4, <1>5, <1>6, <1>7, <1>8 DEF IInv

(* destroy(): the context is over, or will be when its call is. *)
LEMMA DestroyEffect ==
    ASSUME IInv, Destroy
    PROVE  /\ UNCHANGED <<current, kind, answer, finished>>
           /\ destroyed' = TRUE /\ holding' = FALSE
           /\ closed' \in BOOLEAN /\ charged' \in BOOLEAN
           /\ started => closed' \/ finished
           /\ ~started => ~closed' /\ ~charged'
           /\ ~InFlight => ~charged'
<1> USE DEF IInv, TypeOK, ctxVars, Destroy
<1>1. CASE started
  <2>1. CASE current = 0 /\ closed' = (closed \/ ~finished) /\ charged' = FALSE
    BY <1>1, <2>1, Zenon DEF ctx!Close
  <2>2. CASE current # 0 /\ closed' = TRUE /\ UNCHANGED charged
    BY <1>1, <2>2 DEF ctx!Close, CallInv
  <2> QED
    BY <1>1, <2>1, <2>2 DEF ctx!Close
<1>2. CASE ~started
  BY <1>2 DEF StartInv
<1> QED
  BY <1>1, <1>2

(* An operation starts. *)
LEMMA TakeChunkKeeps ==
    ASSUME IInv, TakeChunk, UNCHANGED helperVars
    PROVE  IInv'
<1> USE HelpersAssumption, BoundsAssumption
    DEF IInv, TakeChunk, helperVars, ctxVars, detectVars, inVars, outVars, callVars, readVars
<1>1. TypeOK'
  BY DEF TypeOK, Calls
<1>2. PhaseInv'
  BY DEF PhaseInv, ToCall, InFlight, TypeOK
<1>3. StartInv'
  BY DEF StartInv
<1>4. CallInv'
  BY DEF CallInv, InFlight, Calls, TypeOK, PhaseInv
<1>5. EndInv'
  BY DEF EndInv, InFlight, ToCall, TypeOK, PhaseInv
<1>6. CountInv'
  BY DEF CountInv, ToCall, TypeOK, PhaseInv
<1>7. OwedInv'
  BY DEF OwedInv, TypeOK, PhaseInv
<1>8. CallsAreInOrder'
  BY DEF CallsAreInOrder
<1> QED
  BY <1>1, <1>2, <1>3, <1>4, <1>5, <1>6, <1>7, <1>8

LEMMA TakeEndKeeps ==
    ASSUME IInv, TakeEnd, UNCHANGED helperVars
    PROVE  IInv'
<1> USE HelpersAssumption, BoundsAssumption
    DEF IInv, TakeEnd, helperVars, ctxVars, detectVars, inVars, outVars, callVars, readVars
<1>1. TypeOK'
  BY DEF TypeOK, Calls
<1>2. PhaseInv'
  BY DEF PhaseInv, ToCall, InFlight, TypeOK
<1>3. StartInv'
  BY DEF StartInv
<1>4. CallInv'
  BY DEF CallInv, InFlight, Calls, TypeOK, PhaseInv
<1>5. EndInv'
  BY DEF EndInv, InFlight, ToCall, TypeOK, PhaseInv
<1>6. CountInv'
  BY DEF CountInv, ToCall, TypeOK, PhaseInv
<1>7. OwedInv'
  BY DEF OwedInv, TypeOK, PhaseInv
<1>8. CallsAreInOrder'
  BY DEF CallsAreInOrder
<1> QED
  BY <1>1, <1>2, <1>3, <1>4, <1>5, <1>6, <1>7, <1>8

LEMMA DetectKeeps ==
    ASSUME IInv, Detect, UNCHANGED helperVars
    PROVE  IInv'
<1> USE HelpersAssumption, BoundsAssumption
    DEF IInv, Detect, helperVars, ctxVars, detectVars, inVars, outVars, callVars, readVars
<1>1. TypeOK'
  BY DEF TypeOK, Calls
<1>2. PhaseInv'
  BY DEF PhaseInv, ToCall, InFlight, TypeOK
<1>3. StartInv'
  BY DEF StartInv, TypeOK, PhaseInv
<1>4. CallInv'
  BY DEF CallInv, InFlight, Calls, TypeOK, PhaseInv, StartInv
<1>5. EndInv'
  BY DEF EndInv, InFlight, ToCall, TypeOK, PhaseInv, StartInv
<1>6. CountInv'
  BY DEF CountInv, ToCall, TypeOK, PhaseInv
<1>7. OwedInv'
  BY DEF OwedInv, TypeOK, PhaseInv
<1>8. CallsAreInOrder'
  BY DEF CallsAreInOrder
<1> QED
  BY <1>1, <1>2, <1>3, <1>4, <1>5, <1>6, <1>7, <1>8

(* What the scheduler does before a call. *)
LEMMA WaitKeeps ==
    ASSUME IInv, Wait, UNCHANGED helperVars
    PROVE  IInv'
<1> USE HelpersAssumption, BoundsAssumption
    DEF IInv, Wait, helperVars, ctxVars, detectVars, inVars, outVars, callVars, readVars
<1>1. TypeOK'
  BY DEF TypeOK, Calls
<1>2. PhaseInv'
  BY DEF PhaseInv, ToCall, InFlight
<1>3. StartInv'
  BY DEF StartInv
<1>4. CallInv'
  BY DEF CallInv, InFlight, Calls
<1>5. EndInv'
  BY DEF EndInv, InFlight, ToCall
<1>6. CountInv'
  BY DEF CountInv, ToCall
<1>7. OwedInv'
  BY DEF OwedInv
<1>8. CallsAreInOrder'
  BY DEF CallsAreInOrder
<1> QED
  BY <1>1, <1>2, <1>3, <1>4, <1>5, <1>6, <1>7, <1>8

(* The user, and the end of the stream. *)
LEMMA WriteKeeps ==
    ASSUME IInv, Write, UNCHANGED helperVars
    PROVE  IInv'
<1> USE HelpersAssumption, BoundsAssumption
    DEF IInv, Write, helperVars, ctxVars, detectVars, inVars, outVars, callVars, readVars
<1>1. TypeOK'
  BY DEF TypeOK, Calls
<1>2. PhaseInv'
  BY DEF PhaseInv, ToCall, InFlight, TypeOK
<1>3. StartInv'
  BY DEF StartInv
<1>4. CallInv'
  BY DEF CallInv, InFlight, Calls
<1>5. EndInv'
  BY DEF EndInv, InFlight, ToCall
<1>6. CountInv'
  BY DEF CountInv, ToCall, TypeOK, PhaseInv
<1>7. OwedInv'
  BY DEF OwedInv
<1>8. CallsAreInOrder'
  BY DEF CallsAreInOrder
<1> QED
  BY <1>1, <1>2, <1>3, <1>4, <1>5, <1>6, <1>7, <1>8

LEMMA CallEndKeeps ==
    ASSUME IInv, CallEnd, UNCHANGED helperVars
    PROVE  IInv'
<1> USE HelpersAssumption, BoundsAssumption
    DEF IInv, CallEnd, helperVars, ctxVars, detectVars, inVars, outVars, callVars, readVars
<1>1. TypeOK'
  BY DEF TypeOK, Calls
<1>2. PhaseInv'
  BY DEF PhaseInv, ToCall, InFlight
<1>3. StartInv'
  BY DEF StartInv
<1>4. CallInv'
  BY DEF CallInv, InFlight, Calls
<1>5. EndInv'
  BY DEF EndInv, InFlight, ToCall
<1>6. CountInv'
  BY DEF CountInv, ToCall
<1>7. OwedInv'
  BY DEF OwedInv
<1>8. CallsAreInOrder'
  BY DEF CallsAreInOrder
<1> QED
  BY <1>1, <1>2, <1>3, <1>4, <1>5, <1>6, <1>7, <1>8

LEMMA ReadKeeps ==
    ASSUME IInv, Read, UNCHANGED helperVars
    PROVE  IInv'
<1> USE HelpersAssumption, BoundsAssumption
    DEF IInv, Read, helperVars, ctxVars, detectVars, inVars, outVars, callVars, readVars
<1>1. TypeOK'
  <2>1. held' \in BOOLEAN
    BY Zenon DEF TypeOK
  <2>2. buffer' \in Nat /\ owed' \in Nat
    BY DEF TypeOK, OwedInv
  <2> QED
    BY <2>1, <2>2 DEF TypeOK
<1>2. PhaseInv'
  BY DEF PhaseInv, ToCall, InFlight
<1>3. StartInv'
  BY DEF StartInv
<1>4. CallInv'
  BY DEF CallInv, InFlight, Calls
<1>5. EndInv'
  BY DEF EndInv, InFlight, ToCall
<1>6. CountInv'
  BY DEF CountInv, ToCall
<1>7. OwedInv'
  BY DEF OwedInv, TypeOK, PhaseInv, JsFree
<1>8. CallsAreInOrder'
  BY DEF CallsAreInOrder
<1> QED
  BY <1>1, <1>2, <1>3, <1>4, <1>5, <1>6, <1>7, <1>8

LEMMA BufferKeeps ==
    ASSUME IInv, Buffer, UNCHANGED helperVars
    PROVE  IInv'
<1> USE HelpersAssumption, BoundsAssumption
    DEF IInv, Buffer, helperVars, ctxVars, detectVars, inVars, outVars, callVars, readVars
<1>1. TypeOK'
  BY DEF TypeOK, Calls, OwedInv
<1>2. PhaseInv'
  BY DEF PhaseInv, ToCall, InFlight
<1>3. StartInv'
  BY DEF StartInv
<1>4. CallInv'
  BY DEF CallInv, InFlight, Calls
<1>5. EndInv'
  BY DEF EndInv, InFlight, ToCall
<1>6. CountInv'
  BY DEF CountInv, ToCall
<1>7. OwedInv'
  BY DEF OwedInv, TypeOK, PhaseInv
<1>8. CallsAreInOrder'
  BY DEF CallsAreInOrder
<1> QED
  BY <1>1, <1>2, <1>3, <1>4, <1>5, <1>6, <1>7, <1>8

LEMMA PushedKeeps ==
    ASSUME IInv, Pushed, UNCHANGED helperVars
    PROVE  IInv'
<1> USE HelpersAssumption, BoundsAssumption
    DEF IInv, Pushed, helperVars, ctxVars, detectVars, inVars, outVars, callVars, readVars
<1>1. TypeOK'
  BY DEF TypeOK, Calls
<1>2. PhaseInv'
  BY DEF PhaseInv, ToCall, InFlight, TypeOK
<1>3. StartInv'
  BY DEF StartInv
<1>4. CallInv'
  BY DEF CallInv, InFlight, Calls, TypeOK, PhaseInv
<1>5. EndInv'
  BY DEF EndInv, InFlight, ToCall, TypeOK, PhaseInv
<1>6. CountInv'
  BY DEF CountInv, ToCall, TypeOK, PhaseInv
<1>7. OwedInv'
  BY DEF OwedInv, TypeOK, PhaseInv
<1>8. CallsAreInOrder'
  BY DEF CallsAreInOrder
<1> QED
  BY <1>1, <1>2, <1>3, <1>4, <1>5, <1>6, <1>7, <1>8

LEMMA ReturnKeeps ==
    ASSUME IInv, Return, UNCHANGED helperVars
    PROVE  IInv'
<1> USE HelpersAssumption, BoundsAssumption
    DEF IInv, Return, helperVars, ctxVars, detectVars, inVars, outVars, callVars, readVars
<1>1. TypeOK'
  BY DEF TypeOK, Calls
<1>2. PhaseInv'
  BY DEF PhaseInv, ToCall, InFlight, TypeOK
<1>3. StartInv'
  BY DEF StartInv
<1>4. CallInv'
  BY DEF CallInv, InFlight, Calls, TypeOK, PhaseInv
<1>5. EndInv'
  BY DEF EndInv, InFlight, ToCall, TypeOK, PhaseInv
<1>6. CountInv'
  BY DEF CountInv, ToCall, TypeOK, PhaseInv
<1>7. OwedInv'
  BY DEF OwedInv, TypeOK, PhaseInv
<1>8. CallsAreInOrder'
  BY DEF CallsAreInOrder
<1> QED
  BY <1>1, <1>2, <1>3, <1>4, <1>5, <1>6, <1>7, <1>8

(* The next call is one that the context has not seen; it takes it, or it  *)
(* is closed.                                                              *)
LEMMA CallEffect ==
    ASSUME IInv, CallContext
    PROVE  /\ calls' = calls + 1 /\ calls' \in Calls /\ ToCall /\ current = 0
           /\ kind' = [kind EXCEPT ![calls'] = method]
           /\ UNCHANGED <<finished, closed, charged>>
           /\ \/ /\ ~closed /\ current' = calls' /\ answer' = answer
                 /\ answer[calls'] = "none" /\ phase' \in {"js", "pool"}
              \/ /\ closed /\ current' = current /\ phase' = "error"
                 /\ answer' = [answer EXCEPT ![calls'] = "Closed"]
<1> USE BoundsAssumption DEF IInv, CallContext
<1>1. calls' = calls + 1 /\ calls' \in Calls /\ ToCall /\ current = 0
  BY DEF ToCall, InFlight, CallInv, CountInv, PhaseInv, TypeOK, Calls
<1>2. CASE ctx!Begin(calls') /\ phase' \in {"js", "pool"}
  <2>1. /\ ctx!Method(calls')
        /\ ~closed /\ current' = calls' /\ answer' = answer
        /\ answer[calls'] = "none"
        /\ UNCHANGED <<finished, closed, charged>>
    BY <1>2 DEF ctx!Begin
  <2>2. kind' = [kind EXCEPT ![calls'] = method]
    BY <1>1, <2>1 DEF ctx!Method, TypeOK
  <2> QED
    BY <1>1, <1>2, <2>1, <2>2
<1>3. CASE /\ ctx!Refuse(calls')
           /\ answer'[calls'] # "InvalidArg"
           /\ phase' = "error"
  <2>1. /\ ctx!Method(calls')
        /\ UNCHANGED <<current, finished, closed, charged>>
        /\ \/ closed /\ answer' = [answer EXCEPT ![calls'] = "Closed"]
           \/ answer' = [answer EXCEPT ![calls'] = "InvalidArg"]
    BY <1>1, <1>3 DEF ctx!Refuse
  <2>2. kind' = [kind EXCEPT ![calls'] = method]
    BY <1>1, <2>1 DEF ctx!Method, TypeOK
  <2>3. answer' # [answer EXCEPT ![calls'] = "InvalidArg"]
    BY <1>1, <1>3 DEF TypeOK
  <2> QED
    BY <1>1, <1>3, <2>1, <2>2, <2>3
<1> QED
  BY <1>2, <1>3

LEMMA CallContextKeeps ==
    ASSUME IInv, CallContext, UNCHANGED helperVars
    PROVE  IInv'
<1> USE HelpersAssumption, BoundsAssumption
    DEF IInv, helperVars, detectVars, inVars, outVars, readVars
<1>1. /\ calls' = calls + 1 /\ calls' \in Calls /\ calls \in Nat
      /\ ToCall /\ current = 0
      /\ kind' = [kind EXCEPT ![calls'] = method]
      /\ UNCHANGED <<detectVars, inVars, outVars, destroyed, op, method, size, left,
                     readVars, finished, closed, charged>>
  BY CallEffect DEF CallContext, TypeOK
<1>2. /\ kind' \in [Calls -> {"transform", "flush", "finish"}]
      /\ kind'[calls'] = method
      /\ \A c \in Calls : c # calls' => kind'[c] = kind[c]
  BY <1>1 DEF TypeOK
<1>3. CASE /\ ~closed /\ current' = calls' /\ answer' = answer
           /\ answer[calls'] = "none" /\ phase' \in {"js", "pool"}
  <2>1. TypeOK'
    BY <1>1, <1>2, <1>3 DEF TypeOK, Calls
  <2>2. PhaseInv' /\ StartInv' /\ OwedInv'
    BY <1>1, <1>3 DEF PhaseInv, StartInv, OwedInv, ToCall, InFlight
  <2>3. CallInv'
    BY <1>1, <1>2, <1>3 DEF CallInv, InFlight, Calls
  <2>4. EndInv'
    BY <1>1, <1>3 DEF EndInv, InFlight, ToCall
  <2>5. CountInv'
    BY <1>1, <1>3 DEF CountInv, ToCall, PhaseInv, TypeOK
  <2>6. CallsAreInOrder'
    BY <1>1, <1>3 DEF CallsAreInOrder
  <2> QED
    BY <2>1, <2>2, <2>3, <2>4, <2>5, <2>6
<1>4. CASE /\ closed /\ current' = current /\ phase' = "error"
           /\ answer' = [answer EXCEPT ![calls'] = "Closed"]
  <2>1. /\ answer' \in [Calls -> {"none", "ok", "failed", "Finished", "Closed", "Busy"}]
        /\ answer'[calls'] = "Closed"
        /\ \A c \in Calls : c # calls' => answer'[c] = answer[c]
    BY <1>1, <1>4 DEF TypeOK
  <2>2. destroyed
    BY <1>4 DEF EndInv
  <2>3. TypeOK'
    BY <1>1, <1>2, <1>4, <2>1 DEF TypeOK, Calls
  <2>4. PhaseInv' /\ StartInv' /\ OwedInv'
    BY <1>1, <1>4, <2>2 DEF PhaseInv, StartInv, OwedInv, ToCall, InFlight
  <2>5. CallInv'
    BY <1>1, <1>4, <2>1 DEF CallInv, InFlight, Calls
  <2>6. EndInv'
    BY <1>1, <1>4 DEF EndInv, InFlight, ToCall
  <2>7. CountInv'
    BY <1>1, <1>4 DEF CountInv, ToCall, PhaseInv, TypeOK
  <2>8. CallsAreInOrder'
    BY <1>1, <2>1, <2>2 DEF CallsAreInOrder
  <2> QED
    BY <2>3, <2>4, <2>5, <2>6, <2>7, <2>8
<1> QED
  BY <1>3, <1>4, CallEffect

(* A call in flight: its first answer is true, and none came before it.     *)
LEMMA AnswerEffect ==
    ASSUME IInv, InFlight, answer[calls] = "none", ctx!Result(calls)
    PROVE  /\ answer' \in [Calls -> {"none", "ok", "failed", "Finished", "Closed", "Busy"}]
           /\ answer'[calls] \in {"ok", "failed"}
           /\ \A c \in Calls : c # calls => answer'[c] = answer[c]
           /\ ~finished /\ calls \in Calls /\ current = calls
           /\ kind[calls] = method /\ op # "none"
<1> USE DEF IInv
<1>1. calls \in Calls /\ current = calls /\ kind[calls] = method /\ op # "none"
  BY BoundsAssumption DEF CallInv, InFlight, TypeOK, Calls, PhaseInv
<1>2. ~finished
  BY DEF EndInv, InFlight
<1>3. PICK r \in {"ok", "failed"} : answer' = [answer EXCEPT ![calls] = r]
  BY <1>2 DEF ctx!Result
<1> QED
  BY <1>1, <1>2, <1>3 DEF TypeOK

(* Its result is in hand, for a stream that still takes it. *)
LEMMA SettleEffect ==
    ASSUME IInv, InFlight, Settle, UNCHANGED <<destroyed, buffer, ended>>
    PROVE  /\ phase' \in {"push", "error"}
           /\ size' \in 0 .. MaxSlices /\ left' \in 0 .. size' /\ owed' \in Nat
           /\ buffer + left' <= owed'
           /\ left' > 0 => phase' = "push" /\ ~destroyed
           /\ ~destroyed /\ phase' # "error" => owed' = buffer + left'
           /\ ended => FALSE
<1> USE BoundsAssumption DEF IInv
<1>1. /\ left = 0 /\ buffer <= owed /\ (~destroyed => owed = buffer) /\ ~ended
      /\ buffer \in Nat /\ owed \in Nat /\ size \in 0 .. MaxSlices
  BY DEF OwedInv, InFlight, TypeOK, PhaseInv
<1>2. CASE answer'[calls] = "ok"
  BY <1>1, <1>2 DEF Settle
<1>3. CASE answer'[calls] # "ok"
  BY <1>1, <1>3 DEF Settle
<1> QED
  BY <1>2, <1>3

LEMMA ReturnSyncKeeps ==
    ASSUME IInv, ReturnSync, UNCHANGED helperVars
    PROVE  IInv'
<1> USE HelpersAssumption, BoundsAssumption
    DEF IInv, helperVars, detectVars, inVars, outVars
<1>1. /\ phase = "js" /\ InFlight /\ answer[calls] = "none" /\ ctx!Result(calls)
      /\ finished' = (finished \/ kind[calls] = "finish")
      /\ charged' \in BOOLEAN /\ (charged' => ~finished' /\ ~closed)
      /\ UNCHANGED <<kind, closed, detectVars, inVars, outVars, destroyed, op,
                     method, calls, spoiled>>
      /\ current' = 0
  BY DEF ReturnSync, ctx!Complete, ctx!Charge, InFlight
<1>2. /\ answer' \in [Calls -> {"none", "ok", "failed", "Finished", "Closed", "Busy"}]
      /\ answer'[calls] \in {"ok", "failed"}
      /\ \A c \in Calls : c # calls => answer'[c] = answer[c]
      /\ ~finished /\ calls \in Calls /\ current = calls
      /\ kind[calls] = method /\ op # "none"
  BY <1>1, AnswerEffect
<1>3. /\ phase' \in {"push", "error"}
      /\ size' \in 0 .. MaxSlices /\ left' \in 0 .. size' /\ owed' \in Nat
      /\ buffer + left' <= owed'
      /\ left' > 0 => phase' = "push" /\ ~destroyed
      /\ ~destroyed /\ phase' # "error" => owed' = buffer + left'
      /\ ended => FALSE
  BY <1>1, SettleEffect DEF ReturnSync
<1>4. finished' \in BOOLEAN /\ (finished' <=> method = "finish")
  BY <1>1, <1>2, Zenon
<1>5. TypeOK'
  <2>1. {finished', closed', charged', started', holding', ending', held', eof',
         ended', destroyed', spoiled'} \subseteq BOOLEAN
    BY <1>1, <1>4 DEF TypeOK
  <2> QED
    BY <1>1, <1>2, <1>3, <2>1 DEF TypeOK, Calls
<1>6. PhaseInv'
  BY <1>1, <1>2, <1>3 DEF PhaseInv, ToCall, InFlight
<1>7. StartInv'
  BY <1>1 DEF StartInv, PhaseInv
<1>8. CallInv'
  BY <1>1, <1>2, <1>3 DEF CallInv, InFlight, Calls
<1>9. EndInv'
  BY <1>1, <1>2, <1>3, <1>4 DEF EndInv, InFlight, ToCall, PhaseInv, TypeOK
<1>10. CountInv'
  BY <1>1, <1>2, <1>3 DEF CountInv, ToCall, TypeOK
<1>11. OwedInv'
  BY <1>1, <1>3 DEF OwedInv
<1>12. CallsAreInOrder'
  BY <1>1, <1>2 DEF CallsAreInOrder
<1> QED
  BY <1>5, <1>6, <1>7, <1>8, <1>9, <1>10, <1>11, <1>12

LEMMA PoolWorksKeeps ==
    ASSUME IInv, PoolWorks, UNCHANGED helperVars
    PROVE  IInv'
<1> USE HelpersAssumption, BoundsAssumption
    DEF IInv, helperVars, detectVars, inVars, outVars, callVars, readVars
<1>1. /\ phase = "pool" /\ InFlight
      /\ UNCHANGED <<detectVars, inVars, outVars, destroyed, op, phase, callVars,
                     readVars, current, kind, closed, charged>>
  BY DEF PoolWorks, ctx!Answer, ctx!End, InFlight
<1>2. CASE ctx!Answer(calls)
  <2>1. answer[calls] = "none" /\ ctx!Result(calls) /\ finished' = finished
    BY <1>2 DEF ctx!Answer
  <2>2. /\ answer' \in [Calls -> {"none", "ok", "failed", "Finished", "Closed", "Busy"}]
        /\ answer'[calls] \in {"ok", "failed"}
        /\ \A c \in Calls : c # calls => answer'[c] = answer[c]
        /\ ~finished /\ calls \in Calls
    BY <1>1, <2>1, AnswerEffect
  <2>3. TypeOK'
    BY <1>1, <2>1, <2>2 DEF TypeOK, Calls
  <2>4. PhaseInv' /\ StartInv' /\ OwedInv'
    BY <1>1, <2>1 DEF PhaseInv, StartInv, OwedInv, ToCall, InFlight
  <2>5. CallInv'
    BY <1>1, <2>2 DEF CallInv, InFlight, Calls
  <2>6. EndInv' /\ CountInv'
    BY <1>1, <2>1, <2>2 DEF EndInv, InFlight, ToCall, CountInv
  <2>7. CallsAreInOrder'
    BY <1>1, <2>2 DEF CallsAreInOrder
  <2> QED
    BY <2>3, <2>4, <2>5, <2>6, <2>7
<1>3. CASE ctx!End(calls)
  <2>1. /\ answer[calls] # "none" /\ kind[calls] = "finish" /\ finished' = TRUE
        /\ answer' = answer
    BY <1>3 DEF ctx!End
  <2>2. method = "finish" /\ op = "end" /\ started
    BY <1>1, <2>1 DEF CallInv, PhaseInv, TypeOK
  <2>3. TypeOK'
    BY <1>1, <2>1 DEF TypeOK, Calls
  <2>4. PhaseInv' /\ StartInv' /\ OwedInv'
    BY <1>1, <2>1, <2>2 DEF PhaseInv, StartInv, OwedInv, ToCall, InFlight
  <2>5. CallInv'
    BY <1>1, <2>1 DEF CallInv, InFlight, Calls
  <2>6. EndInv' /\ CountInv'
    BY <1>1, <2>1, <2>2 DEF EndInv, InFlight, ToCall, CountInv
  <2>7. CallsAreInOrder'
    BY <1>1, <2>1 DEF CallsAreInOrder
  <2> QED
    BY <2>3, <2>4, <2>5, <2>6, <2>7
<1> QED
  BY <1>2, <1>3 DEF PoolWorks

LEMMA PoolSettlesKeeps ==
    ASSUME IInv, PoolSettles, UNCHANGED helperVars
    PROVE  IInv'
<1> USE HelpersAssumption, BoundsAssumption
    DEF IInv, helperVars, detectVars, inVars, outVars
<1>1. /\ phase = "pool" /\ InFlight /\ answer[calls] # "none" /\ current' = 0
      /\ kind[calls] = "finish" => finished
      /\ charged' \in BOOLEAN /\ (charged' => ~finished /\ ~closed)
      /\ UNCHANGED <<detectVars, inVars, outVars, destroyed, op, method, calls,
                     spoiled, kind, answer, finished, closed>>
  BY DEF PoolSettles, ctx!Retire, ctx!Charge, InFlight
<1>2. calls \in Calls /\ kind[calls] = method /\ op # "none" /\ started
  BY <1>1 DEF CallInv, InFlight, TypeOK, Calls, PhaseInv
<1>3. /\ phase' \in {"push", "error"}
      /\ size' \in 0 .. MaxSlices /\ left' \in 0 .. size' /\ owed' \in Nat
      /\ buffer + left' <= owed'
      /\ left' > 0 => phase' = "push" /\ ~destroyed
      /\ ~destroyed /\ phase' # "error" => owed' = buffer + left'
      /\ ended => FALSE
  BY <1>1, SettleEffect DEF PoolSettles
<1>4. TypeOK'
  BY <1>1, <1>3 DEF TypeOK, Calls
<1>5. PhaseInv' /\ StartInv'
  BY <1>1, <1>2, <1>3 DEF PhaseInv, StartInv, ToCall, InFlight
<1>6. CallInv'
  BY <1>1, <1>2, <1>3 DEF CallInv, InFlight, Calls
<1>7. EndInv'
  BY <1>1, <1>2, <1>3 DEF EndInv, InFlight, ToCall
<1>8. CountInv'
  BY <1>1, <1>2, <1>3 DEF CountInv, ToCall, TypeOK
<1>9. OwedInv'
  BY <1>1, <1>3 DEF OwedInv
<1>10. CallsAreInOrder'
  BY <1>1 DEF CallsAreInOrder
<1> QED
  BY <1>4, <1>5, <1>6, <1>7, <1>8, <1>9, <1>10

(* destroy(), by the user, by an error, in a 'data' listener or at 'end'.  *)
LEMMA DestroyKeeps ==
    ASSUME IInv, Destroy, UNCHANGED helperVars,
           UNCHANGED <<started, inVars, buffer, eof, method, calls, size, spoiled>>,
           \/ UNCHANGED <<op, phase>>
           \/ ~InFlight /\ ~eof /\ op' = "none" /\ phase' = "none",
           phase # "detect", left' = 0, owed' \in Nat, buffer <= owed',
           ended' \in BOOLEAN,
           ended' => eof /\ owed' = 0
    PROVE  IInv'
<1> USE HelpersAssumption, BoundsAssumption DEF IInv, helperVars, inVars
<1>1. /\ UNCHANGED <<current, kind, answer, finished>>
      /\ destroyed' = TRUE /\ holding' = FALSE
      /\ closed' \in BOOLEAN /\ charged' \in BOOLEAN
      /\ started => closed' \/ finished
      /\ ~started => ~closed' /\ ~charged'
      /\ ~InFlight => ~charged'
  BY DestroyEffect
<1>2. TypeOK'
  <2>1. {finished', closed', charged', started', holding', ending', held', eof',
         ended', destroyed', spoiled'} \subseteq BOOLEAN
    BY <1>1 DEF TypeOK
  <2>2. op' \in {"none", "write", "end"} /\ pending' \in 0 .. written'
        /\ left' \in 0 .. size'
    BY DEF TypeOK
  <2> QED
    BY <1>1, <2>1, <2>2 DEF TypeOK, Calls
<1>3. PhaseInv'
  BY <1>1 DEF PhaseInv, ToCall, InFlight
<1>4. StartInv'
  BY <1>1 DEF StartInv
<1>5. CallInv'
  BY <1>1 DEF CallInv, InFlight, Calls
<1>6. EndInv'
  BY <1>1 DEF EndInv, InFlight, ToCall, StartInv
<1>7. CountInv'
  BY <1>1 DEF CountInv, ToCall
<1>8. OwedInv'
  BY <1>1 DEF OwedInv, TypeOK
<1>9. CallsAreInOrder'
  BY <1>1 DEF CallsAreInOrder
<1> QED
  BY <1>2, <1>3, <1>4, <1>5, <1>6, <1>7, <1>8, <1>9

LEMMA EmitKeeps ==
    ASSUME IInv, Emit, UNCHANGED helperVars
    PROVE  IInv'
<1> USE HelpersAssumption, BoundsAssumption
    DEF IInv, helperVars, inVars, outVars
<1>1. /\ phase = "push" /\ left > 0 /\ ~destroyed /\ buffer = 0
      /\ owed' = owed - 1
      /\ UNCHANGED <<started, inVars, outVars, op, method, calls, size, spoiled>>
      /\ left \in Nat /\ size \in Nat /\ owed = left /\ ~ended /\ ended \in BOOLEAN
      /\ left \in 0 .. size
  BY DEF Emit, OwedInv, TypeOK
<1>2. CASE Destroy /\ left' = 0 /\ UNCHANGED phase
  BY <1>1, <1>2, DestroyKeeps
<1>3. ASSUME UNCHANGED <<ctxVars, holding, destroyed>>, left' \in 0 .. left - 1,
             \/ phase' = "push" /\ left' = left - 1
             \/ phase' = "error" /\ ~(left' > 0)
      PROVE  IInv'
  <2> USE <1>1, <1>3 DEF ctxVars
  <2>1. TypeOK'
    BY DEF TypeOK, Calls
  <2>2. PhaseInv' /\ StartInv'
    BY DEF PhaseInv, StartInv, ToCall, InFlight
  <2>3. CallInv' /\ EndInv' /\ CountInv'
    BY DEF CallInv, EndInv, CountInv, InFlight, ToCall, Calls
  <2>4. OwedInv'
    <3>1. /\ buffer' = buffer /\ owed' = owed - 1 /\ owed = buffer + left
          /\ ended' = ended /\ ~ended
          /\ left \in Nat /\ owed \in Nat /\ buffer \in Nat
          /\ phase' # "error" => left' = left - 1
          /\ left' > 0 => phase' = "push" /\ ~destroyed'
      BY DEF OwedInv, TypeOK
    <3>2. PICK rest \in 0 .. left - 1 : left' = rest
      OBVIOUS
    <3> HIDE <1>1, <1>3 DEF IInv
    <3>3. buffer + rest <= owed - 1 /\ (rest = left - 1 => owed - 1 = buffer + rest)
      BY <3>1, <3>2
    <3> QED
      BY <3>1, <3>2, <3>3 DEF OwedInv
  <2>5. CallsAreInOrder'
    BY DEF CallsAreInOrder
  <2> QED
    BY <2>1, <2>2, <2>3, <2>4, <2>5
<1>4. CASE left' = left - 1 /\ UNCHANGED <<ctxVars, holding, destroyed, phase>>
  BY <1>1, <1>3, <1>4
<1>5. CASE /\ left' = 0
           /\ phase' = IF size = 1 THEN phase ELSE "error"
           /\ UNCHANGED <<ctxVars, holding, destroyed>>
  BY <1>1, <1>3, <1>5
<1> QED
  BY <1>2, <1>4, <1>5 DEF Emit

LEMMA FailKeeps ==
    ASSUME IInv, Fail, UNCHANGED helperVars
    PROVE  IInv'
<1> USE HelpersAssumption, BoundsAssumption DEF IInv
<1>1. /\ phase = "error" /\ op' = "none" /\ phase' = "none" /\ ~InFlight
      /\ UNCHANGED <<started, inVars, outVars, callVars, readVars>>
      /\ left = 0 /\ op # "none" /\ ~eof /\ ~ended
      /\ owed \in Nat /\ buffer \in Nat /\ buffer <= owed /\ ended \in BOOLEAN
  BY DEF Fail, InFlight, OwedInv, PhaseInv, TypeOK
<1>2. CASE Destroy
  BY <1>1, <1>2, DestroyKeeps DEF outVars, callVars, readVars
<1>3. CASE destroyed /\ UNCHANGED <<ctxVars, holding, destroyed>>
  <2> USE <1>1, <1>3 DEF helperVars, ctxVars, inVars, outVars, callVars, readVars
  <2>1. TypeOK'
    BY DEF TypeOK, Calls
  <2>2. PhaseInv' /\ StartInv' /\ OwedInv'
    BY DEF PhaseInv, StartInv, OwedInv, ToCall, InFlight
  <2>3. CallInv' /\ EndInv' /\ CountInv'
    BY DEF CallInv, EndInv, CountInv, InFlight, ToCall, Calls
  <2>4. CallsAreInOrder'
    BY DEF CallsAreInOrder
  <2> QED
    BY <2>1, <2>2, <2>3, <2>4
<1> QED
  BY <1>2, <1>3 DEF Fail

LEMMA EmitEndKeeps ==
    ASSUME IInv, EmitEnd, UNCHANGED helperVars
    PROVE  IInv'
<1>1. /\ left = 0 /\ owed = 0 /\ buffer = 0 /\ eof /\ ended' = TRUE /\ Destroy
      /\ phase # "detect" /\ left \in Nat /\ owed \in Nat
      /\ UNCHANGED <<started, inVars, buffer, eof, op, phase, callVars, readVars>>
  BY DEF IInv, EmitEnd, OwedInv, JsFree, TypeOK
<1> QED
  BY <1>1, DestroyKeeps DEF callVars, readVars

LEMMA UserDestroyKeeps ==
    ASSUME IInv, UserDestroy, UNCHANGED helperVars
    PROVE  IInv'
<1>1. /\ left = 0 /\ buffer <= owed /\ ended \in BOOLEAN /\ ~ended /\ Destroy
      /\ phase # "detect" /\ left \in Nat /\ owed \in Nat
      /\ UNCHANGED <<started, inVars, outVars, op, phase, callVars, readVars>>
  BY DEF IInv, UserDestroy, OwedInv, JsFree, TypeOK
<1> QED
  BY <1>1, DestroyKeeps DEF outVars, callVars, readVars

--------------------------------------------------------------------------------

LEMMA Inductive == IInv /\ [Next]_vars => IInv'
<1> SUFFICES ASSUME IInv, [Next]_vars
             PROVE  IInv'
  OBVIOUS
<1>1. CASE Helper /\ UNCHANGED helperVars
  BY <1>1, TakeChunkKeeps, TakeEndKeeps, DetectKeeps, WaitKeeps, CallContextKeeps,
     ReturnSyncKeeps, PoolWorksKeeps, PoolSettlesKeeps, BufferKeeps, EmitKeeps,
     PushedKeeps, ReturnKeeps, FailKeeps, EmitEndKeeps
     DEF Helper
<1>2. CASE (Read \/ User) /\ UNCHANGED helperVars
  BY <1>2, ReadKeeps, WriteKeeps, CallEndKeeps, UserDestroyKeeps DEF User
<1>3. CASE UNCHANGED vars
  BY <1>3 DEF vars, helperVars, ctxVars, detectVars, inVars, outVars, callVars, readVars,
              IInv, TypeOK, PhaseInv, StartInv, CallInv, EndInv, CountInv, OwedInv,
              CallsAreInOrder, ToCall, InFlight
<1> QED
  BY <1>1, <1>2, <1>3 DEF Next

(* The invariant holds of every stream. *)
THEOREM Invariance == Spec => []IInv
<1> QED
  BY Initially, Inductive, PTL DEF Spec

(* A stream that ended, failed or was destroyed, at whatever moment, keeps *)
(* neither native memory nor the input it held.                            *)
THEOREM MemoryGoes == Spec => []MemoryIsReleased
<1>1. IInv => MemoryIsReleased
  BY DEF IInv, MemoryIsReleased, StartInv, EndInv, PhaseInv, InFlight
<1> QED
  BY <1>1, Invariance, PTL

(* A stream that emits 'end' has passed on every slice of every result.    *)
THEOREM NothingIsLost == Spec => []OutputIsWhole
<1>1. IInv => OutputIsWhole
  BY DEF IInv, OutputIsWhole, OwedInv
<1> QED
  BY <1>1, Invariance, PTL

(* The helper calls its context one call at a time, and not after finish() *)
(* nor, while the stream lives, after close().                             *)
THEOREM CallsFollow == Spec => []CallsAreInOrder
<1>1. IInv => CallsAreInOrder
  BY DEF IInv
<1> QED
  BY <1>1, Invariance, PTL

================================================================================
