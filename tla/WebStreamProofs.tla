---------------------------- MODULE WebStreamProofs ----------------------------
(***************************************************************************)
(* Proofs about WebStream, for streams of any number of chunks.            *)
(***************************************************************************)
EXTENDS WebStream, TLAPS

Over == writable \in {"closed", "errored"}
ToCall == phase \in {"start", "turn", "go"}
InFlight == phase \in {"js", "pool"}
Bad == {"failed", "Finished", "Closed", "Busy"}

(* Where the transformer is, and in which operation. *)
PhaseInv ==
    /\ op = "none" <=> phase \in {"none", "abort"}
    /\ phase = "abort" => writable = "erroring" /\ finishPromise = "none"
    /\ op = "write" => method = "transform"
    /\ op = "close" => /\ method # "transform" /\ finishPromise = "close"
                       /\ pending = 0 /\ closeReq # "none"
    /\ method = "flush" => helper = "root"
    /\ phase = "end" => op = "close" /\ method = "finish"
    /\ phase = "throw" => helper = "next" /\ op = "close" /\ finished

(* Which end of the stream came first, and what the two sides show of it. *)
SideInv ==
    /\ Over => phase = "none"
    /\ finishPromise = "close" => op = "close" \/ Over
    /\ finishPromise = "cancel" => cancelReq # "none" /\ writable # "writable"
    /\ finishPromise = "abort" => writable = "errored"
    /\ finishPromise = "none" => cancelReq = "none"
    /\ readable = "closed" => cancelReq # "none" \/ writable = "closed"
    /\ readable = "errored" => writable = "errored"
    /\ cancelled => cancelReq # "none" \/ writable = "errored"
    /\ readable # "readable" /\ ~cancelled => finishPromise = "close" \/ Over

(* The context works on the last call of the transformer, or on none. *)
CallInv ==
    /\ InFlight => current = calls
    /\ ~InFlight => current = 0
    /\ phase \in {"js", "pool", "emit"} => calls > 0 /\ kind[calls] = method
    /\ \A c \in Calls : c > calls => answer[c] = "none"
    /\ phase = "js" => answer[calls] = "none"
    /\ phase = "error" /\ op = "close" => calls > 0 /\ answer[calls] \in Bad

(* finish() is the last call, and nothing but the end of the stream closes *)
(* the context.                                                            *)
EndInv ==
    /\ finished => /\ finishPromise = "close" /\ method = "finish"
                   /\ ~ToCall /\ phase # "js"
                   /\ phase = "pool" => answer[calls] # "none"
    /\ phase \in {"emit", "end"} /\ method = "finish" => finished
    /\ closed => finishPromise = "cancel" \/ Over
    /\ ~open \/ Over \/ finishPromise = "cancel" => closed \/ finished
    /\ ~InFlight /\ (closed \/ finished) => ~charged

(* A chunk takes one call, the close one or two. *)
CountInv ==
    op # "none" \/ writable = "writable" =>
        calls + (IF ToCall THEN 1 ELSE 0)
              + (IF op = "close" /\ method = "flush" THEN 1 ELSE 0)
            <= written - pending + (IF op = "close" THEN 2 ELSE 0)

(* Output is lost only to a reader that has gone. *)
LossInv == delivered # produced => cancelReq # "none"

IInv ==
    /\ TypeOK
    /\ PhaseInv
    /\ SideInv
    /\ CallInv
    /\ EndInv
    /\ CountInv
    /\ LossInv
    /\ CallsAreInOrder
    /\ RootDropsLateOutput

--------------------------------------------------------------------------------

LEMMA Initially == Init => IInv
<1> SUFFICES ASSUME Init
             PROVE  IInv
  OBVIOUS
<1> USE HelpersAssumption, ChunksAssumption DEF Init, ctx!Init, ctxVars
<1>1. TypeOK
  <2>1. /\ kind \in [Calls -> {"transform", "flush", "finish"}]
        /\ answer \in [Calls -> {"none", "ok", "failed", "Finished", "Closed", "Busy"}]
    OBVIOUS
  <2>2. {finished, closed, charged, open, cancelled} \subseteq BOOLEAN
    OBVIOUS
  <2> QED
    BY <2>1, <2>2 DEF TypeOK, Promises
<1>2. PhaseInv /\ SideInv
  BY DEF PhaseInv, SideInv, Over
<1>3. CallInv
  BY DEF CallInv, InFlight, Calls
<1>4. EndInv /\ CountInv
  BY DEF EndInv, Over, InFlight, ToCall, CountInv
<1>5. LossInv /\ CallsAreInOrder /\ RootDropsLateOutput
  BY DEF LossInv, CallsAreInOrder, RootDropsLateOutput, LateOutputIsDropped, Calls
<1> QED
  BY <1>1, <1>2, <1>3, <1>4, <1>5 DEF IInv

(* close(), or nothing if it was called: the context is over, or will be   *)
(* when its call is.                                                       *)
LEMMA CloseEffect ==
    ASSUME TypeOK, CallInv, EndInv, CloseContext
    PROVE  /\ UNCHANGED <<current, kind, answer, finished>>
           /\ closed' \in BOOLEAN /\ charged' \in BOOLEAN /\ open' \in BOOLEAN
           /\ closed' \/ finished
           /\ ~InFlight => ~charged'
<1> USE DEF TypeOK, ctxVars
<1>1. CASE ctx!Close /\ open' = FALSE
  <2>1. CASE current = 0 /\ closed' = (closed \/ ~finished) /\ charged' = FALSE
    BY <1>1, <2>1, Zenon DEF ctx!Close
  <2>2. CASE current # 0 /\ closed' = TRUE /\ UNCHANGED charged
    BY <1>1, <2>2 DEF ctx!Close, CallInv
  <2> QED
    BY <1>1, <2>1, <2>2 DEF ctx!Close
<1>2. CASE ~open /\ UNCHANGED <<ctxVars, open>>
  BY <1>2 DEF EndInv
<1> QED
  BY <1>1, <1>2 DEF CloseContext


(* What the scheduler does before a call. *)
LEMMA WaitForTurnKeeps ==
    ASSUME IInv, WaitForTurn, UNCHANGED helper
    PROVE  IInv'
<1> USE HelpersAssumption, ChunksAssumption
    DEF IInv, WaitForTurn, ctxVars, sideVars, reqVars, outVars
<1>1. TypeOK'
  BY DEF TypeOK, Calls, Promises
<1>2. PhaseInv'
  BY DEF PhaseInv
<1>3. SideInv'
  BY DEF SideInv, Over
<1>4. CallInv'
  BY DEF CallInv, InFlight, Calls
<1>5. EndInv'
  BY DEF EndInv, Over, InFlight, ToCall
<1>6. CountInv'
  BY DEF CountInv, ToCall
<1>7. LossInv'
  BY DEF LossInv
<1>8. CallsAreInOrder'
  BY DEF CallsAreInOrder
<1>9. RootDropsLateOutput'
  BY DEF RootDropsLateOutput, LateOutputIsDropped
<1> QED
  BY <1>1, <1>2, <1>3, <1>4, <1>5, <1>6, <1>7, <1>8, <1>9

LEMMA GoOnKeeps ==
    ASSUME IInv, GoOn, UNCHANGED helper
    PROVE  IInv'
<1> USE HelpersAssumption, ChunksAssumption
    DEF IInv, GoOn, ctxVars, sideVars, reqVars, outVars
<1>1. TypeOK'
  BY DEF TypeOK, Calls, Promises
<1>2. PhaseInv'
  BY DEF PhaseInv
<1>3. SideInv'
  BY DEF SideInv, Over
<1>4. CallInv'
  BY DEF CallInv, InFlight, Calls
<1>5. EndInv'
  BY DEF EndInv, Over, InFlight, ToCall
<1>6. CountInv'
  BY DEF CountInv, ToCall
<1>7. LossInv'
  BY DEF LossInv
<1>8. CallsAreInOrder'
  BY DEF CallsAreInOrder
<1>9. RootDropsLateOutput'
  BY DEF RootDropsLateOutput, LateOutputIsDropped
<1> QED
  BY <1>1, <1>2, <1>3, <1>4, <1>5, <1>6, <1>7, <1>8, <1>9

(* An operation starts, so no end of the stream has come yet. *)
LEMMA TakeChunkKeeps ==
    ASSUME IInv, TakeChunk, UNCHANGED helper
    PROVE  IInv'
<1> USE HelpersAssumption, ChunksAssumption
    DEF IInv, TakeChunk, ctxVars, sideVars, reqVars, outVars
<1>1. TypeOK'
  BY DEF TypeOK, Calls, Promises
<1>2. PhaseInv'
  BY DEF PhaseInv
<1>3. SideInv'
  BY DEF SideInv, Over
<1>4. CallInv'
  BY DEF CallInv, InFlight, Calls
<1>5. EndInv'
  BY DEF EndInv, Over, InFlight, ToCall, TypeOK, PhaseInv, SideInv
<1>6. CountInv'
  BY DEF CountInv, ToCall, TypeOK, PhaseInv, SideInv, Over
<1>7. LossInv'
  BY DEF LossInv
<1>8. CallsAreInOrder'
  BY DEF CallsAreInOrder
<1>9. RootDropsLateOutput'
  BY DEF RootDropsLateOutput, LateOutputIsDropped
<1> QED
  BY <1>1, <1>2, <1>3, <1>4, <1>5, <1>6, <1>7, <1>8, <1>9

LEMMA TakeCloseKeeps ==
    ASSUME IInv, TakeClose, UNCHANGED helper
    PROVE  IInv'
<1> USE HelpersAssumption, ChunksAssumption
    DEF IInv, TakeClose, ctxVars, sideVars, reqVars, outVars
<1>1. TypeOK'
  BY DEF TypeOK, Calls, Promises
<1>2. PhaseInv'
  BY DEF PhaseInv
<1>3. SideInv'
  BY DEF SideInv, Over
<1>4. CallInv'
  BY DEF CallInv, InFlight, Calls
<1>5. EndInv'
  BY DEF EndInv, Over, InFlight, ToCall, TypeOK, PhaseInv, SideInv
<1>6. CountInv'
  BY DEF CountInv, ToCall, TypeOK, PhaseInv, SideInv, Over
<1>7. LossInv'
  BY DEF LossInv
<1>8. CallsAreInOrder'
  BY DEF CallsAreInOrder
<1>9. RootDropsLateOutput'
  BY DEF RootDropsLateOutput, LateOutputIsDropped, TypeOK, PhaseInv, SideInv, Over
<1> QED
  BY <1>1, <1>2, <1>3, <1>4, <1>5, <1>6, <1>7, <1>8, <1>9

(* The user. *)
LEMMA WriteKeeps ==
    ASSUME IInv, Write, UNCHANGED helper
    PROVE  IInv'
<1> USE HelpersAssumption, ChunksAssumption
    DEF IInv, Write, ctxVars, sideVars, reqVars, outVars
<1>1. TypeOK'
  BY DEF TypeOK, Calls, Promises
<1>2. PhaseInv'
  BY DEF PhaseInv
<1>3. SideInv'
  BY DEF SideInv, Over
<1>4. CallInv'
  BY DEF CallInv, InFlight, Calls
<1>5. EndInv'
  BY DEF EndInv, Over, InFlight, ToCall
<1>6. CountInv'
  BY DEF CountInv, ToCall, TypeOK, PhaseInv, SideInv, Over
<1>7. LossInv'
  BY DEF LossInv
<1>8. CallsAreInOrder'
  BY DEF CallsAreInOrder
<1>9. RootDropsLateOutput'
  BY DEF RootDropsLateOutput, LateOutputIsDropped
<1> QED
  BY <1>1, <1>2, <1>3, <1>4, <1>5, <1>6, <1>7, <1>8, <1>9

LEMMA CloseKeeps ==
    ASSUME IInv, Close, UNCHANGED helper
    PROVE  IInv'
<1> USE HelpersAssumption, ChunksAssumption
    DEF IInv, Close, ctxVars, sideVars, reqVars, outVars
<1>1. TypeOK'
  BY DEF TypeOK, Calls, Promises
<1>2. PhaseInv'
  BY DEF PhaseInv
<1>3. SideInv'
  BY DEF SideInv, Over
<1>4. CallInv'
  BY DEF CallInv, InFlight, Calls
<1>5. EndInv'
  BY DEF EndInv, Over, InFlight, ToCall
<1>6. CountInv'
  BY DEF CountInv, ToCall
<1>7. LossInv'
  BY DEF LossInv
<1>8. CallsAreInOrder'
  BY DEF CallsAreInOrder
<1>9. RootDropsLateOutput'
  BY DEF RootDropsLateOutput, LateOutputIsDropped
<1> QED
  BY <1>1, <1>2, <1>3, <1>4, <1>5, <1>6, <1>7, <1>8, <1>9

LEMMA AbortKeeps ==
    ASSUME IInv, Abort, UNCHANGED helper
    PROVE  IInv'
<1> USE HelpersAssumption, ChunksAssumption
    DEF IInv, Abort, ctxVars, sideVars, reqVars, outVars
<1>1. TypeOK'
  BY DEF TypeOK, Calls, Promises
<1>2. PhaseInv'
  BY DEF PhaseInv, TypeOK, SideInv, Over
<1>3. SideInv'
  BY DEF SideInv, Over
<1>4. CallInv'
  BY DEF CallInv, InFlight, Calls, TypeOK, PhaseInv, SideInv, Over
<1>5. EndInv'
  BY DEF EndInv, Over, InFlight, ToCall, TypeOK, PhaseInv, SideInv
<1>6. CountInv'
  BY DEF CountInv, ToCall
<1>7. LossInv'
  BY DEF LossInv
<1>8. CallsAreInOrder'
  BY DEF CallsAreInOrder
<1>9. RootDropsLateOutput'
  BY DEF RootDropsLateOutput, LateOutputIsDropped
<1> QED
  BY <1>1, <1>2, <1>3, <1>4, <1>5, <1>6, <1>7, <1>8, <1>9

(* The next call is one that the context has not seen; it takes it, or it  *)
(* is closed.                                                              *)
LEMMA CallEffect ==
    ASSUME IInv, CallContext
    PROVE  /\ calls' = calls + 1 /\ calls' \in Calls /\ ToCall /\ current = 0
           /\ kind' = [kind EXCEPT ![calls'] = method]
           /\ UNCHANGED <<finished, closed, charged>>
           /\ \/ /\ ~closed /\ current' = calls' /\ answer' = answer
                 /\ answer[calls'] = "none" /\ phase' \in {"js", "pool"}
              \/ /\ closed /\ current' = current /\ phase' = "error"
                 /\ answer' = [answer EXCEPT ![calls'] = "Closed"]
<1> USE ChunksAssumption DEF IInv, CallContext
<1>1. calls' = calls + 1 /\ calls' \in Calls /\ ToCall /\ current = 0
  BY DEF ToCall, InFlight, CallInv, CountInv, PhaseInv, TypeOK, Calls
<1>2. CASE ctx!Begin(calls') /\ phase' \in {"js", "pool"}
  <2>1. /\ ctx!Method(calls')
        /\ ~closed /\ current' = calls' /\ answer' = answer
        /\ answer[calls'] = "none"
        /\ UNCHANGED <<finished, closed, charged>>
    BY <1>2 DEF ctx!Begin
  <2>2. kind' = [kind EXCEPT ![calls'] = method]
    BY <1>1, <2>1 DEF ctx!Method, TypeOK
  <2> QED
    BY <1>1, <1>2, <2>1, <2>2
<1>3. CASE /\ ctx!Refuse(calls')
           /\ answer'[calls'] # "InvalidArg"
           /\ phase' = "error"
  <2>1. /\ ctx!Method(calls')
        /\ UNCHANGED <<current, finished, closed, charged>>
        /\ \/ closed /\ answer' = [answer EXCEPT ![calls'] = "Closed"]
           \/ answer' = [answer EXCEPT ![calls'] = "InvalidArg"]
    BY <1>1, <1>3 DEF ctx!Refuse
  <2>2. kind' = [kind EXCEPT ![calls'] = method]
    BY <1>1, <2>1 DEF ctx!Method, TypeOK
  <2>3. answer' # [answer EXCEPT ![calls'] = "InvalidArg"]
    BY <1>1, <1>3 DEF TypeOK
  <2> QED
    BY <1>1, <1>3, <2>1, <2>2, <2>3
<1> QED
  BY <1>2, <1>3

LEMMA CallContextKeeps ==
    ASSUME IInv, CallContext, UNCHANGED helper
    PROVE  IInv'
<1> USE HelpersAssumption, ChunksAssumption
    DEF IInv, ctxVars, sideVars, reqVars, outVars
<1>1. /\ calls' = calls + 1 /\ calls' \in Calls /\ calls \in Nat
      /\ ToCall /\ current = 0
      /\ kind' = [kind EXCEPT ![calls'] = method]
      /\ UNCHANGED <<sideVars, reqVars, outVars, op, method, open, cancelled,
                     finished, closed, charged>>
  BY CallEffect DEF CallContext, TypeOK
<1>2. /\ kind' \in [Calls -> {"transform", "flush", "finish"}]
      /\ kind'[calls'] = method
      /\ \A c \in Calls : c # calls' => kind'[c] = kind[c]
  BY <1>1 DEF TypeOK
<1>3. CASE /\ ~closed /\ current' = calls' /\ answer' = answer
           /\ answer[calls'] = "none" /\ phase' \in {"js", "pool"}
  <2>1. TypeOK'
    BY <1>1, <1>2, <1>3 DEF TypeOK, Calls, Promises
  <2>2. PhaseInv' /\ SideInv'
    BY <1>1, <1>3 DEF PhaseInv, SideInv, Over, ToCall
  <2>3. CallInv'
    BY <1>1, <1>2, <1>3 DEF CallInv, InFlight, Calls
  <2>4. EndInv'
    BY <1>1, <1>3 DEF EndInv, Over, InFlight, ToCall
  <2>5. CountInv'
    BY <1>1, <1>3 DEF CountInv, ToCall, TypeOK
  <2>6. LossInv' /\ RootDropsLateOutput'
    BY <1>1, <1>3 DEF LossInv, RootDropsLateOutput, LateOutputIsDropped
  <2>7. CallsAreInOrder'
    BY <1>1, <1>2, <1>3 DEF CallsAreInOrder
  <2> QED
    BY <2>1, <2>2, <2>3, <2>4, <2>5, <2>6, <2>7
<1>4. CASE /\ closed /\ current' = current /\ phase' = "error"
           /\ answer' = [answer EXCEPT ![calls'] = "Closed"]
  <2>1. /\ answer' \in [Calls -> {"none", "ok", "failed", "Finished", "Closed", "Busy"}]
        /\ answer'[calls'] = "Closed"
        /\ \A c \in Calls : c # calls' => answer'[c] = answer[c]
    BY <1>1, <1>4 DEF TypeOK
  <2>2. finishPromise = "cancel" /\ op = "write" /\ method = "transform" /\ cancelReq # "none"
    BY <1>1, <1>4 DEF EndInv, SideInv, PhaseInv, TypeOK, ToCall, Over
  <2>3. TypeOK'
    BY <1>1, <1>2, <1>4, <2>1 DEF TypeOK, Calls, Promises
  <2>4. PhaseInv' /\ SideInv'
    BY <1>1, <1>4 DEF PhaseInv, SideInv, Over, ToCall
  <2>5. CallInv'
    BY <1>1, <1>2, <1>4, <2>1, <2>2 DEF CallInv, InFlight, Calls, ToCall
  <2>6. EndInv'
    BY <1>1, <1>4 DEF EndInv, Over, InFlight, ToCall
  <2>7. CountInv'
    BY <1>1, <1>4 DEF CountInv, ToCall, TypeOK
  <2>8. LossInv' /\ RootDropsLateOutput'
    BY <1>1, <1>4, <2>2 DEF LossInv, RootDropsLateOutput, LateOutputIsDropped
  <2>9. CallsAreInOrder'
    BY <1>1, <1>2, <1>4, <2>1, <2>2 DEF CallsAreInOrder
  <2> QED
    BY <2>3, <2>4, <2>5, <2>6, <2>7, <2>8, <2>9
<1> QED
  BY <1>3, <1>4, CallEffect

(* A call in flight: its first answer is true, and none came before it.     *)
LEMMA AnswerEffect ==
    ASSUME IInv, InFlight, answer[calls] = "none", ctx!Result(calls)
    PROVE  /\ answer' \in [Calls -> {"none", "ok", "failed", "Finished", "Closed", "Busy"}]
           /\ answer'[calls] \in {"ok", "failed"}
           /\ \A c \in Calls : c # calls => answer'[c] = answer[c]
           /\ ~finished /\ calls \in Calls /\ current = calls
           /\ kind[calls] = method /\ op # "none"
<1> USE DEF IInv
<1>1. calls \in Calls /\ current = calls /\ kind[calls] = method /\ op # "none" /\ calls > 0
  BY ChunksAssumption DEF CallInv, InFlight, TypeOK, Calls, PhaseInv
<1>2. ~finished
  BY DEF EndInv, InFlight
<1>3. PICK r \in {"ok", "failed"} : answer' = [answer EXCEPT ![calls] = r]
  BY <1>2 DEF ctx!Result
<1> QED
  BY <1>1, <1>2, <1>3 DEF TypeOK

LEMMA ReturnSyncKeeps ==
    ASSUME IInv, ReturnSync, UNCHANGED helper
    PROVE  IInv'
<1> USE HelpersAssumption, ChunksAssumption
    DEF IInv, ctxVars, sideVars, reqVars, outVars
<1>1. /\ phase = "js" /\ InFlight /\ answer[calls] = "none" /\ ctx!Result(calls)
      /\ finished' = (finished \/ kind[calls] = "finish")
      /\ charged' \in BOOLEAN /\ (charged' => ~finished' /\ ~closed)
      /\ UNCHANGED <<kind, closed, sideVars, reqVars, outVars, op, method, calls,
                     open, cancelled>>
      /\ current' = 0
      /\ phase' = IF answer'[calls] = "ok" THEN "emit" ELSE "error"
  BY DEF ReturnSync, ctx!Complete, ctx!Charge, Outcome, InFlight
<1>2. /\ answer' \in [Calls -> {"none", "ok", "failed", "Finished", "Closed", "Busy"}]
      /\ answer'[calls] \in {"ok", "failed"}
      /\ \A c \in Calls : c # calls => answer'[c] = answer[c]
      /\ ~finished /\ calls \in Calls /\ current = calls
      /\ kind[calls] = method /\ op # "none"
  BY <1>1, AnswerEffect
<1>3. finished' \in BOOLEAN /\ (finished' <=> method = "finish")
  BY <1>1, <1>2, Zenon
<1>4. calls > 0 /\ calls \in Nat
  BY <1>2 DEF Calls
<1>5. TypeOK'
  <2>1. {finished', closed', charged', open', cancelled'} \subseteq BOOLEAN
    BY <1>1, <1>3 DEF TypeOK
  <2> QED
    BY <1>1, <1>2, <2>1 DEF TypeOK, Calls, Promises
<1>6. PhaseInv' /\ SideInv'
  BY <1>1, <1>2 DEF PhaseInv, SideInv, Over
<1>7. CallInv'
  BY <1>1, <1>2, <1>4 DEF CallInv, InFlight, Calls, Bad
<1>8. EndInv'
  BY <1>1, <1>2, <1>3 DEF EndInv, Over, InFlight, ToCall, PhaseInv, SideInv, TypeOK
<1>9. CountInv'
  BY <1>1, <1>2 DEF CountInv, ToCall, TypeOK
<1>10. LossInv' /\ RootDropsLateOutput'
  BY <1>1, <1>2 DEF LossInv, RootDropsLateOutput, LateOutputIsDropped
<1>11. CallsAreInOrder'
  BY <1>1, <1>2 DEF CallsAreInOrder
<1> QED
  BY <1>5, <1>6, <1>7, <1>8, <1>9, <1>10, <1>11

LEMMA PoolWorksKeeps ==
    ASSUME IInv, PoolWorks, UNCHANGED helper
    PROVE  IInv'
<1> USE HelpersAssumption, ChunksAssumption
    DEF IInv, ctxVars, sideVars, reqVars, outVars
<1>1. /\ phase = "pool" /\ InFlight
      /\ UNCHANGED <<sideVars, reqVars, outVars, op, phase, method, calls, open,
                     cancelled, current, kind, closed, charged>>
  BY DEF PoolWorks, ctx!Answer, ctx!End, InFlight
<1>2. CASE ctx!Answer(calls)
  <2>1. answer[calls] = "none" /\ ctx!Result(calls) /\ finished' = finished
    BY <1>2 DEF ctx!Answer
  <2>2. /\ answer' \in [Calls -> {"none", "ok", "failed", "Finished", "Closed", "Busy"}]
        /\ answer'[calls] \in {"ok", "failed"}
        /\ \A c \in Calls : c # calls => answer'[c] = answer[c]
        /\ ~finished /\ calls \in Calls
    BY <1>1, <2>1, AnswerEffect
  <2>3. TypeOK'
    BY <1>1, <2>1, <2>2 DEF TypeOK, Calls, Promises
  <2>4. PhaseInv' /\ SideInv'
    BY <1>1, <2>1 DEF PhaseInv, SideInv, Over
  <2>5. CallInv'
    BY <1>1, <2>2 DEF CallInv, InFlight, Calls, Bad
  <2>6. EndInv' /\ CountInv'
    BY <1>1, <2>1, <2>2 DEF EndInv, Over, InFlight, ToCall, CountInv
  <2>7. LossInv' /\ RootDropsLateOutput'
    BY <1>1, <2>1, <2>2 DEF LossInv, RootDropsLateOutput, LateOutputIsDropped
  <2>8. CallsAreInOrder'
    BY <1>1, <2>2 DEF CallsAreInOrder
  <2> QED
    BY <2>3, <2>4, <2>5, <2>6, <2>7, <2>8
<1>3. CASE ctx!End(calls)
  <2>1. /\ answer[calls] # "none" /\ kind[calls] = "finish" /\ finished' = TRUE
        /\ answer' = answer
    BY <1>3 DEF ctx!End
  <2>2. method = "finish" /\ op = "close" /\ finishPromise = "close"
    BY <1>1, <2>1 DEF CallInv, PhaseInv, TypeOK
  <2>3. TypeOK'
    BY <1>1, <2>1 DEF TypeOK, Calls, Promises
  <2>4. PhaseInv' /\ SideInv'
    BY <1>1, <2>1 DEF PhaseInv, SideInv, Over
  <2>5. CallInv'
    BY <1>1, <2>1 DEF CallInv, InFlight, Calls
  <2>6. EndInv' /\ CountInv'
    BY <1>1, <2>1, <2>2 DEF EndInv, Over, InFlight, ToCall, CountInv
  <2>7. LossInv' /\ RootDropsLateOutput' /\ CallsAreInOrder'
    BY <1>1, <2>1 DEF LossInv, RootDropsLateOutput, LateOutputIsDropped, CallsAreInOrder
  <2> QED
    BY <2>3, <2>4, <2>5, <2>6, <2>7
<1> QED
  BY <1>2, <1>3 DEF PoolWorks

LEMMA PoolSettlesKeeps ==
    ASSUME IInv, PoolSettles, UNCHANGED helper
    PROVE  IInv'
<1> USE HelpersAssumption, ChunksAssumption
    DEF IInv, ctxVars, sideVars, reqVars, outVars
<1>1. /\ phase = "pool" /\ InFlight /\ answer[calls] # "none" /\ current' = 0
      /\ kind[calls] = "finish" => finished
      /\ charged' \in BOOLEAN /\ (charged' => ~finished /\ ~closed)
      /\ UNCHANGED <<sideVars, reqVars, outVars, op, method, calls, open,
                     cancelled, kind, answer, finished, closed>>
      /\ phase' = IF answer[calls] = "ok" THEN "emit" ELSE "error"
  BY DEF PoolSettles, ctx!Retire, ctx!Charge, InFlight, Outcome
<1>2. calls \in Calls /\ calls > 0 /\ kind[calls] = method /\ op # "none"
  BY <1>1 DEF CallInv, InFlight, TypeOK, Calls, PhaseInv
<1>3. answer[calls] # "ok" => answer[calls] \in Bad
  BY <1>1, <1>2 DEF TypeOK, Bad
<1>4. TypeOK'
  BY <1>1 DEF TypeOK, Calls, Promises
<1>5. PhaseInv' /\ SideInv'
  BY <1>1, <1>2 DEF PhaseInv, SideInv, Over
<1>6. CallInv'
  BY <1>1, <1>2, <1>3 DEF CallInv, InFlight, Calls
<1>7. EndInv'
  BY <1>1, <1>2 DEF EndInv, Over, InFlight, ToCall
<1>8. CountInv'
  BY <1>1, <1>2 DEF CountInv, ToCall, TypeOK
<1>9. LossInv' /\ RootDropsLateOutput' /\ CallsAreInOrder'
  BY <1>1 DEF LossInv, RootDropsLateOutput, LateOutputIsDropped, CallsAreInOrder
<1> QED
  BY <1>4, <1>5, <1>6, <1>7, <1>8, <1>9

(* What becomes of an output: it is lost only once the reader is gone, and *)
(* an enqueue() that throws is one of the end of codecStream().            *)
LEMMA EmitEffect ==
    ASSUME IInv, NEW nonempty \in BOOLEAN,
           EmitRoot(nonempty) \/ EmitNext(nonempty)
    PROVE  /\ phase = "emit" /\ UNCHANGED <<ctxVars, calls, open>>
           /\ produced' \subseteq 1 .. calls /\ delivered' \subseteq produced'
           /\ delivered' # produced' => cancelReq # "none"
           /\ cancelled' \in BOOLEAN /\ (cancelled => cancelled')
           /\ cancelled' => cancelReq # "none"
           /\ \/ AfterEmit
              \/ /\ helper = "next" /\ finishPromise = "close"
                 /\ phase' = "throw"
                 /\ UNCHANGED <<sideVars, reqVars, op, method>>
<1> USE DEF IInv
<1>1. /\ phase = "emit" /\ UNCHANGED <<ctxVars, calls, open>>
      /\ produced' = IF nonempty THEN produced \cup {calls} ELSE produced
  BY DEF EmitRoot, EmitNext, Produce
<1>2. /\ produced \subseteq 1 .. calls /\ delivered \subseteq produced
      /\ calls \in 1 .. calls
      /\ delivered # produced => cancelReq # "none"
      /\ cancelled \in BOOLEAN /\ (cancelled => cancelReq # "none")
      /\ readable # "readable" => cancelReq # "none"
      /\ readable # "readable" /\ ~cancelled => finishPromise = "close"
  BY <1>1 DEF TypeOK, CallInv, LossInv, SideInv, Over
<1>3. CASE (~nonempty \/ cancelled) /\ Drop
  BY <1>1, <1>2, <1>3 DEF Drop
<1>4. CASE nonempty /\ ~cancelled /\ Enqueue
  BY <1>1, <1>2, <1>4 DEF Enqueue
<1>5. CASE /\ nonempty /\ ~cancelled /\ readable # "readable"
           /\ cancelled' = TRUE /\ UNCHANGED delivered
           /\ AfterEmit
  BY <1>1, <1>2, <1>5
<1>6. CASE /\ helper = "next"
           /\ nonempty /\ ~cancelled /\ readable # "readable"
           /\ phase' = "throw"
           /\ UNCHANGED <<sideVars, reqVars, op, method, delivered, cancelled>>
  BY <1>1, <1>2, <1>6
<1> QED
  BY <1>3, <1>4, <1>5, <1>6 DEF EmitRoot, EmitNext

LEMMA EmitKeeps ==
    ASSUME IInv, NEW nonempty \in BOOLEAN,
           EmitRoot(nonempty) \/ EmitNext(nonempty), UNCHANGED helper
    PROVE  IInv'
<1> USE HelpersAssumption, ChunksAssumption
    DEF IInv, ctxVars, sideVars, reqVars
<1>1. /\ phase = "emit" /\ UNCHANGED <<ctxVars, calls, open>>
      /\ produced' \subseteq 1 .. calls /\ delivered' \subseteq produced'
      /\ delivered' # produced' => cancelReq # "none"
      /\ cancelled' \in BOOLEAN /\ (cancelled => cancelled')
      /\ cancelled' => cancelReq # "none"
  BY EmitEffect
<1>2. ~Over /\ op # "none" /\ current = 0
  BY <1>1 DEF SideInv, PhaseInv, CallInv, InFlight
<1>3. CASE method = "transform" /\ WriteDone /\ UNCHANGED method
  <2> USE <1>3
  <2>1. op = "write" /\ op' = "none" /\ finishPromise \in {"none", "cancel"}
        /\ writable \in {"writable", "erroring"}
    BY <1>2 DEF WriteDone, PhaseInv, SideInv, Over, TypeOK
  <2>2. ~finished
    BY DEF EndInv
  <2>3. CASE /\ writable = "erroring" /\ finishPromise = "none"
             /\ phase' = "abort" /\ UNCHANGED <<sideVars, reqVars>>
    <3>1. TypeOK'
      BY <1>1, <2>1, <2>3 DEF TypeOK, Calls, Promises
    <3>2. PhaseInv' /\ SideInv'
      BY <1>1, <2>1, <2>3 DEF PhaseInv, SideInv, Over
    <3>3. CallInv' /\ EndInv' /\ CountInv'
      BY <1>1, <1>2, <2>1, <2>2, <2>3
         DEF CallInv, EndInv, CountInv, InFlight, Over, ToCall, Calls
    <3>4. LossInv' /\ RootDropsLateOutput' /\ CallsAreInOrder'
      BY <1>1, <2>3 DEF LossInv, RootDropsLateOutput, LateOutputIsDropped, CallsAreInOrder
    <3> QED
      BY <3>1, <3>2, <3>3, <3>4
  <2>4. CASE /\ phase' = "none" /\ writable = "writable"
             /\ UNCHANGED <<sideVars, reqVars>>
    <3>1. TypeOK'
      BY <1>1, <2>1, <2>4 DEF TypeOK, Calls, Promises
    <3>2. PhaseInv' /\ SideInv'
      BY <1>1, <2>1, <2>4 DEF PhaseInv, SideInv, Over
    <3>3. CallInv' /\ EndInv'
      BY <1>1, <1>2, <2>1, <2>2, <2>4
         DEF CallInv, EndInv, InFlight, Over, ToCall, Calls
    <3>4. CountInv'
      BY <1>1, <1>2, <2>1, <2>4 DEF CountInv, ToCall, TypeOK
    <3>5. LossInv' /\ RootDropsLateOutput' /\ CallsAreInOrder'
      BY <1>1, <2>4 DEF LossInv, RootDropsLateOutput, LateOutputIsDropped, CallsAreInOrder
    <3> QED
      BY <3>1, <3>2, <3>3, <3>4, <3>5
  <2>5. CASE /\ phase' = "none" /\ writable = "erroring" /\ finishPromise = "cancel"
             /\ writable' = "errored" /\ pending' = 0
             /\ closeReq' = Settled(closeReq, "rejected")
             /\ abortReq' = Settled(abortReq, "ok")
             /\ UNCHANGED <<readable, written, finishPromise, cancelReq>>
    <3>1. TypeOK'
      BY <1>1, <2>1, <2>5 DEF TypeOK, Calls, Promises, Settled
    <3>2. PhaseInv' /\ SideInv'
      BY <1>1, <2>1, <2>5 DEF PhaseInv, SideInv, Over
    <3>3. CallInv' /\ EndInv' /\ CountInv'
      BY <1>1, <1>2, <2>1, <2>2, <2>5
         DEF CallInv, EndInv, CountInv, InFlight, Over, ToCall, Calls
    <3>4. LossInv' /\ RootDropsLateOutput' /\ CallsAreInOrder'
      BY <1>1, <2>5 DEF LossInv, RootDropsLateOutput, LateOutputIsDropped, CallsAreInOrder
    <3> QED
      BY <3>1, <3>2, <3>3, <3>4
  <2> QED
    BY <2>1, <2>3, <2>4, <2>5 DEF WriteDone
<1>4. CASE /\ method = "flush" /\ method' = "finish" /\ phase' = "start"
           /\ UNCHANGED <<sideVars, reqVars, op>>
  <2>1. op = "close" /\ ~finished
    BY <1>2, <1>4 DEF PhaseInv, EndInv, TypeOK
  <2>2. TypeOK'
    BY <1>1, <1>4 DEF TypeOK, Calls, Promises
  <2>3. PhaseInv' /\ SideInv'
    BY <1>1, <1>4, <2>1 DEF PhaseInv, SideInv, Over
  <2>4. CallInv' /\ EndInv'
    BY <1>1, <1>2, <1>4, <2>1
       DEF CallInv, EndInv, InFlight, Over, ToCall, Calls
  <2>5. CountInv'
    BY <1>1, <1>2, <1>4, <2>1 DEF CountInv, ToCall, TypeOK
  <2>6. LossInv' /\ RootDropsLateOutput' /\ CallsAreInOrder'
    BY <1>1, <1>4 DEF LossInv, RootDropsLateOutput, LateOutputIsDropped, CallsAreInOrder
  <2> QED
    BY <2>2, <2>3, <2>4, <2>5, <2>6
<1>5. CASE /\ method = "finish" /\ phase' = "end"
           /\ UNCHANGED <<sideVars, reqVars, op, method>>
  <2>1. op = "close"
    BY <1>2, <1>5 DEF PhaseInv, TypeOK
  <2>2. TypeOK'
    BY <1>1, <1>5 DEF TypeOK, Calls, Promises
  <2>3. PhaseInv' /\ SideInv'
    BY <1>1, <1>5, <2>1 DEF PhaseInv, SideInv, Over
  <2>4. CallInv' /\ EndInv' /\ CountInv'
    BY <1>1, <1>2, <1>5, <2>1
       DEF CallInv, EndInv, CountInv, InFlight, Over, ToCall, Calls
  <2>5. LossInv' /\ RootDropsLateOutput' /\ CallsAreInOrder'
    BY <1>1, <1>5 DEF LossInv, RootDropsLateOutput, LateOutputIsDropped, CallsAreInOrder
  <2> QED
    BY <2>2, <2>3, <2>4, <2>5
<1>6. CASE /\ helper = "next" /\ finishPromise = "close" /\ phase' = "throw"
           /\ UNCHANGED <<sideVars, reqVars, op, method>>
  <2>1. op = "close" /\ method = "finish" /\ finished
    BY <1>1, <1>2, <1>6 DEF PhaseInv, SideInv, EndInv, TypeOK
  <2>2. TypeOK'
    BY <1>1, <1>6 DEF TypeOK, Calls, Promises
  <2>3. PhaseInv' /\ SideInv'
    BY <1>1, <1>6, <2>1 DEF PhaseInv, SideInv, Over
  <2>4. CallInv' /\ EndInv' /\ CountInv'
    BY <1>1, <1>2, <1>6, <2>1
       DEF CallInv, EndInv, CountInv, InFlight, Over, ToCall, Calls
  <2>5. LossInv' /\ RootDropsLateOutput' /\ CallsAreInOrder'
    BY <1>1, <1>6 DEF LossInv, RootDropsLateOutput, LateOutputIsDropped, CallsAreInOrder
  <2> QED
    BY <2>2, <2>3, <2>4, <2>5
<1> QED
  BY <1>3, <1>4, <1>5, <1>6, EmitEffect DEF AfterEmit

(* A stream that is over stays so: what its invariant is then.             *)
LEMMA OverIsKept ==
    ASSUME IInv, UNCHANGED <<helper, current, kind, answer, finished, written,
                             outVars, calls>>,
           ~InFlight, Over', phase' = "none", op' = "none",
           UNCHANGED method,
           pending' \in 0 .. written, readable' # "readable",
           readable' = "closed" => cancelReq' # "none" \/ writable' = "closed",
           readable' = "errored" => writable' = "errored",
           readable' \in {"closed", "errored"},
           closed' \in BOOLEAN, charged' \in BOOLEAN, open' \in BOOLEAN,
           closed' \/ finished, ~charged',
           cancelled' \in BOOLEAN,
           cancelled' => cancelReq' # "none" \/ writable' = "errored",
           finished => finishPromise' = "close",
           finishPromise' = "cancel" => cancelReq' # "none",
           finishPromise' = "abort" => writable' = "errored",
           finishPromise' = "none" => cancelReq' = "none",
           finishPromise' \in {"none", "close", "cancel", "abort"},
           {closeReq', cancelReq', abortReq'} \subseteq Promises,
           cancelReq # "none" => cancelReq' # "none",
           RootDropsLateOutput'
    PROVE  IInv'
<1> USE HelpersAssumption, ChunksAssumption DEF IInv, outVars
<1>1. TypeOK'
  BY DEF TypeOK, Over, Calls
<1>2. PhaseInv' /\ SideInv'
  BY DEF PhaseInv, SideInv, Over
<1>3. CallInv'
  BY DEF CallInv, InFlight, Calls
<1>4. EndInv' /\ CountInv'
  BY DEF EndInv, CountInv, InFlight, Over, ToCall
<1>5. LossInv' /\ CallsAreInOrder'
  BY DEF LossInv, CallsAreInOrder
<1> QED
  BY <1>1, <1>2, <1>3, <1>4, <1>5

LEMMA EndKeeps ==
    ASSUME IInv, End, UNCHANGED helper
    PROVE  IInv'
<1> USE DEF IInv, outVars
<1>1. /\ UNCHANGED <<current, kind, answer, finished>>
      /\ closed' \in BOOLEAN /\ charged' \in BOOLEAN /\ open' \in BOOLEAN
      /\ closed' \/ finished
      /\ ~InFlight /\ ~charged'
  BY CloseEffect DEF End, InFlight
<1>2. op = "close" /\ finishPromise = "close" /\ ~Over
  BY DEF End, PhaseInv, SideInv
<1>3. RootDropsLateOutput'
  BY <1>1, <1>2 DEF End, Settled, RootDropsLateOutput, LateOutputIsDropped
<1>4. /\ Over' /\ phase' = "none" /\ op' = "none" /\ finishPromise' = finishPromise
      /\ UNCHANGED <<written, outVars, calls, method, cancelled, pending>>
      /\ writable' = "closed" /\ readable' \in {"closed", "errored"}
      /\ readable' = "errored" => readable = "errored"
      /\ pending' \in 0 .. written'
      /\ {closeReq', cancelReq', abortReq'} \subseteq Promises
      /\ cancelReq # "none" <=> cancelReq' # "none"
      /\ cancelled \in BOOLEAN
  BY <1>2 DEF End, Over, Settled, TypeOK, Promises
<1>5. readable' = "errored" => FALSE
  BY <1>2, <1>4 DEF SideInv, Over
<1>6. cancelled => cancelReq # "none"
  BY <1>2 DEF SideInv, Over
<1> QED
  BY <1>1, <1>2, <1>3, <1>4, <1>5, <1>6, OverIsKept

(* The two ways in which a step fails. *)
LEMMA FailKeeps ==
    ASSUME IInv, Fail \/ Throw, UNCHANGED helper
    PROVE  IInv'
<1> USE DEF IInv, outVars, ctxVars
<1>1. phase \in {"error", "throw"} /\ BothFail
  BY DEF Fail, Throw
<1>2. op # "none" /\ ~Over /\ ~InFlight
  BY <1>1 DEF PhaseInv, SideInv, InFlight
<1>3. /\ UNCHANGED <<current, kind, answer, finished>>
      /\ closed' \in BOOLEAN /\ charged' \in BOOLEAN /\ open' \in BOOLEAN
      /\ closed' \/ finished
      /\ ~charged'
  <2>1. CASE Fail
    BY <1>2, <2>1, CloseEffect DEF Fail
  <2>2. CASE Throw
    BY <1>2, <2>2 DEF Throw, PhaseInv, EndInv, TypeOK
  <2> QED
    BY <2>1, <2>2
<1>4. /\ Over' /\ phase' = "none" /\ op' = "none" /\ finishPromise' = finishPromise
      /\ UNCHANGED <<written, outVars, calls, method, cancelled>>
      /\ writable' = "errored" /\ readable' \in {"closed", "errored"}
      /\ readable' = "closed" => readable = "closed"
      /\ pending' \in 0 .. written'
      /\ {closeReq', cancelReq', abortReq'} \subseteq Promises
      /\ cancelReq # "none" <=> cancelReq' # "none"
      /\ cancelled \in BOOLEAN
      /\ finishPromise \in {"none", "close", "cancel", "abort"}
  BY <1>1 DEF BothFail, Over, Settled, TypeOK, Promises
<1>5. readable = "closed" => cancelReq # "none"
  BY <1>2 DEF SideInv, Over
<1>6. /\ finished => finishPromise = "close"
      /\ finishPromise = "cancel" => cancelReq # "none"
      /\ finishPromise = "none" => cancelReq = "none"
  BY DEF EndInv, SideInv
<1>7. RootDropsLateOutput'
  <2>1. SUFFICES ASSUME helper = "root", finishPromise = "close"
                 PROVE  \E c \in Calls : answer[c] \in Bad
    BY <1>3, <1>4 DEF RootDropsLateOutput, LateOutputIsDropped, Bad
  <2>2. phase = "error" /\ op = "close"
    BY <1>1, <1>2, <2>1 DEF PhaseInv, SideInv
  <2>3. calls \in Calls /\ answer[calls] \in Bad
    BY <2>2, ChunksAssumption DEF CallInv, TypeOK, Calls
  <2> QED
    BY <2>3
<1> QED
  BY <1>2, <1>3, <1>4, <1>5, <1>6, <1>7, OverIsKept

LEMMA AbortNowKeeps ==
    ASSUME IInv, AbortNow, UNCHANGED helper
    PROVE  IInv'
<1> USE DEF IInv, outVars
<1>1. phase = "abort" /\ ~InFlight /\ ~Over /\ finishPromise = "none" /\ CloseContext
  BY DEF AbortNow, InFlight, SideInv, PhaseInv, HelperCancel
<1>2. /\ UNCHANGED <<current, kind, answer, finished>>
      /\ closed' \in BOOLEAN /\ charged' \in BOOLEAN /\ open' \in BOOLEAN
      /\ closed' \/ finished
      /\ ~charged'
  BY <1>1, CloseEffect
<1>3. /\ Over' /\ phase' = "none" /\ op' = "none" /\ finishPromise' = "abort"
      /\ UNCHANGED <<written, outVars, calls, method, cancelReq>>
      /\ writable' = "errored" /\ readable' \in {"closed", "errored"}
      /\ readable' = "closed" => readable = "closed"
      /\ pending' \in 0 .. written'
      /\ {closeReq', cancelReq', abortReq'} \subseteq Promises
      /\ cancelled' \in BOOLEAN
  BY DEF AbortNow, HelperCancel, Over, Settled, TypeOK, Promises
<1>4. ~finished /\ (readable = "closed" => cancelReq # "none")
  BY <1>1 DEF EndInv, SideInv, Over
<1>5. RootDropsLateOutput'
  BY <1>3 DEF RootDropsLateOutput, LateOutputIsDropped
<1> QED
  BY <1>1, <1>2, <1>3, <1>4, <1>5, OverIsKept

(* The reader goes: while the stream ends, between two operations, or in   *)
(* the middle of one, whose call may still be in flight.                   *)
LEMMA CancelKeeps ==
    ASSUME IInv, Cancel, UNCHANGED helper
    PROVE  IInv'
<1> USE HelpersAssumption, ChunksAssumption DEF IInv, outVars
<1>1. /\ JsFree /\ readable = "readable" /\ readable' = "closed"
      /\ UNCHANGED <<outVars, written, abortReq, op, phase, method, calls>>
  BY DEF Cancel
<1>2. CASE /\ finishPromise = "close" /\ cancelReq' = "pending"
           /\ UNCHANGED <<ctxVars, open, cancelled, writable, pending,
                          finishPromise, closeReq>>
  <2> USE <1>1, <1>2 DEF ctxVars
  <2>1. TypeOK'
    BY DEF TypeOK, Calls, Promises
  <2>2. PhaseInv' /\ SideInv'
    BY DEF PhaseInv, SideInv, Over
  <2>3. CallInv' /\ EndInv' /\ CountInv'
    BY DEF CallInv, EndInv, CountInv, InFlight, Over, ToCall, Calls
  <2>4. LossInv' /\ RootDropsLateOutput' /\ CallsAreInOrder'
    BY DEF LossInv, RootDropsLateOutput, LateOutputIsDropped, CallsAreInOrder
  <2> QED
    BY <2>1, <2>2, <2>3, <2>4
<1>3. ASSUME finishPromise = "none", finishPromise' = "cancel", HelperCancel,
             cancelReq' = "ok"
      PROVE  IInv'
  <2> USE <1>1, <1>3
  <2>1. /\ UNCHANGED <<current, kind, answer, finished>>
        /\ closed' \in BOOLEAN /\ charged' \in BOOLEAN /\ open' \in BOOLEAN
        /\ closed' \/ finished
        /\ ~InFlight => ~charged'
        /\ cancelled' = TRUE /\ ~finished /\ op # "close"
    BY CloseEffect DEF HelperCancel, EndInv, PhaseInv
  <2>2. CASE /\ op = "none" /\ writable' = "errored" /\ pending' = 0
             /\ closeReq' = Settled(closeReq, "rejected")
    <3>1. phase = "none" /\ ~InFlight
      BY <2>2 DEF JsFree, PhaseInv, InFlight
    <3>2. /\ {closeReq', cancelReq', abortReq'} \subseteq Promises
          /\ Over' /\ pending' \in 0 .. written
      BY <2>2 DEF TypeOK, Promises, Settled, Over
    <3>3. RootDropsLateOutput'
      BY DEF RootDropsLateOutput, LateOutputIsDropped
    <3> QED
      BY <2>1, <2>2, <3>1, <3>2, <3>3, OverIsKept
  <2>3. CASE /\ op # "none" /\ writable' = "erroring"
             /\ UNCHANGED <<pending, closeReq>>
    <3>1. op = "write"
      BY <2>1, <2>3 DEF TypeOK
    <3>2. TypeOK'
      BY <2>1, <2>3 DEF TypeOK, Calls, Promises
    <3>3. PhaseInv' /\ SideInv'
      BY <2>1, <2>3, <3>1 DEF PhaseInv, SideInv, Over
    <3>4. CallInv'
      BY <2>1, <2>3, <3>1 DEF CallInv, InFlight, Calls
    <3>5. EndInv'
      BY <2>1, <2>3, <3>1 DEF EndInv, InFlight, Over, ToCall, PhaseInv
    <3>6. CountInv'
      BY <2>1, <2>3, <3>1 DEF CountInv, ToCall
    <3>7. LossInv' /\ RootDropsLateOutput' /\ CallsAreInOrder'
      BY <2>1, <2>3 DEF LossInv, RootDropsLateOutput, LateOutputIsDropped, CallsAreInOrder
    <3> QED
      BY <3>2, <3>3, <3>4, <3>5, <3>6, <3>7
  <2> QED
    BY <1>3, <2>2, <2>3 DEF Cancel
<1> QED
  BY <1>2, <1>3 DEF Cancel

--------------------------------------------------------------------------------

LEMMA Inductive == IInv /\ [Next]_vars => IInv'
<1> SUFFICES ASSUME IInv, [Next]_vars
             PROVE  IInv'
  OBVIOUS
<1>1. CASE Transformer /\ UNCHANGED helper
  BY <1>1, WaitForTurnKeeps, GoOnKeeps, CallContextKeeps, ReturnSyncKeeps,
     PoolWorksKeeps, PoolSettlesKeeps, EmitKeeps, EndKeeps, FailKeeps,
     AbortNowKeeps, TakeChunkKeeps, TakeCloseKeeps
     DEF Transformer
<1>2. CASE User /\ UNCHANGED helper
  BY <1>2, WriteKeeps, CloseKeeps, AbortKeeps, CancelKeeps DEF User
<1>3. CASE UNCHANGED vars
  BY <1>3 DEF vars, ctxVars, sideVars, reqVars, outVars, IInv, TypeOK, PhaseInv, SideInv,
              CallInv, EndInv, CountInv, LossInv, CallsAreInOrder, RootDropsLateOutput,
              LateOutputIsDropped, Over, ToCall, InFlight
<1> QED
  BY <1>1, <1>2, <1>3 DEF Next

(* The invariant holds of every stream. *)
THEOREM Invariance == Spec => []IInv
<1> QED
  BY Initially, Inductive, PTL DEF Spec

(* A stream that is over, however it ended, holds no native memory.        *)
THEOREM MemoryGoes == Spec => []MemoryIsReleased
<1>1. IInv => MemoryIsReleased
  BY DEF IInv, MemoryIsReleased, EndInv, SideInv, InFlight, Over
<1> QED
  BY <1>1, Invariance, PTL

(* What the context puts out reaches a reader that stays.                  *)
THEOREM NothingIsLost == Spec => []OutputIsWhole
<1>1. IInv => OutputIsWhole
  BY DEF IInv, OutputIsWhole, LossInv
<1> QED
  BY <1>1, Invariance, PTL

(* The transformer calls its context one call at a time, and not after     *)
(* finish(); only a cancel gets in between.                                *)
THEOREM CallsFollow == Spec => []CallsAreInOrder
<1>1. IInv => CallsAreInOrder
  BY DEF IInv
<1> QED
  BY <1>1, Invariance, PTL

(* A cancel during the end of a stream of the package root fails nothing.  *)
THEOREM LateCancelIsQuiet == Spec => []RootDropsLateOutput
<1>1. IInv => RootDropsLateOutput
  BY DEF IInv
<1> QED
  BY <1>1, Invariance, PTL

================================================================================
