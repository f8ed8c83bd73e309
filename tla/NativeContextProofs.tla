-------------------------- MODULE NativeContextProofs --------------------------
(***************************************************************************)
(* Proofs about NativeContext, for any set of calls and any sizes: the     *)
(* inductive invariant behind its safety properties.                       *)
(***************************************************************************)
EXTENDS NativeContext, TLAPS

(* The thread that holds the lock is the one between PoolLock and          *)
(* PoolUnlock, and only a call that marked the context gets there.         *)
LockInv ==
    \A c \in Calls :
        /\ lock = c <=> st[c] \in {"running", "operated"}
        /\ st[c] \in {"running", "operated"} => marked[c]
        /\ marked[c] => st[c] \notin {"new", "sync"}

(* What the JavaScript thread has begun fits the flags that it read. *)
JsInv ==
    /\ \A c \in Calls : st[c] = "sync" <=> jsAct = "run" /\ jsCall = c
    /\ jsAct = "run" => jsCall \in Calls /\ ~busy /\ ~closeRequested
    /\ jsAct = "close" => ~busy
    /\ jsAct = "settle" => /\ jsCall \in Calls
                           /\ marked[jsCall] /\ st[jsCall] = "ran"

(* A closed slot was asked to close, and not while a call was on its way   *)
(* to it; a slot without a state holds no memory.                          *)
SlotInv ==
    /\ slot = "Closed" => closeRequested
    /\ slot # "Open" => usage = 0
    /\ \A c \in Calls :
          marked[c] /\ st[c] \in {"queued", "running", "operated"}
              => slot # "Closed"

(* The report lags behind the state only between a call of the pool and    *)
(* its settling.                                                           *)
AccountInv ==
    /\ account = reported
    /\ \/ reported = usage
       \/ \E c \in Calls : marked[c] /\ st[c] \in {"operated", "ran"}

CancelInv == \A c \in Calls : outcome[c] = "cancelled" => st[c] = "done"

(* What a call is known to return: nothing before the codec answered it or *)
(* a check refused it.  A finish() that ran has ended the stream.          *)
AnswerInv ==
    \A c \in Calls :
        /\ \/ st[c] \in {"new", "sync"}
           \/ marked[c] /\ st[c] \in {"queued", "running"}
           => outcome[c] = "none"
        /\ ~marked[c] /\ st[c] = "queued"
              => outcome[c] \in {"Closed", "Busy", "InvalidArg"}
        /\ marked[c] /\ st[c] \in {"operated", "ran"}
              => outcome[c] # "none"
        /\ marked[c] /\ st[c] = "ran" /\ op[c] = "finish" => slot = "Finished"

IInv ==
    /\ TypeOK
    /\ LockInv
    /\ BusyMarksTheCall
    /\ JsInv
    /\ SlotInv
    /\ AccountInv
    /\ CancelInv
    /\ AnswerInv
    /\ ClosedIsReleased

--------------------------------------------------------------------------------

(* A new context satisfies the invariant. *)
LEMMA Initially == Init => IInv
<1> SUFFICES ASSUME Init
             PROVE  IInv
  OBVIOUS
<1> USE SizesAssumption, NoneAssumption DEF Init
<1>1. TypeOK
  BY DEF TypeOK, Ops, Stages, Slots, Outcomes
<1>2. LockInv /\ JsInv /\ BusyMarksTheCall
  BY DEF LockInv, JsInv, BusyMarksTheCall, InFlight, Pending
<1>3. SlotInv /\ AccountInv
  BY DEF SlotInv, AccountInv
<1>4. CancelInv /\ AnswerInv /\ ClosedIsReleased
  BY DEF CancelInv, AnswerInv, ClosedIsReleased
<1> QED
  BY <1>1, <1>2, <1>3, <1>4 DEF IInv

(* Every step of either thread keeps the invariant. *)
LEMMA Inductive == IInv /\ [Next]_vars => IInv'
<1> SUFFICES ASSUME IInv, [Next]_vars
             PROVE  IInv'
  OBVIOUS
<1> USE SizesAssumption, NoneAssumption DEF IInv, TypeOK
<1>1. ASSUME NEW c \in Calls, NEW o \in Ops, SyncRefused(c, o)
      PROVE  IInv'
  <2> USE <1>1 DEF SyncRefused, CanCall, slotVars
  <2>1. TypeOK'
    BY DEF TypeOK, Ops, Stages, Slots, Outcomes
  <2>2. LockInv'
    BY DEF LockInv, JsInv
  <2>3. BusyMarksTheCall'
    BY DEF BusyMarksTheCall, LockInv, JsInv, InFlight, Pending
  <2>4. JsInv'
    BY DEF JsInv, LockInv, BusyMarksTheCall, InFlight, Pending
  <2>5. SlotInv'
    BY DEF SlotInv, LockInv, BusyMarksTheCall, JsInv, InFlight, Pending
  <2>6. AccountInv'
    BY DEF AccountInv, LockInv, SlotInv, BusyMarksTheCall, JsInv, InFlight,
       Pending
  <2>7. CancelInv'
    BY DEF CancelInv, JsInv, LockInv
  <2>8. AnswerInv'
    BY DEF AnswerInv, LockInv, JsInv, BusyMarksTheCall, InFlight, Pending,
       Slots
  <2>9. ClosedIsReleased'
    BY DEF ClosedIsReleased, Cancelled, CancelInv, JsInv, BusyMarksTheCall,
       LockInv, SlotInv
  <2> QED
    BY <2>1, <2>2, <2>3, <2>4, <2>5, <2>6, <2>7, <2>8, <2>9 DEF IInv
<1>2. ASSUME NEW c \in Calls, NEW o \in Ops, SyncBegin(c, o)
      PROVE  IInv'
  <2> USE <1>2 DEF SyncBegin, CanCall, slotVars
  <2>1. TypeOK'
    BY DEF TypeOK, Ops, Stages, Slots, Outcomes
  <2>2. LockInv'
    BY DEF LockInv, JsInv
  <2>3. BusyMarksTheCall'
    BY DEF BusyMarksTheCall, LockInv, JsInv, InFlight, Pending
  <2>4. JsInv'
    BY DEF JsInv, LockInv, BusyMarksTheCall, InFlight, Pending
  <2>5. SlotInv'
    BY DEF SlotInv, LockInv, BusyMarksTheCall, JsInv, InFlight, Pending
  <2>6. AccountInv'
    BY DEF AccountInv, LockInv, SlotInv, BusyMarksTheCall, JsInv, InFlight,
       Pending
  <2>7. CancelInv'
    BY DEF CancelInv, JsInv, LockInv
  <2>8. AnswerInv'
    BY DEF AnswerInv, LockInv, JsInv, BusyMarksTheCall, InFlight, Pending,
       Slots
  <2>9. ClosedIsReleased'
    BY DEF ClosedIsReleased, Cancelled
  <2> QED
    BY <2>1, <2>2, <2>3, <2>4, <2>5, <2>6, <2>7, <2>8, <2>9 DEF IInv
<1>3. ASSUME NEW c \in Calls, NEW o \in Ops, AsyncCall(c, o)
      PROVE  IInv'
  <2> USE <1>3 DEF AsyncCall, BeginAsync, CanCall, slotVars
  <2>1. TypeOK'
    BY DEF TypeOK, Ops, Stages, Slots, Outcomes
  <2>2. LockInv'
    BY DEF LockInv, JsInv
  <2>3. BusyMarksTheCall'
    BY DEF BusyMarksTheCall, LockInv, JsInv, InFlight, Pending
  <2>4. JsInv'
    BY DEF JsInv, LockInv, BusyMarksTheCall, InFlight, Pending
  <2>5. SlotInv'
    BY DEF SlotInv, LockInv, BusyMarksTheCall, JsInv, InFlight, Pending
  <2>6. AccountInv'
    BY DEF AccountInv, LockInv, SlotInv, BusyMarksTheCall, JsInv, InFlight,
       Pending
  <2>7. CancelInv'
    BY DEF CancelInv, JsInv, LockInv
  <2>8. AnswerInv'
    BY DEF AnswerInv, LockInv, JsInv, BusyMarksTheCall, InFlight, Pending,
       Slots
  <2>9. ClosedIsReleased'
    BY DEF ClosedIsReleased, Cancelled, CancelInv, JsInv, BusyMarksTheCall,
       LockInv, SlotInv
  <2> QED
    BY <2>1, <2>2, <2>3, <2>4, <2>5, <2>6, <2>7, <2>8, <2>9 DEF IInv
<1>4. ASSUME NEW c \in Calls, AsyncInvalid(c)
      PROVE  IInv'
  <2> USE <1>4 DEF AsyncInvalid, CanCall, slotVars
  <2>1. TypeOK'
    BY DEF TypeOK, Stages, Slots, Outcomes
  <2>2. LockInv'
    BY DEF LockInv, JsInv
  <2>3. BusyMarksTheCall'
    BY DEF BusyMarksTheCall, LockInv, JsInv, InFlight, Pending
  <2>4. JsInv'
    BY DEF JsInv, LockInv, BusyMarksTheCall, InFlight, Pending
  <2>5. SlotInv'
    BY DEF SlotInv, LockInv, BusyMarksTheCall, JsInv, InFlight, Pending
  <2>6. AccountInv'
    BY DEF AccountInv, LockInv, SlotInv, BusyMarksTheCall, JsInv, InFlight,
       Pending
  <2>7. CancelInv'
    BY DEF CancelInv, JsInv, LockInv
  <2>8. AnswerInv'
    BY DEF AnswerInv, LockInv, JsInv, BusyMarksTheCall, InFlight, Pending,
       Slots
  <2>9. ClosedIsReleased'
    BY DEF ClosedIsReleased, Cancelled, CancelInv, JsInv, BusyMarksTheCall,
       LockInv, SlotInv
  <2> QED
    BY <2>1, <2>2, <2>3, <2>4, <2>5, <2>6, <2>7, <2>8, <2>9 DEF IInv
<1>5. ASSUME NEW c \in Calls, Cancel(c)
      PROVE  IInv'
  <2> USE <1>5 DEF Cancel, slotVars
  <2>1. TypeOK'
    BY DEF TypeOK, Stages, Slots, Outcomes
  <2>2. LockInv'
    BY DEF LockInv, JsInv
  <2>3. BusyMarksTheCall'
    BY DEF BusyMarksTheCall, LockInv, JsInv, InFlight, Pending
  <2>4. JsInv'
    BY DEF JsInv, LockInv, BusyMarksTheCall, InFlight, Pending
  <2>5. SlotInv'
    BY DEF SlotInv, LockInv, BusyMarksTheCall, JsInv, InFlight, Pending
  <2>6. AccountInv'
    BY DEF AccountInv, LockInv, SlotInv, BusyMarksTheCall, JsInv, InFlight,
       Pending
  <2>7. CancelInv'
    BY DEF CancelInv, JsInv, LockInv
  <2>8. AnswerInv'
    BY DEF AnswerInv, LockInv, JsInv, BusyMarksTheCall, InFlight, Pending,
       Slots
  <2>9. ClosedIsReleased'
    BY DEF ClosedIsReleased, Cancelled, CancelInv, JsInv, BusyMarksTheCall,
       LockInv, SlotInv
  <2> QED
    BY <2>1, <2>2, <2>3, <2>4, <2>5, <2>6, <2>7, <2>8, <2>9 DEF IInv
<1>6. ASSUME NEW c \in Calls, PoolRefused(c)
      PROVE  IInv'
  <2> USE <1>6 DEF PoolRefused, slotVars
  <2>1. TypeOK'
    BY DEF TypeOK, Stages, Slots, Outcomes
  <2>2. LockInv'
    BY DEF LockInv, JsInv
  <2>3. BusyMarksTheCall'
    BY DEF BusyMarksTheCall, LockInv, JsInv, InFlight, Pending
  <2>4. JsInv'
    BY DEF JsInv, LockInv, BusyMarksTheCall, InFlight, Pending
  <2>5. SlotInv'
    BY DEF SlotInv, LockInv, BusyMarksTheCall, JsInv, InFlight, Pending
  <2>6. AccountInv'
    BY DEF AccountInv, LockInv, SlotInv, BusyMarksTheCall, JsInv, InFlight,
       Pending
  <2>7. CancelInv'
    BY DEF CancelInv, JsInv, LockInv
  <2>8. AnswerInv'
    BY DEF AnswerInv, LockInv, JsInv, BusyMarksTheCall, InFlight, Pending,
       Slots
  <2>9. ClosedIsReleased'
    BY DEF ClosedIsReleased, Cancelled
  <2> QED
    BY <2>1, <2>2, <2>3, <2>4, <2>5, <2>6, <2>7, <2>8, <2>9 DEF IInv
<1>7. ASSUME NEW c \in Calls, PoolLock(c)
      PROVE  IInv'
  <2> USE <1>7 DEF PoolLock, slotVars
  <2>1. TypeOK'
    BY DEF TypeOK, Stages, Slots, Outcomes
  <2>2. LockInv'
    BY DEF LockInv, JsInv
  <2>3. BusyMarksTheCall'
    BY DEF BusyMarksTheCall, LockInv, JsInv, InFlight, Pending
  <2>4. JsInv'
    BY DEF JsInv, LockInv, BusyMarksTheCall, InFlight, Pending
  <2>5. SlotInv'
    BY DEF SlotInv, LockInv, BusyMarksTheCall, JsInv, InFlight, Pending
  <2>6. AccountInv'
    BY DEF AccountInv, LockInv, SlotInv, BusyMarksTheCall, JsInv, InFlight,
       Pending
  <2>7. CancelInv'
    BY DEF CancelInv, JsInv, LockInv
  <2>8. AnswerInv'
    BY DEF AnswerInv, LockInv, JsInv, BusyMarksTheCall, InFlight, Pending,
       Slots
  <2>9. ClosedIsReleased'
    BY DEF ClosedIsReleased, Cancelled
  <2> QED
    BY <2>1, <2>2, <2>3, <2>4, <2>5, <2>6, <2>7, <2>8, <2>9 DEF IInv
<1>8. ASSUME NEW c \in Calls, PoolOperate(c)
      PROVE  IInv'
  <2> USE <1>8 DEF PoolOperate, Operate
  <2>1. TypeOK'
    BY DEF TypeOK, AccountInv, Stages, Slots, Outcomes
  <2>2. LockInv'
    BY DEF LockInv, JsInv
  <2>3. BusyMarksTheCall'
    BY DEF BusyMarksTheCall, LockInv, JsInv, InFlight, Pending
  <2>4. JsInv'
    BY DEF JsInv, LockInv, BusyMarksTheCall, InFlight, Pending
  <2>5. SlotInv'
    BY DEF SlotInv, LockInv, BusyMarksTheCall, JsInv, InFlight, Pending
  <2>6. AccountInv'
    BY DEF AccountInv, LockInv, SlotInv, BusyMarksTheCall, JsInv, InFlight,
       Pending
  <2>7. CancelInv'
    BY DEF CancelInv, LockInv, Slots
  <2>8. AnswerInv'
    BY DEF AnswerInv, LockInv, JsInv, BusyMarksTheCall, InFlight, Pending,
       Slots
  <2>9. ClosedIsReleased'
    BY DEF ClosedIsReleased, Cancelled, CancelInv, JsInv, BusyMarksTheCall,
       LockInv, SlotInv
  <2> QED
    BY <2>1, <2>2, <2>3, <2>4, <2>5, <2>6, <2>7, <2>8, <2>9 DEF IInv
<1>9. ASSUME NEW c \in Calls, PoolUnlock(c)
      PROVE  IInv'
  <2> USE <1>9 DEF PoolUnlock, Dropped
  <2>1. TypeOK'
    BY DEF TypeOK, AccountInv, Stages, Slots, Outcomes
  <2>2. LockInv'
    BY DEF LockInv, JsInv
  <2>3. BusyMarksTheCall'
    BY DEF BusyMarksTheCall, LockInv, JsInv, InFlight, Pending
  <2>4. JsInv'
    BY DEF JsInv, LockInv, BusyMarksTheCall, InFlight, Pending
  <2>5. SlotInv'
    BY DEF SlotInv, LockInv, BusyMarksTheCall, JsInv, InFlight, Pending
  <2>6. AccountInv'
    BY DEF AccountInv, LockInv, SlotInv, BusyMarksTheCall, JsInv, InFlight,
       Pending
  <2>7. CancelInv'
    BY DEF CancelInv, JsInv, LockInv
  <2>8. AnswerInv'
    BY DEF AnswerInv, LockInv, JsInv, BusyMarksTheCall, InFlight, Pending,
       Slots
  <2>9. ClosedIsReleased'
    BY DEF ClosedIsReleased, Cancelled, CancelInv, JsInv, BusyMarksTheCall,
       LockInv, SlotInv
  <2> QED
    BY <2>1, <2>2, <2>3, <2>4, <2>5, <2>6, <2>7, <2>8, <2>9 DEF IInv
<1>10. ASSUME NEW c \in Calls, SyncRun(c)
      PROVE  IInv'
  <2> USE <1>10 DEF SyncRun, Report, Operate
  <2>1. TypeOK'
    BY DEF TypeOK, AccountInv, Stages, Slots, Outcomes
  <2>2. LockInv'
    BY DEF LockInv, JsInv
  <2>3. BusyMarksTheCall'
    BY DEF BusyMarksTheCall, LockInv, JsInv, InFlight, Pending
  <2>4. JsInv'
    BY DEF JsInv, LockInv, BusyMarksTheCall, InFlight, Pending
  <2>5. SlotInv'
    BY DEF SlotInv, LockInv, BusyMarksTheCall, JsInv, InFlight, Pending
  <2>6. AccountInv'
    BY DEF AccountInv, LockInv, SlotInv, BusyMarksTheCall, JsInv, InFlight,
       Pending
  <2>7. CancelInv'
    BY DEF CancelInv, JsInv, LockInv
  <2>8. AnswerInv'
    BY DEF AnswerInv, LockInv, JsInv, BusyMarksTheCall, InFlight, Pending,
       Slots
  <2>9. ClosedIsReleased'
    BY DEF ClosedIsReleased, Cancelled, CancelInv, JsInv, BusyMarksTheCall,
       LockInv, SlotInv
  <2> QED
    BY <2>1, <2>2, <2>3, <2>4, <2>5, <2>6, <2>7, <2>8, <2>9 DEF IInv
<1>11. ASSUME NEW c \in Calls, SettleRefused(c)
      PROVE  IInv'
  <2> USE <1>11 DEF SettleRefused, slotVars
  <2>1. TypeOK'
    BY DEF TypeOK, Stages, Slots, Outcomes
  <2>2. LockInv'
    BY DEF LockInv, JsInv
  <2>3. BusyMarksTheCall'
    BY DEF BusyMarksTheCall, LockInv, JsInv, InFlight, Pending
  <2>4. JsInv'
    BY DEF JsInv, LockInv, BusyMarksTheCall, InFlight, Pending
  <2>5. SlotInv'
    BY DEF SlotInv, LockInv, BusyMarksTheCall, JsInv, InFlight, Pending
  <2>6. AccountInv'
    BY DEF AccountInv, LockInv, SlotInv, BusyMarksTheCall, JsInv, InFlight,
       Pending
  <2>7. CancelInv'
    BY DEF CancelInv, JsInv, LockInv
  <2>8. AnswerInv'
    BY DEF AnswerInv, LockInv, JsInv, BusyMarksTheCall, InFlight, Pending,
       Slots
  <2>9. ClosedIsReleased'
    BY DEF ClosedIsReleased, Cancelled
  <2> QED
    BY <2>1, <2>2, <2>3, <2>4, <2>5, <2>6, <2>7, <2>8, <2>9 DEF IInv
<1>12. ASSUME NEW c \in Calls, SettleBegin(c)
      PROVE  IInv'
  <2> USE <1>12 DEF SettleBegin, slotVars, callVars
  <2>1. TypeOK'
    BY DEF TypeOK, Stages, Slots, Outcomes
  <2>2. JsInv'
    BY DEF JsInv, LockInv, BusyMarksTheCall, InFlight, Pending
  <2>3. /\ LockInv' /\ BusyMarksTheCall' /\ SlotInv' /\ AccountInv'
        /\ CancelInv' /\ AnswerInv' /\ ClosedIsReleased'
    BY DEF LockInv, BusyMarksTheCall, SlotInv, AccountInv, CancelInv,
       AnswerInv, ClosedIsReleased, InFlight, Pending, Cancelled
  <2> QED
    BY <2>1, <2>2, <2>3 DEF IInv
<1>13. ASSUME NEW c \in Calls, SettleRun(c)
      PROVE  IInv'
  <2> USE <1>13 DEF SettleRun, Report, Dropped
  <2>1. TypeOK'
    <3>1. usage' \in Nat /\ reported' = usage' /\ account' = usage'
      BY DEF AccountInv
    <3>2. slot' \in Slots
      BY DEF Slots
    <3> QED
      BY <3>1, <3>2 DEF Stages
  <2>2. LockInv'
    BY DEF LockInv, JsInv
  <2>3. BusyMarksTheCall'
    BY DEF BusyMarksTheCall, LockInv, JsInv, InFlight, Pending
  <2>4. JsInv'
    BY DEF JsInv, LockInv, BusyMarksTheCall, InFlight, Pending
  <2>5. SlotInv'
    BY DEF SlotInv, LockInv, BusyMarksTheCall, JsInv, InFlight, Pending
  <2>6. AccountInv'
    BY DEF AccountInv, LockInv, SlotInv, BusyMarksTheCall, JsInv, InFlight,
       Pending
  <2>7. CancelInv'
    BY DEF CancelInv, JsInv, LockInv
  <2>8. AnswerInv'
    BY DEF AnswerInv, LockInv, JsInv, BusyMarksTheCall, InFlight, Pending,
       Slots
  <2>9. ClosedIsReleased'
    BY DEF ClosedIsReleased, Cancelled, CancelInv, JsInv, BusyMarksTheCall,
       LockInv, SlotInv
  <2> QED
    BY <2>1, <2>2, <2>3, <2>4, <2>5, <2>6, <2>7, <2>8, <2>9 DEF IInv
<1>14. ASSUME CloseBusy
      PROVE  IInv'
  <2> USE <1>14 DEF CloseBusy, slotVars, callVars
  <2>1. TypeOK'
    BY DEF TypeOK, Stages, Slots, Outcomes
  <2>2. JsInv'
    BY DEF JsInv, LockInv, BusyMarksTheCall, InFlight, Pending
  <2>3. SlotInv'
    BY DEF SlotInv, LockInv, BusyMarksTheCall, JsInv, InFlight, Pending
  <2>4. ClosedIsReleased'
    BY DEF ClosedIsReleased, Cancelled, CancelInv, JsInv, BusyMarksTheCall,
       LockInv, SlotInv
  <2>5. LockInv' /\ BusyMarksTheCall' /\ AccountInv' /\ CancelInv' /\ AnswerInv'
    BY DEF LockInv, BusyMarksTheCall, AccountInv, CancelInv, AnswerInv,
       InFlight, Pending
  <2> QED
    BY <2>1, <2>2, <2>3, <2>4, <2>5 DEF IInv
<1>15. ASSUME CloseBegin
      PROVE  IInv'
  <2> USE <1>15 DEF CloseBegin, slotVars, callVars
  <2>1. TypeOK'
    BY DEF TypeOK, Stages, Slots, Outcomes
  <2>2. JsInv'
    BY DEF JsInv, LockInv, BusyMarksTheCall, InFlight, Pending
  <2>3. /\ LockInv' /\ BusyMarksTheCall' /\ SlotInv' /\ AccountInv'
        /\ CancelInv' /\ AnswerInv' /\ ClosedIsReleased'
    BY DEF LockInv, BusyMarksTheCall, SlotInv, AccountInv, CancelInv,
       AnswerInv, ClosedIsReleased, InFlight, Pending, Cancelled
  <2> QED
    BY <2>1, <2>2, <2>3 DEF IInv
<1>16. ASSUME CloseRun
      PROVE  IInv'
  <2> USE <1>16 DEF CloseRun, Report, Dropped, callVars
  <2>1. TypeOK'
    BY DEF TypeOK, AccountInv, Stages, Slots, Outcomes
  <2>2. JsInv'
    BY DEF JsInv, LockInv, BusyMarksTheCall, InFlight, Pending
  <2>3. SlotInv'
    BY DEF SlotInv, LockInv, BusyMarksTheCall, JsInv, InFlight, Pending
  <2>4. AccountInv'
    BY DEF AccountInv, LockInv, SlotInv, BusyMarksTheCall, JsInv, InFlight,
       Pending
  <2>5. AnswerInv'
    BY DEF AnswerInv, LockInv, JsInv, BusyMarksTheCall, InFlight, Pending,
       Slots
  <2>6. ClosedIsReleased'
    BY DEF ClosedIsReleased, Cancelled, CancelInv, JsInv, BusyMarksTheCall,
       LockInv, SlotInv
  <2>7. LockInv' /\ BusyMarksTheCall' /\ CancelInv'
    BY DEF LockInv, BusyMarksTheCall, CancelInv, InFlight, Pending
  <2> QED
    BY <2>1, <2>2, <2>3, <2>4, <2>5, <2>6, <2>7 DEF IInv
<1>17. ASSUME Finalize
      PROVE  IInv'
  <2> USE <1>17 DEF Finalize, slotVars, callVars
  <2>1. TypeOK'
    BY DEF TypeOK, Stages, Slots, Outcomes
  <2>2. JsInv'
    BY DEF JsInv, LockInv, BusyMarksTheCall, InFlight, Pending
  <2>3. SlotInv'
    BY DEF SlotInv, LockInv, BusyMarksTheCall, JsInv, InFlight, Pending
  <2>4. ClosedIsReleased'
    BY DEF ClosedIsReleased, Cancelled, CancelInv, JsInv, BusyMarksTheCall,
       LockInv, SlotInv
  <2>5. LockInv' /\ BusyMarksTheCall' /\ AccountInv' /\ CancelInv' /\ AnswerInv'
    BY DEF LockInv, BusyMarksTheCall, AccountInv, CancelInv, AnswerInv,
       InFlight, Pending
  <2> QED
    BY <2>1, <2>2, <2>3, <2>4, <2>5 DEF IInv
<1>18. CASE Shutdown \/ UNCHANGED vars
  <2> USE <1>18 DEF Shutdown, vars, callVars, slotVars
  <2>1. TypeOK'
    OBVIOUS
  <2>2. LockInv' /\ JsInv'
    BY DEF LockInv, JsInv
  <2>3. BusyMarksTheCall' /\ SlotInv' /\ AccountInv'
    BY DEF BusyMarksTheCall, SlotInv, AccountInv, InFlight, Pending
  <2>4. CancelInv' /\ AnswerInv' /\ ClosedIsReleased'
    BY DEF CancelInv, AnswerInv, ClosedIsReleased, Cancelled
  <2> QED
    BY <2>1, <2>2, <2>3, <2>4 DEF IInv
<1> QED
  BY <1>1, <1>2, <1>3, <1>4, <1>5, <1>6, <1>7, <1>8, <1>9, <1>10, <1>11,
     <1>12, <1>13, <1>14, <1>15, <1>16, <1>17, <1>18 DEF Next, Pool, EventLoop

--------------------------------------------------------------------------------

(* The invariant of every reachable state, whatever the calls. *)
THEOREM Invariance == Spec => []IInv
<1>1. Init => IInv
  BY Initially
<1>2. IInv /\ [Next]_vars => IInv'
  BY Inductive
<1> QED
  BY <1>1, <1>2, PTL DEF Spec

(* The types of the variables; V8 is never told to count less than nothing. *)
THEOREM TypeCorrect == Spec => []TypeOK
<1>1. IInv => TypeOK
  BY DEF IInv
<1> QED
  BY <1>1, Invariance, PTL

(* The busy mark is set exactly while a single asynchronous call is in     *)
(* flight: no refusal, settling or cancelled task loses it or leaves it.   *)
THEOREM BusyMarkIsExact == Spec => []BusyMarksTheCall
<1>1. IInv => BusyMarksTheCall
  BY DEF IInv
<1> QED
  BY <1>1, Invariance, PTL

(* The JavaScript thread never waits for the lock: context.rs, Shared.     *)
THEOREM LockIsFree == Spec => []NeverContended
<1>1. IInv => NeverContended
  <2> SUFFICES ASSUME IInv, jsAct \in {"run", "close", "settle"}, lock # None
               PROVE  FALSE
    BY DEF NeverContended
  <2>1. PICK c \in Calls : lock = c
    BY DEF IInv, TypeOK
  <2>2. InFlight(c) /\ st[c] \in {"running", "operated"}
    BY <2>1 DEF IInv, LockInv, InFlight, Pending
  <2>3. busy
    BY <2>2 DEF IInv, BusyMarksTheCall
  <2>4. jsCall \in Calls /\ InFlight(jsCall) /\ st[jsCall] = "ran"
    BY <2>3 DEF IInv, JsInv, InFlight, Pending
  <2> QED
    BY <2>2, <2>4 DEF IInv, BusyMarksTheCall
<1> QED
  BY <1>1, Invariance, PTL

(* V8 counts the memory of the codec state, to the byte, whenever no call  *)
(* is in progress.                                                         *)
THEOREM AccountIsExact == Spec => []AccountMatchesState
<1>1. IInv => AccountMatchesState
  BY DEF IInv, BusyMarksTheCall, SlotInv, AccountInv, AccountMatchesState,
         InFlight, Pending
<1> QED
  BY <1>1, Invariance, PTL

(* An idle context honours the close request that came while it was busy.  *)
THEOREM CloseIsHonoured == Spec => []ClosedIsReleased
<1>1. IInv => ClosedIsReleased
  BY DEF IInv
<1> QED
  BY <1>1, Invariance, PTL

(* A call that began before close() is never answered as closed. *)
THEOREM BegunCallsAreAnswered == Spec => BegunCallsSeeNoClose
<1> DEFINE Unseen == \A c \in Calls :
        st[c] \in {"sync", "running"} /\ outcome'[c] # outcome[c]
            => outcome'[c] # "Closed"
<1>1. IInv /\ [Next]_vars => [Unseen]_vars
  <2> SUFFICES ASSUME IInv, [Next]_vars,
                      NEW c \in Calls, st[c] \in {"sync", "running"},
                      outcome'[c] # outcome[c]
               PROVE  outcome'[c] # "Closed"
    OBVIOUS
  <2>1. slot # "Closed"
    BY DEF IInv, JsInv, SlotInv, LockInv
  <2>2. SyncRun(c) \/ PoolOperate(c)
    BY DEF IInv, TypeOK, Next, Pool, EventLoop, vars, callVars, slotVars, SyncRefused,
           SyncBegin, AsyncCall, BeginAsync, AsyncInvalid, Cancel, PoolRefused, PoolLock,
           PoolOperate, PoolUnlock, SyncRun, SettleRefused, SettleBegin,
           SettleRun, CloseBusy, CloseBegin, CloseRun, Finalize, Shutdown,
           Operate, CanCall
  <2> QED
    BY <2>1, <2>2 DEF IInv, TypeOK, SyncRun, PoolOperate, Operate
<1> QED
  BY <1>1, Invariance, PTL DEF Spec, BegunCallsSeeNoClose

--------------------------------------------------------------------------------
(* The refinement of the contract. *)

(* The call that the context works on, as the invariant determines it. *)
LEMMA CurrentCall ==
    ASSUME IInv
    PROVE  /\ jsAct = "run" => Current = jsCall
           /\ \A c \in Calls : InFlight(c) => Current = c
           /\ jsAct # "run" /\ ~busy => Current = None
<1>1. ASSUME NEW c \in Calls, InFlight(c)
      PROVE  Current = c
  <2>1. busy /\ jsAct # "run"
    BY <1>1 DEF IInv, BusyMarksTheCall, JsInv
  <2>2. \A d \in Calls : InFlight(d) => d = c
    BY <1>1 DEF IInv, BusyMarksTheCall
  <2> HIDE DEF InFlight
  <2> QED
    BY <1>1, <2>1, <2>2 DEF Current
<1>2. jsAct # "run" /\ ~busy => Current = None
  BY DEF IInv, BusyMarksTheCall, Current
<1> QED
  BY <1>1, <1>2 DEF Current

(* The same after a step. *)
LEMMA CurrentCallNext ==
    ASSUME IInv'
    PROVE  /\ jsAct' = "run" => Current' = jsCall'
           /\ \A c \in Calls : InFlight(c)' => Current' = c
           /\ jsAct' # "run" /\ ~busy' => Current' = None
<1>1. ASSUME NEW c \in Calls, InFlight(c)'
      PROVE  Current' = c
  <2>1. busy' /\ jsAct' # "run"
    BY <1>1 DEF IInv, BusyMarksTheCall, JsInv
  <2>2. \A d \in Calls : InFlight(d)' => d = c
    BY <1>1 DEF IInv, BusyMarksTheCall
  <2> QED
    BY <1>1, <2>1, <2>2 DEF Current
<1>2. jsAct' # "run" /\ ~busy' => Current' = None
  BY DEF IInv, BusyMarksTheCall, Current
<1> QED
  BY <1>1, <1>2 DEF Current

(* A step of the context is a step of its contract, or none. *)
LEMMA StepRefines ==
    IInv /\ IInv' /\ [Next]_vars => [Contract!Next]_(Contract!vars)
<1> SUFFICES ASSUME IInv, IInv', [Next]_vars
             PROVE  [Contract!Next]_(Contract!vars)
  OBVIOUS
<1> USE SizesAssumption, NoneAssumption DEF TypeOK
<1>1. ASSUME NEW c \in Calls, NEW o \in Ops, SyncRefused(c, o)
      PROVE  Contract!Refuse(c)
  <2> USE <1>1 DEF SyncRefused, CanCall, slotVars
  <2>1. Current' = Current /\ Current # c
    BY CurrentCall, CurrentCallNext DEF IInv, LockInv, JsInv, BusyMarksTheCall,
       InFlight, Pending
  <2>2. Contract!Method(c)
    BY DEF Contract!Method, Ops
  <2>3. busy => Current # None
    BY CurrentCall DEF IInv, BusyMarksTheCall
  <2> QED
    BY <2>1, <2>2, <2>3 DEF IInv, AnswerInv, Contract!Refuse
<1>2. ASSUME NEW c \in Calls, NEW o \in Ops, SyncBegin(c, o)
      PROVE  Contract!Begin(c)
  <2> USE <1>2 DEF SyncBegin, CanCall, slotVars
  <2>1. Current = None /\ Current' = c
    BY CurrentCall, CurrentCallNext DEF IInv, LockInv, JsInv, BusyMarksTheCall,
       InFlight, Pending
  <2>2. Contract!Method(c)
    BY DEF Contract!Method, Ops
  <2> QED
    BY <2>1, <2>2 DEF IInv, AnswerInv, BusyMarksTheCall, JsInv, Contract!Begin
<1>3. ASSUME NEW c \in Calls, NEW o \in Ops, AsyncCall(c, o)
      PROVE  Contract!Refuse(c) \/ Contract!Begin(c)
  <2> USE <1>3 DEF AsyncCall, BeginAsync, CanCall, slotVars
  <2>1. Contract!Method(c)
    BY DEF Contract!Method, Ops
  <2>2. /\ Current # c /\ outcome[c] = "none"
        /\ busy => Current # None
        /\ ~busy => Current = None
    BY CurrentCall DEF IInv, LockInv, JsInv, BusyMarksTheCall, AnswerInv, InFlight
  <2>3. CASE closeRequested \/ busy
    <3>1. Current' = Current
      BY <2>3, CurrentCall, CurrentCallNext
         DEF IInv, LockInv, JsInv, BusyMarksTheCall, InFlight, Pending
    <3> QED
      BY <2>1, <2>2, <2>3, <3>1 DEF Contract!Refuse
  <2>4. CASE ~closeRequested /\ ~busy
    <3>1. Current' = c
      BY <2>4, CurrentCallNext DEF IInv, InFlight, Pending
    <3> QED
      BY <2>1, <2>2, <2>4, <3>1 DEF Contract!Begin
  <2> QED
    BY <2>3, <2>4
<1>4. ASSUME NEW c \in Calls, AsyncInvalid(c)
      PROVE  Contract!Refuse(c)
  <2> USE <1>4 DEF AsyncInvalid, CanCall, slotVars
  <2>1. Current' = Current /\ Current # c
    BY CurrentCall, CurrentCallNext DEF IInv, LockInv, JsInv, BusyMarksTheCall,
       InFlight, Pending
  <2> QED
    BY <2>1 DEF IInv, JsInv, SlotInv, AccountInv, AnswerInv, LockInv, Ops,
       Contract!Refuse, Contract!Method
<1>5. ASSUME NEW c \in Calls, Cancel(c)
      PROVE  Contract!Abandon(c)
  <2> USE <1>5 DEF Cancel, slotVars
  <2> QED
    BY CurrentCall, CurrentCallNext DEF IInv, LockInv, JsInv,
       BusyMarksTheCall, SlotInv, AnswerInv, InFlight, Pending, Ops,
       Contract!Abandon
<1>6. ASSUME NEW c \in Calls, PoolRefused(c)
      PROVE  UNCHANGED Contract!vars
  <2> USE <1>6 DEF PoolRefused, slotVars
  <2>1. Current' = Current
    BY CurrentCall, CurrentCallNext DEF IInv, LockInv, JsInv, BusyMarksTheCall,
       InFlight, Pending
  <2> QED
    BY <2>1 DEF IInv, JsInv, SlotInv, AccountInv, AnswerInv, LockInv, Ops,
       Contract!vars
<1>7. ASSUME NEW c \in Calls, PoolLock(c)
      PROVE  UNCHANGED Contract!vars
  <2> USE <1>7 DEF PoolLock, slotVars
  <2>1. Current' = Current
    BY CurrentCall, CurrentCallNext DEF IInv, LockInv, JsInv, BusyMarksTheCall,
       InFlight, Pending
  <2> QED
    BY <2>1 DEF IInv, JsInv, SlotInv, AccountInv, AnswerInv, LockInv, Ops,
       Contract!vars
<1>8. ASSUME NEW c \in Calls, PoolOperate(c)
      PROVE  Contract!Answer(c)
  <2> USE <1>8 DEF PoolOperate, Operate
  <2>1. Current = c /\ Current' = c
    BY CurrentCall, CurrentCallNext DEF IInv, LockInv, JsInv, BusyMarksTheCall,
       InFlight, Pending
  <2>2. slot \in {"Open", "Finished"} /\ outcome[c] = "none"
    BY DEF IInv, LockInv, SlotInv, AnswerInv, Slots
  <2>3. Contract!Result(c)
    BY <2>2 DEF Contract!Result
  <2> QED
    BY <2>1, <2>2, <2>3 DEF Contract!Answer
<1>9. ASSUME NEW c \in Calls, PoolUnlock(c)
      PROVE  Contract!End(c) \/ UNCHANGED Contract!vars
  <2> USE <1>9 DEF PoolUnlock, Dropped
  <2>1. Current = c /\ Current' = c
    BY CurrentCall, CurrentCallNext DEF IInv, LockInv, JsInv, BusyMarksTheCall,
       InFlight, Pending
  <2> QED
    BY <2>1 DEF IInv, JsInv, SlotInv, AccountInv, AnswerInv, LockInv, Ops,
       Contract!End, Contract!vars
<1>10. ASSUME NEW c \in Calls, SyncRun(c)
      PROVE  Contract!Complete(c)
  <2> USE <1>10 DEF SyncRun, Report, Operate
  <2>1. Current = c /\ Current' = None
    BY CurrentCall, CurrentCallNext DEF IInv, LockInv, JsInv, BusyMarksTheCall,
       InFlight, Pending
  <2>2. slot \in {"Open", "Finished"} /\ outcome[c] = "none" /\ ~closeRequested
    BY DEF IInv, JsInv, SlotInv, AnswerInv, Slots
  <2>3. Contract!Result(c)
    BY <2>2 DEF Contract!Result
  <2>4. slot' = "Finished" => account' = 0
    BY <2>2 DEF IInv, AccountInv
  <2>5. slot' = "Finished" <=> slot = "Finished" \/ op[c] = "finish"
    BY <2>2
  <2> QED
    BY <2>1, <2>2, <2>3, <2>4, <2>5 DEF Contract!Complete, Contract!Charge
<1>11. ASSUME NEW c \in Calls, SettleRefused(c)
      PROVE  UNCHANGED Contract!vars
  <2> USE <1>11 DEF SettleRefused, slotVars
  <2>1. Current' = Current
    BY CurrentCall, CurrentCallNext DEF IInv, LockInv, JsInv, BusyMarksTheCall,
       InFlight, Pending
  <2> QED
    BY <2>1 DEF IInv, JsInv, SlotInv, AccountInv, AnswerInv, LockInv, Ops,
       Contract!vars
<1>12. ASSUME NEW c \in Calls, SettleBegin(c)
      PROVE  UNCHANGED Contract!vars
  <2> USE <1>12 DEF SettleBegin, slotVars, callVars
  <2>1. Current' = Current
    BY CurrentCall, CurrentCallNext DEF IInv, LockInv, JsInv, BusyMarksTheCall,
       InFlight, Pending
  <2> QED
    BY <2>1 DEF IInv, JsInv, SlotInv, AccountInv, AnswerInv, LockInv, Ops,
       Contract!vars
<1>13. ASSUME NEW c \in Calls, SettleRun(c)
      PROVE  Contract!Retire(c)
  <2> USE <1>13 DEF SettleRun, Report, Dropped
  <2>1. Current = c /\ Current' = None
    BY CurrentCall, CurrentCallNext DEF IInv, LockInv, JsInv, BusyMarksTheCall,
       InFlight, Pending
  <2> QED
    BY <2>1 DEF IInv, JsInv, SlotInv, AccountInv, AnswerInv, LockInv, Ops,
       Contract!Retire, Contract!Charge
<1>14. ASSUME CloseBusy
      PROVE  Contract!Close
  <2> USE <1>14 DEF CloseBusy, slotVars, callVars
  <2>1. Current # None /\ Current' = Current
    BY CurrentCall, CurrentCallNext DEF IInv, LockInv, JsInv, BusyMarksTheCall,
       InFlight, Pending
  <2> QED
    BY <2>1 DEF IInv, JsInv, SlotInv, AccountInv, AnswerInv, LockInv, Ops,
       Contract!Close
<1>15. ASSUME CloseBegin
      PROVE  UNCHANGED Contract!vars
  <2> USE <1>15 DEF CloseBegin, slotVars, callVars
  <2>1. Current' = Current
    BY CurrentCall, CurrentCallNext DEF IInv, LockInv, JsInv, BusyMarksTheCall,
       InFlight, Pending
  <2> QED
    BY <2>1 DEF IInv, JsInv, SlotInv, AccountInv, AnswerInv, LockInv, Ops,
       Contract!vars
<1>16. ASSUME CloseRun
      PROVE  Contract!Close
  <2> USE <1>16 DEF CloseRun, Report, Dropped, callVars
  <2>1. Current = None /\ Current' = None
    BY CurrentCall, CurrentCallNext DEF IInv, LockInv, JsInv, BusyMarksTheCall,
       InFlight, Pending
  <2>2. account' = 0
    BY DEF IInv, AccountInv
  <2> QED
    BY <2>1, <2>2 DEF IInv, SlotInv, Slots, Contract!Close
<1>17. ASSUME Finalize
      PROVE  Contract!Close \/ UNCHANGED Contract!vars
  <2> USE <1>17 DEF Finalize, slotVars, callVars
  <2> QED
    BY CurrentCall, CurrentCallNext DEF IInv, LockInv, JsInv,
       BusyMarksTheCall, SlotInv, AnswerInv, InFlight, Pending, Ops,
       Contract!Close, Contract!vars
<1>18. CASE Shutdown \/ UNCHANGED vars
  <2>1. Current' = Current
    BY <1>18, CurrentCall, CurrentCallNext
       DEF Shutdown, vars, callVars, slotVars, IInv, BusyMarksTheCall, InFlight, Pending
  <2> QED
    BY <1>18, <2>1 DEF Shutdown, vars, callVars, slotVars, Contract!vars
<1> QED
  BY <1>1, <1>2, <1>3, <1>4, <1>5, <1>6, <1>7, <1>8, <1>9, <1>10, <1>11,
     <1>12, <1>13, <1>14, <1>15, <1>16, <1>17, <1>18 DEF Next, Pool, EventLoop, Contract!Next

(* The context implements its contract: calls that exclude each other, an  *)
(* end that is final, and memory that goes with the stream.                *)
THEOREM Refinement == Spec => ImplementsContract
<1>1. Init => Contract!Init
  BY NoneAssumption DEF Init, Contract!Init, Current, InFlight
<1>2. IInv /\ IInv' /\ [Next]_vars => [Contract!Next]_(Contract!vars)
  BY StepRefines
<1> QED
  BY <1>1, <1>2, Invariance, PTL DEF Spec, ImplementsContract, Contract!Spec
================================================================================
