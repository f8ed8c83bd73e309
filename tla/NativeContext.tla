----------------------------- MODULE NativeContext -----------------------------
(***************************************************************************)
(* One stream context of the native addon (crates/core/src/context.rs and  *)
(* crates/core/src/stream_task.rs): a codec state that the JavaScript      *)
(* thread shares with at most one task on the libuv thread pool.           *)
(*                                                                         *)
(* The JavaScript thread and the threads of the pool interleave freely.  A *)
(* synchronous method checks the flags, then takes the lock of the slot;   *)
(* those are two steps here, so that the pool may move in between.  A task *)
(* takes the lock, runs the codec, and reads close_requested before it     *)
(* releases the lock; close() may run between any two of those steps.      *)
(*                                                                         *)
(* Abstracted: the bytes of chunks and outputs.  The memory that a codec   *)
(* state occupies is any member of Sizes after each call of the codec.     *)
(***************************************************************************)
EXTENDS Integers, FiniteSets

CONSTANTS
    Calls,   \* the method calls that the caller may make, each at most once
    Sizes,   \* what memory_usage() may return for an open codec state
    None     \* no call

ASSUME SizesAssumption == Sizes \subseteq Nat /\ Sizes # {}
ASSUME NoneAssumption == None \notin Calls

VARIABLES
    slot,            \* Slot.state
    usage,           \* memory of the codec state, 0 once it is dropped
    reported,        \* Slot.reported
    account,         \* what V8 counts for the context
    busy,            \* Shared.busy
    closeRequested,  \* Shared.close_requested
    lock,            \* the task whose thread holds the lock of the slot
    jsAct,           \* what the JavaScript thread wants the lock for
    jsCall,          \* the call that it makes or settles then
    st,              \* where each call is
    op,              \* the method of each call
    marked,          \* whether a call set the busy mark (Call::Run)
    outcome,         \* what a call returned, or will once it settles
    collected,       \* the finalizer of the JavaScript object ran
    teardown         \* the environment is shutting down

slotVars == <<slot, usage, reported, account>>
callVars == <<st, op, marked, outcome>>
vars == <<slot, usage, reported, account, busy, closeRequested, lock, jsAct,
          jsCall, st, op, marked, outcome, collected, teardown>>

Ops == {"transform", "flush", "finish"}
Slots == {"Open", "Finished", "Closed"}
Stages == {"new", "sync", "queued", "running", "operated", "ran", "done"}
Outcomes == {"none", "ok", "failed", "Finished", "Closed", "Busy",
             "InvalidArg", "cancelled"}

(* The stages of an asynchronous call whose Promise has not settled. *)
Pending == {"queued", "running", "operated", "ran"}

(* A call in flight: it set the busy mark and has not settled. *)
InFlight(c) == marked[c] /\ st[c] \in Pending

Cancelled == \E c \in Calls : outcome[c] = "cancelled"

TypeOK ==
    /\ slot \in Slots
    /\ usage \in Nat /\ reported \in Nat /\ account \in Nat
    /\ busy \in BOOLEAN /\ closeRequested \in BOOLEAN
    /\ lock \in Calls \cup {None}
    /\ jsAct \in {"idle", "run", "close", "settle"}
    /\ jsCall \in Calls \cup {None}
    /\ st \in [Calls -> Stages]
    /\ op \in [Calls -> Ops]
    /\ marked \in [Calls -> BOOLEAN]
    /\ outcome \in [Calls -> Outcomes]
    /\ collected \in BOOLEAN /\ teardown \in BOOLEAN

(* NativeState::new: the state is open and its memory is reported. *)
Init ==
    /\ slot = "Open"
    /\ usage \in Sizes
    /\ reported = usage /\ account = usage
    /\ busy = FALSE /\ closeRequested = FALSE
    /\ lock = None
    /\ jsAct = "idle" /\ jsCall = None
    /\ st = [c \in Calls |-> "new"]
    /\ op = [c \in Calls |-> "transform"]
    /\ marked = [c \in Calls |-> FALSE]
    /\ outcome = [c \in Calls |-> "none"]
    /\ collected = FALSE /\ teardown = FALSE

--------------------------------------------------------------------------------
(* The slot, under its lock. *)

(* Slot::report, given the memory of the state once the step is over. *)
Report(memory) ==
    /\ account' = account + (memory - reported)
    /\ reported' = memory

(* Slot::state and then the codec: an open state runs the call, which      *)
(* succeeds or fails and leaves the state with any size; a state that is   *)
(* gone refuses it.                                                        *)
Operate(c, size, result) ==
    /\ size \in Nat
    /\ IF slot = "Open"
       THEN size \in Sizes /\ result \in {"ok", "failed"}
       ELSE size = 0 /\ result = slot
    /\ outcome' = [outcome EXCEPT ![c] = result]

(* Slot::close: drop the state unless it is gone already. *)
Dropped == IF slot = "Open" THEN "Closed" ELSE slot

--------------------------------------------------------------------------------
(* The JavaScript thread. *)

CanCall(c) ==
    /\ jsAct = "idle" /\ ~collected /\ ~teardown
    /\ st[c] = "new"

(* Shared::check_idle refuses a synchronous call: closed comes first. *)
SyncRefused(c, o) ==
    /\ CanCall(c)
    /\ closeRequested \/ busy
    /\ st' = [st EXCEPT ![c] = "done"]
    /\ op' = [op EXCEPT ![c] = o]
    /\ outcome' = [outcome EXCEPT ![c] = IF closeRequested THEN "Closed"
                                         ELSE "Busy"]
    /\ UNCHANGED <<slotVars, busy, closeRequested, lock, jsAct, jsCall, marked,
                   collected, teardown>>

(* Shared::check_idle lets a synchronous call go on to the lock. *)
SyncBegin(c, o) ==
    /\ CanCall(c)
    /\ ~closeRequested /\ ~busy
    /\ st' = [st EXCEPT ![c] = "sync"]
    /\ op' = [op EXCEPT ![c] = o]
    /\ jsAct' = "run" /\ jsCall' = c
    /\ UNCHANGED <<slotVars, busy, closeRequested, lock, marked, outcome,
                   collected, teardown>>

(* NativeState::run and ::finish, with the lock: call the codec, end the   *)
(* stream after finish() whether it succeeded or not, report the memory.   *)
SyncRun(c) ==
    /\ jsAct = "run" /\ jsCall = c
    /\ lock = None
    /\ \E size \in Sizes \cup {0}, result \in Outcomes :
          /\ Operate(c, size, result)
          /\ LET ends == op[c] = "finish"
                 left == IF ends THEN 0 ELSE size
             IN  /\ slot' = IF ends THEN "Finished" ELSE slot
                 /\ usage' = left
                 /\ Report(left)
    /\ st' = [st EXCEPT ![c] = "done"]
    /\ jsAct' = "idle" /\ jsCall' = None
    /\ UNCHANGED <<busy, closeRequested, lock, op, marked, collected, teardown>>

(* Mutant: close() drops a state that no thread works on at the moment. *)
CloseBusyDrops ==
    /\ jsAct = "idle" /\ ~collected /\ ~teardown
    /\ busy
    /\ closeRequested' = TRUE
    /\ slot' = IF lock = None THEN Dropped ELSE slot
    /\ usage' = IF lock = None THEN 0 ELSE usage
    /\ UNCHANGED <<reported, account, busy, lock, jsAct, jsCall, callVars,
                   collected, teardown>>

(* NativeState::close while a call is in flight only leaves a request. *)
CloseBusy ==
    /\ jsAct = "idle" /\ ~collected /\ ~teardown
    /\ busy
    /\ closeRequested' = TRUE
    /\ UNCHANGED <<slotVars, busy, lock, jsAct, jsCall, callVars, collected,
                   teardown>>

(* NativeState::close of an idle context goes on to the lock. *)
CloseBegin ==
    /\ jsAct = "idle" /\ ~collected /\ ~teardown
    /\ ~busy
    /\ jsAct' = "close"
    /\ UNCHANGED <<slotVars, busy, closeRequested, lock, jsCall, callVars,
                   collected, teardown>>

(* ... and drops the state, if it is still there. *)
CloseRun ==
    /\ jsAct = "close"
    /\ lock = None
    /\ slot' = Dropped
    /\ closeRequested' = (closeRequested \/ slot = "Open")
    /\ usage' = 0
    /\ Report(0)
    /\ jsAct' = "idle"
    /\ UNCHANGED <<busy, lock, jsCall, callVars, collected, teardown>>

(* Mutant: the finalizer of a busy context leaves no request. *)
FinalizeForgets ==
    /\ jsAct = "idle" /\ ~collected
    /\ collected' = TRUE
    /\ jsAct' = IF busy THEN "idle" ELSE "close"
    /\ UNCHANGED <<slotVars, busy, closeRequested, lock, jsCall, callVars,
                   teardown>>

(* ObjectFinalize: the garbage collector takes the object, also with a     *)
(* call in flight, whose task keeps the shared state alive.                *)
Finalize ==
    /\ jsAct = "idle" /\ ~collected
    /\ collected' = TRUE
    /\ closeRequested' = (closeRequested \/ busy)
    /\ jsAct' = IF busy THEN "idle" ELSE "close"
    /\ UNCHANGED <<slotVars, busy, lock, jsCall, callVars, teardown>>

(* NativeState::begin_async: mark the context, or refuse the call, closed   *)
(* before busy.                                                            *)
BeginAsync(c) ==
    \/ /\ closeRequested
       /\ outcome' = [outcome EXCEPT ![c] = "Closed"]
       /\ UNCHANGED <<busy, marked>>
    \/ /\ ~closeRequested /\ busy
       /\ outcome' = [outcome EXCEPT ![c] = "Busy"]
       /\ UNCHANGED <<busy, marked>>
    \/ /\ ~closeRequested /\ ~busy
       /\ busy' = TRUE
       /\ marked' = [marked EXCEPT ![c] = TRUE]
       /\ UNCHANGED outcome

(* StreamTask::new: a task for the call, also for one that was refused. *)
AsyncCall(c, o) ==
    /\ CanCall(c)
    /\ BeginAsync(c)
    /\ st' = [st EXCEPT ![c] = "queued"]
    /\ op' = [op EXCEPT ![c] = o]
    /\ UNCHANGED <<slotVars, closeRequested, lock, jsAct, jsCall, collected,
                   teardown>>

(* transformAsync() of a value that is not bytes: `checked` makes a task   *)
(* that rejects, before the context is asked.                              *)
AsyncInvalid(c) ==
    /\ CanCall(c)
    /\ st' = [st EXCEPT ![c] = "queued"]
    /\ outcome' = [outcome EXCEPT ![c] = "InvalidArg"]
    /\ UNCHANGED <<slotVars, busy, closeRequested, lock, jsAct, jsCall, op,
                   marked, collected, teardown>>

(* StreamTask::resolve of a call that was refused: there is nothing to     *)
(* settle but its Promise.                                                 *)
SettleRefused(c) ==
    /\ jsAct = "idle"
    /\ st[c] = "ran" /\ ~marked[c]
    /\ st' = [st EXCEPT ![c] = "done"]
    /\ UNCHANGED <<slotVars, busy, closeRequested, lock, jsAct, jsCall, op,
                   marked, outcome, collected, teardown>>

(* Mutant: a call settles only while its context object lives. *)
SettleBeginWithObject(c) ==
    /\ jsAct = "idle" /\ ~collected
    /\ st[c] = "ran" /\ marked[c]
    /\ jsAct' = "settle" /\ jsCall' = c
    /\ UNCHANGED <<slotVars, busy, closeRequested, lock, callVars, collected,
                   teardown>>

(* ... and of one that ran goes on to the lock. *)
SettleBegin(c) ==
    /\ jsAct = "idle"
    /\ st[c] = "ran" /\ marked[c]
    /\ jsAct' = "settle" /\ jsCall' = c
    /\ UNCHANGED <<slotVars, busy, closeRequested, lock, callVars, collected,
                   teardown>>

(* Mutant: settling does not report the memory. *)
SettleRunUnreported(c) ==
    /\ jsAct = "settle" /\ jsCall = c
    /\ lock = None
    /\ slot' = IF closeRequested THEN Dropped ELSE slot
    /\ usage' = IF closeRequested THEN 0 ELSE usage
    /\ busy' = FALSE
    /\ st' = [st EXCEPT ![c] = "done"]
    /\ jsAct' = "idle" /\ jsCall' = None
    /\ UNCHANGED <<reported, account, closeRequested, lock, op, marked, outcome,
                   collected, teardown>>

(* Shared::settle: drop the state of a stream that was closed meanwhile,   *)
(* report its memory, and clear the busy mark.                             *)
SettleRun(c) ==
    /\ jsAct = "settle" /\ jsCall = c
    /\ lock = None
    /\ slot' = IF closeRequested THEN Dropped ELSE slot
    /\ LET left == IF closeRequested THEN 0 ELSE usage
       IN  usage' = left /\ Report(left)
    /\ busy' = FALSE
    /\ st' = [st EXCEPT ![c] = "done"]
    /\ jsAct' = "idle" /\ jsCall' = None
    /\ UNCHANGED <<closeRequested, lock, op, marked, outcome, collected,
                   teardown>>

(* The environment shuts down: no JavaScript calls any more. *)
Shutdown ==
    /\ jsAct = "idle" /\ ~teardown
    /\ teardown' = TRUE
    /\ UNCHANGED <<slotVars, busy, closeRequested, lock, jsAct, jsCall,
                   callVars, collected>>

(* Node.js cancels a task that no thread took: dropping it abandons the    *)
(* mark (Shared::abandon), without a report.                               *)
Cancel(c) ==
    /\ teardown /\ jsAct = "idle"
    /\ st[c] = "queued"
    /\ st' = [st EXCEPT ![c] = "done"]
    /\ outcome' = [outcome EXCEPT ![c] = "cancelled"]
    /\ busy' = (busy /\ ~marked[c])
    /\ UNCHANGED <<slotVars, closeRequested, lock, jsAct, jsCall, op, marked,
                   collected, teardown>>

--------------------------------------------------------------------------------
(* The thread pool: StreamTask::compute. *)

(* A refused call only fails: its task holds no shared state. *)
PoolRefused(c) ==
    /\ st[c] = "queued" /\ ~marked[c]
    /\ st' = [st EXCEPT ![c] = "ran"]
    /\ UNCHANGED <<slotVars, busy, closeRequested, lock, jsAct, jsCall, op,
                   marked, outcome, collected, teardown>>

(* Shared::run_async takes the lock ... *)
PoolLock(c) ==
    /\ st[c] = "queued" /\ marked[c]
    /\ lock = None
    /\ lock' = c
    /\ st' = [st EXCEPT ![c] = "running"]
    /\ UNCHANGED <<slotVars, busy, closeRequested, jsAct, jsCall, op, marked,
                   outcome, collected, teardown>>

(* ... runs the codec on the state ... *)
PoolOperate(c) ==
    /\ st[c] = "running"
    /\ \E size \in Sizes \cup {0}, result \in Outcomes :
          /\ Operate(c, size, result)
          /\ usage' = size
    /\ st' = [st EXCEPT ![c] = "operated"]
    /\ UNCHANGED <<slot, reported, account, busy, closeRequested, lock, jsAct,
                   jsCall, op, marked, collected, teardown>>

(* Mutant: finish() ends the stream only if it succeeds. *)
PoolUnlockIfOk(c) ==
    /\ st[c] = "operated"
    /\ LET ends == op[c] = "finish" /\ outcome[c] = "ok"
       IN  /\ slot' = IF ends THEN "Finished"
                      ELSE IF closeRequested THEN Dropped ELSE slot
           /\ usage' = IF ends \/ closeRequested THEN 0 ELSE usage
    /\ lock' = None
    /\ st' = [st EXCEPT ![c] = "ran"]
    /\ UNCHANGED <<reported, account, busy, closeRequested, jsAct, jsCall, op,
                   marked, outcome, collected, teardown>>

(* ... and, before it releases the lock, drops the state after finish(),   *)
(* or if the stream was closed meanwhile.                                  *)
PoolUnlock(c) ==
    /\ st[c] = "operated"
    /\ slot' = IF op[c] = "finish" THEN "Finished"
               ELSE IF closeRequested THEN Dropped ELSE slot
    /\ usage' = IF op[c] = "finish" \/ closeRequested THEN 0 ELSE usage
    /\ lock' = None
    /\ st' = [st EXCEPT ![c] = "ran"]
    /\ UNCHANGED <<reported, account, busy, closeRequested, jsAct, jsCall, op,
                   marked, outcome, collected, teardown>>

Pool(c) == PoolRefused(c) \/ PoolLock(c) \/ PoolOperate(c) \/ PoolUnlock(c)

(* What the event loop runs by itself: steps already begun, completions. *)
EventLoop(c) == SyncRun(c) \/ SettleRefused(c) \/ SettleBegin(c) \/ SettleRun(c)

Next ==
    \/ \E c \in Calls, o \in Ops :
          SyncRefused(c, o) \/ SyncBegin(c, o) \/ AsyncCall(c, o)
    \/ \E c \in Calls : AsyncInvalid(c) \/ Cancel(c)
    \/ \E c \in Calls : Pool(c) \/ EventLoop(c)
    \/ CloseBusy \/ CloseBegin \/ CloseRun \/ Finalize \/ Shutdown

Spec == Init /\ [][Next]_vars

(* Every thread of the pool goes on, and so does the event loop: libuv     *)
(* runs each completion, and no caller code keeps the loop from it for     *)
(* ever.  The caller owes nothing: it need not call, close or collect.     *)
(* Completions compete with the calls of JavaScript code for the thread,   *)
(* hence strong fairness for beginning to settle.                          *)
FairSpec ==
    /\ Spec
    /\ WF_vars(CloseRun)
    /\ \A c \in Calls :
          /\ WF_vars(Pool(c))
          /\ WF_vars(SyncRun(c)) /\ WF_vars(SettleRun(c))
          /\ SF_vars(SettleRefused(c)) /\ SF_vars(SettleBegin(c))

--------------------------------------------------------------------------------
(* Properties. *)

(* The busy mark is neither lost nor left behind: it is set exactly while  *)
(* one asynchronous call is between begin_async and settle or abandon, and *)
(* there is never a second one, whatever refused tasks come and go.        *)
BusyMarksTheCall ==
    /\ busy <=> \E c \in Calls : InFlight(c)
    /\ \A c, d \in Calls : InFlight(c) /\ InFlight(d) => c = d

(* "The lock is never contended" (context.rs, Shared): the JavaScript      *)
(* thread never wants the lock while a thread of the pool holds it, so a   *)
(* codec on the pool never blocks the event loop.                          *)
NeverContended == jsAct \in {"run", "close", "settle"} => lock = None

(* Memory of the codec state, as the doc of NativeState promises it is     *)
(* reported: V8 counts it to the byte whenever no call is in progress.     *)
AccountMatchesState ==
    /\ account = reported
    /\ ~busy /\ jsAct = "idle" => account = (IF slot = "Open" THEN usage ELSE 0)

(* A close request that came while a call was in flight is honoured by the *)
(* time the context is idle: the state is gone (a call that the shutdown   *)
(* of the environment cancelled honours nothing).                          *)
ClosedIsReleased ==
    closeRequested /\ ~busy /\ ~Cancelled => slot # "Open"

(* No call returns "already closed" from a state found closed under the    *)
(* lock, and a call that began before close() is still answered by the     *)
(* codec: only calls made after the request see it.                        *)
BegunCallsSeeNoClose ==
    [][\A c \in Calls :
          st[c] \in {"sync", "running"} /\ outcome'[c] # outcome[c]
              => outcome'[c] # "Closed"]_vars

(* Every call in flight settles, even after close() or the finalizer. *)
CallsSettle == \A c \in Calls : (st[c] \in Pending) ~> (st[c] = "done")

(* Once closed, finished or collected, the context stops being charged for *)
(* native memory.                                                          *)
MemoryIsWithdrawn ==
    (closeRequested \/ slot # "Open" \/ collected) ~> (account = 0 \/ Cancelled)

(* The call that the context works on: the one that the JavaScript thread  *)
(* runs, or the one in flight.                                             *)
Current ==
    IF jsAct = "run" THEN jsCall
    ELSE IF \E c \in Calls : InFlight(c)
         THEN CHOOSE c \in Calls : InFlight(c) ELSE None

(* The contract of a context, which the threads, the lock and the two      *)
(* flags implement.                                                        *)
Contract == INSTANCE ContextContract WITH
    current <- Current,
    kind <- op,
    answer <- outcome,
    finished <- slot = "Finished",
    closed <- closeRequested,
    charged <- account # 0

ImplementsContract == Contract!Spec
================================================================================
