----------------------------- MODULE AbortableCall -----------------------------
(***************************************************************************)
(* The async functions of the unified API with a `signal`: settleWith() of *)
(* src/next/abort.ts on the JavaScript thread, and the Withdrawable tasks  *)
(* of crates/core/src/task.rs in the queue of the thread pool.  The calls  *)
(* share one AbortSignal, and both threads take the claim on the start of  *)
(* a task.                                                                 *)
(*                                                                         *)
(* A Promise that settles is seen by the code that awaits it before any    *)
(* other JavaScript runs.                                                  *)
(***************************************************************************)
EXTENDS Integers, Sequences, FiniteSets

CONSTANTS
    Calls,    \* the calls, made with the same signal
    Threads   \* the threads of the pool

ASSUME ThreadsAssumption == Threads \in Nat \ {0}

VARIABLES
    aborted,   \* signal.aborted
    js,        \* where settleWith() is in each call
    listener,  \* the signal has the listener of the call
    race,      \* what the Promise that it awaits has settled to
    outcome,   \* what the Promise of the call has settled to
    queue,     \* the tasks in the queue of the pool
    task,      \* where the task of each call is
    claim,     \* the flag of its Withdrawal
    delivered  \* its Promise was settled

jsVars == <<aborted, js, listener, race, outcome>>
poolVars == <<queue, task>>
vars == <<jsVars, poolVars, claim, delivered>>

OnThread(c) == task[c] \in {"reached", "running"}

TypeOK ==
    /\ aborted \in BOOLEAN
    /\ js \in [Calls -> {"new", "awaiting", "settled"}]
    /\ listener \in [Calls -> BOOLEAN]
    /\ race \in [Calls -> {"pending", "result", "error", "withdrawn"}]
    /\ outcome \in [Calls -> {"none", "result", "error", "reason"}]
    /\ queue \in Seq(Calls)
    /\ task \in [Calls -> {"none", "queued", "reached", "running",
                           "ok", "failed", "refused"}]
    /\ Cardinality({c \in Calls : OnThread(c)}) <= Threads
    /\ claim \in [Calls -> BOOLEAN] /\ delivered \in [Calls -> BOOLEAN]

Init ==
    /\ aborted = FALSE
    /\ js = [c \in Calls |-> "new"]
    /\ listener = [c \in Calls |-> FALSE]
    /\ race = [c \in Calls |-> "pending"]
    /\ outcome = [c \in Calls |-> "none"]
    /\ queue = <<>>
    /\ task = [c \in Calls |-> "none"]
    /\ claim = [c \in Calls |-> FALSE]
    /\ delivered = [c \in Calls |-> FALSE]

--------------------------------------------------------------------------------
(* The JavaScript thread. *)

JsFree == \A c \in Calls : js[c] = "awaiting" => race[c] = "pending"

(* The signal is aborted already: the work is not started. *)
StartAborted(c) ==
    /\ JsFree /\ js[c] = "new" /\ aborted
    /\ js' = [js EXCEPT ![c] = "settled"]
    /\ outcome' = [outcome EXCEPT ![c] = "reason"]
    /\ UNCHANGED <<aborted, listener, race, poolVars, claim, delivered>>

(* start() fails before there is a task. *)
StartFails(c) ==
    /\ JsFree /\ js[c] = "new" /\ ~aborted
    /\ js' = [js EXCEPT ![c] = "awaiting"]
    /\ listener' = [listener EXCEPT ![c] = TRUE]
    /\ race' = [race EXCEPT ![c] = "error"]
    /\ task' = [task EXCEPT ![c] = "failed"]
    /\ delivered' = [delivered EXCEPT ![c] = TRUE]
    /\ UNCHANGED <<aborted, outcome, queue, claim>>

Start(c) ==
    /\ JsFree /\ js[c] = "new" /\ ~aborted
    /\ js' = [js EXCEPT ![c] = "awaiting"]
    /\ listener' = [listener EXCEPT ![c] = TRUE]
    /\ task' = [task EXCEPT ![c] = "queued"]
    /\ queue' = Append(queue, c)
    /\ UNCHANGED <<aborted, race, outcome, claim, delivered>>

(* Mutant: only the work that is still in the queue rejects its call.      *)
AbortQueued ==
    /\ JsFree /\ ~aborted
    /\ aborted' = TRUE
    /\ claim' = [c \in Calls |-> claim[c] \/ listener[c]]
    /\ race' = [c \in Calls |-> IF listener[c] /\ ~claim[c] /\ task[c] = "queued"
                                THEN "withdrawn" ELSE race[c]]
    /\ listener' = [c \in Calls |-> FALSE]
    /\ UNCHANGED <<js, outcome, poolVars, delivered>>

(* controller.abort(): onAbort of each call that listens withdraws its     *)
(* work, unless a thread has claimed it.                                   *)
Abort ==
    /\ JsFree /\ ~aborted
    /\ aborted' = TRUE
    /\ claim' = [c \in Calls |-> claim[c] \/ listener[c]]
    /\ race' = [c \in Calls |-> IF listener[c] /\ ~claim[c]
                                THEN "withdrawn" ELSE race[c]]
    /\ listener' = [c \in Calls |-> FALSE]
    /\ UNCHANGED <<js, outcome, poolVars, delivered>>

(* The event loop settles the Promise of a task; if the race is over, that *)
(* has no effect.                                                          *)
Deliver(c) ==
    /\ JsFree
    /\ task[c] \in {"ok", "failed", "refused"} /\ ~delivered[c]
    /\ delivered' = [delivered EXCEPT ![c] = TRUE]
    /\ race' = [race EXCEPT ![c] =
                   IF @ # "pending" THEN @
                   ELSE IF task[c] = "ok" THEN "result" ELSE "error"]
    /\ UNCHANGED <<aborted, js, listener, outcome, poolVars, claim>>

(* settleWith() goes on after the race: an abort overrides what it gave.   *)
Continue(c) ==
    /\ js[c] = "awaiting" /\ race[c] # "pending"
    /\ js' = [js EXCEPT ![c] = "settled"]
    /\ outcome' = [outcome EXCEPT ![c] = IF aborted THEN "reason" ELSE race[c]]
    /\ listener' = [listener EXCEPT ![c] = FALSE]
    /\ UNCHANGED <<aborted, race, poolVars, claim, delivered>>

--------------------------------------------------------------------------------
(* The pool. *)

Reach ==
    /\ queue # <<>>
    /\ Cardinality({c \in Calls : OnThread(c)}) < Threads
    /\ task' = [task EXCEPT ![Head(queue)] = "reached"]
    /\ queue' = Tail(queue)
    /\ UNCHANGED <<jsVars, claim, delivered>>

(* Mutant: the thread reads the claim without taking it. *)
MayRunReads(c) ==
    /\ task[c] = "reached"
    /\ task' = [task EXCEPT ![c] = IF claim[c] THEN "refused" ELSE "running"]
    /\ UNCHANGED <<jsVars, queue, claim, delivered>>

(* Mutant: the answer of take() is read the wrong way round. *)
MayRunInverted(c) ==
    /\ task[c] = "reached"
    /\ claim' = [claim EXCEPT ![c] = TRUE]
    /\ task' = [task EXCEPT ![c] = IF claim[c] THEN "running" ELSE "refused"]
    /\ UNCHANGED <<jsVars, queue, delivered>>

(* Mutant: a withdrawn task keeps its thread. *)
MayRunBlocks(c) ==
    /\ task[c] = "reached" /\ ~claim[c]
    /\ claim' = [claim EXCEPT ![c] = TRUE]
    /\ task' = [task EXCEPT ![c] = "running"]
    /\ UNCHANGED <<jsVars, queue, delivered>>

(* may_run: the thread that reaches a task takes the claim and runs it, or *)
(* fails it at once if it was withdrawn.                                   *)
MayRun(c) ==
    /\ task[c] = "reached"
    /\ claim' = [claim EXCEPT ![c] = TRUE]
    /\ task' = [task EXCEPT ![c] = IF claim[c] THEN "refused" ELSE "running"]
    /\ UNCHANGED <<jsVars, queue, delivered>>

Compute(c) ==
    /\ task[c] = "running"
    /\ \E result \in {"ok", "failed"} : task' = [task EXCEPT ![c] = result]
    /\ UNCHANGED <<jsVars, queue, claim, delivered>>

--------------------------------------------------------------------------------

Js(c) == StartAborted(c) \/ StartFails(c) \/ Start(c)

Next ==
    \/ Abort \/ Reach
    \/ \E c \in Calls : Js(c) \/ Deliver(c) \/ Continue(c) \/ MayRun(c) \/ Compute(c)

Spec == Init /\ [][Next]_vars

(* The JavaScript thread runs its microtasks, and the event loop and the   *)
(* pool go on.                                                             *)
FairSpec ==
    /\ Spec /\ WF_vars(Reach)
    /\ \A c \in Calls :
          /\ WF_vars(Continue(c)) /\ WF_vars(Deliver(c))
          /\ WF_vars(MayRun(c)) /\ WF_vars(Compute(c))

--------------------------------------------------------------------------------
(* Properties. *)

(* Work that withdraw() withdrew "no thread had started, which then none   *)
(* will".                                                                  *)
WithdrawnNeverRuns ==
    \A c \in Calls : race[c] = "withdrawn"
                        => task[c] \in {"queued", "reached", "refused"}

(* What a call settles to is true: the result or the error of its own      *)
(* work, or the reason of a signal that did abort; the error of a          *)
(* withdrawn task reaches nobody.                                          *)
OutcomeIsTrue ==
    \A c \in Calls :
        /\ outcome[c] = "result" => task[c] = "ok"
        /\ outcome[c] = "error" => task[c] = "failed"
        /\ outcome[c] = "reason" => aborted
        /\ task[c] = "refused" => aborted

(* An aborted call gives nothing that its work gave after the abort. *)
AbortWins ==
    [][\A c \in Calls : aborted /\ outcome[c] = "none" => outcome'[c] \in {"none", "reason"}]_vars

(* The abort of a call whose work no thread has started settles it without *)
(* the pool, which may hang.                                               *)
AbortIsPrompt ==
    \A c \in Calls :
        aborted /\ js[c] = "awaiting" /\ task[c] \in {"queued", "reached", "refused"}
            => race[c] # "pending"

(* Every call settles and leaves no listener on the signal, which may live  *)
(* on, and every thread comes free of its task again.                      *)
CallsSettle ==
    \A c \in Calls :
        /\ js[c] = "awaiting" ~> [](js[c] = "settled" /\ ~listener[c])
        /\ task[c] = "queued" ~> delivered[c]
================================================================================
