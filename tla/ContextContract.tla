---------------------------- MODULE ContextContract ----------------------------
(***************************************************************************)
(* What a stream context of the native addon promises its caller, without  *)
(* threads, locks or flags: calls that exclude each other, an end that is  *)
(* final, and native memory that goes once the stream is over.             *)
(* NativeContext implements it.                                            *)
(***************************************************************************)
CONSTANTS Calls, None

VARIABLES
    current,   \* the call that the context is working on, or None
    kind,      \* the method of each call
    answer,    \* what each call returns, "none" while it is not known
    finished,  \* finish() has ended the stream
    closed,    \* the stream was closed before that
    charged    \* V8 counts native memory for the context

vars == <<current, kind, answer, finished, closed, charged>>

Init ==
    /\ current = None
    /\ kind = [c \in Calls |-> "transform"]
    /\ answer = [c \in Calls |-> "none"]
    /\ finished = FALSE /\ closed = FALSE /\ charged \in BOOLEAN

Method(c) == \E m \in {"transform", "flush", "finish"} : kind' = [kind EXCEPT ![c] = m]

(* A call is refused at once: after close(), while another one is in       *)
(* flight, or because its argument is wrong.                               *)
Refuse(c) ==
    /\ answer[c] = "none" /\ c # current
    /\ Method(c)
    /\ \/ closed /\ answer' = [answer EXCEPT ![c] = "Closed"]
       \/ ~closed /\ current # None /\ answer' = [answer EXCEPT ![c] = "Busy"]
       \/ answer' = [answer EXCEPT ![c] = "InvalidArg"]
    /\ UNCHANGED <<current, finished, closed, charged>>

Begin(c) ==
    /\ answer[c] = "none" /\ current = None /\ ~closed
    /\ Method(c)
    /\ current' = c
    /\ UNCHANGED <<answer, finished, closed, charged>>

Result(c) ==
    \E r \in (IF finished THEN {"Finished"} ELSE {"ok", "failed"}) :
        answer' = [answer EXCEPT ![c] = r]

(* The codec answers the call; close() since it began changes nothing. *)
Answer(c) ==
    /\ current = c /\ answer[c] = "none"
    /\ Result(c)
    /\ UNCHANGED <<current, kind, finished, closed, charged>>

(* finish() ends the stream once it is answered, failed or not. *)
End(c) ==
    /\ current = c /\ answer[c] # "none"
    /\ kind[c] = "finish"
    /\ finished' = TRUE
    /\ UNCHANGED <<current, kind, answer, closed, charged>>

(* A call that is over leaves the state with any memory, or with none once *)
(* the stream is over.                                                     *)
Charge(ended) == charged' \in BOOLEAN /\ (charged' => ~ended /\ ~closed)

(* The call is over: the memory goes with it if the stream is. *)
Retire(c) ==
    /\ current = c /\ answer[c] # "none"
    /\ kind[c] = "finish" => finished
    /\ current' = None
    /\ Charge(finished)
    /\ UNCHANGED <<kind, answer, finished, closed>>

(* A synchronous call is answered, ends the stream and is over at once. *)
Complete(c) ==
    /\ current = c /\ answer[c] = "none"
    /\ Result(c)
    /\ finished' = (finished \/ kind[c] = "finish")
    /\ current' = None
    /\ Charge(finished')
    /\ UNCHANGED <<kind, closed>>

(* close(): at once without a call in flight, where it does nothing to a   *)
(* finished stream, or else as a request that the call in flight honours.  *)
Close ==
    /\ \/ current = None /\ closed' = (closed \/ ~finished) /\ charged' = FALSE
       \/ current # None /\ closed' = TRUE /\ UNCHANGED charged
    /\ UNCHANGED <<current, kind, answer, finished>>

(* The environment dies before a call ran. *)
Abandon(c) ==
    /\ answer[c] \in {"none", "Closed", "Busy", "InvalidArg"}
    /\ answer' = [answer EXCEPT ![c] = "cancelled"]
    /\ current' = IF current = c THEN None ELSE current
    /\ UNCHANGED <<kind, finished, closed, charged>>

Next ==
    \/ Close
    \/ \E c \in Calls :
          \/ Refuse(c) \/ Begin(c) \/ Answer(c) \/ End(c) \/ Retire(c)
          \/ Complete(c) \/ Abandon(c)

Spec == Init /\ [][Next]_vars
================================================================================
