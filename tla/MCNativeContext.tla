---------------------------- MODULE MCNativeContext ----------------------------
(* NativeContext on two calls, for TLC. *)
EXTENDS NativeContext

CONSTANTS c1, c2

MCCalls == {c1, c2}
================================================================================
