---------------------------- MODULE MCAbortableCall ----------------------------
(* AbortableCall for TLC. *)
EXTENDS AbortableCall
================================================================================
