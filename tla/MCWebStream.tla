------------------------------ MODULE MCWebStream ------------------------------
(* WebStream for TLC: its constants are plain values. *)
EXTENDS WebStream
================================================================================
