---------------------------- MODULE MCNodeTransform ----------------------------
(* NodeTransform for TLC: its constants are plain values. *)
EXTENDS NodeTransform
================================================================================
