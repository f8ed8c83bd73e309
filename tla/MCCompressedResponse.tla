-------------------------- MODULE MCCompressedResponse -------------------------
(* CompressedResponse for TLC: its constants are plain values. *)
EXTENDS CompressedResponse
================================================================================
