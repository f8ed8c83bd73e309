--------------------------- MODULE MCFormatDetection ---------------------------
(* FormatDetection for TLC: its constants are plain values. *)
EXTENDS FormatDetection
================================================================================
