--------------------------- MODULE MCCallPrediction ----------------------------
(* CallPrediction for TLC: the streams of the package. *)
EXTENDS CallPrediction

Stream(block, holds, setup, flushesAtEnd) ==
    [block |-> block, holds |-> holds, setup |-> setup,
     flushesAtEnd |-> flushesAtEnd]

(* brotli with a dictionary in either API, gzip and LZ4 of the package root, *)
(* and zstd of the unified API with a short and a long set-up.              *)
MCModels == {Stream(3, 5, 0, TRUE), Stream(3, 5, 0, FALSE),
             Stream(3, 0, 0, TRUE), Stream(0, 0, 0, TRUE),
             Stream(3, 0, 6, FALSE), Stream(3, 0, 9, FALSE)}

(* zstd of the package root at a high level. *)
MCRootZstd == {Stream(3, 0, 9, TRUE)}
================================================================================
