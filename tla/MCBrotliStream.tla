--------------------------- MODULE MCBrotliStream ---------------------------
(* Small streams through the brotli contexts.                                *)
EXTENDS BrotliStream, BrotliBinding

\* Hashes, and words of the dictionary, that are small.
MCHash(bytes, bits) ==
    LET h[i \in 0..Len(bytes)] == IF i = 0 THEN 0 ELSE (h[i - 1] * 7 + bytes[i]) % 65521
    IN  h[Len(bytes)] % 2^bits
MCWord(length, i) == [k \in 1..length |-> 97 + ((i + k) % 26)]
WordIndex(bytes) == (bytes[1] + 26 - 98) % 26
MCDictionaryHash(bytes) == <<<<5, WordIndex(bytes)>>, <<7, WordIndex(bytes)>>>>
MCBucket(bytes) ==
    <<<<5, 0, WordIndex(bytes)>>, <<6, 10, WordIndex(bytes)>>,
      <<4, 11, WordIndex(bytes)>>, <<9, 0, WordIndex(bytes)>>>>

\* Text that repeats itself, words, and noise.
Text(n) == [k \in 1..n |-> 97 + ((((k * k) \div 7) + (k \div 9)) % 5)]
Words(n) == [k \in 1..n |-> 97 + (k % 26)]
Noise(n) == [k \in 1..n |-> (k * k * 37 + k) % 251]

\* One quality, everything at once.
Simple(quality, data) ==
    [kind |-> "plain", quality |-> quality, lgwin |-> 14, dict |-> <<>>, data |-> data,
     metadata |-> <<>>, flushes |-> FALSE, cut |-> FALSE, followed |-> FALSE, limit |-> 1000,
     chunks |-> {1000}, reads |-> {50}, rooms |-> {100}, drains |-> {100}]

MCCases ==
    { \* the one-pass and the two-pass encoder, in chunks of every kind
      [Simple(0, Text(30)) EXCEPT !.chunks = {11}, !.cut = TRUE],
      [Simple(1, Text(30)) EXCEPT !.chunks = {7, 11}],
      \* byte by byte
      [Simple(2, Text(30)) EXCEPT !.chunks = {13}, !.rooms = {1}, !.reads = {1}, !.drains = {1}],
      \* flushes whose output fills its room
      [Simple(3, Words(40)) EXCEPT !.chunks = {17}, !.flushes = TRUE, !.cut = TRUE, !.drains = {4}],
      \* output of exactly the limit, with or without something behind the stream,
      \* and of one byte more
      [Simple(4, Text(30)) EXCEPT !.followed = TRUE, !.cut = TRUE, !.reads = {20, 60}, !.limit = 30],
      [Simple(4, Noise(30)) EXCEPT !.drains = {7, 10}, !.limit = 29],
      \* more than a ring buffer, and positions that wrap
      [Simple(2, Text(70)) EXCEPT !.reads = {40}],
      [Simple(5, Text(400)) EXCEPT !.reads = {40}],
      [Simple(9, Text(230)) EXCEPT !.reads = {40}, !.lgwin = 16],
      \* dictionaries: a context that begins to stream, and those that do not
      [Simple(5, Text(40)) EXCEPT !.kind = "incremental", !.dict = Text(20), !.chunks = {13},
                                  !.flushes = TRUE],
      [Simple(6, Words(40)) EXCEPT !.kind = "buffered", !.dict = Words(30), !.chunks = {17}, !.lgwin = 16],
      [Simple(3, Words(40)) EXCEPT !.kind = "buffered", !.dict = Words(20), !.reads = {40}],
      [Simple(10, Text(40)) EXCEPT !.kind = "incremental", !.dict = Words(20), !.reads = {40}],
      \* metadata, and the best quality
      [Simple(7, Text(40)) EXCEPT !.metadata = Noise(9), !.chunks = {17}, !.rooms = {5}],
      [Simple(11, Words(20)) EXCEPT !.reads = {40}] }
MCTrailer == [k \in 1..30 |-> 200]
=============================================================================
