---------------------------- MODULE BrotliBinding ----------------------------
(* The binding of src/crates/brotli-c/src/lib.rs, as the contexts use it: what  *)
(* an encoder and a decoder of a case of BrotliStream are, and their calls.    *)
EXTENDS BrotliEncoder

CONSTANT MinRing        \* the smallest ring buffer of the decoder
ASSUME RingAssumption == MinRing \in Nat \ {0}

Decoder == INSTANCE BrotliDecoder

\* Encoder::new, set_quality, set_window, attach_shared and set_size_hint.
NewBoundEncoder(c, size_hint) ==
    LET e == [InitEncoder EXCEPT !.params = [@ EXCEPT !.quality = c.quality, !.lgwin = c.lgwin,
                                                      !.size_hint = size_hint]]
    IN  IF c.dict = <<>> THEN e
        ELSE AttachDictionaryToEncoder(e, CreatePreparedDictionary(c.dict)).e

\* Decoder::new and attach_shared, with memory for everything.
NewBoundDecoder(c) ==
    LET d == Decoder!DecoderInit(1000, FALSE, FALSE) IN
    IF c.dict = <<>> THEN d ELSE Decoder!AttachDictionary(d, c.dict)

\* Decoder::decompress: on in, of which n bytes are left, with so much room.
DecodeBound(d, in, n, room) == LET next == Decoder!DecompressStream(d, in, n, room) IN next

\* What bytes say: what a new decoder with room for everything makes of them.
MeaningOf(c, bytes) ==
    LET d == DecodeBound(NewBoundDecoder(c), bytes, Len(bytes), 10000)
    IN  [out |-> d.out, ok |-> ~Decoder!IsError(d.res),
         end |-> IF d.res = "SUCCESS" THEN d.next_in ELSE -1]
=============================================================================
