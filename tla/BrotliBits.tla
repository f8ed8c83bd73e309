----------------------------- MODULE BrotliBits -----------------------------
(* Bits of a brotli stream and the two objects through which all of          *)
(* libbrotli sees them: the bit writer of the encoder (c/enc/write_bits.h)    *)
(* and the bit reader of the decoder (c/dec/bit_reader.h, 64-bit build with   *)
(* unaligned reads).  A bit sequence is a sequence of 0 and 1, the first bit  *)
(* is the least significant one of the first byte.                            *)
EXTENDS Integers, Sequences, FiniteSets

\* BROTLI_FAST_INPUT_SLACK: the bytes one round of a fast path may touch.
Slack == 28

Least(a, b) == IF a < b THEN a ELSE b
Most(a, b) == IF a < b THEN b ELSE a

\* The n low bits of v, and the number a sequence of bits stands for.
ToBits(n, v) == [i \in 1..n |-> (v \div 2^(i - 1)) % 2]

BitsValue(s) ==
    LET f[i \in 0..Len(s)] == IF i = 0 THEN 0
                              ELSE 2 * f[i - 1] + s[Len(s) - i + 1]
    IN  f[Len(s)]

Fill(n, item) == [k \in 1..n |-> item]
Zeros(n) == Fill(n, 0)

\* Position of the highest bit of a number, counted from 1 (0 for 0).
BitWidth(v) == CHOOSE n \in 0..31 : (n = 31 \/ v < 2^n) /\ (n = 0 \/ v >= 2^(n - 1))
Log2Floor(v) == BitWidth(v) - 1

BytesToBits(bytes) ==
    [i \in 1..8 * Len(bytes) |-> (bytes[(i - 1) \div 8 + 1] \div 2^((i - 1) % 8)) % 2]

BitsToBytes(bits) ==
    [i \in 1..(Len(bits) + 7) \div 8 |->
        BitsValue(SubSeq(bits, 8 * i - 7, Least(8 * i, Len(bits))))]

-----------------------------------------------------------------------------
(* The bit writer.  Storage is the bits written so far.                      *)

\* BrotliWriteBits: the bits after the position are zero already.
WriteBits(storage, n_bits, bits) == storage \o ToBits(n_bits, bits)

\* JumpToByteBoundary: the rest of the last byte is cleared.
JumpToByteBoundary(storage) == storage \o Zeros((-Len(storage)) % 8)

-----------------------------------------------------------------------------
(* The bit reader.                                                           *)
(*   held          the bits of val_ below bit_pos_                           *)
(*   src           the array next_in points into: a buffer of the caller, or *)
(*                 the decoder's own buffer                                  *)
(*   next, last    the offsets of next_in and last_in in src                 *)
(*   guard         from this offset on the fast paths are prohibited         *)

SetInput(br, src, next, avail) ==
    [br EXCEPT !.src = src, !.next = next, !.last = next + avail,
               !.guard = next + Most(avail + 1 - Slack, 0)]

InitBitReader == [held |-> <<>>, src |-> <<>>, next |-> 0, last |-> 0, guard |-> 0]

AvailIn(br) == br.last - br.next
CheckInputAmount(br) == br.next < br.guard

\* The k next bytes move from the array to the accumulator.
Load(br, k) == [br EXCEPT !.held = @ \o BytesToBits(SubSeq(br.src, br.next + 1, br.next + k)),
                          !.next = @ + k]

\* BrotliFillBitWindow: the load has 7, 6 or 4 bytes (a constant request of
\* at most 8, of at most 16, any other) and takes place if they fit in.
FillBitWindow(br, k) == IF Len(br.held) <= 64 - 8 * k THEN Load(br, k) ELSE br

\* The loop of BrotliSafeGetBits and BrotliSafeReadBits: single bytes until
\* n_bits are there or no input is left.  Its false return is Len(held) < n_bits.
PullBits(br, n_bits) ==
    Load(br, Least((Most(n_bits - Len(br.held), 0) + 7) \div 8, AvailIn(br)))

DropBits(br, n_bits) == [br EXCEPT !.held = SubSeq(@, n_bits + 1, Len(@))]

PeekBits(br, n_bits) == BitsValue(SubSeq(br.held, 1, Least(n_bits, Len(br.held))))

\* Bytes not read yet, those in the accumulator included.
RemainingBytes(br) == AvailIn(br) + Len(br.held) \div 8

\* Whole bytes of the accumulator are given back to the array.
Unload(br) ==
    LET unused_bytes == Len(br.held) \div 8 IN
    [br EXCEPT !.next = @ - unused_bytes,
               !.held = SubSeq(@, 1, Len(@) - 8 * unused_bytes)]

\* BrotliWarmupBitReader: at least one bit, if there is input.
Warmup(br) == PullBits(br, 1)

\* BrotliJumpToByteBoundary: what it skips, and whether that was zero.
PadBits(br) == PeekBits(br, Len(br.held) % 8)
ReadToByteBoundary(br) == DropBits(br, Len(br.held) % 8)

\* BrotliCopyBytes: the bytes, and the reader without them.
CopiedBytes(br, num) ==
    LET own == Least(num, Len(br.held) \div 8) IN
    BitsToBytes(SubSeq(br.held, 1, 8 * own))
        \o SubSeq(br.src, br.next + 1, br.next + num - own)
CopyBytes(br, num) ==
    LET own == Least(num, Len(br.held) \div 8) IN
    [DropBits(br, 8 * own) EXCEPT !.next = @ + num - own]
=============================================================================
