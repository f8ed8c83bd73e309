--------------------------- MODULE BrotliCommand ---------------------------
(* The arithmetic shared by the two ends of libbrotli: the codes of insert   *)
(* and copy lengths, of distances and of block lengths.  The encoder side is *)
(* c/enc/command.h and c/enc/prefix.h, the decoder side c/dec/prefix_inc.h   *)
(* and the distance tables of c/dec/decode.c.                                *)
(*                                                                           *)
(* The window is scaled down by 2^Shrink, and Gap stands for the 16 bytes at  *)
(* its end that no distance reaches (BROTLI_WINDOW_GAP).  In the program      *)
(* Shrink = 0 and Gap = 16.                                                   *)
EXTENDS BrotliBits

CONSTANTS Shrink, Gap
ASSUME WindowAssumption == Shrink \in 0..9 /\ Gap \in Nat \ {0}

WindowSize(window_bits) == 2^(window_bits - Shrink)
MaxBackwardLimit(window_bits) == WindowSize(window_bits) - Gap

NumShortCodes == 16                     \* BROTLI_NUM_DISTANCE_SHORT_CODES
MaxAllowedDistance == 2147483644        \* BROTLI_MAX_ALLOWED_DISTANCE

InsExtra == <<0, 0, 0, 0, 0, 0, 1, 1, 2, 2, 3, 3, 4, 4, 5, 5, 6, 7, 8, 9, 10, 12, 14, 24>>
CopyExtra == <<0, 0, 0, 0, 0, 0, 0, 0, 1, 1, 2, 2, 3, 3, 4, 4, 5, 5, 6, 7, 8, 9, 10, 24>>

\* The first length of every code: the ranges of the codes follow each other.
Bases(first, extra) ==
    LET f[c \in 0..23] == IF c = 0 THEN first ELSE f[c - 1] + 2^extra[c] IN f
InsBase == Bases(0, InsExtra)
CopyBase == Bases(2, CopyExtra)

\* _kBrotliPrefixCodeRanges: number of extra bits of the 26 block length codes,
\* and the first length of each.
BlockLengthExtra == <<2, 2, 2, 2, 3, 3, 3, 3, 4, 4, 4, 4, 5, 5, 5, 5, 6, 6, 7, 8,
                      9, 10, 11, 12, 13, 24>>
BlockLengthBase ==
    LET f[c \in 0..25] == IF c = 0 THEN 1 ELSE f[c - 1] + 2^BlockLengthExtra[c] IN f
BlockLengthCode(len) ==
    CHOOSE c \in 0..25 : /\ len >= BlockLengthBase[c]
                         /\ c = 25 \/ len < BlockLengthBase[c + 1]

-----------------------------------------------------------------------------
(* Lengths.                                                                  *)

GetInsertLengthCode(insertlen) ==
    LET nbits == Log2Floor(insertlen - 2) - 1 IN
    IF insertlen < 6 THEN insertlen
    ELSE IF insertlen < 130 THEN 2 * nbits + ((insertlen - 2) \div 2^nbits) + 2
    ELSE IF insertlen < 2114 THEN Log2Floor(insertlen - 66) + 10
    ELSE IF insertlen < 6210 THEN 21
    ELSE IF insertlen < 22594 THEN 22 ELSE 23

GetCopyLengthCode(copylen) ==
    LET nbits == Log2Floor(copylen - 6) - 1 IN
    IF copylen < 10 THEN copylen - 2
    ELSE IF copylen < 134 THEN 2 * nbits + ((copylen - 6) \div 2^nbits) + 4
    ELSE IF copylen < 2118 THEN Log2Floor(copylen - 70) + 12 ELSE 23

\* The digits D of the source's magic constant 0x520D40, one per offset.
CellShift == <<1, 1, 3, 0, 0, 2, 0, 1, 1>>

CombineLengthCodes(inscode, copycode, use_last_distance) ==
    LET bits64 == (copycode % 8) + 8 * (inscode % 8)
        index == copycode \div 8 + 3 * (inscode \div 8)
    IN  IF use_last_distance /\ inscode < 8 /\ copycode < 16
        THEN bits64 + (IF copycode < 8 THEN 0 ELSE 64)
        ELSE 64 * (index + 1 + CellShift[index + 1]) + bits64

GetLengthCode(insertlen, copylen, use_last_distance) ==
    CombineLengthCodes(GetInsertLengthCode(insertlen), GetCopyLengthCode(copylen),
                       use_last_distance)

\* An entry of kCmdLut, which the decoder looks up instead of undoing
\* CombineLengthCodes.
CellPos == <<0, 1, 0, 1, 8, 9, 2, 16, 10, 17, 18>>
CmdLut(symbol) ==
    LET cell_pos == CellPos[symbol \div 64 + 1]
        copy_code == 8 * (cell_pos % 4) + (symbol % 8)
        insert_code == 8 * (cell_pos \div 8) + ((symbol \div 8) % 8)
    IN  [insert_extra |-> InsExtra[insert_code + 1], insert_offset |-> InsBase[insert_code],
         copy_extra |-> CopyExtra[copy_code + 1], copy_offset |-> CopyBase[copy_code],
         context |-> IF CopyBase[copy_code] > 4 THEN 3 ELSE CopyBase[copy_code] - 2,
         distance_code |-> IF symbol < 128 THEN 0 ELSE -1]

-----------------------------------------------------------------------------
(* Distances.  dist has the fields postfix and ndirect of a metablock.       *)

\* PrefixEncodeCopyDistance: symbol, number of extra bits and extra bits.
PrefixEncodeCopyDistance(distance_code, ndirect, postfix_bits) ==
    LET far == 2^(postfix_bits + 2) + distance_code - NumShortCodes - ndirect
        bucket == Log2Floor(far) - 1
        prefix == (far \div 2^bucket) % 2
        nbits == bucket - postfix_bits
    IN  IF distance_code < NumShortCodes + ndirect
        THEN [symbol |-> distance_code, nbits |-> 0, extra |-> 0]
        ELSE [symbol |-> NumShortCodes + ndirect
                           + (2 * (nbits - 1) + prefix) * 2^postfix_bits
                           + (far % 2^postfix_bits),
              nbits |-> nbits,
              extra |-> (far - (2 + prefix) * 2^bucket) \div 2^postfix_bits]

\* A command of the encoder.  delta is copylen_code_delta: the length of a
\* dictionary word minus the bytes it produces.
InitCommand(dist, insertlen, copylen, delta, distance_code) ==
    LET prefix == PrefixEncodeCopyDistance(distance_code, dist.ndirect, dist.postfix) IN
    [insert_len |-> insertlen, copy_len |-> copylen, copy_len_code |-> copylen + delta,
     dist_prefix |-> prefix.symbol, dist_nbits |-> prefix.nbits, dist_extra |-> prefix.extra,
     cmd_prefix |-> GetLengthCode(insertlen, copylen + delta, prefix.symbol = 0)]

\* The last command of a metablock that ends in literals.
InitInsertCommand(insertlen) ==
    [insert_len |-> insertlen, copy_len |-> 0, copy_len_code |-> 4,
     dist_prefix |-> NumShortCodes, dist_nbits |-> 0, dist_extra |-> 0,
     cmd_prefix |-> GetLengthCode(insertlen, 4, FALSE)]

CommandRestoreDistanceCode(cmd, dist) ==
    LET dcode == cmd.dist_prefix - dist.ndirect - NumShortCodes
        hcode == dcode \div 2^dist.postfix
        lcode == dcode % 2^dist.postfix
        offset == (2 + (hcode % 2)) * 2^cmd.dist_nbits - 4
    IN  IF dcode < 0
        THEN cmd.dist_prefix
        ELSE (offset + cmd.dist_extra) * 2^dist.postfix + lcode + dist.ndirect + NumShortCodes

CommandDistanceContext(cmd) ==
    LET r == cmd.cmd_prefix \div 64
        c == cmd.cmd_prefix % 8
    IN  IF r \in {0, 2, 4, 7} /\ c <= 2 THEN c ELSE 3

\* CalculateDistanceLut: the extra bits and the first distance of a symbol.
DistanceLut(code, npostfix, ndirect) ==
    LET far == (code - NumShortCodes - ndirect) \div 2^npostfix
        bits == far \div 2 + 1
        half == far % 2
    IN  IF code < NumShortCodes + ndirect
        THEN [extra_bits |-> 0, offset |-> code - NumShortCodes + 1]
        ELSE [extra_bits |-> bits,
              offset |-> ndirect + ((2 + half) * 2^bits - 4) * 2^npostfix + 1
                           + ((code - NumShortCodes - ndirect) % 2^npostfix)]

DistanceAlphabetSize(npostfix, ndirect, max_bits) ==
    NumShortCodes + ndirect + max_bits * 2^(npostfix + 1)

\* BrotliCalculateDistanceCodeLimit: the largest alphabet of complete groups
\* that stays at or below max_distance, and the largest distance it reaches.
DistanceCodeLimit(max_distance, npostfix, ndirect) ==
    LET tmp == ((max_distance - ndirect) \div 2^npostfix) \div 2 + 2
        forbidden_bits == BitWidth(tmp) - 1
        forbidden == 2 * (forbidden_bits - 1) + ((tmp \div 2^(forbidden_bits - 1)) % 2)
        group == forbidden - 1
        ndistbits == group \div 2 + 1
        start == 2^(ndistbits + 1) - 4 + (group % 2) * 2^ndistbits
        postfix == 2^npostfix - 1
    IN  CASE max_distance <= ndirect ->
                [alphabet |-> max_distance + NumShortCodes, distance |-> max_distance]
          [] max_distance > ndirect /\ forbidden = 0 ->
                [alphabet |-> ndirect + NumShortCodes, distance |-> ndirect]
          [] OTHER ->
                [alphabet |-> group * 2^npostfix + postfix + ndirect + NumShortCodes + 1,
                 distance |-> (start + 2^ndistbits - 1) * 2^npostfix + postfix + ndirect + 1]
=============================================================================
