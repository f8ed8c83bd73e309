--------------------------- MODULE BrotliFragment ---------------------------
(* The two fastest qualities of libbrotli: c/enc/compress_fragment.c (one     *)
(* pass, quality 0) and c/enc/compress_fragment_two_pass.c (quality 1).  Each *)
(* compresses one fragment of the input, which is all its matches may reach.  *)
(*                                                                           *)
(* Both search the fragment in the same way and name what they find by codes  *)
(* below 128: 64 for the lengths, in an order of their own, and 64 for the    *)
(* distances.  One pass writes the codes in words made for the fragment       *)
(* before, two passes in words made for what they found.                     *)
(*                                                                           *)
(* Sizes at which the source splits its input are divided by Fine.            *)
EXTENDS BrotliHasher

MaxDistance == MaxBackwardLimit(18)     \* MAX_DISTANCE

-----------------------------------------------------------------------------
(* Codes of lengths and distances.  An alphabet says where the codes of       *)
(* insert lengths, of copies at the last distance and of other copies begin.  *)

OnePass == [insert |-> 40, last |-> 0, copy |-> 16]
TwoPass == [insert |-> 0, last |-> 24, copy |-> 40]

\* What is emitted: a code, its extra bits, and the literals first..first+count-1.
Emitted(code, nbits, extra) ==
    [code |-> code, nbits |-> nbits, extra |-> extra, first |-> 0, count |-> 0]
LastDistance == Emitted(64, 0, 0)

EmitInsertLen(a, first, insertlen) ==
    LET c == GetInsertLengthCode(insertlen) IN
    <<[Emitted(a.insert + c, InsExtra[c + 1], insertlen - InsBase[c])
          EXCEPT !.first = first, !.count = insertlen]>>

EmitCopyLen(a, copylen) ==
    LET c == GetCopyLengthCode(copylen) IN
    <<Emitted(a.copy + c, CopyExtra[c + 1], copylen - CopyBase[c])>>

\* The first two bytes of the copy belong to the command of the insert.
EmitCopyLenLastDistance(a, copylen) ==
    LET c == GetCopyLengthCode(copylen - 2)
        extra == copylen - 2 - CopyBase[c]
    IN  IF c < 16 THEN <<Emitted(a.last + c, CopyExtra[c + 1], extra)>>
        ELSE <<Emitted(a.copy + c, CopyExtra[c + 1], extra), LastDistance>>

EmitDistance(distance) ==
    LET prefix == PrefixEncodeCopyDistance(distance + NumShortCodes - 1, 0, 0) IN
    <<Emitted(64 + prefix.symbol, prefix.nbits, prefix.extra)>>

\* The eights of the 64 codes in the order of the command alphabet, and the
\* symbols each of them has there.
CommandGroups(a) ==
    LET Group(code, symbol, step) == [code |-> code, symbol |-> symbol, step |-> step] IN
    <<Group(a.last, 0, 1), Group(a.last + 8, 64, 1), Group(a.copy, 128, 1),
      Group(a.insert, 128, 8), Group(a.copy + 8, 192, 1), Group(a.insert + 8, 256, 8),
      Group(a.copy + 16, 384, 1), Group(a.insert + 16, 448, 8)>>

\* BuildAndStoreCommandPrefixCode: words that are canonical in the order of the
\* command alphabet, and the description of both codes.
CommandPrefixCode(a, lengths, distances) ==
    LET g == CommandGroups(a)
        In(k) == {c \in DOMAIN lengths : c \in g[k].code..g[k].code + 7}
        ordered == [o \in UNION {{8 * k + c - g[k].code : c \in In(k)} : k \in 1..8} |->
                        lengths[g[o \div 8].code + (o % 8)]]
        full == [s \in UNION {{g[k].symbol + (c - g[k].code) * g[k].step : c \in In(k)} : k \in 1..8} |->
                    LET k == CHOOSE j \in 1..8 : \E c \in In(j) :
                                s = g[j].symbol + (c - g[j].code) * g[j].step
                    IN  lengths[g[k].code + (s - g[k].symbol) \div g[k].step]]
        near == ConvertBitDepthsToSymbols(ordered)
        far == ConvertBitDepthsToSymbols(distances)
        Order(c) == LET k == CHOOSE j \in 1..8 : c \in In(j) IN 8 * k + c - g[k].code
    IN  [word |-> [c \in DOMAIN lengths \cup {64 + d : d \in DOMAIN distances} |->
                      IF c < 64 THEN near[Order(c)] ELSE far[c - 64]],
         bits |-> StoreHuffmanTree(full, 704) \o StoreHuffmanTree(distances, 64)]

BuildAndStoreCommandPrefixCode(a, histogram) ==
    LET distances == [d \in {c - 64 : c \in DOMAIN histogram \ 0..63} |-> histogram[64 + d]] IN
    CommandPrefixCode(a, CreateHuffmanTree(Restrict(histogram, DOMAIN histogram \cap 0..63), 15),
                      CreateHuffmanTree(distances, 14))

CodeHistogram(emitted) == HistogramOf([k \in DOMAIN emitted |-> emitted[k].code])

\* The words, extra bits and literals of what was emitted.
StoreEmitted(input, emitted, word, lit_word) ==
    FlattenSeq([k \in DOMAIN emitted |->
        LET e == emitted[k] IN
        Bits(<<word[e.code], ToBits(e.nbits, e.extra),
               FlattenSeq([j \in 1..e.count |-> lit_word[input[e.first + j]]])>>)])

-----------------------------------------------------------------------------
(* The search for matches in one block.  p says where:                        *)
(*   input, start, end   the fragment and the offsets of the block in it      *)
(*   limit               ip_limit, no match starts beyond                     *)
(*   min, table_bits     the length of a match at least, the size of the table *)
(*   alphabet            how it is emitted                                    *)
(*   metablock_start, literal_ratio   what decides if a long insert is worth it *)
(* and s is its state: ip, next_emit, last_distance, table, emitted and left,  *)
(* the reason it has ended.                                                   *)

\* ShouldUseUncompressedMode, of an insert that is long: so far little was
\* copied, and the literals are not compressible.
ShouldUseUncompressedMode(metablock_start, next_emit, insertlen, literal_ratio) ==
    /\ insertlen >= Scaled(6210)
    /\ (next_emit - metablock_start) * 50 <= insertlen
    /\ literal_ratio > 980

Hash(p, ip) == HashBytes(SubSeq(p.input, ip + 1, ip + p.min), p.table_bits)
IsMatch(p, ip, candidate) == FindMatchLengthWithLimit(p.input, ip, p.input, candidate, p.min) = p.min
LengthOfMatch(p, ip, candidate) == FindMatchLengthWithLimit(p.input, ip, p.input, candidate, p.end - ip)

\* Step 1: forward to a match, at the last distance or of equal hash; the more
\* bytes without one, the larger the steps.
RECURSIVE Trawl(_, _, _, _)
Trawl(p, s, next_ip, skip) ==
    LET h == Hash(p, next_ip)
        near == next_ip - s.last_distance
        candidate == IF s.last_distance > 0 /\ IsMatch(p, next_ip, near) THEN near ELSE At(s.table, h)
        t == [s EXCEPT !.ip = next_ip, !.table = (h :> next_ip) @@ @, !.candidate = candidate]
        step == skip \div Scaled(32)
    IN  CASE next_ip + step > p.limit -> [s EXCEPT !.left = "remainder"]
          [] next_ip + step <= p.limit
             /\ IsMatch(p, next_ip, candidate) /\ next_ip - candidate <= MaxDistance -> t
          [] OTHER -> CHOOSE r \in {Trawl(p, u, next_ip + step, skip + 1) : u \in {t}} : TRUE

\* After a copy the last positions in it enter the table: how far before ip the
\* bytes are that are hashed, and the position entered.  With matches of four
\* bytes the last line after an insert has the first hash again.
Refreshed(p, after_insert) ==
    CASE p.min = 4 /\ after_insert -> <<<<3, 3>>, <<2, 2>>, <<3, 1>>>>
      [] p.min = 6 -> <<<<5, 5>>, <<4, 4>>, <<3, 3>>, <<2, 2>>, <<1, 1>>>>
      [] OTHER -> <<<<3, 3>>, <<2, 2>>, <<1, 1>>>>

\* The end of a copy of so many bytes: the next candidate, if there is room.
EndCopy(p, s, matched, after_insert) ==
    LET ip == s.ip + matched
        table == Fold(LAMBDA t, r : (Hash(p, ip - r[1]) :> ip - r[2]) @@ t, s.table,
                      Refreshed(p, after_insert))
        t == [s EXCEPT !.ip = ip, !.next_emit = ip]
    IN  IF ip >= p.limit THEN [t EXCEPT !.left = "remainder"]
        ELSE [t EXCEPT !.candidate = At(table, Hash(p, ip)), !.table = (Hash(p, ip) :> ip) @@ table]

\* Step 2: the literals since the last copy and the match.
InsertAndCopy(p, s) ==
    LET insert == s.ip - s.next_emit
        distance == s.ip - s.candidate
        matched == LengthOfMatch(p, s.ip, s.candidate)
        far == IF distance = s.last_distance THEN <<LastDistance>> ELSE EmitDistance(distance)
    IN  IF ShouldUseUncompressedMode(p.metablock_start, s.next_emit, insert, p.literal_ratio) THEN [s EXCEPT !.left = "abandoned"]
        ELSE EndCopy(p, [s EXCEPT !.last_distance = distance,
                            !.emitted = @ \o EmitInsertLen(p.alphabet, s.next_emit, insert) \o far
                                           \o EmitCopyLenLastDistance(p.alphabet, matched)],
                     matched, TRUE)

\* Copies that follow each other without literals.
RECURSIVE Copies(_, _)
Copies(p, s) ==
    LET distance == s.ip - s.candidate
        matched == LengthOfMatch(p, s.ip, s.candidate)
        t == EndCopy(p, [s EXCEPT !.last_distance = distance,
                            !.emitted = @ \o EmitCopyLen(p.alphabet, matched) \o EmitDistance(distance)],
                     matched, FALSE)
    IN  IF s.left = "no" /\ distance <= MaxDistance /\ IsMatch(p, s.ip, s.candidate)
        THEN CHOOSE r \in {Copies(p, u) : u \in {t}} : TRUE ELSE s

RECURSIVE Matches(_, _)
Matches(p, s) ==
    LET Found(t) == IF t.left = "no" THEN InsertAndCopy(p, t) ELSE t
        Then(t) == IF t.left = "no" THEN Matches(p, t) ELSE t
    IN  CHOOSE r \in {Then(u) : u \in {Copies(p, v) : v \in {Found(t) : t \in
            {Trawl(p, s, s.ip + 1, Scaled(32))}}}} : TRUE

FindMatches(p, next_emit, table) ==
    LET s == [ip |-> p.start, next_emit |-> next_emit, last_distance |-> -1, candidate |-> 0,
              table |-> table, emitted |-> <<>>, left |-> "no"]
    IN  IF p.end - p.start >= Gap THEN Matches(p, s) ELSE [s EXCEPT !.left = "remainder"]

SearchOf(input, start, block_size, min, table_bits) ==
    [input |-> input, start |-> start, end |-> start + block_size,
     limit |-> start + Least(block_size - min, Len(input) - start - Gap),
     min |-> min, table_bits |-> table_bits, alphabet |-> TwoPass,
     metablock_start |-> start, literal_ratio |-> 0]

-----------------------------------------------------------------------------
(* Metablocks.                                                               *)

\* BrotliStoreMetaBlockHeader of the fragments: never the last one.
StoreFragmentHeader(len, is_uncompressed) ==
    LET nibbles == CASE len <= 2^16 -> 4 [] len \in 2^16 + 1..2^20 -> 5 [] OTHER -> 6 IN
    <<0>> \o ToBits(2, nibbles - 4) \o ToBits(4 * nibbles, len - 1) \o <<is_uncompressed>>

EmitUncompressedMetaBlock(storage, bytes) ==
    JumpToByteBoundary(storage \o StoreFragmentHeader(Len(bytes), 1)) \o BytesToBits(bytes)

\* ISLAST and ISEMPTY
EmptyLastMetaBlock(storage) == JumpToByteBoundary(storage \o <<1, 1>>)

\* Every step-th byte.
Sample(bytes, step) == [k \in 1..(Len(bytes) + step - 1) \div step |-> bytes[(k - 1) * step + 1]]

-----------------------------------------------------------------------------
(* One pass.                                                                 *)

\* kCmdHistoSeed
CmdHistoSeed == [c \in (1..15) \cup (19..39) \cup (41..64) \cup (80..123) |-> 1]

\* BuildAndStoreLiteralPrefixCode: from the input, since the literals are not
\* known yet; from a sample of a long one, with a word for every byte.
BuildAndStoreLiteralPrefixCode(bytes) ==
    LET long == Len(bytes) >= Scaled(2^15)
        seen == HistogramOf(IF long THEN Sample(bytes, 29) ELSE bytes)
        histogram == [v \in (IF long THEN 0..255 ELSE DOMAIN seen) |->
                        At(seen, v) + 2 * Least(At(seen, v), 11) + (IF long THEN 1 ELSE 0)]
        tree == BuildAndStoreHuffmanTreeFast(histogram, 8)
        literal_ratio == SumOf([v \in DOMAIN histogram |-> histogram[v] * Len(tree.code[v])])
    IN  tree @@ [ratio |-> (literal_ratio * 125) \div SumOf(histogram)]

\* ShouldMergeBlock: will the code at hand do for the next block?
ShouldMergeBlock(bytes, lit_word) ==
    LET sample == Sample(bytes, 43)
        histo == HistogramOf(sample)
        total == Len(sample)
        cost == SumOf([v \in DOMAIN histo |-> histo[v] * (Bit * Len(lit_word[v]) + FastLog2(histo[v]))])
    IN  (FastLog2(total) + Bit \div 2) * total + 200 * Bit >= cost

\* InitCommandPrefixCodes: the words of the first fragment and their
\* description, in the source three tables.
DefaultCommandDepths ==
    <<0, 4, 4, 5, 6, 6, 7, 7, 7, 7, 7, 8, 8, 8, 8, 8, 0, 0, 0, 4, 4, 4, 4, 4, 5, 5, 6, 6, 6, 6, 7, 7,
      7, 7, 10, 10, 10, 10, 10, 10, 0, 4, 4, 5, 5, 5, 6, 6, 7, 8, 8, 9, 10, 10, 10, 10, 10, 10,
      10, 10, 10, 10, 10, 10>>
DefaultDistanceDepths ==
    <<5, 0, 0, 0, 0, 0, 0, 0, 0, 0, 0, 0, 0, 0, 0, 0, 6, 6, 6, 6, 6, 6, 5, 5, 5, 5, 5, 5, 4, 4, 4, 4,
      4, 4, 4, 5, 5, 5, 5, 5, 5, 6, 6, 7, 7, 7, 8, 10, 12, 12, 12, 12, 12, 12, 12, 12, 12, 12, 12, 12>>
InitCommandPrefixCodes ==
    LET Used(depths) == [s \in {k - 1 : k \in {j \in DOMAIN depths : depths[j] # 0}} |-> depths[s + 1]]
    IN  CommandPrefixCode(OnePass, Used(DefaultCommandDepths), Used(DefaultDistanceDepths))

\* The header of a metablock: no block splits, no contexts, the code of the
\* literals, and of the commands the code at hand.
BeginMetaBlock(t, input) ==
    LET block == Least(Len(input) - t.start, Scaled(3 * 2^15))
        lit == BuildAndStoreLiteralPrefixCode(SubSeq(input, t.start + 1, t.start + block))
    IN  [t EXCEPT !.metablock_start = t.start, !.block_size = block, !.total_block_size = block,
                  !.header_ix = Len(t.storage), !.next_emit = t.start, !.lit_word = lit.code,
                  !.literal_ratio = lit.ratio,
                  !.storage = Bits(<<@, StoreFragmentHeader(block, 0), Zeros(13), lit.bits, t.arena.bits>>)]

StoreInMetaBlock(t, input, emitted) ==
    [t EXCEPT !.storage = @ \o StoreEmitted(input, emitted, t.arena.word, t.lit_word),
              !.cmd_histo = HistogramAddHistogram(@, CodeHistogram(emitted))]

\* The metablock so far becomes one that is not compressed, up to an offset.
Uncompressed(t, input, end) ==
    [t EXCEPT !.storage = EmitUncompressedMetaBlock(SubSeq(@, 1, t.header_ix),
                                                    SubSeq(input, t.metablock_start + 1, end))]

\* emit_remainder: the last literals of a metablock.
EmitRemainder(t, input) ==
    LET insert == t.start - t.next_emit IN
    CASE insert = 0 -> t
      [] insert > 0 /\ ShouldUseUncompressedMode(t.metablock_start, t.next_emit, insert, t.literal_ratio) ->
            Uncompressed(t, input, t.start)
      [] OTHER -> StoreInMetaBlock(t, input, EmitInsertLen(OnePass, t.next_emit, insert))

\* UpdateBits: the length of the metablock in its header, whose width stays.
UpdateLength(t, total) ==
    LET width == 4 * (4 + BitsValue(SubSeq(t.storage, t.header_ix + 2, t.header_ix + 3)))
        at == t.header_ix + 3
    IN  [t EXCEPT !.total_block_size = total,
                  !.storage = SubSeq(@, 1, at) \o ToBits(width, total - 1)
                                \o SubSeq(@, at + width + 1, Len(@))]

\* A block of a metablock (emit_commands), then the next one, which belongs to
\* the same metablock if its literals suit (next_block).
RECURSIVE EmitCommands(_, _, _)
EmitCommands(t, input, table_bits) ==
    LET p == [SearchOf(input, t.start, t.block_size, 5, table_bits)
                EXCEPT !.alphabet = OnePass, !.metablock_start = t.metablock_start,
                       !.literal_ratio = t.literal_ratio]
        NextBlock(u) ==
            IF u.start = Len(input) THEN u
            ELSE EmitCommands(BeginMetaBlock([u EXCEPT !.arena =
                        BuildAndStoreCommandPrefixCode(OnePass, u.cmd_histo)], input), input, table_bits)
        Done(s) ==
            LET u == [StoreInMetaBlock([t EXCEPT !.cmd_histo = CmdHistoSeed], input, s.emitted)
                        EXCEPT !.table = s.table, !.next_emit = s.next_emit,
                               !.start = @ + t.block_size]
                more == Least(Len(input) - u.start, Scaled(2^16))
                merged == u.total_block_size + more
            IN  CASE s.left = "abandoned" ->
                        NextBlock([Uncompressed(u, input, s.ip) EXCEPT !.start = s.ip])
                  [] s.left = "remainder" /\ more > 0 /\ merged <= Scaled(2^20)
                        /\ ShouldMergeBlock(SubSeq(input, u.start + 1, u.start + more), u.lit_word) ->
                        EmitCommands([UpdateLength(u, merged) EXCEPT !.block_size = more],
                                     input, table_bits)
                  [] OTHER -> NextBlock(EmitRemainder(u, input))
    IN  CHOOSE r \in {Done(s) : s \in {FindMatches(p, t.next_emit, t.table)}} : TRUE

\* BrotliCompressFragmentFast: the storage and, for the next fragment, the arena.
CompressFragmentFast(storage, arena, input, is_last, table_bits) ==
    LET start == [storage |-> storage, arena |-> arena, start |-> 0, metablock_start |-> 0,
                  block_size |-> 0, total_block_size |-> 0, header_ix |-> 0, next_emit |-> 0,
                  lit_word |-> <<>>, literal_ratio |-> 0, cmd_histo |-> CmdHistoSeed, table |-> <<>>]
        t == EmitCommands(BeginMetaBlock(start, input), input, table_bits)
        bits == IF Len(t.storage) - Len(storage) > 31 + 8 * Len(input)
                THEN EmitUncompressedMetaBlock(storage, input) ELSE t.storage
    IN  IF input = <<>> THEN [storage |-> EmptyLastMetaBlock(storage), arena |-> arena]
        ELSE [storage |-> IF is_last THEN EmptyLastMetaBlock(bits) ELSE bits,
              arena |-> IF is_last THEN arena
                        ELSE BuildAndStoreCommandPrefixCode(OnePass, t.cmd_histo)]

-----------------------------------------------------------------------------
(* Two passes.                                                               *)

\* CreateCommands: the codes of a block, and its table.
CreateCommands(input, start, block_size, table, table_bits) ==
    LET p == SearchOf(input, start, block_size, IF table_bits <= 15 THEN 4 ELSE 6, table_bits)
        s == FindMatches(p, start, table)
    IN  [table |-> s.table,
         emitted |-> IF s.next_emit = p.end THEN s.emitted
                     ELSE s.emitted \o EmitInsertLen(TwoPass, s.next_emit, p.end - s.next_emit)]

\* StoreCommands: four codes are always there.
StoreCommands(input, emitted) ==
    LET literals == FlattenSeq([k \in DOMAIN emitted |->
                        SubSeq(input, emitted[k].first + 1, emitted[k].first + emitted[k].count)])
        lit == BuildAndStoreHuffmanTreeFast(HistogramOf(literals), 8)
        cmd == BuildAndStoreCommandPrefixCode(TwoPass,
                    HistogramAddHistogram(CodeHistogram(emitted), [c \in {1, 2, 64, 84} |-> 1]))
    IN  Bits(<<lit.bits, cmd.bits, StoreEmitted(input, emitted, cmd.word, lit.code)>>)

\* ShouldCompress of the two passes.
ShouldCompressBlock(bytes, num_literals) ==
    \/ 100 * num_literals < 98 * Len(bytes)
    \/ 4300 * BitsEntropy(HistogramOf(Sample(bytes, 43))) < 8 * 98 * Bit * Len(bytes)

\* BrotliCompressFragmentTwoPassImpl
RECURSIVE TwoPassBlocks(_, _, _, _, _)
TwoPassBlocks(storage, input, start, table, table_bits) ==
    LET block_size == Least(Len(input) - start, Scaled(2^17))
        bytes == SubSeq(input, start + 1, start + block_size)
        Literals(emitted) == SumOf([k \in DOMAIN emitted |-> emitted[k].count])
        Block(c) == IF ShouldCompressBlock(bytes, Literals(c.emitted))
                    THEN Bits(<<storage, StoreFragmentHeader(block_size, 0), Zeros(13),
                                StoreCommands(input, c.emitted)>>)
                    ELSE EmitUncompressedMetaBlock(storage, bytes)
    IN  IF start = Len(input) THEN storage
        ELSE CHOOSE r \in {TwoPassBlocks(Block(c), input, start + block_size, c.table, table_bits) :
                c \in {CreateCommands(input, start, block_size, table, table_bits)}} : TRUE

\* BrotliCompressFragmentTwoPass
CompressFragmentTwoPass(storage, input, is_last, table_bits) ==
    LET t == TwoPassBlocks(storage, input, 0, <<>>, table_bits)
        bits == IF Len(t) - Len(storage) > 31 + 8 * Len(input)
                THEN EmitUncompressedMetaBlock(storage, input) ELSE t
    IN  IF is_last THEN EmptyLastMetaBlock(bits) ELSE bits
=============================================================================
