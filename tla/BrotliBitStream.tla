--------------------------- MODULE BrotliBitStream ---------------------------
(* The writer of metablocks of libbrotli (c/enc/brotli_bit_stream.c): given  *)
(* the commands of a metablock and its split into blocks it writes the       *)
(* header, the block switches, the context maps, the codes and the data.     *)
(*                                                                           *)
(* A block split is a record of num_types and of the types and lengths of    *)
(* its blocks.  The input is the ring buffer of the encoder with its mask.   *)
EXTENDS BrotliPrefixCode, BrotliTransform


ByteAt(input, pos, mask) == input[(pos % (mask + 1)) + 1]

\* How often each value occurs in a sequence.
HistogramOf(seq) ==
    [v \in {seq[i] : i \in DOMAIN seq} |-> Cardinality({i \in DOMAIN seq : seq[i] = v})]

\* An operator that stores several things: the bits of all of them in order.
Bits(parts) == FlattenSeq(parts)

-----------------------------------------------------------------------------
(* Headers and numbers.                                                      *)

\* BrotliEncodeMlen: four to six nibbles.
EncodeMlen(length) ==
    LET lg == IF length = 1 THEN 1 ELSE BitWidth(length - 1)
        mnibbles == (Most(lg, 13) + 3) \div 4
    IN  ToBits(2, mnibbles - 4) \o ToBits(4 * mnibbles, length - 1)

StoreCompressedMetaBlockHeader(is_final_block, length) ==
    (IF is_final_block THEN <<1, 0>> ELSE <<0>>) \o EncodeMlen(length)
        \o (IF is_final_block THEN <<>> ELSE <<0>>)

StoreUncompressedMetaBlockHeader(length) == <<0>> \o EncodeMlen(length) \o <<1>>

StoreVarLenUint8(n) ==
    LET nbits == Log2Floor(n) IN
    IF n = 0 THEN <<0>> ELSE <<1>> \o ToBits(3, nbits) \o ToBits(nbits, n - 2^nbits)

\* The extra bits of the lengths of a command.
StoreCommandExtra(cmd) ==
    LET inscode == GetInsertLengthCode(cmd.insert_len)
        copycode == GetCopyLengthCode(cmd.copy_len_code)
    IN  ToBits(InsExtra[inscode + 1], cmd.insert_len - InsBase[inscode])
          \o ToBits(CopyExtra[copycode + 1], cmd.copy_len_code - CopyBase[copycode])

-----------------------------------------------------------------------------
(* Context maps.                                                             *)

\* MoveToFrontTransform
MoveToFrontTransform(v) ==
    LET Move(t, value) ==
            LET index == CHOOSE k \in DOMAIN t.mtf : t.mtf[k] = value IN
            [mtf |-> <<value>> \o SubSeq(t.mtf, 1, index - 1)
                       \o SubSeq(t.mtf, index + 1, Len(t.mtf)),
             out |-> Append(t.out, index - 1)]
        size == Max({v[i] : i \in DOMAIN v}) + 1
    IN  Fold(Move, [mtf |-> [k \in 1..size |-> k - 1], out |-> <<>>], v).out

\* RunLengthCodeZeros: a run of zeros becomes codes up to max_prefix with as
\* many extra bits as the code says.
RECURSIVE ZeroRun(_, _)
ZeroRun(reps, max_prefix) ==
    LET prefix == Log2Floor(reps) IN
    IF reps < 2 * 2^max_prefix THEN <<Item(prefix, reps - 2^prefix)>>
    ELSE <<Item(max_prefix, 2^max_prefix - 1)>>
           \o ZeroRun(reps - (2 * 2^max_prefix - 1), max_prefix)

RunLengthCodeZeros(v, max_run_length_prefix) ==
    LET runs == Runs(v)
        zeros == {runs[k].reps : k \in {j \in DOMAIN runs : runs[j].value = 0}}
        max_prefix == IF zeros = {} THEN 0 ELSE Least(Log2Floor(Max(zeros)), max_run_length_prefix)
    IN  [max_prefix |-> max_prefix,
         items |-> FlattenSeq([k \in DOMAIN runs |->
                      IF runs[k].value = 0 THEN ZeroRun(runs[k].reps, max_prefix)
                      ELSE Fill(runs[k].reps, Item(runs[k].value + max_prefix, 0))])]

\* EncodeContextMap
EncodeContextMap(context_map, num_clusters) ==
    LET rle == RunLengthCodeZeros(MoveToFrontTransform(context_map), 6)
        size == num_clusters + rle.max_prefix
        tree == BuildAndStoreHuffmanTree(
                    HistogramOf([k \in DOMAIN rle.items |-> rle.items[k].code]), size, size)
        Symbol(item) == tree.code[item.code]
            \o (IF item.code \in 1..rle.max_prefix THEN ToBits(item.code, item.extra) ELSE <<>>)
    IN  StoreVarLenUint8(num_clusters - 1)
          \o (IF num_clusters = 1 THEN <<>>
              ELSE Bits(<<IF rle.max_prefix > 0 THEN <<1>> \o ToBits(4, rle.max_prefix - 1) ELSE <<0>>,
                          tree.bits,
                          FlattenSeq([k \in DOMAIN rle.items |-> Symbol(rle.items[k])]),
                          <<1>>>>))

\* StoreTrivialContextMap: the histogram is the block type.
StoreTrivialContextMap(num_types, context_bits) ==
    LET repeat_code == context_bits - 1
        alphabet_size == num_types + repeat_code
        histogram == [i \in {0, repeat_code} \cup context_bits..alphabet_size - 1 |->
                        IF i = repeat_code THEN num_types ELSE 1]
        tree == BuildAndStoreHuffmanTree(histogram, alphabet_size, alphabet_size)
        Type(i) == tree.code[IF i = 0 THEN 0 ELSE i + context_bits - 1]
                     \o tree.code[repeat_code] \o ToBits(repeat_code, 2^repeat_code - 1)
    IN  StoreVarLenUint8(num_types - 1)
          \o (IF num_types = 1 THEN <<>>
              ELSE Bits(<<<<1>>, ToBits(4, repeat_code - 1), tree.bits,
                          FlattenSeq([k \in 1..num_types |-> Type(k - 1)]), <<1>>>>))

-----------------------------------------------------------------------------
(* Blocks.                                                                   *)

\* NextBlockTypeCode: calc has the last type and the one before.
InitBlockTypeCodeCalculator == <<1, 0>>
NextBlockTypeCode(calc, type) ==
    CASE type = calc[1] + 1 -> 1
      [] type # calc[1] + 1 /\ type = calc[2] -> 0
      [] OTHER -> type + 2

\* StoreBlockSwitch, for the block block_ix of an encoder of one category.
StoreBlockSwitch(enc, block_ix, is_first_block) ==
    LET type == enc.split.types[block_ix]
        len == enc.split.lengths[block_ix]
        code == BlockLengthCode(len)
    IN  [enc EXCEPT !.calc = <<type, @[1]>>, !.block_ix = block_ix, !.block_len = len,
                    !.type = type,
                    !.bits = Bits(<<@,
                        IF is_first_block THEN <<>> ELSE enc.type_code[NextBlockTypeCode(enc.calc, type)],
                        enc.len_code[code],
                        ToBits(BlockLengthExtra[code + 1], len - BlockLengthBase[code])>>)]

\* InitBlockEncoder and BuildAndStoreBlockSplitCode
TypeCodes(types) ==
    Fold(LAMBDA t, type : [calc |-> <<type, t.calc[1]>>,
                               codes |-> Append(t.codes, NextBlockTypeCode(t.calc, type))],
             [calc |-> InitBlockTypeCodeCalculator, codes |-> <<>>], types).codes

InitBlockEncoder(split, histogram_length) ==
    LET type_histo == HistogramOf(Tail(TypeCodes(split.types)))
        length_histo == HistogramOf([k \in DOMAIN split.lengths |-> BlockLengthCode(split.lengths[k])])
        types == BuildAndStoreHuffmanTree(type_histo, split.num_types + 2, split.num_types + 2)
        lens == BuildAndStoreHuffmanTree(length_histo, 26, 26)
        enc == [split |-> split, histogram_length |-> histogram_length,
                calc |-> InitBlockTypeCodeCalculator, block_ix |-> 1, type |-> 0,
                block_len |-> IF split.lengths = <<>> THEN 0 ELSE split.lengths[1],
                type_code |-> <<>>, len_code |-> <<>>, codes |-> <<>>,
                bits |-> StoreVarLenUint8(split.num_types - 1)]
    IN  IF split.num_types = 1 THEN enc
        ELSE StoreBlockSwitch([enc EXCEPT !.type_code = types.code, !.len_code = lens.code,
                                          !.bits = Bits(<<@, types.bits, lens.bits>>)], 1, TRUE)

\* BuildAndStoreEntropyCodes of the three categories.
BuildAndStoreEntropyCodes(enc, histograms, alphabet_size) ==
    LET trees == [k \in DOMAIN histograms |->
                    BuildAndStoreHuffmanTree(histograms[k], enc.histogram_length, alphabet_size)]
    IN  [enc EXCEPT !.codes = [k \in DOMAIN histograms |-> trees[k].code],
                    !.bits = FlattenSeq([k \in DOMAIN histograms |-> trees[k].bits])]

\* StoreSymbolWithContext, and StoreSymbol where the map is empty: the code is
\* the one of the block type or of the type and the context.
StoreSymbol(encoder, symbol, context, context_map, context_bits) ==
    LET enc == IF encoder.block_len = 0 THEN StoreBlockSwitch(encoder, encoder.block_ix + 1, FALSE)
                                        ELSE encoder
        histo_ix == IF context_map = <<>> THEN enc.type
                    ELSE context_map[enc.type * 2^context_bits + context + 1]
    IN  [enc EXCEPT !.block_len = @ - 1, !.bits = @ \o enc.codes[histo_ix + 1][symbol]]

-----------------------------------------------------------------------------
(* Metablocks.  Each operator has the storage before and after.              *)

HasDistance(cmd) == cmd.copy_len # 0 /\ cmd.cmd_prefix >= 128

\* The literals of the commands and where each command begins.
CommandStarts(commands, start_pos) ==
    Fold(LAMBDA starts, cmd : Append(starts, Last(starts) + cmd.insert_len + cmd.copy_len),
             <<start_pos>>, commands)
InsertedBytes(input, pos, mask, cmd) ==
    [k \in 1..cmd.insert_len |-> ByteAt(input, pos + k - 1, mask)]

\* BuildHistograms
BuildHistograms(input, start_pos, mask, commands) ==
    LET starts == CommandStarts(commands, start_pos)
        far == SelectSeq(commands, HasDistance)
    IN  [lit |-> HistogramOf(FlattenSeq([k \in DOMAIN commands |->
                    InsertedBytes(input, starts[k], mask, commands[k])])),
         cmd |-> HistogramOf([k \in DOMAIN commands |-> commands[k].cmd_prefix]),
         dist |-> HistogramOf([k \in DOMAIN far |-> far[k].dist_prefix])]

\* StoreDataWithHuffmanCodes
StoreDataWithHuffmanCodes(input, start_pos, mask, commands, LitWord(_), CmdWord(_), DistWord(_)) ==
    LET starts == CommandStarts(commands, start_pos)
        Store(k) ==
            LET cmd == commands[k]
                bytes == InsertedBytes(input, starts[k], mask, cmd)
            IN  Bits(<<CmdWord(cmd.cmd_prefix), StoreCommandExtra(cmd),
                       FlattenSeq([j \in DOMAIN bytes |-> LitWord(bytes[j])]),
                       IF HasDistance(cmd)
                       THEN DistWord(cmd.dist_prefix) \o ToBits(cmd.dist_nbits, cmd.dist_extra)
                       ELSE <<>>>>)
    IN  FlattenSeq([k \in DOMAIN commands |-> Store(k)])

EndMetaBlock(storage, is_last) == IF is_last THEN JumpToByteBoundary(storage) ELSE storage

\* BrotliStoreMetaBlockTrivial: one block type, no contexts.
StoreMetaBlockTrivial(storage, input, start_pos, length, mask, is_last, dist, commands) ==
    LET h == BuildHistograms(input, start_pos, mask, commands)
        lit == BuildAndStoreHuffmanTree(h.lit, 256, 256)
        cmd == BuildAndStoreHuffmanTree(h.cmd, 704, 704)
        far == BuildAndStoreHuffmanTree(h.dist, 140, dist.alphabet_size_max)
    IN  EndMetaBlock(Bits(<<storage, StoreCompressedMetaBlockHeader(is_last, length), Zeros(13),
                            lit.bits, cmd.bits, far.bits,
                            StoreDataWithHuffmanCodes(input, start_pos, mask, commands,
                                LAMBDA s : lit.code[s], LAMBDA s : cmd.code[s],
                                LAMBDA s : far.code[s])>>), is_last)

\* BrotliStoreMetaBlockFast: static codes if there are few commands.
FewCommands == 128
StoreMetaBlockFast(storage, input, start_pos, length, mask, is_last, dist, commands) ==
    LET h == BuildHistograms(input, start_pos, mask, commands)
        lit == BuildAndStoreHuffmanTreeFast(h.lit, 8)
        cmd == BuildAndStoreHuffmanTreeFast(h.cmd, 10)
        far == BuildAndStoreHuffmanTreeFast(h.dist, BitWidth(dist.alphabet_size_max - 1))
        Data(CmdWord(_), DistWord(_)) ==
            StoreDataWithHuffmanCodes(input, start_pos, mask, commands, LAMBDA s : lit.code[s],
                                      CmdWord, DistWord)
        body == IF Len(commands) <= FewCommands
                THEN Bits(<<StoreStaticCommandHuffmanTree, StoreStaticDistanceHuffmanTree,
                            Data(StaticCommandWord, StaticDistanceWord)>>)
                ELSE Bits(<<cmd.bits, far.bits, Data(LAMBDA s : cmd.code[s], LAMBDA s : far.code[s])>>)
    IN  EndMetaBlock(Bits(<<storage, StoreCompressedMetaBlockHeader(is_last, length), Zeros(13),
                            lit.bits, body>>), is_last)

\* The loop of BrotliStoreMetaBlock over the commands.
StoreCommand(t, cmd, input, mask, mode, mb) ==
    LET c == StoreSymbol([t.cmd EXCEPT !.bits = t.bits], cmd.cmd_prefix, 0, <<>>, 0)
        Literal(u, k) ==
            LET byte == ByteAt(input, t.pos + k - 1, mask) IN
            [lit |-> StoreSymbol(u.lit, byte, LiteralContext(mode, u.p1, u.p2),
                                 mb.literal_context_map, 6),
             p1 |-> byte, p2 |-> u.p1]
        u == Fold(Literal, [lit |-> [t.lit EXCEPT !.bits = c.bits \o StoreCommandExtra(cmd)],
                                p1 |-> t.p1, p2 |-> t.p2], [k \in 1..cmd.insert_len |-> k])
        pos == t.pos + cmd.insert_len + cmd.copy_len
        d == StoreSymbol([t.dist EXCEPT !.bits = u.lit.bits], cmd.dist_prefix,
                         CommandDistanceContext(cmd), mb.distance_context_map, 2)
    IN  [pos |-> pos, cmd |-> c, lit |-> u.lit,
         p1 |-> IF cmd.copy_len = 0 THEN u.p1 ELSE ByteAt(input, pos - 1, mask),
         p2 |-> IF cmd.copy_len = 0 THEN u.p2 ELSE ByteAt(input, pos - 2, mask),
         dist |-> IF HasDistance(cmd) THEN d ELSE t.dist,
         bits |-> IF HasDistance(cmd) THEN d.bits \o ToBits(cmd.dist_nbits, cmd.dist_extra)
                  ELSE u.lit.bits]

\* BrotliStoreMetaBlock
StoreMetaBlock(storage, input, start_pos, length, mask, prev_byte, prev_byte2, is_last, dist, literal_context_mode, commands, mb) ==
    LET lit == InitBlockEncoder(mb.literal_split, 256)
        cmd == InitBlockEncoder(mb.command_split, 704)
        far == InitBlockEncoder(mb.distance_split, dist.alphabet_size_limit)
        ContextMap(map, histograms, bits) ==
            IF map = <<>> THEN StoreTrivialContextMap(Len(histograms), bits)
                          ELSE EncodeContextMap(map, Len(histograms))
        lit2 == BuildAndStoreEntropyCodes(lit, mb.literal_histograms, 256)
        cmd2 == BuildAndStoreEntropyCodes(cmd, mb.command_histograms, 704)
        far2 == BuildAndStoreEntropyCodes(far, mb.distance_histograms, dist.alphabet_size_max)
        header == Bits(<<storage, StoreCompressedMetaBlockHeader(is_last, length),
                         lit.bits, cmd.bits, far.bits, ToBits(2, dist.postfix),
                         ToBits(4, dist.ndirect \div 2^dist.postfix),
                         FlattenSeq(Fill(mb.literal_split.num_types, ToBits(2, literal_context_mode))),
                         ContextMap(mb.literal_context_map, mb.literal_histograms, 6),
                         ContextMap(mb.distance_context_map, mb.distance_histograms, 2),
                         lit2.bits, cmd2.bits, far2.bits>>)
        start == [pos |-> start_pos, lit |-> lit2, cmd |-> cmd2, dist |-> far2,
                  p1 |-> prev_byte, p2 |-> prev_byte2, bits |-> header]
    IN  EndMetaBlock(Fold(LAMBDA t, c : StoreCommand(t, c, input, mask, literal_context_mode, mb),
                              start, commands).bits, is_last)

\* BrotliStoreUncompressedMetaBlock: an empty last metablock follows a final one.
StoreUncompressedMetaBlock(storage, is_final_block, input, position, mask, len) ==
    LET head == JumpToByteBoundary(storage \o StoreUncompressedMetaBlockHeader(len))
        data == head \o BytesToBits([k \in 1..len |-> ByteAt(input, position + k - 1, mask)])
    IN  IF is_final_block THEN JumpToByteBoundary(data \o <<1, 1>>) ELSE data
=============================================================================
