---------------------------- MODULE BrotliHeader ----------------------------
(* The decoder of libbrotli (c/dec/decode.c), first half: the functions that *)
(* read the header of a stream and of a metablock, its prefix codes, its     *)
(* block types and its context maps.                                         *)
(*                                                                           *)
(* Each function of the source is an operator from the decoder's state d to  *)
(* its next state; d.res is what it returns.  A function may run out of      *)
(* input at any read: it then returns NEEDS_MORE_INPUT, leaves its substate  *)
(* where it was and is called again from the top with more input.            *)
EXTENDS BrotliCommand, SequencesExt

BlockSizeCap == 2^24                    \* BROTLI_BLOCK_SIZE_CAP
CodeLengthCodeOrder == <<1, 2, 3, 4, 0, 5, 17, 6, 16, 7, 8, 9, 10, 11, 12, 13, 14, 15>>
CodeLengthPrefixLength == <<2, 2, 2, 3, 2, 2, 2, 4, 2, 2, 2, 3, 2, 2, 2, 4>>
CodeLengthPrefixValue == <<0, 4, 3, 2, 0, 4, 3, 1, 0, 4, 3, 2, 0, 4, 3, 5>>

Return(d, result) == [d EXCEPT !.res = result]
Then(d, Continue(_)) == IF d.res = "SUCCESS" THEN Continue(d) ELSE d

\* BrotliSafeReadBits, for a caller that returns if there are too few bits.
ReadBits(d, n, Continue(_, _)) ==
    LET br == PullBits(d.br, n) IN
    IF Len(br.held) < n
    THEN [d EXCEPT !.br = br, !.res = "NEEDS_MORE_INPUT"]
    ELSE Continue([d EXCEPT !.br = DropBits(br, n)], PeekBits(br, n))

\* An allocation: d.memory of them succeed.
Allocate(d, error, Continue(_)) ==
    IF d.memory = 0 THEN Return(d, error) ELSE Continue([d EXCEPT !.memory = @ - 1])

-----------------------------------------------------------------------------
(* Prefix codes.  A table maps the bits of a codeword to its symbol.         *)

\* The canonical prefix code with these lengths: shorter words first, equal
\* lengths in the order of the symbols.
Canonical(lens) ==
    LET symbols == [k \in 1..Max(DOMAIN lens) + 1 |-> k - 1]
        OfLength(n) == SelectSeq(symbols, LAMBDA s : s \in DOMAIN lens /\ lens[s] = n)
        First(c, n) == IF n = 1 THEN 0 ELSE 2 * (c[n - 1].first + Len(c[n - 1].symbols))
        code == FoldLeft(LAMBDA c, n : Append(c, [first |-> First(c, n), symbols |-> OfLength(n)]),
                         <<>>, [n \in 1..15 |-> n])
        Words(n) == {Reverse(ToBits(n, code[n].first + i - 1)) : i \in DOMAIN code[n].symbols}
    IN  [w \in UNION {Words(n) : n \in 1..15} |->
            LET c == code[Len(w)] IN c.symbols[BitsValue(Reverse(w)) - c.first + 1]]

\* The code of a set of one symbol has no bits.
OneSymbol(s) == (<<>> :> s)

\* Length of the codeword at the front of the accumulator, -1 if there is none.
WordLength(table, held) ==
    LET at == {n \in 0..Least(15, Len(held)) : SubSeq(held, 1, n) \in DOMAIN table}
    IN  IF at = {} THEN -1 ELSE CHOOSE n \in at : TRUE

\* DecodeSymbol and SafeDecodeSymbol: the two levels of the source's table are
\* one look-up here.
TakeSymbol(d, br, table, Continue(_, _)) ==
    LET n == WordLength(table, br.held) IN
    IF n = -1 THEN [d EXCEPT !.br = br, !.res = "NEEDS_MORE_INPUT"]
              ELSE Continue([d EXCEPT !.br = DropBits(br, n)],
                            table[SubSeq(br.held, 1, n)])

SafeReadSymbol(d, table, Continue(_, _)) ==
    TakeSymbol(d, PullBits(d.br, 15), table, Continue)

ReadSymbol(d, table, Continue(_, _)) ==
    TakeSymbol(d, FillBitWindow(d.br, 6), table, Continue)

-----------------------------------------------------------------------------
(* The header of the stream and of a metablock.                              *)

\* DecodeWindowBits: 1 to 8 bits; the caller made sure that a byte is there.
\* Sizes that the format does not have are 0.
DecodeWindowBits(d) ==
    LET b == SubSeq(d.br.held, 1, 8)
        n == BitsValue(SubSeq(b, 2, 4))
        m == BitsValue(SubSeq(b, 5, 7))
        Take(k, bits) == [d EXCEPT !.br = DropBits(@, k), !.window_bits = bits,
                                   !.large_window = FALSE]
    IN  CASE b[1] = 0 -> Take(1, 16)
          [] b[1] = 1 /\ n # 0 -> Take(4, 17 + n)
          [] b[1] = 1 /\ n = 0 /\ m = 0 -> Take(7, 17)
          [] b[1] = 1 /\ n = 0 /\ m > 1 -> Take(7, 8 + m)
          [] b[1] = 1 /\ n = 0 /\ m = 1 ->
                IF d.large_window /\ b[8] = 0
                THEN [Take(8, 0) EXCEPT !.large_window = TRUE]
                ELSE Return(Take(8, 0), "FORMAT_WINDOW_BITS")

\* DecodeVarLenUint8: the number is in d.value once the result is SUCCESS.
DecodeVarLenUint8(d) ==
    LET Long(c) == ReadBits([c EXCEPT !.uint8 = "LONG"], c.value, LAMBDA e, bits :
                      [e EXCEPT !.value = 2^@ + bits, !.uint8 = "NONE"])
        Short(c) == ReadBits([c EXCEPT !.uint8 = "SHORT"], 3, LAMBDA e, bits :
                      IF bits = 0 THEN [e EXCEPT !.value = 1, !.uint8 = "NONE"]
                                  ELSE Long([e EXCEPT !.value = bits]))
    IN  CASE d.uint8 = "NONE" -> ReadBits(d, 1, LAMBDA e, bits :
                      IF bits = 0 THEN [e EXCEPT !.value = 0] ELSE Short(e))
          [] d.uint8 = "SHORT" -> Short(d)
          [] d.uint8 = "LONG" -> Long(d)

\* The loops of DecodeMetaBlockLength over nibbles (width 4, at least 4 of
\* them) and over the bytes of a metadata length (width 8, at least one): the
\* last unit of a length that could be shorter must not be zero.
RECURSIVE ReadLength(_, _, _, _)
ReadLength(d, width, shortest, exuberant) ==
    IF d.loop = d.size_nibbles THEN d
    ELSE ReadBits(d, width, LAMBDA e, bits :
            IF e.loop + 1 = e.size_nibbles /\ e.size_nibbles > shortest /\ bits = 0
            THEN Return(e, exuberant)
            ELSE ReadLength([e EXCEPT !.remaining = @ + bits * 2^(width * e.loop),
                                      !.loop = @ + 1], width, shortest, exuberant))

\* The substates of DecodeMetaBlockLength after the flags of the last block.
MetaBlockSize(d) ==
    LET Done(e) == [e EXCEPT !.remaining = @ + 1, !.header = "NONE"]
        Uncompressed(c) == IF c.is_last THEN Done(c)
                           ELSE ReadBits([c EXCEPT !.header = "UNCOMPRESSED"], 1,
                                   LAMBDA e, bits : Done([e EXCEPT !.is_uncompressed = bits = 1]))
        Size(c) == Then(ReadLength([c EXCEPT !.header = "SIZE"], 4, 4,
                                   "FORMAT_EXUBERANT_NIBBLE"), Uncompressed)
        Metadata(c) == Then(ReadLength([c EXCEPT !.header = "METADATA"], 8, 1,
                                       "FORMAT_EXUBERANT_META_NIBBLE"), Done)
        Bytes(c) == ReadBits([c EXCEPT !.header = "BYTES"], 2, LAMBDA e, bits :
                       IF bits = 0 THEN [e EXCEPT !.header = "NONE"]
                                   ELSE Metadata([e EXCEPT !.size_nibbles = bits]))
        Reserved(c) == ReadBits([c EXCEPT !.header = "RESERVED"], 1, LAMBDA e, bits :
                          IF bits # 0 THEN Return(e, "FORMAT_RESERVED") ELSE Bytes(e))
    IN  CASE d.header = "NIBBLES" -> ReadBits(d, 2, LAMBDA e, bits :
                LET c == [e EXCEPT !.size_nibbles = bits + 4, !.loop = 0] IN
                IF bits = 3 THEN Reserved([c EXCEPT !.is_metadata = TRUE]) ELSE Size(c))
          [] d.header = "SIZE" -> Size(d)
          [] d.header = "UNCOMPRESSED" -> Uncompressed(d)
          [] d.header = "RESERVED" -> Reserved(d)
          [] d.header = "BYTES" -> Bytes(d)
          [] d.header = "METADATA" -> Metadata(d)

DecodeMetaBlockLength(d) ==
    LET Nibbles(c) == MetaBlockSize([c EXCEPT !.header = "NIBBLES"])
        Empty(c) == ReadBits([c EXCEPT !.header = "EMPTY"], 1, LAMBDA e, bits :
                       IF bits = 1 THEN [e EXCEPT !.header = "NONE"] ELSE Nibbles(e))
    IN  CASE d.header = "NONE" -> ReadBits(d, 1, LAMBDA e, bits :
                LET c == [e EXCEPT !.is_last = bits = 1, !.remaining = 0,
                                   !.is_uncompressed = FALSE, !.is_metadata = FALSE]
                IN  IF bits = 0 THEN Nibbles(c) ELSE Empty(c))
          [] d.header = "EMPTY" -> Empty(d)
          [] OTHER -> MetaBlockSize(d)

-----------------------------------------------------------------------------
(* The description of a prefix code.                                         *)

\* BrotliBuildSimpleHuffmanTable: by number of symbols, the lengths in the
\* order in which the symbols came; number 4 is the second shape of four.
SimpleLengths == <<<<0>>, <<1, 1>>, <<1, 2, 2>>, <<2, 2, 2, 2>>, <<1, 2, 3, 3>>>>
SimpleTable(symbols, shape) ==
    IF shape = 0 THEN OneSymbol(symbols[1])
    ELSE Canonical([s \in {symbols[i] : i \in DOMAIN symbols} |->
                      SimpleLengths[shape + 1][CHOOSE i \in DOMAIN symbols : symbols[i] = s]])

SimpleBuild(d) ==
    LET Build(e) == [e EXCEPT !.table = SimpleTable(e.simple, e.symbol), !.huffman = "NONE"]
        c == [d EXCEPT !.huffman = "SIMPLE_BUILD"]
    IN  IF c.symbol = 3 THEN ReadBits(c, 1, LAMBDA e, bits : Build([e EXCEPT !.symbol = @ + bits]))
                        ELSE Build(c)

\* ReadSimpleHuffmanSymbols
RECURSIVE SimpleRead(_, _, _)
SimpleRead(d, alphabet_size_max, alphabet_size_limit) ==
    IF Len(d.simple) > d.symbol
    THEN IF Cardinality({d.simple[i] : i \in DOMAIN d.simple}) < Len(d.simple)
         THEN Return(d, "FORMAT_SIMPLE_HUFFMAN_SAME")
         ELSE SimpleBuild(d)
    ELSE ReadBits([d EXCEPT !.huffman = "SIMPLE_READ"], BitWidth(alphabet_size_max - 1),
            LAMBDA e, v :
            IF v >= alphabet_size_limit THEN Return(e, "FORMAT_SIMPLE_HUFFMAN_ALPHABET")
            ELSE SimpleRead([e EXCEPT !.simple = Append(@, v)],
                            alphabet_size_max, alphabet_size_limit))

\* ProcessSingleCodeLength.  d.lens has the lengths of the symbols that have one;
\* d.space is what the source's unsigned counter is before it wraps around.
ProcessSingleCodeLength(d, code_len) ==
    LET e == [d EXCEPT !.repeat = 0, !.symbol = @ + 1] IN
    IF code_len = 0 THEN e
    ELSE [e EXCEPT !.lens = (d.symbol :> code_len) @@ @, !.prev_len = code_len,
                   !.space = @ - 2^(15 - code_len)]

\* ProcessRepeatedCodeLength
ProcessRepeatedCodeLength(d, code_len, delta, alphabet_size) ==
    LET new_len == IF code_len = 16 THEN d.prev_len ELSE 0
        old_repeat == IF d.repeat_len # new_len THEN 0 ELSE d.repeat
        repeat == delta + 3 + (IF old_repeat > 0 THEN (old_repeat - 2) * 2^(code_len - 14)
                                                 ELSE 0)
        count == repeat - old_repeat
        e == [d EXCEPT !.repeat = repeat, !.repeat_len = new_len, !.symbol = @ + count]
    IN  CASE d.symbol + count > alphabet_size ->
                [e EXCEPT !.symbol = alphabet_size, !.space = 1048575]
          [] d.symbol + count <= alphabet_size /\ new_len = 0 -> e
          [] OTHER -> [e EXCEPT !.lens = [s \in d.symbol..d.symbol + count - 1 |-> new_len] @@ @,
                                !.space = @ - count * 2^(15 - new_len)]

\* ReadSymbolCodeLengths while the fast path is allowed, and
\* SafeReadSymbolCodeLengths, which takes a byte at a time, from then on.
RECURSIVE ReadSymbolCodeLengths(_, _, _)
ReadSymbolCodeLengths(d, alphabet_size, safe) ==
    LET br == IF safe THEN d.br ELSE FillBitWindow(d.br, 4)
        n == WordLength(d.cl_table, br.held)
        code_len == d.cl_table[SubSeq(br.held, 1, n)]
        extra == IF code_len < 16 THEN 0 ELSE code_len - 14
        e == [d EXCEPT !.br = DropBits(br, n + extra)]
        delta == BitsValue(SubSeq(br.held, n + 1, n + extra))
    IN  CASE d.symbol >= alphabet_size \/ d.space = 0 -> d
          [] ~safe /\ ~CheckInputAmount(d.br) -> ReadSymbolCodeLengths(d, alphabet_size, TRUE)
          [] n = -1 \/ Len(br.held) < n + extra ->
                IF AvailIn(br) = 0 THEN Return(d, "NEEDS_MORE_INPUT")
                ELSE ReadSymbolCodeLengths([d EXCEPT !.br = Load(br, 1)], alphabet_size, safe)
          [] OTHER -> ReadSymbolCodeLengths(
                         IF code_len < 16 THEN ProcessSingleCodeLength(e, code_len)
                         ELSE ProcessRepeatedCodeLength(e, code_len, delta, alphabet_size),
                         alphabet_size, safe)

HuffmanLengthSymbols(d, alphabet_size) ==
    LET warm == [d EXCEPT !.huffman = "LENGTH_SYMBOLS", !.br = Warmup(@)] IN
    Then(ReadSymbolCodeLengths(warm, alphabet_size, warm.br.held = <<>>),
         LAMBDA e : IF e.space # 0 THEN Return(e, "FORMAT_HUFFMAN_SPACE")
                    ELSE [e EXCEPT !.table = Canonical(e.lens), !.huffman = "NONE"])

\* BrotliBuildCodeLengthsHuffmanTable: a single length needs no bits.
CodeLengthTable(lens) ==
    IF Cardinality(DOMAIN lens) = 1 THEN OneSymbol(CHOOSE s \in DOMAIN lens : TRUE)
                                    ELSE Canonical(lens)

\* ReadCodeLengthCodeLengths: up to 18 lengths in a fixed code of 2 to 4 bits;
\* the last bits of the input may be enough for a short one.
RECURSIVE ReadCodeLengthCodeLengths(_, _)
ReadCodeLengthCodeLengths(d, alphabet_size) ==
    LET br == PullBits(d.br, 4)
        ix == PeekBits(br, 4) + 1
        v == CodeLengthPrefixValue[ix]
        c == [d EXCEPT !.huffman = "COMPLEX", !.br = br]
        e == [c EXCEPT !.br = DropBits(br, CodeLengthPrefixLength[ix]), !.sub = @ + 1]
    IN  CASE d.sub = 18 \/ d.space <= 0 ->
                IF Cardinality(DOMAIN d.lens) # 1 /\ d.space # 0 THEN Return(d, "FORMAT_CL_SPACE")
                ELSE HuffmanLengthSymbols([d EXCEPT
                        !.cl_table = CodeLengthTable(d.lens), !.lens = <<>>,
                        !.symbol = 0, !.prev_len = 8, !.repeat = 0, !.repeat_len = 0,
                        !.space = 32768], alphabet_size)
          [] d.sub < 18 /\ d.space > 0 /\ CodeLengthPrefixLength[ix] > Len(br.held) ->
                Return(c, "NEEDS_MORE_INPUT")
          [] OTHER -> ReadCodeLengthCodeLengths(
                IF v = 0 THEN e
                ELSE [e EXCEPT !.lens = (CodeLengthCodeOrder[d.sub + 1] :> v) @@ @,
                               !.space = @ - 32 \div 2^v],
                alphabet_size)

\* ReadHuffmanCode: a simple code lists its symbols, a complex one has its
\* code lengths written in another prefix code.  The result is in d.table.
ReadHuffmanCode(d, alphabet_size_max, alphabet_size_limit) ==
    LET Read(e) == SimpleRead(e, alphabet_size_max, alphabet_size_limit)
        Size(c) == ReadBits([c EXCEPT !.huffman = "SIMPLE_SIZE"], 2,
                      LAMBDA e, bits : Read([e EXCEPT !.symbol = bits, !.simple = <<>>]))
        Complex(e) == ReadCodeLengthCodeLengths(e, alphabet_size_limit)
    IN  CASE d.huffman = "NONE" -> ReadBits(d, 2, LAMBDA e, bits :
                IF bits = 1 THEN Size(e)
                ELSE Complex([e EXCEPT !.sub = bits, !.space = 32, !.lens = <<>>]))
          [] d.huffman = "SIMPLE_SIZE" -> Size(d)
          [] d.huffman = "SIMPLE_READ" -> Read(d)
          [] d.huffman = "SIMPLE_BUILD" -> SimpleBuild(d)
          [] d.huffman = "COMPLEX" -> Complex(d)
          [] d.huffman = "LENGTH_SYMBOLS" -> HuffmanLengthSymbols(d, alphabet_size_limit)

-----------------------------------------------------------------------------
(* Block lengths, block types and context maps.                              *)

\* ReadBlockLength and SafeReadBlockLength.  The length is in d.value.
ReadBlockLength(d, table) ==
    ReadSymbol(d, table, LAMBDA e, code :
        LET br == FillBitWindow(e.br, 4) IN
        [e EXCEPT !.br = DropBits(br, BlockLengthExtra[code + 1]),
                  !.value = BlockLengthBase[code] + PeekBits(br, BlockLengthExtra[code + 1])])

SafeReadBlockLength(d, table) ==
    LET Suffix(c) == ReadBits([c EXCEPT !.blen = "SUFFIX"], BlockLengthExtra[c.blen_index + 1],
                        LAMBDA e, bits : [e EXCEPT !.value = BlockLengthBase[c.blen_index] + bits,
                                                   !.blen = "NONE"])
    IN  IF d.blen = "SUFFIX" THEN Suffix(d)
        ELSE SafeReadSymbol(d, table, LAMBDA e, index : Suffix([e EXCEPT !.blen_index = index]))

\* DecodeBlockTypeAndLength for tree type t (1 literals, 2 commands, 3
\* distances).  Codes 0 and 1 stand for the last but one type and the type
\* after the last.  Without enough input the reader is restored.
DecodeBlockTypeAndLength(d, t, safe) ==
    LET Update(e, code) ==
            LET next == CASE code = 1 -> d.type_rb[t][2] + 1
                          [] code = 0 -> d.type_rb[t][1]
                          [] OTHER -> code - 2
                type == IF next >= d.num_types[t] THEN next - d.num_types[t] ELSE next
            IN  [e EXCEPT !.type_rb[t] = <<@[2], type>>, !.block_length[t] = e.value]
        Length(e, code) ==
            LET c == IF safe THEN SafeReadBlockLength(e, d.len_trees[t])
                             ELSE ReadBlockLength(e, d.len_trees[t])
            IN  IF c.res = "NEEDS_MORE_INPUT"
                THEN [d EXCEPT !.res = c.res] ELSE Update(c, code)
        Type == IF safe THEN SafeReadSymbol(d, d.type_trees[t], Length)
                        ELSE ReadSymbol(d, d.type_trees[t], Length)
    IN  IF d.num_types[t] <= 1 THEN Return(d, "FORMAT_BLOCK_SWITCH") ELSE Type

\* InverseMoveToFrontTransform
InverseMoveToFront(v) ==
    LET step[i \in 0..Len(v)] ==
            IF i = 0 THEN [mtf |-> [k \in 1..256 |-> k - 1], out |-> <<>>]
            ELSE LET p == step[i - 1]
                     value == p.mtf[v[i] + 1]
                 IN  [mtf |-> [k \in 1..256 |-> CASE k = 1 -> value
                                                  [] k \in 2..v[i] + 1 -> p.mtf[k - 1]
                                                  [] OTHER -> p.mtf[k]],
                      out |-> Append(p.out, value)]
    IN  step[Len(v)].out

\* The substates of DecodeContextMap that read the items of the map, with runs
\* of zeros, and its transform.  d.code # -1: a run whose length is still to come.
RECURSIVE ContextMapItems(_, _)
ContextMapItems(d, size) ==
    LET Transform(c) == ReadBits([c EXCEPT !.ctx = "TRANSFORM"], 1, LAMBDA e, bits :
            [e EXCEPT !.map = IF bits = 1 THEN InverseMoveToFront(@) ELSE @, !.ctx = "NONE"])
        Run(c) == ReadBits(c, c.code, LAMBDA e, bits :
            LET reps == bits + 2^e.code IN
            IF Len(e.map) + reps > size THEN Return(e, "FORMAT_CONTEXT_MAP_REPEAT")
            ELSE ContextMapItems([e EXCEPT !.map = @ \o Zeros(reps), !.code = -1], size))
        Item(e, code) ==
            IF code = 0 \/ code > e.max_run
            THEN ContextMapItems([e EXCEPT !.map = Append(@, Most(0, code - e.max_run))], size)
            ELSE Run([e EXCEPT !.code = code])
    IN  CASE d.ctx = "TRANSFORM" \/ (Len(d.map) = size /\ d.code = -1) -> Transform(d)
          [] d.ctx # "TRANSFORM" /\ d.code # -1 -> Run(d)
          [] OTHER -> SafeReadSymbol(d, d.map_table, Item)

\* DecodeContextMap: the number of trees is in d.htrees, the map in d.map.
DecodeContextMap(d, size) ==
    LET Huffman(c) == Then(ReadHuffmanCode(c, c.htrees + c.max_run, c.htrees + c.max_run),
                          LAMBDA e : ContextMapItems([e EXCEPT !.map_table = e.table, !.code = -1,
                                                               !.ctx = "DECODE"], size))
        Prefix(c) == LET br == PullBits(c.br, 5)
                         rle == PeekBits(br, 1) = 1
                     IN  IF Len(br.held) < 5
                         THEN [c EXCEPT !.br = br, !.res = "NEEDS_MORE_INPUT"]
                         ELSE Huffman([c EXCEPT
                                !.br = DropBits(br, IF rle THEN 5 ELSE 1), !.ctx = "HUFFMAN",
                                !.max_run = IF rle THEN PeekBits(br, 5) \div 2 + 1 ELSE 0])
    IN  CASE d.ctx = "NONE" -> Then(DecodeVarLenUint8(d), LAMBDA e :
                Allocate([e EXCEPT !.htrees = e.value + 1, !.map = <<>>], "ALLOC_CONTEXT_MAP",
                         LAMBDA c : IF c.htrees = 1 THEN [c EXCEPT !.map = Zeros(size)]
                                    ELSE Prefix([c EXCEPT !.ctx = "READ_PREFIX"])))
          [] d.ctx = "READ_PREFIX" -> Prefix(d)
          [] d.ctx = "HUFFMAN" -> Huffman(d)
          [] OTHER -> ContextMapItems(d, size)

\* HuffmanTreeGroupDecode: as many codes as d.group_size, into d.group.
RECURSIVE HuffmanTreeGroupDecode(_, _, _, _)
HuffmanTreeGroupDecode(d, alphabet_size_max, alphabet_size_limit, num_htrees) ==
    IF Len(d.group) = num_htrees THEN d
    ELSE Then(ReadHuffmanCode(d, alphabet_size_max, alphabet_size_limit), LAMBDA e :
            HuffmanTreeGroupDecode([e EXCEPT !.group = Append(@, e.table)],
                                   alphabet_size_max, alphabet_size_limit, num_htrees))

\* ReadContextModes
RECURSIVE ReadContextModes(_)
ReadContextModes(d) ==
    IF Len(d.modes) = d.num_types[1] THEN d
    ELSE ReadBits(d, 2, LAMBDA e, bits : ReadContextModes([e EXCEPT !.modes = Append(@, bits)]))
=============================================================================
