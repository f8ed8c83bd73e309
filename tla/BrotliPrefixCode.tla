-------------------------- MODULE BrotliPrefixCode --------------------------
(* Prefix codes of libbrotli at its two ends.                                *)
(*   decoder  the look-up tables of c/dec/huffman.c                          *)
(*   encoder  c/enc/entropy_encode.c, which makes a code of limited depth    *)
(*            from a histogram, and the functions of brotli_bit_stream.c     *)
(*            that write its description into the stream                     *)
(* A histogram and a depth are functions of symbols; a code of the encoder   *)
(* is a function from symbols to their words, and an operator that stores    *)
(* something has the bits it writes as its value.                            *)
EXTENDS BrotliCommand, SequencesExt

\* FoldLeft of SequencesExt, whose time is cubic and whose evaluation nests as
\* deep as the sequence is long; here the first half is done before the second.
RECURSIVE FoldPart(_, _, _, _, _)
FoldPart(op(_, _), base, seq, lo, hi) ==
    LET mid == (lo + hi) \div 2
        half == {FoldPart(op, base, seq, lo, mid)}
    IN  CASE lo > hi -> base
          [] lo = hi -> op(base, seq[lo])
          [] lo < hi -> CHOOSE t \in {FoldPart(op, h, seq, mid + 1, hi) : h \in half} : TRUE
Fold(op(_, _), base, seq) == FoldPart(op, base, seq, 1, Len(seq))

\* The runs of equal items of a sequence.
Runs(seq) ==
    LET starts == SelectSeq([k \in DOMAIN seq |-> k], LAMBDA k : k = 1 \/ seq[k] # seq[k - 1])
                    \o <<Len(seq) + 1>>
    IN  [k \in 1..Len(starts) - 1 |-> [value |-> seq[starts[k]], reps |-> starts[k + 1] - starts[k]]]

\* A set of numbers in order.
Ascending(set) == IF set = {} THEN <<>>
                  ELSE SelectSeq([k \in 1..Max(set) + 1 |-> k - 1], LAMBDA v : v \in set)
Descending(set) == Reverse(Ascending(set))

-----------------------------------------------------------------------------
(* Decoder: tables indexed by the next bits of the input.  max_length is      *)
(* BROTLI_HUFFMAN_MAX_CODE_LENGTH, 15; an entry has the number of bits to     *)
(* drop and a symbol, or the place of a second table.                        *)

ReverseBitsMax == 8

\* BrotliReverseBits of the decoder.
ReverseBits(n, v) == LET b == ToBits(n, v) IN BitsValue([i \in 1..n |-> b[n + 1 - i]])
ReverseKey(key) == ReverseBits(ReverseBitsMax, key)

\* ReplicateValue: every step-th of the size entries after start.
ReplicateValue(table, start, step, size, code) ==
    [i \in {start + k * step : k \in 0..(size \div step) - 1} |-> code] @@ table

SymbolsOf(lens, n) == Ascending({s \in DOMAIN lens : lens[s] = n})

\* The entries of the symbols of n bits in a table without second level.
FillLength(t, n, symbols, size) ==
    Fold(LAMBDA a, s :
        [table |-> ReplicateValue(a.table, ReverseKey(a.key), 2^n, size, [bits |-> n, value |-> s]),
         key |-> a.key + 2^(ReverseBitsMax - n)], t, symbols)
FillLengths(lens, upto, size) ==
    Fold(LAMBDA a, n : FillLength(a, n, SymbolsOf(lens, n), size),
             [table |-> <<>>, key |-> 0], [n \in 1..upto |-> n])

\* BrotliBuildCodeLengthsHuffmanTable
BuildCodeLengthsHuffmanTable(lens) ==
    IF Cardinality(DOMAIN lens) = 1
    THEN [key \in 0..31 |-> [bits |-> 0, value |-> CHOOSE s \in DOMAIN lens : TRUE]]
    ELSE FillLengths(lens, 5, 32).table

\* NextTableBitSize: the second table is as large as the longest of the words
\* that share its root entry.
NextTableBitSize(count, len, root_bits, max_length) ==
    LET left[n \in len..max_length] ==
            (IF n = len THEN 2^(len - root_bits) ELSE 2 * left[n - 1]) - count[n]
        ends == {n \in len..max_length - 1 : left[n] <= 0}
    IN  (IF ends = {} THEN max_length ELSE Min(ends)) - root_bits

\* BrotliBuildHuffmanTable
BuildHuffmanTable(lens, root_bits, max_length) ==
    LET longest == Max({lens[s] : s \in DOMAIN lens})
        table_bits == Least(root_bits, longest)
        root == FillLengths(lens, table_bits, 2^table_bits)
        full == 2^ReverseBitsMax
        filled == {i \in 0..2^root_bits - 1 : i % 2^table_bits \in DOMAIN root.table}
        start == [table |-> [i \in filled |-> root.table[i % 2^table_bits]],
                  key |-> root.key, base |-> 0, size |-> 2^root_bits, sub_key |-> full,
                  count |-> [n \in 1..max_length |-> Len(SymbolsOf(lens, n))]]
        NewTable(t, len) ==
            LET bits == NextTableBitSize(t.count, len, root_bits, max_length)
                slot == ReverseKey(t.key)
                base == t.base + t.size
            IN  [t EXCEPT !.base = base, !.size = 2^bits, !.sub_key = 0,
                          !.key = @ + 2^(ReverseBitsMax - root_bits),
                          !.table = (slot :> [bits |-> bits + root_bits, value |-> base - slot]) @@ @]
        Put2(t, len, s) ==
            LET u == IF t.sub_key = full THEN NewTable(t, len) ELSE t
                n == len - root_bits
            IN  [u EXCEPT !.sub_key = @ + 2^(ReverseBitsMax - n), !.count[len] = @ - 1,
                          !.table = ReplicateValue(@, u.base + ReverseKey(u.sub_key), 2^n, u.size,
                                                   [bits |-> n, value |-> s])]
    IN  Fold(LAMBDA t, len : Fold(LAMBDA u, s : Put2(u, len, s), t, SymbolsOf(lens, len)),
                 start, [k \in 1..longest - table_bits |-> root_bits + k]).table

\* BrotliBuildSimpleHuffmanTable: shape is the number of symbols less one, 4 for
\* the second shape of four symbols.
BuildSimpleHuffmanTable(val, shape, root_bits) ==
    LET ascending == Ascending({val[i] : i \in DOMAIN val})
        lo(i) == Least(val[i], val[i + 1])
        hi(i) == Most(val[i], val[i + 1])
        Entry(n, s) == [bits |-> n, value |-> s]
        small == CASE shape = 0 -> <<Entry(0, val[1])>>
                   [] shape = 1 -> <<Entry(1, lo(1)), Entry(1, hi(1))>>
                   [] shape = 2 -> <<Entry(1, val[1]), Entry(2, lo(2)),
                                     Entry(1, val[1]), Entry(2, hi(2))>>
                   [] shape = 3 -> [i \in 1..4 |-> Entry(2, ascending[<<1, 3, 2, 4>>[i]])]
                   [] shape = 4 -> LET a == Entry(1, val[1])  b == Entry(2, val[2]) IN
                                   <<a, b, a, Entry(3, lo(3)), a, b, a, Entry(3, hi(3))>>
    IN  [i \in 0..2^root_bits - 1 |-> small[(i % Len(small)) + 1]]

\* DecodeSymbol: the word at the front of the bits and its symbol.
LookUp(table, root_bits, bits) ==
    LET slot == bits % 2^root_bits
        root == table[slot]
        nbits == root.bits - root_bits
        second == table[slot + root.value + ((bits \div 2^root_bits) % 2^nbits)]
    IN  IF root.bits > root_bits THEN [bits |-> root_bits + second.bits, value |-> second.value]
                                 ELSE root

-----------------------------------------------------------------------------
(* Encoder: a code of limited depth.                                         *)

\* SortHuffmanTreeItems: an insertion sort, or a Shell sort from 13 items on.
ShellGaps == <<132, 57, 23, 10, 4, 1>>
SortHuffmanTreeItems(items, Less(_, _)) ==
    LET n == Len(items)
        gaps == CASE n < 13 -> <<1>> [] n \in 13..56 -> SubSeq(ShellGaps, 3, 6) [] OTHER -> ShellGaps
        Insert(s, i, gap) ==
            LET keeps == {j \in 1..i - 1 : (i - j) % gap = 0 /\ ~Less(s[i], s[j])}
                at == IF keeps = {} THEN ((i - 1) % gap) + 1 ELSE Max(keeps) + gap
            IN  [k \in 1..n |-> CASE k = at -> s[i]
                                  [] k > at /\ k <= i /\ (k - at) % gap = 0 -> s[k - gap]
                                  [] OTHER -> s[k]]
        Pass(s, gap) == Fold(LAMBDA t, i : Insert(t, i, gap) \o <<>>, s,
                                 [k \in 1..Most(0, n - gap) |-> gap + k])
    IN  Fold(Pass, items, gaps)

\* Fewer occurrences first; of equals the larger symbol.
RarestFirst(v0, v1) ==
    \/ v0.total_count < v1.total_count
    \/ v0.total_count = v1.total_count /\ v0.value > v1.value
RarestOnly(v0, v1) == v0.total_count < v1.total_count

\* BrotliSetDepth: the depth of each leaf under node p.
RECURSIVE SetDepth(_, _, _)
SetDepth(pool, p, level) ==
    IF pool[p].left < 0 THEN pool[p].value :> level
    ELSE SetDepth(pool, pool[p].left, level + 1) @@ SetDepth(pool, pool[p].value, level + 1)

\* The two rarest nodes become one until one is left: leaves are at 1..n, the
\* parents follow in ascending order.
JoinNodes(leaves) ==
    LET n == Len(leaves)
        Smaller(t) == IF t.i <= n /\ (t.j > Len(t.pool)
                                      \/ t.pool[t.i].total_count <= t.pool[t.j].total_count)
                      THEN [t EXCEPT !.i = @ + 1, !.got = Append(@, t.i)]
                      ELSE [t EXCEPT !.j = @ + 1, !.got = Append(@, t.j)]
        Join(t, k) ==
            LET u == Smaller(Smaller([t EXCEPT !.got = <<>>])) IN
            [u EXCEPT !.pool = Append(@, [total_count |-> u.pool[u.got[1]].total_count
                                                            + u.pool[u.got[2]].total_count,
                                          left |-> u.got[1], value |-> u.got[2]])]
    IN  Fold(Join, [pool |-> leaves, i |-> 1, j |-> n + 1, got |-> <<>>],
                 [k \in 1..n - 1 |-> k]).pool

\* BrotliCreateHuffmanTree: rare symbols are counted as count_limit of them
\* until the tree is not too deep.
RECURSIVE DepthsWithin(_, _, _, _)
DepthsWithin(data, tree_limit, Less(_, _), count_limit) ==
    LET symbols == Descending({s \in DOMAIN data : data[s] # 0})
        leaves == [k \in DOMAIN symbols |->
                     [total_count |-> Most(data[symbols[k]], count_limit),
                      left |-> -1, value |-> symbols[k]]]
        pool == JoinNodes(SortHuffmanTreeItems(leaves, Less))
        depth == SetDepth(pool, Len(pool), 0)
    IN  IF Max({depth[s] : s \in DOMAIN depth}) <= tree_limit THEN depth
        ELSE DepthsWithin(data, tree_limit, Less, 2 * count_limit)

CreateHuffmanTree(data, tree_limit) ==
    LET used == {s \in DOMAIN data : data[s] # 0} IN
    IF Cardinality(used) = 1 THEN [s \in used |-> 1]
    ELSE DepthsWithin(data, tree_limit, RarestFirst, 1)

\* BrotliReverseBits of the encoder, four bits at a time.
ReverseNibbles(num_bits, bits) ==
    LET n == (num_bits + 3) \div 4
        nibble(k) == ReverseBits(4, (bits \div 16^(k - 1)) % 16)
        f[k \in 0..n] == IF k = 0 THEN 0 ELSE 16 * f[k - 1] + nibble(k)
    IN  f[n] \div 2^((-num_bits) % 4)

\* BrotliConvertBitDepthsToSymbols
ConvertBitDepthsToSymbols(depth) ==
    LET Count(n) == Cardinality({s \in DOMAIN depth : depth[s] = n})
        next_code[n \in 1..15] == IF n = 1 THEN 0 ELSE 2 * (next_code[n - 1] + Count(n - 1))
        Rank(s) == Cardinality({t \in DOMAIN depth : depth[t] = depth[s] /\ t < s})
    IN  [s \in DOMAIN depth |->
            ToBits(depth[s], ReverseNibbles(depth[s], next_code[depth[s]] + Rank(s)))]

-----------------------------------------------------------------------------
(* Encoder: histograms whose codes are described in fewer bits.              *)

\* Runs that a repeat code will describe well already.
GoodForRle(counts) ==
    LET runs == Runs(counts)
        Long(r) == r.reps >= (IF r.value = 0 THEN 5 ELSE 7)
    IN  FlattenSeq([k \in DOMAIN runs |-> Fill(runs[k].reps, Long(runs[k]))])

\* The third step of BrotliOptimizeHuffmanCountsForRle: counts that are close
\* to each other become equal.  i counts from 0.
CollapseStrides(counts, good_for_rle) ==
    LET length == Len(counts)
        streak_limit == 1240
        Around(i) == (256 * (counts[i + 1] + counts[i + 2] + counts[i + 3])) \div 3 + 420
        Ends(t, i) == \/ i = length \/ good_for_rle[i + 1] \/ (i # 0 /\ good_for_rle[i])
                      \/ 256 * counts[i + 1] - t.limit + streak_limit
                            \notin 0..2 * streak_limit - 1
        Average(t) == IF t.sum = 0 THEN 0
                      ELSE Most(1, (t.sum + t.stride \div 2) \div t.stride)
        Collapse(t, i) ==
            [t EXCEPT !.stride = 0, !.sum = 0,
                !.counts = IF t.stride >= 4 \/ (t.stride >= 3 /\ t.sum = 0)
                           THEN SubSeq(@, 1, i - t.stride) \o Fill(t.stride, Average(t))
                                    \o SubSeq(@, i + 1, length)
                           ELSE @,
                !.limit = IF i < length - 2 THEN Around(i)
                          ELSE IF i < length THEN 256 * counts[i + 1] ELSE 0]
        Count(t, i) ==
            LET stride == t.stride + 1
                sum == t.sum + counts[i + 1]
                mean == IF stride >= 4 THEN (256 * sum + stride \div 2) \div stride ELSE t.limit
            IN  [t EXCEPT !.stride = stride, !.sum = sum,
                          !.limit = IF stride = 4 THEN mean + 120 ELSE mean]
        Step(t, i) == LET u == IF Ends(t, i) THEN Collapse(t, i) ELSE t IN
                      IF i = length THEN u ELSE Count(u, i)
    IN  Fold(Step, [counts |-> counts, stride |-> 0, sum |-> 0, limit |-> Around(0)],
                 [k \in 1..length + 1 |-> k - 1]).counts

\* BrotliOptimizeHuffmanCountsForRle
OptimizeHuffmanCountsForRle(histogram) ==
    LET used == {k \in DOMAIN histogram : histogram[k] # 0}
        length == IF used = {} THEN 0 ELSE Max(used)
        counts == SubSeq(histogram, 1, length)
        nonzeros == Cardinality(used)
        smallest_nonzero == Min({histogram[k] : k \in used})
        filled == IF smallest_nonzero < 4 /\ length - nonzeros < 6
                  THEN [k \in 1..length |->
                          IF k \in 2..length - 1 /\ counts[k] = 0 /\ counts[k - 1] # 0
                                /\ counts[k + 1] # 0 THEN 1 ELSE counts[k]]
                  ELSE counts
        trail == SubSeq(histogram, length + 1, Len(histogram))
    IN  CASE nonzeros < 16 -> histogram
          [] nonzeros \in 16..27 -> filled \o trail
          [] OTHER -> CollapseStrides(filled, GoodForRle(filled)) \o trail

-----------------------------------------------------------------------------
(* Encoder: the description of a code.  A sequence of depths becomes items    *)
(* of the code length alphabet, 16 and 17 of which repeat a length or zero.   *)

RECURSIVE RepeatDigits(_, _)
RepeatDigits(n, base) ==
    IF n < base THEN <<n>> ELSE RepeatDigits(n \div base - 1, base) \o <<n % base>>

Item(code, extra) == [code |-> code, extra |-> extra]

\* BrotliWriteHuffmanTreeRepetitions
WriteRepetitions(previous_value, value, repetitions) ==
    LET first == IF previous_value # value THEN 1 ELSE 0
        more == IF repetitions - first = 7 THEN first + 1 ELSE first
        rest == repetitions - more
        digits == RepeatDigits(rest - 3, 4)
    IN  IF rest < 3 THEN Fill(repetitions, Item(value, 0))
        ELSE Fill(more, Item(value, 0)) \o [k \in DOMAIN digits |-> Item(16, digits[k])]

\* BrotliWriteHuffmanTreeRepetitionsZeros
WriteRepetitionsZeros(repetitions) ==
    LET more == IF repetitions = 11 THEN 1 ELSE 0
        digits == RepeatDigits(repetitions - more - 3, 8)
    IN  IF repetitions < 3 THEN Fill(repetitions, Item(0, 0))
        ELSE Fill(more, Item(0, 0)) \o [k \in DOMAIN digits |-> Item(17, digits[k])]

\* DecideOverRleUse: are the runs of the set of values worth a repeat code?
DecideOverRleUse(runs, Long(_)) ==
    LET long == SelectSeq(runs, Long)
        total == Fold(LAMBDA n, r : n + r.reps, 0, long)
    IN  total > 2 * (Len(long) + 1)

\* BrotliWriteHuffmanTree
WriteHuffmanTree(depth) ==
    LET length == Len(depth)
        used == {k \in 1..length : depth[k] # 0}
        runs == Runs(SubSeq(depth, 1, IF used = {} THEN 0 ELSE Max(used)))
        zero == length > 50 /\ DecideOverRleUse(runs, LAMBDA r : r.value = 0 /\ r.reps >= 3)
        nonzero == length > 50 /\ DecideOverRleUse(runs, LAMBDA r : r.value # 0 /\ r.reps >= 4)
        Write(t, r) ==
            IF r.value = 0
            THEN [t EXCEPT !.items = @ \o (IF zero THEN WriteRepetitionsZeros(r.reps)
                                           ELSE Fill(r.reps, Item(0, 0)))]
            ELSE [items |-> t.items \o (IF nonzero THEN WriteRepetitions(t.previous, r.value, r.reps)
                                        ELSE Fill(r.reps, Item(r.value, 0))),
                  previous |-> r.value]
    IN  Fold(Write, [items |-> <<>>, previous |-> 8], runs).items

\* BrotliStoreHuffmanTreeOfHuffmanTreeToBitMask
StorageOrder == <<1, 2, 3, 4, 0, 5, 17, 6, 16, 7, 8, 9, 10, 11, 12, 13, 14, 15>>
StoreHuffmanTreeOfHuffmanTree(num_codes, bitdepth) ==
    LET at(i) == IF StorageOrder[i] \in DOMAIN bitdepth THEN bitdepth[StorageOrder[i]] ELSE 0
        used == {i \in 1..18 : at(i) # 0}
        codes_to_store == IF num_codes > 1 THEN Max(used) ELSE 18
        skip_some == CASE at(1) # 0 \/ at(2) # 0 -> 0
                       [] at(1) = 0 /\ at(2) = 0 /\ at(3) # 0 -> 2
                       [] OTHER -> 3
        Symbols == <<0, 7, 3, 2, 1, 15>>
        BitLengths == <<2, 4, 3, 2, 2, 4>>
    IN  ToBits(2, skip_some)
          \o FlattenSeq([k \in 1..codes_to_store - skip_some |->
                LET l == at(skip_some + k) IN ToBits(BitLengths[l + 1], Symbols[l + 1])])

\* BrotliStoreHuffmanTreeToBitMask
ExtraBits(code) == CASE code = 16 -> 2 [] code = 17 -> 3 [] OTHER -> 0
StoreHuffmanTreeToBitMask(items, words) ==
    FlattenSeq([k \in DOMAIN items |->
        words[items[k].code] \o ToBits(ExtraBits(items[k].code), items[k].extra)])

\* BrotliStoreHuffmanTree; num is the number of depths it is given.
StoreHuffmanTree(depth, num) ==
    LET items == WriteHuffmanTree([k \in 1..num |-> IF k - 1 \in DOMAIN depth THEN depth[k - 1] ELSE 0])
        codes == {items[k].code : k \in DOMAIN items}
        histogram == [c \in codes |-> Cardinality({k \in DOMAIN items : items[k].code = c})]
        bitdepth == CreateHuffmanTree(histogram, 5)
    IN  StoreHuffmanTreeOfHuffmanTree(Cardinality(codes), bitdepth)
          \o StoreHuffmanTreeToBitMask(items,
                IF Cardinality(codes) = 1 THEN [c \in codes |-> <<>>]
                ELSE ConvertBitDepthsToSymbols(bitdepth))

\* StoreSimpleHuffmanTree: the symbols sorted by their depths.
StoreSimpleHuffmanTree(depths, symbols, max_bits) ==
    LET n == Len(symbols)
        SwapPair(s, p) == IF depths[s[p[2]]] < depths[s[p[1]]]
                          THEN [s EXCEPT ![p[1]] = s[p[2]], ![p[2]] = s[p[1]]] ELSE s
        pairs == SelectSeq(<<<<1, 2>>, <<1, 3>>, <<1, 4>>, <<2, 3>>, <<2, 4>>, <<3, 4>>>>,
                           LAMBDA p : p[2] <= n)
        sorted == Fold(SwapPair, symbols, pairs)
    IN  ToBits(2, 1) \o ToBits(2, n - 1)
          \o FlattenSeq([k \in 1..n |-> ToBits(max_bits, sorted[k])])
          \o (IF n = 4 THEN <<IF depths[sorted[1]] = 1 THEN 1 ELSE 0>> ELSE <<>>)

UsedSymbols(histogram) == Ascending({s \in DOMAIN histogram : histogram[s] # 0})

\* A code of at most one symbol.
StoreOneSymbol(used, max_bits) ==
    LET s == IF used = <<>> THEN 0 ELSE used[1] IN
    [bits |-> ToBits(4, 1) \o ToBits(max_bits, s), code |-> s :> <<>>]

\* BuildAndStoreHuffmanTree: the code and its description.
BuildAndStoreHuffmanTree(histogram, histogram_length, alphabet_size) ==
    LET used == UsedSymbols(histogram)
        max_bits == BitWidth(alphabet_size - 1)
        depth == CreateHuffmanTree(histogram, 15)
    IN  IF Len(used) <= 1 THEN StoreOneSymbol(used, max_bits)
        ELSE [bits |-> IF Len(used) <= 4 THEN StoreSimpleHuffmanTree(depth, used, max_bits)
                       ELSE StoreHuffmanTree(depth, histogram_length),
              code |-> ConvertBitDepthsToSymbols(depth)]

-----------------------------------------------------------------------------
(* Encoder: the static codes of the faster qualities.                        *)

\* kCodeLengthDepth: the static code of the code length alphabet.
CodeLengthDepth == [c \in 0..17 \ {15} |-> IF c \in {13, 14} THEN 5 ELSE 4]
CodeLengthWord == ConvertBitDepthsToSymbols(CodeLengthDepth)
StoreStaticCodeLengthCode == StoreHuffmanTreeOfHuffmanTree(18, CodeLengthDepth)

\* kZeroRepsBits and kNonZeroRepsBits: runs in the words of that code.
ZeroReps(reps) == StoreHuffmanTreeToBitMask(WriteRepetitionsZeros(reps), CodeLengthWord)
NonZeroReps(reps) ==
    LET digits == RepeatDigits(reps - 3, 4) IN
    StoreHuffmanTreeToBitMask([k \in DOMAIN digits |-> Item(16, digits[k])], CodeLengthWord)

\* The description of the complex code in BrotliBuildAndStoreHuffmanTreeFast.
StoreHuffmanTreeFast(depth, length) ==
    LET runs == Runs([k \in 1..length |-> IF k - 1 \in DOMAIN depth THEN depth[k - 1] ELSE 0])
        Store(t, r) ==
            LET new == IF t.previous # r.value THEN 1 ELSE 0
                rest == r.reps - new
            IN  IF r.value = 0 THEN [t EXCEPT !.bits = @ \o ZeroReps(r.reps)]
                ELSE [bits |-> t.bits
                        \o FlattenSeq(Fill(IF rest < 3 THEN r.reps ELSE new, CodeLengthWord[r.value]))
                        \o (IF rest < 3 THEN <<>> ELSE NonZeroReps(rest)),
                      previous |-> r.value]
    IN  StoreStaticCodeLengthCode \o Fold(Store, [bits |-> <<>>, previous |-> 8], runs).bits

\* BrotliBuildAndStoreHuffmanTreeFast
BuildAndStoreHuffmanTreeFast(histogram, max_bits) ==
    LET used == UsedSymbols(histogram)
        depth == DepthsWithin(histogram, 14, RarestOnly, 1)
    IN  IF Len(used) <= 1 THEN StoreOneSymbol(used, max_bits)
        ELSE [bits |-> IF Len(used) <= 4 THEN StoreSimpleHuffmanTree(depth, used, max_bits)
                       ELSE StoreHuffmanTreeFast(depth, Last(used) + 1),
              code |-> ConvertBitDepthsToSymbols(depth)]

\* kStaticCommandCodeDepth and -Bits: 448 words of 9 bits, 256 of 11.
StaticCommandWord(s) == IF s < 448 THEN ToBits(9, ReverseBits(9, s))
                                   ELSE ToBits(11, ReverseBits(11, 4 * 448 + s - 448))
StoreStaticCommandHuffmanTree ==
    ToBits(16, \h7003) \o ToBits(16, \h1630) \o ToBits(16, \h6244) \o ToBits(8, \h92) \o Zeros(3)

\* kStaticDistanceCodeDepth and -Bits: 64 words of 6 bits.
StaticDistanceWord(s) == ToBits(6, ReverseBits(6, s))
StoreStaticDistanceHuffmanTree == ToBits(28, \h0369DC03)
=============================================================================
