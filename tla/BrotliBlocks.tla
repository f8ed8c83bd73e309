---------------------------- MODULE BrotliBlocks ----------------------------
(* How the encoder of libbrotli divides a metablock into blocks and contexts: *)
(* c/enc/block_splitter.c and metablock.c with their templates.              *)
(*                                                                           *)
(* The sizes at which the source starts to split are divided by Fine, so that *)
(* small metablocks have several blocks; Fine is 1 in the program.            *)
EXTENDS BrotliCluster

CONSTANT Fine

ASSUME FineAssumption == Fine \in Nat \ {0}

Scaled(size) == Most(1, size \div Fine)
MaxBlockTypes == 256

-----------------------------------------------------------------------------
(* The symbols of a metablock, in order.                                     *)

\* Each literal with the two bytes before it.
LiteralsOf(input, start_pos, mask, prev_byte, prev_byte2, commands) ==
    LET starts == CommandStarts(commands, start_pos)
        Before(pos, k) == CASE pos - k >= start_pos -> ByteAt(input, pos - k, mask)
                            [] pos - k = start_pos - 1 -> prev_byte
                            [] OTHER -> prev_byte2
        Literal(pos) == [byte |-> ByteAt(input, pos, mask),
                         p1 |-> Before(pos, 1), p2 |-> Before(pos, 2)]
    IN  FlattenSeq([c \in DOMAIN commands |->
                      [k \in 1..commands[c].insert_len |-> Literal(starts[c] + k - 1)]])

PrefixesOf(commands) == [k \in DOMAIN commands |-> commands[k].cmd_prefix]
DistancesOf(commands) == SelectSeq(commands, HasDistance)
DistancePrefixesOf(commands) ==
    LET far == DistancesOf(commands) IN [k \in DOMAIN far |-> far[k].dist_prefix]

\* BlockSplitIterator: the block type of the k-th symbol.
TypeOf(split, k) ==
    IF split.lengths = <<>> THEN 0
    ELSE LET ends[b \in DOMAIN split.lengths] ==
                 split.lengths[b] + (IF b = 1 THEN 0 ELSE ends[b - 1])
         IN  split.types[Min({b \in DOMAIN split.lengths : ends[b] >= k})]

\* BrotliBuildHistogramsWithContext: a histogram for each type, or for each
\* type and context.
HistogramsOf(symbols, n) ==
    [i \in 1..n |-> HistogramOf(LET mine == SelectSeq(symbols, LAMBDA s : s.index = i - 1)
                                IN  [k \in DOMAIN mine |-> mine[k].symbol])]
BuildHistogramsWithContext(literals, commands, literal_split, command_split, distance_split, use_contexts, mode) ==
    LET far == DistancesOf(commands)
        Context(k) == IF ~use_contexts THEN TypeOf(literal_split, k)
                      ELSE 64 * TypeOf(literal_split, k)
                             + LiteralContext(mode, literals[k].p1, literals[k].p2)
    IN  [lit |-> HistogramsOf([k \in DOMAIN literals |->
                    [index |-> Context(k), symbol |-> literals[k].byte]],
                    literal_split.num_types * (IF use_contexts THEN 64 ELSE 1)),
         cmd |-> HistogramsOf([k \in DOMAIN commands |->
                    [index |-> TypeOf(command_split, k), symbol |-> commands[k].cmd_prefix]],
                    command_split.num_types),
         dist |-> HistogramsOf([k \in DOMAIN far |->
                    [index |-> 4 * TypeOf(distance_split, k) + CommandDistanceContext(far[k]),
                     symbol |-> far[k].dist_prefix]], 4 * distance_split.num_types)]

-----------------------------------------------------------------------------
(* The greedy splitter, of one category.  histograms has those of each block  *)
(* type, one per context; last is the pair of the last two types.            *)

\* InitContextBlockSplitter, and InitBlockSplitter with one context.
InitContextBlockSplitter(num_contexts, min_block_size, split_threshold) ==
    [num_contexts |-> num_contexts, min |-> min_block_size, threshold |-> split_threshold,
     types |-> <<>>, lengths |-> <<>>, num_types |-> 0, histograms |-> <<>>,
     current |-> Fill(num_contexts, <<>>), last |-> <<0, 0>>, last_entropy |-> <<<<>>, <<>>>>,
     target |-> min_block_size, size |-> 0, merges |-> 0]
InitBlockSplitter(min_block_size, split_threshold) ==
    InitContextBlockSplitter(1, min_block_size, split_threshold)

Cleared(s) == [s EXCEPT !.current = Fill(s.num_contexts, <<>>), !.size = 0]
Restarted(s) == [Cleared(s) EXCEPT !.merges = 0, !.target = s.min]
Entropies(histograms) == [k \in DOMAIN histograms |-> BitsEntropy(histograms[k])]

FirstBlock(s) ==
    Cleared([s EXCEPT !.types = <<0>>, !.lengths = <<s.size>>, !.num_types = 1,
                      !.histograms = <<s.current>>,
                      !.last_entropy = <<Entropies(s.current), Entropies(s.current)>>])
NewBlock(s) ==
    Restarted([s EXCEPT !.types = Append(@, s.num_types), !.lengths = Append(@, s.size),
                        !.num_types = @ + 1, !.histograms = Append(@, s.current),
                        !.last = <<s.num_types, @[1]>>,
                        !.last_entropy = <<Entropies(s.current), @[1]>>])
JoinSecondLast(s, combined) ==
    Restarted([s EXCEPT !.types = Append(@, s.types[Len(s.types) - 1]), !.lengths = Append(@, s.size),
                        !.histograms[s.last[2] + 1] = combined, !.last = <<@[2], @[1]>>,
                        !.last_entropy = <<Entropies(combined), @[1]>>])
JoinLast(s, combined) ==
    Cleared([s EXCEPT !.lengths[Len(s.lengths)] = @ + s.size,
                      !.histograms[s.last[1] + 1] = combined,
                      !.last_entropy = <<Entropies(combined),
                                         IF s.num_types = 1 THEN Entropies(combined) ELSE @[2]>>,
                      !.merges = @ + 1,
                      !.target = IF s.merges >= 1 THEN @ + s.min ELSE @])

\* BlockSplitterFinishBlock: a block is at least as long as min, whatever has
\* been collected.
FinishBlock(self) ==
    LET s == [self EXCEPT !.size = Most(@, self.min)]
        Combined(j) == [k \in 1..s.num_contexts |->
                          HistogramAddHistogram(s.current[k], s.histograms[s.last[j] + 1][k])]
        Diff(j) == LET e == Entropies(Combined(j))  f == Entropies(s.current) IN
                   SumOf([k \in 1..s.num_contexts |-> e[k] - f[k] - s.last_entropy[j][k]])
    IN  CASE s.types = <<>> -> FirstBlock(s)
          [] s.types # <<>> /\ s.num_types < MaxBlockTypes \div s.num_contexts
                /\ Diff(1) > s.threshold /\ Diff(2) > s.threshold -> NewBlock(s)
          [] OTHER -> IF Diff(2) < Diff(1) - Scaled(20 * Bit) THEN JoinSecondLast(s, Combined(2))
                                                     ELSE JoinLast(s, Combined(1))

\* BlockSplitterAddSymbol
AddSymbol(s, symbol, context) ==
    LET t == [s EXCEPT !.current[context + 1] = HistogramAdd(@, symbol), !.size = @ + 1] IN
    IF t.size = t.target THEN FinishBlock(t) ELSE t

SplitOf(s) == [num_types |-> s.num_types, types |-> s.types, lengths |-> s.lengths]

\* MapStaticContexts
MapStaticContexts(num_types, num_contexts, static_context_map) ==
    [k \in 1..64 * num_types |->
        num_contexts * ((k - 1) \div 64) + static_context_map[((k - 1) % 64) + 1]]

\* BrotliBuildMetaBlockGreedy
BuildMetaBlockGreedy(input, pos, mask, prev_byte, prev_byte2, mode, num_contexts, static_context_map, commands) ==
    LET literals == LiteralsOf(input, pos, mask, prev_byte, prev_byte2, commands)
        Context(l) == IF num_contexts = 1 THEN 0
                      ELSE static_context_map[LiteralContext(mode, l.p1, l.p2) + 1]
        Split(start, symbols) ==
            FinishBlock(Fold(LAMBDA s, x : AddSymbol(s, x, 0), start, symbols))
        lit == FinishBlock(Fold(LAMBDA s, l : AddSymbol(s, l.byte, Context(l)),
                   InitContextBlockSplitter(num_contexts, Scaled(512), Scaled(400 * Bit)), literals))
        cmd == Split(InitBlockSplitter(Scaled(1024), Scaled(500 * Bit)), PrefixesOf(commands))
        far == Split(InitBlockSplitter(Scaled(512), Scaled(100 * Bit)), DistancePrefixesOf(commands))
    IN  [literal_split |-> SplitOf(lit), command_split |-> SplitOf(cmd),
         distance_split |-> SplitOf(far),
         literal_context_map |-> IF num_contexts = 1 THEN <<>>
                                 ELSE MapStaticContexts(lit.num_types, num_contexts, static_context_map),
         distance_context_map |-> <<>>,
         literal_histograms |-> FlattenSeq(lit.histograms),
         command_histograms |-> FlattenSeq(cmd.histograms),
         distance_histograms |-> FlattenSeq(far.histograms)]

-----------------------------------------------------------------------------
(* The splitter of the highest qualities.                                    *)

\* MyRand: a product of 32 bits, whose halves are kept.
MyRand(seed) ==
    LET low == 16807 * seed.low IN
    [low |-> low % 2^16, high |-> (16807 * seed.high + low \div 2^16) % 2^16]
FirstSeed == [low |-> 7, high |-> 0]
Modulo(seed, n) == ((seed.high % n) * (2^16 % n) + seed.low) % n

HistogramAddVector(h, data, pos, stride) ==
    HistogramAddHistogram(h, HistogramOf(SubSeq(data, pos + 1, pos + stride)))

\* InitialEntropyCodes: one sample of each part of the data.
InitialEntropyCodes(data, stride, num_histograms) ==
    LET length == Len(data)
        seeds[i \in 0..num_histograms - 1] == IF i = 0 THEN FirstSeed ELSE MyRand(seeds[i - 1])
        pos(i) == (length * i) \div num_histograms
                    + (IF i = 0 THEN 0 ELSE Modulo(seeds[i], length \div num_histograms))
    IN  [k \in 1..num_histograms |->
            HistogramAddVector(<<>>, data, IF pos(k - 1) + stride >= length THEN length - stride - 1
                                           ELSE pos(k - 1), stride)]

\* RefineEntropyCodes, with RandomSample: samples of all the data are added.
RefineEntropyCodes(data, stride, histograms) ==
    LET length == Len(data)
        n == Len(histograms)
        wanted == (2 * length) \div stride + Scaled(100)
        iters == ((wanted + n - 1) \div n) * n
        Step(t, iter) ==
            LET seed == IF stride >= length THEN t.seed ELSE MyRand(t.seed)
                pos == IF stride >= length THEN 0 ELSE Modulo(seed, length - stride + 1)
            IN  [seed |-> seed,
                 out |-> [t.out EXCEPT ![(iter % n) + 1] =
                            HistogramAddVector(@, data, pos, Least(stride, length))]]
    IN  Fold(Step, [seed |-> FirstSeed, out |-> histograms], [k \in 1..iters |-> k - 1]).out

\* FindBlocks: the cheapest histogram for each symbol, where a switch has a
\* cost.  cost has the difference to the cheapest way to the present symbol.
SwitchCost(cost, ix) == IF ix >= 2000 THEN cost ELSE (cost * (7700 + (35 * ix) \div 100)) \div 10000
FindBlocks(data, block_switch_bitcost, histograms) ==
    LET n == Len(histograms)
        totals == [k \in 1..n |-> FastLog2(SumOf(histograms[k]))]
        BitCost(count) == IF count = 0 THEN -2 * Bit ELSE FastLog2(count)
        Step(t, ix) ==
            LET cost == [k \in 1..n |-> t.cost[k] + totals[k] - BitCost(At(histograms[k], data[ix]))]
                best == CHOOSE k \in 1..n : /\ \A j \in 1..n : cost[k] <= cost[j]
                                            /\ \A j \in 1..k - 1 : cost[k] < cost[j]
                switch == SwitchCost(block_switch_bitcost, ix - 1)
            IN  [cost |-> [k \in 1..n |-> Least(cost[k] - cost[best], switch)] \o <<>>,
                 id |-> Append(t.id, best - 1),
                 signal |-> Append(t.signal, {k - 1 : k \in {j \in 1..n : cost[j] - cost[best] >= switch}})]
        found == Fold(Step, [cost |-> Fill(n, 0), id |-> <<>>, signal |-> <<>>],
                      [k \in DOMAIN data |-> k])
        Back(ids, ix) == <<IF ids[1] \in found.signal[ix] THEN found.id[ix] ELSE ids[1]>> \o ids
    IN  IF n <= 1 THEN Fill(Len(data), 0)
        ELSE Fold(Back, <<Last(found.id)>>, [k \in 1..Len(data) - 1 |-> Len(data) - k])

\* RemapBlockIds
RemapBlockIds(ids) ==
    LET seen == FirstOccurrences(ids) IN [k \in DOMAIN ids |-> NewIndex(seen, ids[k])]

\* BuildBlockHistograms
BuildBlockHistograms(data, ids) ==
    HistogramsOf([k \in DOMAIN data |-> [index |-> ids[k], symbol |-> data[k]]], Max(Range(ids)) + 1)

\* ClusterBlocks: the blocks of each batch, and then all, are combined.
HistogramsPerBatch == 64
ClusterBlocks(data, ids) ==
    LET runs == Runs(ids)
        num_blocks == Len(runs)
        ends[b \in 0..num_blocks] == IF b = 0 THEN 0 ELSE ends[b - 1] + runs[b].reps
        histograms == [b \in 1..num_blocks |-> HistogramOf(SubSeq(data, ends[b - 1] + 1, ends[b]))]
        empty == [out |-> <<>>, cost |-> <<>>, size |-> <<>>, symbols |-> <<>>, clusters |-> <<>>,
                  pairs |-> <<>>]
        Batch(t, b) ==
            LET n == Least(num_blocks - b, HistogramsPerBatch)
                c == HistogramCombine(
                       [out |-> [k \in 0..n - 1 |-> histograms[b + k + 1]],
                        cost |-> [k \in 0..n - 1 |-> PopulationCost(histograms[b + k + 1])],
                        size |-> [k \in 0..n - 1 |-> 1], symbols |-> [k \in 1..n |-> k - 1],
                        clusters |-> [k \in 1..n |-> k - 1], pairs |-> <<>>],
                       HistogramsPerBatch, (HistogramsPerBatch * HistogramsPerBatch) \div 2)
                base == Cardinality(DOMAIN t.out)
                Joined(old, new) == [i \in 0..base + Len(c.clusters) - 1 |->
                                       IF i < base THEN old[i] ELSE new[c.clusters[i - base + 1]]]
            IN  [t EXCEPT !.out = Joined(@, c.out), !.cost = Joined(@, c.cost),
                          !.size = Joined(@, c.size),
                          !.symbols = @ \o [k \in 1..n |-> base + NewIndex(c.clusters, c.symbols[k])]]
        batched == Fold(Batch, empty,
                        [b \in 1..(num_blocks + HistogramsPerBatch - 1) \div HistogramsPerBatch |->
                            (b - 1) * HistogramsPerBatch])
        n == Cardinality(DOMAIN batched.out)
        final == HistogramCombine([batched EXCEPT !.clusters = [k \in 1..n |-> k - 1]],
                                  MaxBlockTypes, NumPairs(n))
        best == Fold(LAMBDA s, h : Append(s, BestCluster(final, h, IF s = <<>> THEN final.symbols[1]
                                                                  ELSE Last(s))), <<>>, histograms)
        types == RemapBlockIds(best)
        merged == Runs(FlattenSeq([b \in 1..num_blocks |-> Fill(runs[b].reps, types[b])]))
    IN  [num_types |-> Max(Range(types)) + 1,
         types |-> [b \in DOMAIN merged |-> merged[b].value],
         lengths |-> [b \in DOMAIN merged |-> merged[b].reps]]

\* SplitByteVector
SplitByteVector(data, symbols_per_histogram, max_histograms, stride, block_switch_cost, quality) ==
    LET length == Len(data)
        n == Least(length \div symbols_per_histogram + 1, max_histograms)
        codes == RefineEntropyCodes(data, stride, InitialEntropyCodes(data, stride, n))
        Pass(t, i) == LET ids == RemapBlockIds(FindBlocks(data, block_switch_cost, t.histograms)) IN
                      [ids |-> ids, histograms |-> BuildBlockHistograms(data, ids)]
        found == Fold(Pass, [ids |-> <<>>, histograms |-> codes],
                      [k \in 1..IF quality < 11 THEN 3 ELSE 10 |-> k])
    IN  CASE length = 0 -> [num_types |-> 1, types |-> <<>>, lengths |-> <<>>]
          [] length \in 1..Scaled(128) - 1 -> [num_types |-> 1, types |-> <<0>>, lengths |-> <<length>>]
          [] OTHER -> ClusterBlocks(data, found.ids)

\* BrotliSplitBlock
SplitBlock(literals, commands, quality) ==
    [lit |-> SplitByteVector([k \in DOMAIN literals |-> literals[k].byte], Scaled(544), 100,
                             Scaled(70), (281 * Bit) \div 10, quality),
     cmd |-> SplitByteVector(PrefixesOf(commands), Scaled(530), 50, Scaled(40),
                             (135 * Bit) \div 10, quality),
     dist |-> SplitByteVector(DistancePrefixesOf(commands), Scaled(544), 50, Scaled(40),
                              (146 * Bit) \div 10, quality)]

-----------------------------------------------------------------------------
(* The parameters of the distances, and the metablocks of these qualities.   *)

\* BrotliInitDistanceParams
InitDistanceParams(npostfix, ndirect, large_window) ==
    LET limit == DistanceCodeLimit(MaxAllowedDistance, npostfix, ndirect)
        max_bits == IF large_window THEN 62 ELSE 24
        alphabet_size_max == DistanceAlphabetSize(npostfix, ndirect, max_bits)
    IN  [postfix |-> npostfix, ndirect |-> ndirect, alphabet_size_max |-> alphabet_size_max,
         alphabet_size_limit |-> IF large_window THEN limit.alphabet ELSE alphabet_size_max,
         max_distance |-> IF large_window THEN limit.distance
                          ELSE ndirect + 2^(24 + npostfix + 2) - 2^(npostfix + 2)]

SameParams(a, b) == a.postfix = b.postfix /\ a.ndirect = b.ndirect
Reencoded(cmd, orig, new) ==
    PrefixEncodeCopyDistance(CommandRestoreDistanceCode(cmd, orig), new.ndirect, new.postfix)

\* RecomputeDistancePrefixes
RecomputeDistancePrefixes(commands, orig, new) ==
    LET Again(cmd) ==
            LET p == Reencoded(cmd, orig, new) IN
            [cmd EXCEPT !.dist_prefix = p.symbol, !.dist_nbits = p.nbits, !.dist_extra = p.extra]
    IN  IF SameParams(orig, new) THEN commands
        ELSE [k \in DOMAIN commands |-> IF HasDistance(commands[k]) THEN Again(commands[k])
                                        ELSE commands[k]]

\* ComputeDistanceCost: none, if a distance is out of the range of new.
TooFar == -1
ComputeDistanceCost(commands, orig, new) ==
    LET far == DistancesOf(commands)
        codes == [k \in DOMAIN far |->
                    IF SameParams(orig, new)
                    THEN [symbol |-> far[k].dist_prefix, nbits |-> far[k].dist_nbits]
                    ELSE Reencoded(far[k], orig, new)]
    IN  IF /\ ~SameParams(orig, new)
           /\ \E k \in DOMAIN far : CommandRestoreDistanceCode(far[k], orig) > new.max_distance
        THEN TooFar
        ELSE PopulationCost(HistogramOf([k \in DOMAIN far |-> codes[k].symbol]))
               + Bit * SumOf([k \in DOMAIN far |-> codes[k].nbits])

\* The search of BrotliBuildMetaBlock for the cheapest parameters.
RECURSIVE SearchParams(_, _, _, _, _, _)
SearchParams(commands, orig, large_window, t, npostfix, ndirect_msb) ==
    LET new == InitDistanceParams(npostfix, ndirect_msb * 2^npostfix, large_window)
        cost == ComputeDistanceCost(commands, orig, new)
        u == [t EXCEPT !.check_orig = @ /\ ~SameParams(new, orig)]
        stop == cost = TooFar \/ cost > t.cost
        next == Most(0, ndirect_msb - 1) \div 2
    IN  CASE npostfix > 3 -> t
          [] npostfix <= 3 /\ ndirect_msb = 16 ->
                SearchParams(commands, orig, large_window, t, npostfix + 1, 7)
          [] npostfix <= 3 /\ ndirect_msb < 16 /\ stop ->
                SearchParams(commands, orig, large_window, u, npostfix + 1, next)
          [] OTHER -> SearchParams(commands, orig, large_window,
                                   [u EXCEPT !.cost = cost, !.dist = new], npostfix, ndirect_msb + 1)
ChooseDistance(commands, orig, large_window) ==
    LET best == SearchParams(commands, orig, large_window,
                             [cost |-> 2^30, dist |-> orig, check_orig |-> TRUE], 0, 0)
    IN  IF best.check_orig /\ ComputeDistanceCost(commands, orig, orig) < best.cost THEN orig
        ELSE best.dist

\* BrotliBuildMetaBlock: the split, with the commands and the parameters that
\* belong to it.
BuildMetaBlock(input, pos, mask, prev_byte, prev_byte2, mode, cmds, dist, large_window, quality, use_contexts) ==
    LET new == ChooseDistance(cmds, dist, large_window)
        commands == RecomputeDistancePrefixes(cmds, dist, new)
        literals == LiteralsOf(input, pos, mask, prev_byte, prev_byte2, commands)
        split == SplitBlock(literals, commands, quality)
        h == BuildHistogramsWithContext(literals, commands, split.lit, split.cmd, split.dist,
                                        use_contexts, mode)
        lit == ClusterHistograms(h.lit, 256)
        far == ClusterHistograms(h.dist, 256)
    IN  [commands |-> commands, dist |-> new,
         mb |-> [literal_split |-> split.lit, command_split |-> split.cmd,
                 distance_split |-> split.dist,
                 literal_context_map |->
                    IF use_contexts THEN lit.map
                    ELSE [k \in 1..64 * split.lit.num_types |-> lit.map[((k - 1) \div 64) + 1]],
                 distance_context_map |-> far.map, literal_histograms |-> lit.histograms,
                 command_histograms |-> h.cmd, distance_histograms |-> far.histograms]]

\* BrotliOptimizeHistograms
OptimizeHistogram(h, size) ==
    LET counts == OptimizeHuffmanCountsForRle([k \in 1..size |-> At(h, k - 1)]) IN
    [s \in {k - 1 : k \in {j \in 1..size : counts[j] # 0}} |-> counts[s + 1]]
OptimizeHistograms(num_distance_codes, mb) ==
    LET All(histograms, size) == [k \in DOMAIN histograms |-> OptimizeHistogram(histograms[k], size)]
    IN  [mb EXCEPT !.literal_histograms = All(@, 256), !.command_histograms = All(@, 704),
                   !.distance_histograms = All(@, num_distance_codes)]
=============================================================================
