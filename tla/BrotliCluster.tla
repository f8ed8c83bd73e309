---------------------------- MODULE BrotliCluster ----------------------------
(* Histograms of the encoder of libbrotli, what their codes will cost, and    *)
(* how similar ones are combined: c/enc/histogram.c, bit_cost.c, cluster.c,   *)
(* fast_log.h and their templates.                                           *)
(*                                                                           *)
(* A histogram is a function of the symbols that occur.  Costs are integers   *)
(* in units of 1/1024 bit where the source has doubles: what they decide is   *)
(* the same up to rounding.                                                  *)
EXTENDS BrotliBitStream


Bit == 1024

-----------------------------------------------------------------------------
(* Costs.                                                                    *)

\* The square of the mantissa, a number between 1 and 2 in units of 2^-14, gives
\* the next bit of the fraction, ten times.
Log2(v) ==
    LET lg == Log2Floor(v)
        Square(t, k) == LET s == (t.x * t.x) \div 2^14 IN
                        [log |-> 2 * t.log + s \div 2^15, x |-> IF s >= 2^15 THEN s \div 2 ELSE s]
        mantissa == IF lg <= 14 THEN v * 2^(14 - lg) ELSE v \div 2^(lg - 14)
    IN  IF v = 0 THEN 0
        ELSE Fold(Square, [log |-> lg, x |-> mantissa], [k \in 1..10 |-> k]).log

\* kBrotliLog2Table and FastLog2
Log2Table == [v \in 0..255 |-> Log2(v)]
FastLog2(v) == IF v < 256 THEN Log2Table[v] ELSE Log2(v)

At(h, s) == IF s \in DOMAIN h THEN h[s] ELSE 0
SumOf(h) == Fold(LAMBDA t, s : t + h[s], 0, Ascending(DOMAIN h))
HistogramAddHistogram(h, v) == [s \in DOMAIN h \cup DOMAIN v |-> At(h, s) + At(v, s)]
HistogramAdd(h, s) == (s :> At(h, s) + 1) @@ h

\* BrotliBitsEntropy: at least one bit per symbol.
BitsEntropy(h) ==
    LET sum == SumOf(h) IN
    Most(sum * Bit, sum * FastLog2(sum) - SumOf([s \in DOMAIN h |-> h[s] * FastLog2(h[s])]))

\* Codes 17 for a run of zeros, as many as there are octal digits in its rest.
RECURSIVE ZeroCodes(_)
ZeroCodes(reps) == IF reps = 0 THEN 0 ELSE 1 + ZeroCodes(reps \div 8)

\* BrotliPopulationCost
PopulationCost(h) ==
    LET used == Ascending(DOMAIN h)
        n == Len(used)
        total == SumOf(h)
        counts == SortSeq([k \in 1..n |-> h[used[k]]], >)
        Depth(s) == Least(15, (FastLog2(total) - FastLog2(h[s]) + Bit \div 2) \div Bit)
        Skipped(k) == used[k] - (IF k = 1 THEN 0 ELSE used[k - 1] + 1)
        codes == [k \in 1..n |-> IF Skipped(k) < 3 THEN 0 ELSE ZeroCodes(Skipped(k) - 2)]
        single == SumOf([k \in 1..n |-> IF Skipped(k) < 3 THEN Skipped(k) ELSE 0])
        depths == {Depth(s) : s \in DOMAIN h}
        depth_histo == [d \in depths \cup {0, 17} |->
                          Cardinality({s \in DOMAIN h : Depth(s) = d})
                            + (CASE d = 0 -> single [] d = 17 -> SumOf(codes) [] OTHER -> 0)]
    IN  CASE n <= 1 -> 12 * Bit
          [] n = 2 -> (20 + total) * Bit
          [] n = 3 -> (28 + 2 * total - counts[1]) * Bit
          [] n = 4 -> LET h23 == counts[3] + counts[4] IN
                      (37 + 3 * h23 + 2 * (counts[1] + counts[2]) - Most(h23, counts[1])) * Bit
          [] OTHER -> SumOf([s \in DOMAIN h |-> h[s] * (FastLog2(total) - FastLog2(h[s]))])
                        + (3 * SumOf(codes) + 18 + 2 * Max(depths \cup {1})) * Bit
                        + BitsEntropy(depth_histo)

-----------------------------------------------------------------------------
(* Clusters of histograms.  c has, with indices from 0,                      *)
(*   out, cost, size   the histogram, its cost and size of each cluster      *)
(*   symbols           the cluster of each histogram                         *)
(*   clusters, pairs   those that are left, and the candidates to be combined, *)
(*                     the best of which is the first                        *)

HistogramPairIsLess(p1, p2) ==
    \/ p1.cost_diff > p2.cost_diff
    \/ p1.cost_diff = p2.cost_diff /\ p1.idx2 - p1.idx1 > p2.idx2 - p2.idx1

\* ClusterCostDiff: what the context map saves.
ClusterCostDiff(size_a, size_b) ==
    LET Cost(n) == n * FastLog2(n) IN Cost(size_a) + Cost(size_b) - Cost(size_a + size_b)

\* BrotliCompareAndPushToQueue
CompareAndPushToQueue(c, a, b, max_num_pairs) ==
    LET idx1 == Least(a, b)
        idx2 == Most(a, b)
        empty == {i \in {idx1, idx2} : c.out[i] = <<>>}
        combo == CASE c.out[idx1] = <<>> -> c.cost[idx2]
                   [] c.out[idx1] # <<>> /\ c.out[idx2] = <<>> -> c.cost[idx1]
                   [] OTHER -> PopulationCost(HistogramAddHistogram(c.out[idx1], c.out[idx2]))
        diff == ClusterCostDiff(c.size[idx1], c.size[idx2]) \div 2 - c.cost[idx1] - c.cost[idx2]
        p == [idx1 |-> idx1, idx2 |-> idx2, cost_combo |-> combo, cost_diff |-> diff + combo]
        is_good_pair == \/ empty # {} \/ c.pairs = <<>>
                        \/ combo < Most(0, c.pairs[1].cost_diff) - diff
        Room(pairs) == IF Len(c.pairs) < max_num_pairs THEN pairs ELSE SubSeq(pairs, 1, Len(c.pairs))
    IN  CASE a = b \/ ~is_good_pair -> c
          [] a # b /\ is_good_pair /\ c.pairs # <<>> /\ HistogramPairIsLess(c.pairs[1], p) ->
                [c EXCEPT !.pairs = Room(<<p>> \o Tail(@) \o <<@[1]>>)]
          [] OTHER -> [c EXCEPT !.pairs = Room(Append(@, p))]

\* The best pair becomes one cluster.
CombineBest(c, max_num_pairs) ==
    LET best == c.pairs[1]
        i == best.idx1
        j == best.idx2
        Keep(kept, p) ==
            CASE {p.idx1, p.idx2} \cap {i, j} # {} -> kept
              [] {p.idx1, p.idx2} \cap {i, j} = {} /\ kept # <<>> /\ HistogramPairIsLess(kept[1], p) ->
                    <<p>> \o Tail(kept) \o <<kept[1]>>
              [] OTHER -> Append(kept, p)
        d == [c EXCEPT !.out[i] = HistogramAddHistogram(@, c.out[j]),
                       !.cost[i] = best.cost_combo, !.size[i] = @ + c.size[j],
                       !.symbols = [k \in DOMAIN @ |-> IF @[k] = j THEN i ELSE @[k]],
                       !.clusters = SelectSeq(@, LAMBDA k : k # j),
                       !.pairs = Fold(Keep, <<>>, @)]
    IN  Fold(LAMBDA t, k : CompareAndPushToQueue(t, i, k, max_num_pairs), d, d.clusters)

\* BrotliHistogramCombine: pairs that save bits are combined, and then others
\* until no more than max_clusters are left.
RECURSIVE CombineWhile(_, _, _, _, _)
CombineWhile(c, threshold, min_cluster_size, max_clusters, max_num_pairs) ==
    IF Len(c.clusters) <= min_cluster_size THEN c
    ELSE IF c.pairs[1].cost_diff >= threshold
    THEN CombineWhile(c, 2^30, max_clusters, max_clusters, max_num_pairs)
    ELSE CombineWhile(CombineBest(c, max_num_pairs), threshold, min_cluster_size, max_clusters,
                      max_num_pairs)
HistogramCombine(c, max_clusters, max_num_pairs) ==
    LET n == Len(c.clusters)
        all == FlattenSeq([i \in 1..n |-> [j \in 1..n - i |-> <<c.clusters[i], c.clusters[i + j]>>]])
        Push(t, p) == CompareAndPushToQueue(t, p[1], p[2], max_num_pairs)
    IN  CombineWhile(Fold(Push, [c EXCEPT !.pairs = <<>>], all), 0, 1, max_clusters, max_num_pairs)

\* BrotliHistogramBitCostDistance
BitCostDistance(histogram, candidate, cost) ==
    IF histogram = <<>> THEN 0
    ELSE PopulationCost(HistogramAddHistogram(histogram, candidate)) - cost

\* The cluster for a histogram: the one of the histogram before, if no other
\* is better.
BestCluster(c, histogram, before) ==
    LET Bits2(k) == BitCostDistance(histogram, c.out[k], c.cost[k])
        Better(t, k) == LET b == Bits2(k) IN IF b < t.bits THEN [out |-> k, bits |-> b] ELSE t
    IN  Fold(Better, [out |-> before, bits |-> Bits2(before)], c.clusters).out

\* BrotliHistogramRemap
HistogramRemap(c, in) ==
    LET symbols == Fold(LAMBDA s, h : Append(s, BestCluster(c, h, IF s = <<>> THEN c.symbols[1]
                                                                  ELSE Last(s))), <<>>, in)
        Sum(k) == Fold(LAMBDA t, i : IF symbols[i] = k THEN HistogramAddHistogram(t, in[i]) ELSE t,
                       <<>>, [i \in DOMAIN in |-> i])
    IN  [c EXCEPT !.symbols = symbols,
                  !.out = [k \in DOMAIN @ |-> IF k \in Range(c.clusters) THEN Sum(k) ELSE @[k]]]

\* BrotliHistogramReindex: numbers in the order of their first occurrence.
FirstOccurrences(seq) ==
    Fold(LAMBDA seen, s : IF s \in Range(seen) THEN seen ELSE Append(seen, s), <<>>, seq)
NewIndex(seen, s) == (CHOOSE k \in DOMAIN seen : seen[k] = s) - 1
HistogramReindex(out, symbols) ==
    LET seen == FirstOccurrences(symbols) IN
    [histograms |-> [k \in DOMAIN seen |-> out[seen[k]]],
     map |-> [k \in DOMAIN symbols |-> NewIndex(seen, symbols[k])]]

\* BrotliClusterHistograms, in batches of max_input_histograms first.
MaxInputHistograms == 64
NumPairs(n) == Least(64 * n, (n \div 2) * n)
ClusterHistograms(in, max_histograms) ==
    LET n == Len(in)
        start == [out |-> [k \in 0..n - 1 |-> in[k + 1]],
                  cost |-> [k \in 0..n - 1 |-> PopulationCost(in[k + 1])],
                  size |-> [k \in 0..n - 1 |-> 1], symbols |-> [k \in 1..n |-> k - 1],
                  clusters |-> <<>>, pairs |-> <<>>]
        Batch(t, i) ==
            LET d == HistogramCombine(
                       [t EXCEPT !.clusters = [k \in 1..Least(n - i, MaxInputHistograms) |-> i + k - 1]],
                       max_histograms, (MaxInputHistograms * MaxInputHistograms) \div 2)
            IN  [d EXCEPT !.clusters = t.clusters \o d.clusters]
        first == Fold(Batch, start, [b \in 1..(n + MaxInputHistograms - 1) \div MaxInputHistograms |->
                                        (b - 1) * MaxInputHistograms])
        second == HistogramCombine(first, max_histograms, NumPairs(Len(first.clusters)))
        c == HistogramRemap(second, in)
    IN  HistogramReindex(c.out, c.symbols)
=============================================================================
