---------------------------- MODULE BrotliHasher ----------------------------
(* Where the encoder of libbrotli remembers what it saw, and what it takes for *)
(* a good match: c/enc/hash.h and the hashers of its qualities 2 to 9, which   *)
(* the source makes from three templates.                                     *)
(*                                                                           *)
(*   quickly   one position per bucket, or a few buckets side by side         *)
(*   longest   the newest positions of a bucket; built with vector            *)
(*             instructions they have a tag of 8 more bits of the hash        *)
(*   chain     every position points back to the one before with its hash;    *)
(*             the nodes are reused, so a chain may run on into another one    *)
(*                                                                           *)
(* Tables are functions on the keys that have an entry.  The hashers of       *)
(* windows above 2^24, which combine these with a rolling hash, are left out.  *)
EXTENDS BrotliBlocks

\* The hash of a few bytes in so many bits, and the two candidates <<len, index>>
\* that four bytes have in the hash table of the static dictionary (len 0: none).
CONSTANTS HashBytes(_, _), DictionaryHash(_)
\* BROTLI_MAX_SIMD_QUALITY: 7 or 6, or 0 when the build has no vectors.
CONSTANT MaxSimdQuality
ASSUME HasherAssumption == MaxSimdQuality \in {0, 6, 7}

\* How many bytes from offset i of s1 and offset j of s2 on are the same.
FindMatchLengthWithLimit(s1, i, s2, j, limit) ==
    LET different == {k \in 0..limit - 1 : s1[i + k + 1] # s2[j + k + 1]} IN
    IF different = {} THEN limit ELSE Min(different)

-----------------------------------------------------------------------------
(* Scores of matches.                                                        *)

BackwardReferenceScore(len, backward) == 1920 + 135 * len - 30 * Log2Floor(backward)
BackwardReferenceScoreUsingLastDistance(len) == 1920 + 135 * len + 15
BackwardReferencePenaltyUsingLastDistance(i) == 39 + 2 * ((\h1CA10 \div 2^(2 * (i \div 2) + 1)) % 8)

LastDistanceScore(len, i) ==
    BackwardReferenceScoreUsingLastDistance(len)
        - (IF i = 0 THEN 0 ELSE BackwardReferencePenaltyUsingLastDistance(i))

\* The distances tried first: the last four and what is next to two of them.
PrepareDistanceCache(last, num_distances) ==
    LET Near(d) == <<d - 1, d + 1, d - 2, d + 2, d - 3, d + 3>> IN
    last \o (IF num_distances > 4 THEN Near(last[1]) ELSE <<>>)
         \o (IF num_distances > 10 THEN Near(last[2]) ELSE <<>>)

\* HasherSearchResult.  delta is the length code minus the length.
MinScore == 2020
NoMatch(len) == [len |-> len, distance |-> 0, score |-> MinScore, delta |-> 0]
Improve(out, len, distance, score) ==
    IF out.score < score THEN [len |-> len, distance |-> distance, score |-> score, delta |-> 0]
    ELSE out

-----------------------------------------------------------------------------
(* The hashers.                                                              *)

Quickly(bits, sweep, bytes, dictionary) ==
    [family |-> "quickly", length |-> 8, bits |-> bits, sweep |-> sweep, bytes |-> bytes,
     tag_bits |-> 0, dictionary |-> dictionary, distances |-> 4, compound |-> FALSE]
Longest(bits, bytes, length, block_bits, distances, simd) ==
    [family |-> "longest", length |-> length, bits |-> bits, bytes |-> bytes,
     tag_bits |-> IF simd THEN 8 ELSE 0, block_size |-> 2^block_bits,
     distances |-> distances, compound |-> TRUE]
Chain(banks, bank_bits, distances, max_hops) ==
    [family |-> "chain", length |-> 4, bits |-> 15, bytes |-> 4, tag_bits |-> 0, banks |-> banks,
     bank_size |-> 2^bank_bits, distances |-> distances, max_hops |-> max_hops, compound |-> TRUE]

\* ChooseHasher, for the qualities below 10.
ChooseHasher(quality, lgwin, size_hint) ==
    LET distances == CASE quality < 7 -> 4 [] quality \in 7..8 -> 10 [] OTHER -> 16
        simd == quality <= MaxSimdQuality
        large == size_hint >= 2^20
    IN  CASE quality = 2 -> Quickly(16, 1, 5, TRUE)
          [] quality = 3 -> Quickly(16, 2, 5, FALSE)
          [] quality = 4 /\ ~large -> Quickly(17, 4, 5, TRUE)
          [] quality = 4 /\ large -> Quickly(20, 4, 7, FALSE)
          [] quality > 4 /\ lgwin <= 16 ->
                Chain(IF quality < 9 THEN 1 ELSE 512, IF quality < 9 THEN 16 ELSE 9, distances,
                      (IF quality > 6 THEN 7 ELSE 8) * 2^(quality - 4))
          [] quality > 4 /\ lgwin > 16 /\ large /\ lgwin >= 19 ->
                Longest(15, 5, 8, quality - 1, distances, simd)
          [] OTHER -> Longest(IF quality < 7 THEN 14 ELSE 15, 4, 4, quality - 1, distances, simd)

\* HasherSetup and Prepare: nothing is remembered.  lookups and matches count
\* how often the static dictionary was of use.
EmptyHasher(kind) ==
    [kind |-> kind, table |-> <<>>, tiny |-> <<>>, slots |-> <<>>, free |-> <<>>,
     lookups |-> 0, matches |-> 0]
HasherReset(h) == [EmptyHasher(h.kind) EXCEPT !.lookups = h.lookups, !.matches = h.matches]

\* HashBytes of the bytes at ix, with the bits of the tag below those of the key.
Hashed(h, data, mask, ix) ==
    LET first == ix % (mask + 1) IN
    HashBytes(SubSeq(data, first + 1, first + h.kind.bytes), h.kind.bits + h.kind.tag_bits)
Key(h, hash) == hash \div 2^h.kind.tag_bits

NoBucket == [num |-> 0, newest |-> <<>>]
Entry(f, key, default) == IF key \in DOMAIN f THEN f[key] ELSE default

\* The number of positions ever stored in a bucket has 16 bits.
StoreLongest(h, hash, ix) ==
    LET b == Entry(h.table, Key(h, hash), NoBucket)
        newest == <<[ix |-> ix, hash |-> hash]>> \o b.newest
        kept == [num |-> (b.num + 1) % 2^16,
                 newest |-> SubSeq(newest, 1, Least(Len(newest), h.kind.block_size))]
    IN  [h EXCEPT !.table = (Key(h, hash) :> kept) @@ @]

\* A key without a chain is so far behind that no window reaches it.
NoChain == [ix |-> -(2^20), slot |-> 0]
StoreChain(h, key, ix) ==
    LET bank == key % h.kind.banks
        idx == At(h.free, bank) % h.kind.bank_size
        head == Entry(h.table, key, NoChain)
        node == [delta |-> Least(ix - head.ix, 65535), next |-> head.slot]
    IN  [h EXCEPT !.tiny = (ix % 2^16 :> key % 256) @@ @,
                  !.free = (bank :> (At(@, bank) + 1) % 2^16) @@ @,
                  !.slots = (<<bank, idx>> :> node) @@ @,
                  !.table = (key :> [ix |-> ix, slot |-> idx]) @@ @]

\* Positions next to each other may go into buckets next to each other.
StoreQuickly(h, key, ix) ==
    [h EXCEPT !.table = ((key + 8 * ((ix \div 8) % h.kind.sweep)) % 2^h.kind.bits :> ix) @@ @]

StoreHash(h, hash, ix) ==
    CASE h.kind.family = "quickly" -> StoreQuickly(h, hash, ix)
      [] h.kind.family = "longest" -> StoreLongest(h, hash, ix)
      [] OTHER -> StoreChain(h, hash, ix)
Store(h, data, mask, ix) == StoreHash(h, Hashed(h, data, mask, ix), ix)
StoreRange(h, data, mask, positions) ==
    Fold(LAMBDA g, ix : Store(g, data, mask, ix), h, positions)

\* The last three positions of the block before had no bytes to hash yet.
StitchToPreviousBlock(h, num_bytes, position, data, mask) ==
    IF num_bytes >= h.kind.length - 1 /\ position >= 3
    THEN StoreRange(h, data, mask, <<position - 3, position - 2, position - 1>>) ELSE h

-----------------------------------------------------------------------------
(* The search.  A query q has the bytes data of the ring buffer and its mask,  *)
(* the distances to try first, the position cur, how long a match may be, how  *)
(* far back it may start, and where the distances of the static dictionary     *)
(* begin and end.                                                            *)

Masked(q, ix) == ix % (q.mask + 1)

MatchLength(q, backward) ==
    FindMatchLengthWithLimit(q.data, Masked(q, q.cur - backward), q.data, Masked(q, q.cur), q.max_length)
Agrees(q, backward, offsets) ==
    LET prev == Masked(q, q.cur - backward)
        cur == Masked(q, q.cur)
    IN  \A k \in offsets : q.data[prev + k + 1] = q.data[cur + k + 1]
\* The bytes compared first do not run over the end of the ring buffer.
InRing(q, backward, best_len) == Masked(q, q.cur - backward) + best_len <= q.mask

BestLen(in, out) == IF out.score > in.score THEN out.len ELSE in.len

\* TestStaticDictionaryItem: a word of which up to nine bytes are cut off.
TestStaticDictionaryItem(q, len, word_idx, out) ==
    LET word == DictionaryWord(len, word_idx)
        matchlen == FindMatchLengthWithLimit(q.data, Masked(q, q.cur), word, 0, len)
        cut == len - matchlen
        backward == q.dictionary_distance + 1 + word_idx + CutOffTransforms[cut + 1] * 2^SizeBitsByLength[len + 1]
        score == BackwardReferenceScore(matchlen, backward)
        item == [len |-> matchlen, delta |-> cut, distance |-> backward, score |-> score]
        fits == len <= q.max_length /\ cut < Len(CutOffTransforms) /\ matchlen > 0
    IN  IF fits /\ backward <= q.max_distance /\ score >= out.score
        THEN [matches |-> 1, out |-> item] ELSE [matches |-> 0, out |-> out]

\* SearchInStaticDictionary gives up on a dictionary that seldom helps.
SearchInStaticDictionary(h, q, out, lookups) ==
    LET cur == Masked(q, q.cur)
        candidates == SubSeq(DictionaryHash(SubSeq(q.data, cur + 1, cur + 4)), 1, lookups)
        Look(t, item) ==
            LET found == TestStaticDictionaryItem(q, item[1], item[2], t.out)
                counted == [t EXCEPT !.h.lookups = @ + 1]
            IN  IF item[1] = 0 THEN counted
                ELSE [counted EXCEPT !.h.matches = @ + found.matches, !.out = found.out]
    IN  IF h.matches < h.lookups \div 128 THEN [h |-> h, out |-> out]
        ELSE Fold(Look, [h |-> h, out |-> out], candidates)

WithDictionary(h, q, in, out, lookups) ==
    IF out.score = in.score THEN SearchInStaticDictionary(h, q, out, lookups) ELSE [h |-> h, out |-> out]

\* FindLongestMatch of hash_longest_match_quickly: with one bucket it leaves at
\* the first improvement, and when the bucket's position will not do.
FindQuickly(h, q, in) ==
    LET last == q.cache[1]
        hash == Hashed(h, q.data, q.mask, q.cur)
        keys == [i \in 1..h.kind.sweep |-> (hash + 8 * (i - 1)) % 2^h.kind.bits]
        Try(out, backward, near, score) ==
            IF near /\ Agrees(q, backward, {BestLen(in, out)}) /\ MatchLength(q, backward) >= 4
            THEN Improve(out, MatchLength(q, backward), backward, score) ELSE out
        cached == Try(in, last, last \in 1..q.cur,
                      BackwardReferenceScoreUsingLastDistance(MatchLength(q, last)))
        Bucket(out, key) ==
            LET backward == q.cur - At(h.table, key) IN
            Try(out, backward, backward \in 1..q.max_backward,
                BackwardReferenceScore(MatchLength(q, backward), backward))
        only == q.cur - At(h.table, hash)
        leaves == \/ cached.score > in.score
                  \/ only \notin 1..q.max_backward
                  \/ ~Agrees(q, only, {in.len})
        out == IF h.kind.sweep = 1 /\ leaves THEN cached ELSE Fold(Bucket, cached, keys)
        g == StoreHash(h, hash, q.cur)
    IN  IF h.kind.dictionary /\ ~(h.kind.sweep = 1 /\ leaves) THEN WithDictionary(g, q, in, out, 1)
        ELSE [h |-> g, out |-> out]

\* The distances of the cache; two bytes are enough for the last ones.
TryLastDistances(h, q, in, hash) ==
    LET chain == h.kind.family = "chain"
        Usable(out, i) ==
            LET d == q.cache[i + 1] IN
            /\ d \in 1..Least(q.cur, q.max_backward)
            /\ IF chain THEN i = 0 \/ At(h.tiny, (q.cur - d) % 2^16) = hash % 256
               ELSE InRing(q, d, BestLen(in, out)) /\ Agrees(q, d, {BestLen(in, out)})
        Try(out, i) ==
            LET d == q.cache[i + 1]
                len == MatchLength(q, d)
            IN  IF Usable(out, i) /\ len >= (IF chain \/ i < 2 THEN 2 ELSE 3)
                THEN Improve(out, len, d, LastDistanceScore(len, i)) ELSE out
    IN  Fold(Try, [in EXCEPT !.len = 0, !.delta = 0], [k \in 1..h.kind.distances |-> k - 1])

\* Candidates of a bucket from the newest one on.
Backwards(q, b, hash) ==
    LET seen == SubSeq(b.newest, 1, Least(b.num, Len(b.newest)))
        same == SelectSeq(seen, LAMBDA e : e.hash = hash)
    IN  [k \in DOMAIN same |-> q.cur - same[k].ix]

RECURSIVE Hops(_, _, _, _, _, _)
Hops(h, q, bank, last, backward, hops) ==
    LET node == h.slots[<<bank, last>>] IN
    IF hops = 0 \/ backward > q.max_backward THEN <<>>
    ELSE <<backward>> \o Hops(h, q, bank, node.next, backward + node.delta, hops - 1)

FindInBucket(h, q, in, cached, hash) ==
    LET bucket == Entry(h.table, Key(h, hash), NoBucket)
        head == Entry(h.table, hash, NoChain)
        backwards == IF h.kind.family = "longest" THEN Backwards(q, bucket, hash)
                     ELSE Hops(h, q, hash % h.kind.banks, head.slot, q.cur - head.ix, h.kind.max_hops)
        far == {k \in DOMAIN backwards : backwards[k] > q.max_backward}
        near == IF far = {} THEN backwards ELSE SubSeq(backwards, 1, Min(far) - 1)
        Try(out, backward) ==
            LET best_len == Most(3, BestLen(in, out))
                len == MatchLength(q, backward)
            IN  IF InRing(q, backward, best_len) /\ Agrees(q, backward, best_len - 3..best_len) /\ len >= 4
                THEN Improve(out, len, backward, BackwardReferenceScore(len, backward)) ELSE out
    IN  Fold(Try, cached, near)

\* FindLongestMatch of the hashers, which also stores the position.
FindLongestMatch(h, q, in) ==
    LET hash == Hashed(h, q.data, q.mask, q.cur)
        out == FindInBucket(h, q, in, TryLastDistances(h, q, in, hash), hash)
    IN  IF h.kind.family = "quickly" THEN FindQuickly(h, q, in)
        ELSE WithDictionary(StoreHash(h, hash, q.cur), q, in, out, 2)
=============================================================================
