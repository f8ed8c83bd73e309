-------------------------- MODULE BrotliDictionary --------------------------
(* Dictionaries a caller of libbrotli attaches to an encoder: how one is       *)
(* prepared (c/enc/compound_dictionary.c) and how matches in it are found      *)
(* (c/enc/hash.h).                                                           *)
(*                                                                           *)
(* A prepared dictionary is flat: the buckets are dealt out to slots, the      *)
(* chains of a slot follow each other in items, and a head says in 16 bits     *)
(* where in its slot the chain of a bucket begins.  HeadLimit is the 0xFFFF    *)
(* that says a bucket is empty, and that no other head may reach.             *)
EXTENDS BrotliHasher

CONSTANT HeadLimit
ASSUME HeadAssumption == HeadLimit \in Nat \ {0}

EmptyBucket == HeadLimit
MaxCompoundDicts == 15                  \* SHARED_BROTLI_MAX_COMPOUND_DICTS

\* Step 1: the newest positions of every bucket, eight bytes being left.
PreparedHash(params, source, i) == HashBytes(SubSeq(source, i + 1, i + 5), params.bucket_bits)
BloatedBuckets(params, source) ==
    LET Add(b, i) ==
            LET key == PreparedHash(params, source, i)
                chain == <<i>> \o Entry(b, key, <<>>)
            IN  (key :> SubSeq(chain, 1, Least(Len(chain), params.bucket_limit))) @@ b
    IN  Fold(Add, <<>>, [k \in 1..Most(0, Len(source) - 7) |-> k - 1])

\* Step 2: how much of every chain a slot keeps, so that no chain begins at
\* the limit; that of the last bucket may run over it.
SlotKeys(params, buckets, slot) ==
    SelectSeq([k \in 1..2^(params.bucket_bits - params.slot_bits) |-> 2^params.slot_bits * (k - 1) + slot],
              LAMBDA key : key \in DOMAIN buckets)
SlotLimit(params, buckets, slot) ==
    LET final == 2^params.bucket_bits - 2^params.slot_bits + slot
        before == {key \in DOMAIN buckets : key % 2^params.slot_bits = slot /\ key # final}
        Overflow(limit) ==
            MapThenSumSet(LAMBDA key : Least(limit, Len(buckets[key])), before) >= HeadLimit
    IN  Max({limit \in 0..params.bucket_limit : ~Overflow(limit)})

\* Step 3: the chains one after the other, slot by slot.
CreatePreparedDictionaryWithParams(params, source) ==
    LET buckets == BloatedBuckets(params, source)
        Chains(slot) ==
            LET keys == SlotKeys(params, buckets, slot)
                limit == SlotLimit(params, buckets, slot)
                Kept(key) == SubSeq(buckets[key], 1, Least(limit, Len(buckets[key])))
                Add(t, key) ==
                    [heads |-> (key :> IF Kept(key) = <<>> THEN EmptyBucket ELSE Len(t.items)) @@ t.heads,
                     items |-> t.items \o [k \in DOMAIN Kept(key) |->
                                             [pos |-> Kept(key)[k], last |-> k = Len(Kept(key))]]]
            IN  Fold(Add, [heads |-> <<>>, items |-> <<>>], keys)
        Slot(t, slot) ==
            LET c == Chains(slot) IN
            [t EXCEPT !.slot_offsets = (slot :> Len(t.items)) @@ @, !.items = @ \o c.items,
                      !.heads = c.heads @@ @]
    IN  Fold(Slot, [source |-> source, params |-> params, slot_offsets |-> <<>>, heads |-> <<>>, items |-> <<>>],
             Ascending({key % 2^params.slot_bits : key \in DOMAIN buckets}))

\* CreatePreparedDictionary: larger tables for larger dictionaries.
CreatePreparedDictionary(source) ==
    LET doublings == Min({k \in 0..5 : k = 5 \/ 16 * 2^(17 + k) >= Len(source)}) IN
    CreatePreparedDictionaryWithParams(
        [bucket_bits |-> 17 + doublings, slot_bits |-> 7 + doublings, bucket_limit |-> 32], source)

NoCompound == <<>>
TotalSize(compound) == SumOf([k \in DOMAIN compound |-> Len(compound[k].source)])
AttachPreparedDictionary(compound, dictionary) ==
    IF Len(compound) = MaxCompoundDicts THEN compound ELSE Append(compound, dictionary)

-----------------------------------------------------------------------------
(* The search.                                                               *)

RECURSIVE ChainFrom(_, _)
ChainFrom(items, k) ==
    <<items[k].pos>> \o (IF items[k].last THEN <<>> ELSE ChainFrom(items, k + 1))

\* The positions in the dictionary of the bytes at cur, the newest first.
PreparedChain(dictionary, q) ==
    LET cur == Masked(q, q.cur)
        key == PreparedHash(dictionary.params, SubSeq(q.data, cur + 1, cur + 5), 0)
        head == Entry(dictionary.heads, key, EmptyBucket)
        slot == key % 2^dictionary.params.slot_bits
    IN  IF head = EmptyBucket THEN <<>>
        ELSE ChainFrom(dictionary.items, dictionary.slot_offsets[slot] + head + 1)

\* A match ends where the dictionary does.
PreparedLimit(dictionary, q, offset) == Least(Len(dictionary.source) - offset, q.max_length)
PreparedLength(dictionary, q, offset) ==
    FindMatchLengthWithLimit(dictionary.source, offset, q.data, Masked(q, q.cur),
                             PreparedLimit(dictionary, q, offset))
PreparedAgrees(dictionary, q, offset, offsets) ==
    \A k \in offsets : dictionary.source[offset + k + 1] = q.data[Masked(q, q.cur) + k + 1]

\* FindCompoundDictionaryMatch: the first byte of the dictionary is at
\* distance distance_offset.
FindCompoundDictionaryMatch(dictionary, q, distance_offset, in) ==
    LET size == Len(dictionary.source)
        Cached(t, i) ==
            LET d == q.cache[i + 1]
                len == PreparedLength(dictionary, q, distance_offset - d)
                out == Improve(t.out, len, d, LastDistanceScore(len, i))
            IN  IF d > distance_offset - size /\ d <= distance_offset /\ len >= 2 /\ out # t.out
                THEN [out |-> out, best |-> Most(t.best, len)] ELSE t
        Try(t, offset) ==
            LET d == distance_offset - offset
                len == PreparedLength(dictionary, q, offset)
                out == Improve(t.out, len, d, BackwardReferenceScore(len, d))
                worthwhile == /\ d <= q.max_distance
                              /\ t.best < PreparedLimit(dictionary, q, offset)
                              /\ PreparedAgrees(dictionary, q, offset, t.best - 3..t.best)
            IN  IF worthwhile /\ len >= 4 /\ out # t.out THEN [out |-> out, best |-> len] ELSE t
        cached == Fold(Cached, [out |-> in, best |-> in.len], <<0, 1, 2, 3>>)
    IN  Fold(Try, [cached EXCEPT !.best = Most(3, @)], PreparedChain(dictionary, q)).out

\* Where the distances of a chunk end: the later the chunk, the closer it is.
DistanceOffset(compound, chunk, max_ring_buffer_distance) ==
    max_ring_buffer_distance + TotalSize(compound) - TotalSize(SubSeq(compound, 1, chunk - 1))

LookupCompoundDictionaryMatch(compound, q, max_ring_buffer_distance, in) ==
    Fold(LAMBDA out, d : FindCompoundDictionaryMatch(compound[d], q,
                             DistanceOffset(compound, d, max_ring_buffer_distance), out),
         in, [d \in 1..Len(compound) |-> d])

-----------------------------------------------------------------------------
(* The words of the static dictionary that the text at a position begins with, *)
(* for qualities 10 and 11 of libbrotli: c/enc/static_dict.c.                 *)
(*                                                                           *)
(* The source looks words up by the hash of four bytes behind each prefix a    *)
(* transform may put before a word, and then asks one suffix after another.   *)
(* Here a group has the transforms that are asked together, and a transform    *)
(* applies if the text begins with what it makes of the word.                 *)
\* The words <<len, case, index>> with the hash of four bytes, where case says
\* if the word is as it is, with a capital, or in capitals.  The table has
\* capitals for words of ASCII letters only.
CONSTANT DictionaryBucket(_)

\* The prefix has at bytes; behind the word of length l there must be room for
\* more bytes in the text.  Whole words need none.
None == -32
Group(at, case, least, room, transforms) ==
    [at |-> at, case |-> case, least |-> least, room |-> room, transforms |-> transforms]

OmitLast == Group(0, Identity, 0, None, {CutOffTransforms[c] : c \in 1..10})
PlainSuffix ==
    Group(0, Identity, 0, 6, {1, 5, 8, 10, 14, 16, 17, 19, 20, 21, 22, 24, 25, 28, 29, 31, 35, 36, 37, 38,
                           43, 45, 46, 47, 50, 51, 53, 57, 60, 61, 70, 75, 76, 80, 82, 84, 86, 90,
                           92, 93, 95, 100, 106})
UpperSuffixes ==
    {Group(0, UppercaseFirst, 0, None, {9}), Group(0, UppercaseAll, 0, None, {44}),
     Group(0, UppercaseFirst, 0, 1, {4, 58, 66, 69, 74, 78, 79, 88, 99, 104, 108}),
     Group(0, UppercaseAll, 0, 1, {68, 87, 94, 97, 101, 105, 107, 112, 113, 114, 116})}
\* The prefixes " " and ".".
OneBytePrefixes ==
    {Group(1, Identity, 5, None, {6, 32}), Group(1, Identity, 5, 2, {2, 33, 52, 67, 71, 77, 81, 89, 98, 103}),
     Group(1, UppercaseFirst, 5, None, {30}), Group(1, UppercaseFirst, 5, 2, {15, 65, 91, 96, 109, 118, 120}),
     Group(1, UppercaseAll, 5, None, {85}), Group(1, UppercaseAll, 5, 2, {83, 110, 111, 115, 117, 119})}
\* "e ", "s ", ", " and a no-break space; " the " and ".com/".
LongPrefixes ==
    {Group(2, Identity, 6, None, {102}), Group(2, Identity, 6, 2, {7, 13, 18}),
     Group(5, Identity, 9, None, {41, 72}), Group(5, Identity, 9, 8, {62}), Group(5, Identity, 9, 12, {73})}
Groups == {OmitLast, PlainSuffix, Group(0, Identity, 0, 2, {49})} \cup UpperSuffixes \cup OneBytePrefixes
              \cup LongPrefixes

\* DictMatchLength and IsMatch: a capital is made of a small letter only.
Begins(q, bytes) ==
    LET cur == Masked(q, q.cur) IN
    Len(bytes) <= q.max_length /\ \A k \in DOMAIN bytes : q.data[cur + k] = bytes[k]
WordMatches(q, word, case, transform) ==
    /\ case = UppercaseFirst => word[1] \in 97..122
    /\ Begins(q, TransformDictionaryWord(word, transform))

\* What a group finds among the words of its bucket.
MatchesOfGroup(q, g) ==
    LET cur == Masked(q, q.cur) + g.at
        bucket == DictionaryBucket(SubSeq(q.data, cur + 1, cur + 4))
        words == {w \in {bucket[k] : k \in DOMAIN bucket} :
                    w[2] = g.case /\ w[1] + g.room < q.max_length}
        Found(w, t) ==
            LET word == DictionaryWord(w[1], w[3]) IN
            IF WordMatches(q, word, g.case, t)
            THEN {[len |-> Len(TransformDictionaryWord(word, t)), len_code |-> w[1],
                   index |-> w[3] + t * 2^SizeBitsByLength[w[1] + 1]]}
            ELSE {}
    IN  IF q.max_length < g.least THEN {} ELSE UNION {Found(w, t) : w \in words, t \in g.transforms}

\* FindAllStaticDictionaryMatches: for every length the nearest word, by
\* AddMatch.  Words of which much is cut off count from min_length on.
FindAllStaticDictionaryMatches(q, min_length) ==
    LET found == {m \in UNION {MatchesOfGroup(q, g) : g \in Groups} :
                    m.len + 1 >= m.len_code \/ m.len >= min_length}
        Nearest(len) == CHOOSE m \in found :
            m.len = len /\ \A n \in found : n.len = len => m.index <= n.index
    IN  [len \in {m.len : m \in found} |-> Nearest(len)]
=============================================================================
