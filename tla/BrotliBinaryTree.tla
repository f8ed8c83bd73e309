--------------------------- MODULE BrotliBinaryTree ---------------------------
(* The hasher of qualities 10 and 11 of libbrotli:                            *)
(* c/enc/hash_to_binary_tree_inc.h.                                          *)
(*                                                                           *)
(* The positions of a bucket are a tree, sorted by the bytes at them, whose    *)
(* root is the newest one; table has the roots and slots the children, which   *)
(* are kept under the position modulo the window.  A search goes down the      *)
(* tree and splits it on the way, so that the new position becomes the root    *)
(* with what is smaller to its left and what is larger to its right.          *)
(*                                                                           *)
(* The length up to which positions are sorted is divided by Fine.            *)
EXTENDS BrotliDictionary

MaxTreeCompLength == Scaled(128)        \* MAX_TREE_COMP_LENGTH
MaxTreeSearchDepth == 64                \* MAX_TREE_SEARCH_DEPTH

Tree(lgwin) ==
    [family |-> "tree", length |-> 4, bits |-> 17, bytes |-> 4, tag_bits |-> 0,
     window |-> WindowSize(lgwin), compound |-> TRUE]

\* A position so far behind that no window reaches it.
InvalidPos == -(2^20)

LeftChild(h, pos) == <<"left", pos % h.kind.window>>
RightChild(h, pos) == <<"right", pos % h.kind.window>>

\* BackwardMatch
Match(distance, len, len_code) == [distance |-> distance, length |-> len, len_code |-> len_code]

\* One node after the other.  left and right are the places where the next
\* smaller and the next larger position belong.
RECURSIVE Descend(_, _, _)
Descend(h, q, t) ==
    LET cur == Masked(q, q.cur)
        prev == Masked(q, t.prev)
        backward == q.cur - t.prev
        reroot == q.max_length >= MaxTreeCompLength
        cur_len == Least(t.left_len, t.right_len)
        len == cur_len + FindMatchLengthWithLimit(q.data, cur + cur_len, q.data, prev + cur_len,
                                                  q.max_length - cur_len)
        Set(f, key, pos) == IF reroot THEN (key :> pos) @@ f ELSE f
        found == IF len <= t.best THEN t
                 ELSE [t EXCEPT !.best = len, !.matches = Append(@, Match(backward, len, len))]
        smaller == q.data[cur + len + 1] > q.data[prev + len + 1]
        key == IF smaller THEN RightChild(h, t.prev) ELSE LeftChild(h, t.prev)
        next == [found EXCEPT
                    !.forest = Set(@, IF smaller THEN t.left ELSE t.right, t.prev),
                    !.prev = t.forest[key], !.depth = @ - 1,
                    !.left = IF smaller THEN key ELSE @, !.right = IF smaller THEN @ ELSE key,
                    !.left_len = IF smaller THEN len ELSE @, !.right_len = IF smaller THEN @ ELSE len]
    IN  CASE backward = 0 \/ backward > q.max_backward \/ t.depth = 0 ->
                [t EXCEPT !.forest = Set(Set(@, t.left, InvalidPos), t.right, InvalidPos)]
          [] OTHER ->
                IF len >= Least(q.max_length, MaxTreeCompLength)
                THEN [found EXCEPT !.forest =
                        IF reroot THEN (t.left :> @[LeftChild(h, t.prev)])
                                       @@ (t.right :> @[RightChild(h, t.prev)]) @@ @ ELSE @]
                ELSE CHOOSE r \in {Descend(h, q, u) : u \in {next}} : TRUE

\* StoreAndFindMatches: what is longer than best_len.  With fewer bytes left
\* than are compared nothing is stored, the order being unknown.
StoreAndFindMatches(h, q, best_len) ==
    LET key == Hashed(h, q.data, q.mask, q.cur)
        t == Descend(h, q, [prev |-> Entry(h.table, key, InvalidPos), forest |-> h.slots,
                            left |-> LeftChild(h, q.cur), right |-> RightChild(h, q.cur),
                            left_len |-> 0, right_len |-> 0, depth |-> MaxTreeSearchDepth,
                            best |-> best_len, matches |-> <<>>])
    IN  [h |-> [h EXCEPT !.slots = t.forest,
                         !.table = IF q.max_length >= MaxTreeCompLength
                                   THEN (key :> q.cur) @@ @ ELSE @],
         best |-> t.best, matches |-> t.matches]

\* Store of one position, with the distances up to max_backward.
StoreInTree(h, data, mask, ix, max_backward) ==
    StoreAndFindMatches(h, [data |-> data, mask |-> mask, cur |-> ix, max_length |-> MaxTreeCompLength,
                            max_backward |-> max_backward], MaxTreeCompLength).h

\* StoreRange: the last 63 positions, and of very many others every eighth.
StoreRangeInTree(h, data, mask, ix_start, ix_end) ==
    LET i == Most(ix_start, ix_end - Scaled(63))
        few == IF ix_start + Scaled(512) <= i THEN (i - ix_start + 7) \div 8 ELSE 0
        positions == [k \in 1..few |-> ix_start + 8 * (k - 1)] \o [k \in 1..Most(0, ix_end - i) |-> i + k - 1]
    IN  Fold(LAMBDA g, ix : StoreInTree(g, data, mask, ix, h.kind.window - Gap), h, positions)

\* StitchToPreviousBlock: the end of the block before, for which there were not
\* bytes enough; what the next block overwrites is out of reach.
StitchTreeToPreviousBlock(h, num_bytes, position, data, mask) ==
    LET i_start == position - MaxTreeCompLength + 1
        positions == [k \in 1..Least(MaxTreeCompLength - 1, num_bytes) |-> i_start + k - 1]
    IN  IF num_bytes >= h.kind.length - 1 /\ position >= MaxTreeCompLength
        THEN Fold(LAMBDA g, i : StoreInTree(g, data, mask, i,
                                            h.kind.window - 1 - Most(Gap - 1, position - i)), h, positions)
        ELSE h

\* FindAllMatches: the next positions are tried one by one, then the tree, then
\* the static dictionary; every match is longer than the one before.
FindAllMatches(h, q, quality) ==
    LET near == Most(0, Least(IF quality = 11 THEN 63 ELSE 15, Least(q.cur - 1, q.max_backward)))
        Short(t, backward) ==
            IF t.best <= 2 /\ Agrees(q, backward, 0..1) /\ MatchLength(q, backward) > t.best
            THEN [best |-> MatchLength(q, backward),
                  matches |-> Append(t.matches, Match(backward, MatchLength(q, backward), MatchLength(q, backward)))]
            ELSE t
        short == Fold(Short, [best |-> 1, matches |-> <<>>], [k \in 1..near |-> k])
        tree == IF short.best < q.max_length THEN StoreAndFindMatches(h, q, short.best)
                ELSE [h |-> h, best |-> short.best, matches |-> <<>>]
        words == FindAllStaticDictionaryMatches(q, Most(4, tree.best + 1))
        usable == {l \in DOMAIN words : /\ l \in Most(4, tree.best + 1)..q.max_length
                                        /\ q.dictionary_distance + 1 + words[l].index <= q.max_distance}
        Word(l) == Match(q.dictionary_distance + 1 + words[l].index, l, words[l].len_code)
        lengths == Ascending(usable)
    IN  [h |-> tree.h,
         matches |-> short.matches \o tree.matches \o [k \in DOMAIN lengths |-> Word(lengths[k])]]

-----------------------------------------------------------------------------
(* Attached dictionaries.                                                    *)

\* FindAllCompoundDictionaryMatches: matches longer than min_length, at most so
\* many of them.
FindAllCompoundDictionaryMatches(dictionary, q, min_length, distance_offset, match_limit) ==
    LET Try(t, offset) ==
            LET len == PreparedLength(dictionary, q, offset) IN
            IF /\ Len(t.matches) < match_limit
               /\ distance_offset - offset <= q.max_distance
               /\ t.best < PreparedLimit(dictionary, q, offset)
               /\ PreparedAgrees(dictionary, q, offset, {t.best}) /\ len > t.best
            THEN [best |-> len, matches |-> Append(t.matches, Match(distance_offset - offset, len, len))]
            ELSE t
    IN  Fold(Try, [best |-> min_length, matches |-> <<>>], PreparedChain(dictionary, q)).matches

LookupAllCompoundDictionaryMatches(compound, q, min_length, max_ring_buffer_distance, match_limit) ==
    LET Chunk(found, d) ==
            LET least == IF found = <<>> THEN min_length ELSE found[Len(found)].length IN
            found \o FindAllCompoundDictionaryMatches(compound[d], q, least,
                         DistanceOffset(compound, d, max_ring_buffer_distance), match_limit - Len(found))
    IN  Fold(Chunk, <<>>, [d \in 1..Len(compound) |-> d])

\* MergeMatches
RECURSIVE MergeMatches(_, _)
MergeMatches(s1, s2) ==
    LET first == \/ s1[1].length < s2[1].length
                 \/ s1[1].length = s2[1].length /\ s1[1].distance < s2[1].distance
    IN  IF s1 = <<>> \/ s2 = <<>> THEN s1 \o s2
        ELSE IF first THEN <<s1[1]>> \o MergeMatches(SubSeq(s1, 2, Len(s1)), s2)
        ELSE <<s2[1]>> \o MergeMatches(s1, SubSeq(s2, 2, Len(s2)))
=============================================================================
