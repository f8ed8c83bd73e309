----------------------------- MODULE BrotliZopfli -----------------------------
(* The commands of qualities 10 and 11 of libbrotli: a shortest path through   *)
(* the block, c/enc/backward_references_hq.c, with the costs of literals of    *)
(* c/enc/literal_cost.c and c/enc/utf8_util.c.                                *)
(*                                                                           *)
(* A node is a position of the block with the cheapest way found to it: some   *)
(* literals and a copy that ends there.  The source counts costs as floating   *)
(* point numbers of bits, this model in whole parts of a bit.                 *)
EXTENDS BrotliMatch, BrotliBinaryTree

-----------------------------------------------------------------------------
(* Text.                                                                     *)

\* ParseAsUTF8: the length of the character that bytes begin with, 0 if none.
Utf8Leads == <<0..127, 192..223, 224..239, 240..247>>
Utf8Symbols == <<1..127, 128..2047, 2048..65535, 65536..1114111>>
Utf8Symbol(bytes, n) ==
    Fold(LAMBDA symbol, b : 64 * symbol + (b % 64), bytes[1] - Min(Utf8Leads[n]), SubSeq(bytes, 2, n))
ParseAsUTF8(bytes) ==
    LET good == {n \in 1..Least(4, Len(bytes)) :
                    /\ bytes[1] \in Utf8Leads[n] /\ \A k \in 2..n : bytes[k] \div 64 = 2
                    /\ Utf8Symbol(bytes, n) \in Utf8Symbols[n]}
    IN  IF good = {} THEN 0 ELSE Min(good)

\* IsMostlyUTF8: more than three quarters of the bytes.
IsMostlyUTF8(data, pos, mask, length) ==
    LET Four(i) == LET first == (pos + i) % (mask + 1) IN SubSeq(data, first + 1, first + Least(4, length - i))
        Step(t, i) ==
            LET n == ParseAsUTF8(Four(i)) IN
            IF i < t.next THEN t ELSE [next |-> i + Most(1, n), size |-> t.size + n]
        utf8 == Fold(Step, [next |-> 0, size |-> 0], [k \in 1..length |-> k - 1]).size
    IN  4 * utf8 > 3 * length

\* Which byte of a character comes next.
UTF8Position(last, c, clamp) ==
    CASE c < 128 -> 0
      [] c >= 192 -> Least(1, clamp)
      [] OTHER -> IF last < 224 THEN 0 ELSE Least(2, clamp)

\* EstimateBitCostsForLiterals: how rare the byte is around its position, in
\* text among those at the same place in a character.
LiteralCosts(pos, len, mask, data) ==
    LET utf8 == IsMostlyUTF8(data, pos, mask, len)
        half == Scaled(IF utf8 THEN 495 ELSE 2000)
        Byte(i) == IF i < 0 THEN 0 ELSE ByteAt(data, pos + i, mask)
        Place(i, clamp) == UTF8Position(Byte(i - 1), Byte(i), clamp)
        multi == Cardinality({i \in 0..len - 1 : Place(i, 2) > 0})
        level == IF utf8 /\ multi >= Scaled(25) THEN 1 ELSE 0
        Class(i) == IF i = 0 THEN 0 ELSE Place(i - 1, level)
        class == [i \in 0..len - 1 |-> Class(i)]
        Cost(i) ==
            LET window == {j \in Most(0, i - half + 1)..Least(len - 1, i + half) : class[j] = class[i]}
                same == {j \in window : Byte(j) = Byte(i)}
                cost == FastLog2(Cardinality(window)) - FastLog2(Most(1, Cardinality(same))) + 30
                least == IF cost < Bit THEN (cost + Bit) \div 2 ELSE cost
            IN  IF utf8 /\ i < 2000 THEN least + (358 * (2000 + i)) \div 2000 ELSE least
    IN  [i \in 1..len |-> Cost(i - 1)]

-----------------------------------------------------------------------------
(* The cost model: of commands and distances by symbol, and of the literals     *)
(* up to every position.                                                     *)

UpTo(costs) ==
    LET f[i \in 0..Len(costs)] == IF i = 0 THEN 0 ELSE f[i - 1] + costs[i] IN f

SetFromLiteralCosts(dist, position, num_bytes, data, mask) ==
    [cmd |-> [s \in 0..703 |-> FastLog2(11 + s)],
     dist |-> [s \in 0..dist.alphabet_size_limit - 1 |-> FastLog2(20 + s)],
     literals |-> UpTo(LiteralCosts(position, num_bytes, mask, data) \o <<>>),
     min_cost_cmd |-> FastLog2(11)]

\* SetCost: a symbol that did not occur costs more than any that did.
SetCost(histogram, size, is_literal) ==
    LET sum == SumOf(histogram)
        seen == {s \in DOMAIN histogram : histogram[s] > 0}
        missing == FastLog2(sum + (IF is_literal THEN 0 ELSE size - Cardinality(seen))) + 2 * Bit
    IN  [s \in 0..size - 1 |-> IF s \in seen THEN Most(Bit, FastLog2(sum) - FastLog2(histogram[s])) ELSE missing]

\* SetFromCommands: the costs by the commands of a first round.
SetFromCommands(dist, position, num_bytes, data, mask, commands, last_insert_len) ==
    LET starts == CommandStarts(commands, position - last_insert_len)
        inserted == FlattenSeq([k \in DOMAIN commands |-> InsertedBytes(data, starts[k], mask, commands[k])])
        far == SelectSeq(commands, LAMBDA c : c.cmd_prefix >= 128)
        cmd == SetCost(HistogramOf([k \in DOMAIN commands |-> commands[k].cmd_prefix]), 704, FALSE)
        literal == SetCost(HistogramOf(inserted), 256, TRUE)
    IN  [cmd |-> cmd,
         dist |-> SetCost(HistogramOf([k \in DOMAIN far |-> far[k].dist_prefix]), dist.alphabet_size_limit, FALSE),
         literals |-> UpTo([i \in 1..num_bytes |-> literal[ByteAt(data, position + i - 1, mask)]]),
         min_cost_cmd |-> Min({cmd[s] : s \in DOMAIN cmd})]

GetLiteralCosts(model, from, to) == model.literals[to] - model.literals[from]

-----------------------------------------------------------------------------
(* Nodes.                                                                    *)

Infinity == 2^30
NoNode == [length |-> 1, len_code |-> 1, distance |-> 0, short_code |-> 0, insert |-> 0,
           cost |-> Infinity, shortcut |-> 0]
InitZopfliNodes(num_bytes) ==
    [i \in 0..num_bytes |-> IF i = 0 THEN [NoNode EXCEPT !.length = 0, !.cost = 0] ELSE NoNode]

DistanceCode(node) ==
    IF node.short_code = 0 THEN node.distance + NumShortCodes - 1 ELSE node.short_code - 1
CommandLength(node) == node.length + node.insert

\* A context c of a block adds to that of BrotliMatch the first position of the
\* block, the number of its bytes, the distances before it and the cost model.
MaxZopfliLen(quality) == Scaled(IF quality <= 10 THEN 150 ELSE 325)
MaxZopfliCandidates(quality) == IF quality <= 10 THEN 1 ELSE 5
LongCopyQuickStep == Scaled(16384)      \* BROTLI_LONG_COPY_QUICK_STEP

\* ComputeDistanceShortcut: the last node on the way that gave a new distance.
ComputeDistanceShortcut(c, pos, nodes) ==
    LET node == nodes[pos]
        gap == TotalSize(c.params.compound)
    IN  CASE pos = 0 -> 0
          [] /\ pos > 0 /\ DistanceCode(node) > 0
             /\ node.distance + node.length <= c.start + c.params.stream_offset + pos + gap
             /\ node.distance <= Limit(c) + gap -> pos
          [] OTHER -> nodes[pos - CommandLength(node)].shortcut

\* ComputeDistanceCache: the last four distances at the end of the way to pos.
ComputeDistanceCache(c, pos, nodes) ==
    LET Back[p \in 0..pos] ==
            IF p = 0 THEN c.dist_cache
            ELSE <<nodes[p].distance>> \o Back[nodes[p - CommandLength(nodes[p])].shortcut]
    IN  SubSeq(Back[nodes[pos].shortcut], 1, 4)

\* StartPosQueuePush: the eight places to begin a command from with the smallest
\* cost difference.
StartPosQueuePush(queue, posdata) ==
    LET kept == SubSeq(queue, 1, Least(7, Len(queue)))
        cheaper == Cardinality({k \in DOMAIN kept : kept[k].costdiff < posdata.costdiff})
    IN  SubSeq(kept, 1, cheaper) \o <<posdata>> \o SubSeq(kept, cheaper + 1, Len(kept))

\* EvaluateNode: nothing cheaper than all literals is worth to begin from.
EvaluateNode(c, t, pos) ==
    LET nodes == [t.nodes EXCEPT ![pos].shortcut = ComputeDistanceShortcut(c, pos, t.nodes)]
        literals == GetLiteralCosts(c.model, 0, pos)
    IN  IF nodes[pos].cost > literals THEN [t EXCEPT !.nodes = nodes]
        ELSE [t EXCEPT !.nodes = nodes,
                       !.queue = StartPosQueuePush(@, [pos |-> pos, cost |-> nodes[pos].cost,
                                                       costdiff |-> nodes[pos].cost - literals,
                                                       cache |-> ComputeDistanceCache(c, pos, nodes)])]

\* ComputeMinimumCopyLength: one bit more at each length where copies get one.
ComputeMinimumCopyLength(start_cost, nodes, num_bytes, pos) ==
    LET Steps(len) == Cardinality({k \in 0..24 : 10 + 4 * (2^k - 1) <= len}) IN
    Min({len \in 2..Most(2, num_bytes - pos + 1) :
            pos + len > num_bytes \/ nodes[pos + len].cost > start_cost + Bit * Steps(len)})

-----------------------------------------------------------------------------
(* UpdateNodes.                                                              *)

\* UpdateZopfliNode for each of the lengths that gets cheaper.
Relax(t, pos, lengths, Node(_)) ==
    LET better == {l \in lengths : Node(l).cost < t.nodes[pos + l].cost} IN
    [t EXCEPT !.nodes = [i \in DOMAIN @ |-> IF i - pos \in better THEN Node(i - pos) ELSE @[i]],
              !.result = Max({@} \cup better)]

\* How far a copy at a distance of the cache goes that is longer than best_len,
\* in the window or in an attached dictionary.
CachedLength(c, q, start, backward, best_len) ==
    LET compound == c.params.compound
        total == TotalSize(compound)
        address == start + total - backward
        Before(d) == TotalSize(SubSeq(compound, 1, d - 1))
        chunk == CHOOSE d \in DOMAIN compound : address \in Before(d)..Before(d + 1) - 1
        source == compound[chunk].source
        offset == address - Before(chunk)
        limit == Least(Len(source) - offset, q.max_length)
        cur == Masked(q, q.cur)
    IN  CASE backward \in 1..Least(q.cur, Limit(c)) ->
                IF InRing(q, backward, best_len) /\ Agrees(q, backward, {best_len})
                THEN MatchLength(q, backward) ELSE 0
          [] backward \in start + 1..start + total /\ backward > Least(q.cur, Limit(c)) ->
                IF best_len < limit /\ source[offset + best_len + 1] = q.data[cur + best_len + 1]
                THEN FindMatchLengthWithLimit(source, offset, q.data, cur, limit) ELSE 0
          [] OTHER -> 0

\* The 16 short codes at a place to begin from.
TryDistanceCache(c, q, t, pos, posdata, inscode, base_cost) ==
    LET distances == PrepareDistanceCache(posdata.cache, 16)
        Cost(j, l) ==
            LET cmdcode == CombineLengthCodes(inscode, GetCopyLengthCode(l), j = 0) IN
            base_cost + (IF cmdcode < 128 THEN 0 ELSE c.model.dist[j])
                + Bit * CopyExtra[GetCopyLengthCode(l) + 1] + c.model.cmd[cmdcode]
        Try(u, j) ==
            LET backward == distances[j + 1]
                usable == u.best < q.max_length /\ Masked(q, q.cur) + u.best <= q.mask
                len == IF usable THEN CachedLength(c, q, Reach(c, q.cur), backward, u.best) ELSE 0
                Node(l) == [NoNode EXCEPT !.length = l, !.len_code = l, !.distance = backward,
                                          !.short_code = j + 1, !.insert = pos - posdata.pos,
                                          !.cost = Cost(j, l)]
            IN  IF len <= u.best THEN u
                ELSE [best |-> len, t |-> Relax(u.t, pos, u.best + 1..len, Node)]
    IN  Fold(Try, [best |-> t.min_len - 1, t |-> t], [k \in 1..16 |-> k - 1]).t

\* The matches, of each those lengths that no match before had; of a word or of
\* a very long match only the whole length.
TryMatches(c, q, t, pos, posdata, inscode, base_cost, matches) ==
    LET Try(u, match) ==
            LET word == match.distance > DictionaryStart(c, q.cur)
                prefix == PrefixEncodeCopyDistance(match.distance + NumShortCodes - 1,
                                                   c.params.dist.ndirect, c.params.dist.postfix)
                whole == word \/ match.length > MaxZopfliLen(c.params.quality)
                first == IF whole THEN Most(u.len, match.length) ELSE u.len
                Code(l) == IF word THEN match.len_code ELSE l
                Cost(l) == base_cost + Bit * prefix.nbits + c.model.dist[prefix.symbol]
                               + Bit * CopyExtra[GetCopyLengthCode(Code(l)) + 1]
                               + c.model.cmd[CombineLengthCodes(inscode, GetCopyLengthCode(Code(l)), FALSE)]
                Node(l) == [NoNode EXCEPT !.length = l, !.len_code = Code(l), !.distance = match.distance,
                                          !.insert = pos - posdata.pos, !.cost = Cost(l)]
            IN  [len |-> Most(first, match.length + 1), t |-> Relax(u.t, pos, first..match.length, Node)]
    IN  Fold(Try, [len |-> t.min_len, t |-> t], matches).t

\* UpdateNodes; result is the longest copy that made a way cheaper.
UpdateNodes(c, t, pos, matches) ==
    LET q == [data |-> c.data, mask |-> c.mask, cur |-> c.start + pos, max_length |-> c.num_bytes - pos]
        s == EvaluateNode(c, t, pos)
        first == s.queue[1]
        min_cost == first.cost + c.model.min_cost_cmd + GetLiteralCosts(c.model, first.pos, pos)
        begun == [s EXCEPT !.result = 0,
                           !.min_len = ComputeMinimumCopyLength(min_cost, s.nodes, c.num_bytes, pos)]
        From(u, k) ==
            LET posdata == s.queue[k]
                inscode == GetInsertLengthCode(pos - posdata.pos)
                base_cost == posdata.costdiff + Bit * InsExtra[inscode + 1] + GetLiteralCosts(c.model, 0, pos)
                cached == TryDistanceCache(c, q, u, pos, posdata, inscode, base_cost)
            IN  IF k > 2 THEN cached
                ELSE TryMatches(c, q, cached, pos, posdata, inscode, base_cost, matches)
    IN  Fold(From, begun, [k \in 1..Least(MaxZopfliCandidates(c.params.quality), Len(s.queue)) |-> k])

-----------------------------------------------------------------------------
(* The commands.                                                             *)

\* ComputeShortestPathFromNodes: the ends of the commands of the cheapest way.
ShortestPath(nodes) ==
    LET Way[p \in DOMAIN nodes] ==
            IF p = 0 THEN <<>> ELSE Append(Way[p - CommandLength(nodes[p])], p)
    IN  Way[Max({i \in DOMAIN nodes : i = 0 \/ nodes[i].insert > 0 \/ nodes[i].length # 1})]

\* ZopfliCreateCommands
ZopfliCreateCommands(c, nodes, e) ==
    LET path == ShortestPath(nodes)
        Add(t, p) ==
            LET node == nodes[p]
                insert == node.insert + t.last_insert_len
                start == DictionaryStart(c, c.start + p - node.length)
                code == DistanceCode(node)
            IN  [t EXCEPT !.commands = Append(@, InitCommand(c.params.dist, insert, node.length,
                                                             node.len_code - node.length, code)),
                          !.dist_cache = IF node.distance <= start /\ code > 0
                                         THEN <<node.distance, @[1], @[2], @[3]>> ELSE @,
                          !.num_literals = @ + insert, !.last_insert_len = 0]
        t == Fold(Add, e, path)
    IN  [t EXCEPT !.last_insert_len = @ + c.num_bytes - (IF path = <<>> THEN 0 ELSE path[Len(path)])]

\* The matches at a position, those of attached dictionaries among them.
MatchesAt(c, h, pos) ==
    LET q == [data |-> c.data, mask |-> c.mask, cur |-> c.start + pos, max_length |-> c.num_bytes - pos,
              max_backward |-> Least(c.start + pos, Limit(c)),
              dictionary_distance |-> DictionaryStart(c, c.start + pos),
              max_distance |-> c.params.dist.max_distance]
        found == FindAllMatches(h, q, c.params.quality)
        attached == LookupAllCompoundDictionaryMatches(c.params.compound, q, 3, Reach(c, c.start + pos), 64)
    IN  [h |-> found.h, matches |-> MergeMatches(attached, found.matches)]

\* Of matches that are long enough only the longest one counts.
OnlyLongest(c, matches) ==
    LET last == matches[Len(matches)] IN
    IF matches # <<>> /\ last.length > MaxZopfliLen(c.params.quality) THEN <<last>> ELSE matches

\* How many positions an update of the nodes lets one skip.
Skipped(c, result, matches) ==
    LET quick == IF result < LongCopyQuickStep THEN 0 ELSE result IN
    IF Len(matches) = 1 /\ matches[1].length > MaxZopfliLen(c.params.quality)
    THEN Most(matches[1].length, quick) ELSE quick

StoreSkipped(c, h, pos, skip) ==
    IF skip <= 1 THEN h
    ELSE StoreRangeInTree(h, c.data, c.mask, c.start + pos + 1, Least(c.start + pos + skip, c.store_end))

\* One position after the other; the matches of the skipped ones are not used.
RECURSIVE Iterate(_, _, _, _)
Iterate(Found(_, _), c, t, pos) ==
    LET Updated(m) ==
            LET u == UpdateNodes(c, [t EXCEPT !.h = m.h], pos, m.matches)
                skip == Skipped(c, u.result, m.matches)
                passed == [k \in 1..Most(0, Least(skip - 1, c.num_bytes - 4 - pos)) |-> pos + k]
                v == Fold(LAMBDA w, i : EvaluateNode(c, w, i), u, passed)
            IN  [t |-> [v EXCEPT !.h = StoreSkipped(c, @, pos, skip)],
                 next |-> pos + Most(1, skip)]
    IN  IF pos + 3 >= c.num_bytes THEN t
        ELSE CHOOSE r \in {Iterate(Found, c, u.t, u.next) : u \in {Updated(m) : m \in {Found(t.h, pos)}}} : TRUE

ZopfliContext(params, data, mask, position, num_bytes, e, model) ==
    [params |-> params, data |-> data, mask |-> mask, start |-> position, num_bytes |-> num_bytes,
     store_end |-> IF num_bytes >= MaxTreeCompLength THEN position + num_bytes - MaxTreeCompLength + 1
                   ELSE position,
     dist_cache |-> e.dist_cache, model |-> model]
StartAt(c, h) ==
    [h |-> h, nodes |-> InitZopfliNodes(c.num_bytes), queue |-> <<>>, result |-> 0, min_len |-> 0]

\* CreateZopfliBackwardReferences: matches are looked for on the way.
CreateZopfliBackwardReferences(params, data, mask, position, num_bytes, e) ==
    LET c == ZopfliContext(params, data, mask, position, num_bytes, e,
                           SetFromLiteralCosts(params.dist, position, num_bytes, data, mask))
        Here(h, pos) ==
            LET m == MatchesAt(c, h, pos) IN
            [h |-> m.h, matches |-> OnlyLongest(c, m.matches)]
        t == Iterate(Here, c, StartAt(c, e.hasher), 0)
    IN  [ZopfliCreateCommands(c, t.nodes, e) EXCEPT !.hasher = t.h]

\* All matches of the block, none of the positions that a long one passes.
RECURSIVE AllMatches(_, _, _, _)
AllMatches(c, h, pos, found) ==
    LET Next(m) ==
            LET longest == OnlyLongest(c, m.matches)
                skip == Most(1, Skipped(c, 0, longest))
            IN  AllMatches(c, StoreSkipped(c, m.h, pos, skip), pos + skip, (pos :> longest) @@ found)
    IN  IF pos + 3 >= c.num_bytes THEN [h |-> h, found |-> found]
        ELSE CHOOSE r \in {Next(m) : m \in {MatchesAt(c, h, pos)}} : TRUE

\* CreateHqZopfliBackwardReferences: a first round prices the second one.  The
\* hasher has stored what it needs before.
CreateHqZopfliBackwardReferences(params, data, mask, position, num_bytes, e) ==
    LET c1 == ZopfliContext(params, data, mask, position, num_bytes, e,
                            SetFromLiteralCosts(params.dist, position, num_bytes, data, mask))
        all == AllMatches(c1, e.hasher, 0, <<>>)
        Here(h, pos) == [h |-> h, matches |-> Entry(all.found, pos, <<>>)]
        Round(c) == ZopfliCreateCommands(c, Iterate(Here, c, StartAt(c, all.h), 0).nodes, e)
        Made(first) == SubSeq(first.commands, Len(e.commands) + 1, Len(first.commands))
        Second(first) ==
            Round([c1 EXCEPT !.model = SetFromCommands(params.dist, position, num_bytes, data, mask,
                                                       Made(first), e.last_insert_len)])
    IN  CHOOSE r \in {[Second(first) EXCEPT !.hasher = all.h] : first \in {Round(c1)}} : TRUE
=============================================================================
