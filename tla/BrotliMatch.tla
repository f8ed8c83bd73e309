---------------------------- MODULE BrotliMatch ----------------------------
(* The commands of qualities 2 to 9 of libbrotli:                             *)
(* CreateBackwardReferences of c/enc/backward_references_inc.h.               *)
(*                                                                           *)
(* The context c of a call has the parameters of the encoder, the bytes and    *)
(* the mask of the ring buffer, and where the block ends.  The state t goes    *)
(* along the block: the hasher, the last four distances, the literals since    *)
(* the last command, and the commands.                                       *)
EXTENDS BrotliDictionary

\* ComputeDistanceCode: the codes below 16 name the last distances and those
\* at most three away from the last two.
NextToLast == <<8, 6, 4, 0, 5, 7, 9>>
NextToSecond == <<14, 12, 10, 1, 11, 13, 15>>
ComputeDistanceCode(distance, max_distance, cache) ==
    LET offset0 == distance + 3 - cache[1]
        offset1 == distance + 3 - cache[2]
    IN  CASE distance > max_distance -> distance + NumShortCodes - 1
          [] distance <= max_distance /\ distance = cache[1] -> 0
          [] distance <= max_distance /\ distance # cache[1] /\ distance = cache[2] -> 1
          [] OTHER ->
               IF offset0 \in 0..6 THEN NextToLast[offset0 + 1]
               ELSE IF offset1 \in 0..6 THEN NextToSecond[offset1 + 1]
               ELSE IF distance = cache[3] THEN 2
               ELSE IF distance = cache[4] THEN 3
               ELSE distance + NumShortCodes - 1

LiteralSpreeLength(quality) == Scaled(IF quality < 9 THEN 64 ELSE 512)

Limit(c) == MaxBackwardLimit(c.params.lgwin)
Reach(c, position) == Least(position + c.params.stream_offset, Limit(c))
DictionaryStart(c, position) == Reach(c, position) + TotalSize(c.params.compound)

\* The best match at a position, and the hasher that has stored the position.
Search(c, t, position, max_length, len) ==
    LET q == [data |-> c.data, mask |-> c.mask, cur |-> position, max_length |-> max_length,
              cache |-> PrepareDistanceCache(t.cache, t.h.kind.distances),
              max_backward |-> Least(position, Limit(c)),
              dictionary_distance |-> DictionaryStart(c, position),
              max_distance |-> c.params.dist.max_distance]
        found == FindLongestMatch(t.h, q, NoMatch(len))
    IN  IF ~t.h.kind.compound THEN found
        ELSE [found EXCEPT !.out =
                LookupCompoundDictionaryMatch(c.params.compound, q, Reach(c, position), @)]

HasRoom(c, t) == t.position + t.h.kind.length < c.pos_end

\* A match waits up to four times for a better one at the next byte.
RECURSIVE Delay(_, _, _, _, _)
Delay(c, t, sr, max_length, delayed) ==
    LET len == IF c.params.quality < 5 THEN Least(sr.len - 1, max_length) ELSE 0
        Next(found) ==
            LET s == [t EXCEPT !.h = found.h]
                later == [s EXCEPT !.position = @ + 1, !.insert_length = @ + 1]
            IN  CASE found.out.score < sr.score + 175 -> [t |-> s, sr |-> sr]
                  [] found.out.score >= sr.score + 175 /\ delayed < 3 /\ HasRoom(c, later) ->
                        Delay(c, later, found.out, max_length - 1, delayed + 1)
                  [] OTHER -> [t |-> later, sr |-> found.out]
    IN  CHOOSE r \in {Next(found) : found \in {Search(c, t, t.position + 1, max_length, len)}} : TRUE

\* The positions of a match that are stored: not those of a long run.
StoredRange(c, position, sr) ==
    LET last == Least(position + sr.len, c.store_end)
        run == Least(last, Most(position + 2, position + sr.len - 4 * sr.distance))
        first == IF sr.distance < sr.len \div 4 THEN run ELSE position + 2
    IN  [k \in 1..Most(0, last - first) |-> first + k - 1]

\* A match becomes a command, and its distance the last one if it was another.
Emit(c, t, sr) ==
    LET reach == DictionaryStart(c, t.position)
        code == ComputeDistanceCode(sr.distance, reach, t.cache)
    IN  [t EXCEPT !.cache = IF sr.distance <= reach /\ code > 0
                            THEN <<sr.distance, @[1], @[2], @[3]>> ELSE @,
                  !.commands = Append(@, InitCommand(c.params.dist, t.insert_length, sr.len, sr.delta, code)),
                  !.num_literals = @ + t.insert_length, !.insert_length = 0,
                  !.h = StoreRange(@, c.data, c.mask, StoredRange(c, t.position, sr)),
                  !.quiet = t.position + 2 * sr.len + LiteralSpreeLength(c.params.quality),
                  !.position = @ + sr.len]

\* After many literals only every second or fourth position is looked at.
Skip(c, t) ==
    LET next == t.position + 1
        step == IF next > t.quiet + 4 * LiteralSpreeLength(c.params.quality) THEN 4 ELSE 2
        jump == Least(next + 4 * step, c.pos_end - Most(t.h.kind.length - 1, step))
        skipped == IF next > t.quiet THEN (Most(0, jump - next) + step - 1) \div step ELSE 0
    IN  [t EXCEPT !.position = next + step * skipped, !.insert_length = @ + 1 + step * skipped,
                  !.h = StoreRange(@, c.data, c.mask, [k \in 1..skipped |-> next + step * (k - 1)])]

RECURSIVE References(_, _)
References(c, t) ==
    LET max_length == c.pos_end - t.position
        Found(f) == IF f.out.score <= MinScore THEN Skip(c, [t EXCEPT !.h = f.h])
                    ELSE LET d == Delay(c, [t EXCEPT !.h = f.h], f.out, max_length - 1, 0)
                         IN  Emit(c, d.t, d.sr)
    IN  IF ~HasRoom(c, t) THEN t
        ELSE CHOOSE r \in {References(c, u) : u \in {Found(f) : f \in
                {Search(c, t, t.position, max_length, 0)}}} : TRUE

\* num_bytes bytes at position; the rest of them are literals of the next
\* command, which last_insert_len hands over.
CreateBackwardReferences(params, data, mask, position, num_bytes, e) ==
    LET c == [params |-> params, data |-> data, mask |-> mask, pos_end |-> position + num_bytes,
              store_end |-> IF num_bytes >= e.hasher.kind.length
                            THEN position + num_bytes - e.hasher.kind.length + 1 ELSE position]
        t == References(c, [h |-> e.hasher, cache |-> e.dist_cache, insert_length |-> e.last_insert_len,
                            commands |-> e.commands, num_literals |-> e.num_literals,
                            position |-> position,
                            quiet |-> position + LiteralSpreeLength(params.quality)])
    IN  [e EXCEPT !.hasher = t.h, !.dist_cache = t.cache, !.commands = t.commands,
                  !.num_literals = t.num_literals,
                  !.last_insert_len = t.insert_length + c.pos_end - t.position]
=============================================================================
