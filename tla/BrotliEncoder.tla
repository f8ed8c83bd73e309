--------------------------- MODULE BrotliEncoder ---------------------------
(* The encoder of libbrotli as its caller sees it: c/enc/encode.c, with the   *)
(* ring buffer of c/enc/ringbuffer.h and the parameters of c/enc/quality.h.   *)
(*                                                                           *)
(* An encoder is a record e; a call of the caller is an operator from e, the   *)
(* input and the room for output to the e after it.  Input waits in the ring   *)
(* buffer until a block is full or the caller wants output; a metablock may   *)
(* take several blocks; its bits that fill no byte stay in last_bytes, and    *)
(* what the caller had no room for in pending.                               *)
(*                                                                           *)
(* Blocks are scaled down with the window.  Positions count the whole input   *)
(* and wrap in the search at 2^Lap, 2^30 in the program.  Allocation, which   *)
(* may only fail, and where pending output lies in memory are left out.       *)
EXTENDS BrotliFragment, BrotliZopfli, BrotliRingBuffer

-----------------------------------------------------------------------------
(* Parameters.                                                               *)

DefaultParams ==
    [mode |-> "generic", quality |-> 11, lgwin |-> 22, lgblock |-> 0, size_hint |-> 0,
     large_window |-> FALSE, stream_offset |-> 0, disable_literal_context_modeling |-> FALSE,
     npostfix |-> 0, ndirect |-> 0, compound |-> NoCompound]

Clamped(v, low, high) == Least(high, Most(low, v))
SanitizeParams(p) ==
    LET quality == Clamped(p.quality, 0, 11)
        large == p.large_window /\ quality > 2
    IN  [p EXCEPT !.quality = quality, !.large_window = large,
                  !.lgwin = Clamped(@, 10, IF large THEN 30 ELSE 24)]

ComputeLgBlock(p) ==
    CASE p.quality < 2 -> p.lgwin
      [] p.quality \in 2..3 -> 14
      [] p.quality > 3 /\ p.lgblock # 0 -> Clamped(p.lgblock, 16, 24)
      [] OTHER -> IF p.quality >= 9 /\ p.lgwin > 16 THEN Least(18, p.lgwin) ELSE 16

ComputeRbBits(p) == 1 + Most(p.lgwin, p.lgblock)
MaxMetablockSize(p) == WindowSize(Least(ComputeRbBits(p), 24))

\* ChooseDistanceParams: none that a metablock could not say.
ChooseDistanceParams(p) ==
    LET npostfix == IF p.mode = "font" THEN 1 ELSE p.npostfix
        ndirect == IF p.mode = "font" THEN 12 ELSE p.ndirect
        good == /\ p.quality >= 4 /\ npostfix <= 3 /\ ndirect <= 120
                /\ ((ndirect \div 2^npostfix) % 16) * 2^npostfix = ndirect
    IN  InitDistanceParams(IF good THEN npostfix ELSE 0, IF good THEN ndirect ELSE 0, p.large_window)

EncodeWindowBits(lgwin, large_window) ==
    CASE large_window -> ToBits(14, 17 + 256 * lgwin)
      [] ~large_window /\ lgwin = 16 -> <<0>>
      [] ~large_window /\ lgwin = 17 -> ToBits(7, 1)
      [] ~large_window /\ lgwin > 17 -> ToBits(4, 2 * (lgwin - 17) + 1)
      [] OTHER -> ToBits(7, 16 * (lgwin - 8) + 1)

-----------------------------------------------------------------------------
(* The ring buffer.                                                          *)

RingBufferSetup(p) ==
    [size |-> WindowSize(ComputeRbBits(p)), tail_size |-> WindowSize(p.lgblock),
     cur_size |-> 0, pos |-> 0, buffer |-> <<>>]

-----------------------------------------------------------------------------
(* The encoder.                                                              *)

FlintNeeds2Bytes == 2
FlintWaitingForFlushing == -1
FlintDone == -2
NoMetadata == -1
NoHasher == <<>>

\* BrotliEncoderInitState
InitEncoder ==
    [params |-> DefaultParams, is_initialized |-> FALSE, ringbuffer |-> [buffer |-> <<>>],
     input_pos |-> 0, last_processed_pos |-> 0, last_flush_pos |-> 0, hasher |-> NoHasher,
     arena |-> <<>>, commands |-> <<>>, num_literals |-> 0, last_insert_len |-> 0,
     dist_cache |-> <<4, 11, 15, 16>>, saved_dist_cache |-> <<4, 11, 15, 16>>,
     prev_byte |-> 0, prev_byte2 |-> 0, last_bytes |-> <<>>, pending |-> <<>>,
     flint |-> FlintDone, remaining_metadata |-> NoMetadata, state |-> "processing",
     is_last_block_emitted |-> FALSE]

\* BrotliEncoderSetParameter: parameters are fixed once the first call came.
SetParameter(e, p, value) ==
    IF e.is_initialized \/ (p = "stream_offset" /\ value > 2^30) THEN [e |-> e, ok |-> FALSE]
    ELSE [e |-> [e EXCEPT !.params[p] = value], ok |-> TRUE]

\* BrotliEncoderAttachPreparedDictionary
AttachDictionaryToEncoder(e, dictionary) ==
    [e |-> [e EXCEPT !.params.compound = AttachPreparedDictionary(@, dictionary)],
     ok |-> Len(e.params.compound) < MaxCompoundDicts]

Fast(e) == e.params.quality < 2

\* EnsureInitialized: a stream that continues another has no header, and no
\* distance that could be in the cache.
EnsureInitialized(e) ==
    LET p0 == SanitizeParams(e.params)
        p1 == [p0 EXCEPT !.lgblock = ComputeLgBlock(p0)]
        lgwin == IF p1.quality < 2 THEN Most(p1.lgwin, 18) ELSE p1.lgwin
        p == [p1 EXCEPT !.stream_offset = Least(@, MaxBackwardLimit(lgwin))]
        continues == p.stream_offset # 0
        cache == IF continues THEN <<-16, -16, -16, -16>> ELSE e.dist_cache
    IN  IF e.is_initialized THEN e
        ELSE [e EXCEPT !.is_initialized = TRUE,
                       !.params = p @@ [dist |-> ChooseDistanceParams(p)],
                       !.ringbuffer = RingBufferSetup(p),
                       !.flint = IF continues THEN FlintNeeds2Bytes ELSE FlintDone,
                       !.dist_cache = cache,
                       !.saved_dist_cache = IF continues THEN cache ELSE @,
                       !.last_bytes = IF continues THEN <<>> ELSE EncodeWindowBits(lgwin, p.large_window),
                       !.arena = IF p.quality = 0 THEN InitCommandPrefixCodes ELSE @]

InputBlockSize(e) == WindowSize(e.params.lgblock)
UnprocessedInputSize(e) == e.input_pos - e.last_processed_pos
RemainingInputBlockSize(e) == Most(0, InputBlockSize(e) - UnprocessedInputSize(e))

\* WrapPosition: after three laps the positions of the second and the third
\* one come again and again.
WrapPosition(position) ==
    LET gb == position \div 2^Lap IN
    IF gb <= 2 THEN position ELSE (position % 2^Lap) + (((gb - 1) % 2) + 1) * 2^Lap

\* GetHashTable: the bits of the table, odd ones at quality 0.
GetHashTable(quality, input_size) ==
    LET most == IF quality = 0 THEN 15 ELSE 17
        bits == Min({b \in 8..most : b = most \/ 2^b >= input_size})
    IN  IF quality = 0 /\ bits % 2 = 0 THEN bits + 1 ELSE bits

\* CopyInputToRingBuffer
CopyInputToRingBuffer(e, bytes) ==
    [e EXCEPT !.input_pos = @ + Len(bytes), !.ringbuffer = PushInput(@, bytes)]

\* UpdateLastProcessedPos; where positions wrap the hasher starts again.
UpdateLastProcessedPos(e) ==
    LET wrapped == WrapPosition(e.input_pos) < WrapPosition(e.last_processed_pos) IN
    [e EXCEPT !.last_processed_pos = e.input_pos,
              !.hasher = IF wrapped THEN HasherReset(@) ELSE @]

-----------------------------------------------------------------------------
(* The contexts of the literals of a metablock.                              *)

ContextUtf8 == 2                        \* CONTEXT_UTF8
ContextSigned == 3                      \* CONTEXT_SIGNED

EstimateEntropy(population) ==
    LET total == SumOf(population) IN
    total * FastLog2(total) - SumOf([s \in DOMAIN population |-> population[s] * FastLog2(population[s])])

SimpleContextMap == [k \in 1..64 |-> IF k \in 3..4 THEN 1 ELSE 0]
ContinuationContextMap == [k \in 1..64 |-> IF k > 4 THEN 0 ELSE 1 + (k - 1) \div 2]
ComplexContextMap ==
    <<11, 11, 12, 12, 0, 0, 0, 0, 1, 1, 9, 9, 2, 2, 2, 2, 1, 1, 1, 1, 8, 3, 3, 3, 1, 1, 1, 1, 2, 2,
      2, 2, 8, 4, 4, 4, 8, 7, 4, 4, 8, 0, 0, 0, 3, 3, 3, 3, 5, 5, 10, 5, 5, 5, 10, 5, 6, 6, 6, 6, 6,
      6, 6, 6>>
NoContexts == [num |-> 1, map |-> <<>>]

\* Of the strides of 64 bytes that are looked at, one every 4096, the positions
\* from the offset-th of each on.
Strides(start_pos, length, offset) ==
    LET strides == {s \in 0..length \div 4096 : 4096 * s + 64 <= length} IN
    Ascending(UNION {start_pos + 4096 * s + offset..start_pos + 4096 * s + 63 : s \in strides})

\* A histogram of the pairs <<context, symbol>>, and what of it has one context.
OfContext(pairs, c) ==
    [s \in {p[2] : p \in {q \in DOMAIN pairs : q[1] = c}} |-> pairs[<<c, s>>]]
EntropyInContexts(pairs) ==
    SumOf([c \in {p[1] : p \in DOMAIN pairs} |-> EstimateEntropy(OfContext(pairs, c))])

\* ChooseContextMap: is the class of a byte foreseen by that of the byte
\* before?  The pairs are the classes of two bytes.
ChooseContextMap(quality, bigrams) ==
    LET classes == HistogramOf([k \in DOMAIN bigrams |-> bigrams[k][2]])
        total == Len(bigrams)
        one == EstimateEntropy(classes)
        two == EntropyInContexts(HistogramOf([k \in DOMAIN bigrams |-> <<bigrams[k][1] % 2, bigrams[k][2]>>]))
        three == IF quality < 7 THEN 10 * one ELSE EntropyInContexts(HistogramOf(bigrams))
    IN  CASE 5 * (one - two) < Bit * total /\ 5 * (one - three) < Bit * total -> NoContexts
          [] ~(5 * (one - two) < Bit * total /\ 5 * (one - three) < Bit * total)
             /\ 50 * (two - three) < Bit * total -> [num |-> 2, map |-> SimpleContextMap]
          [] OTHER -> [num |-> 3, map |-> ContinuationContextMap]

\* ShouldUseComplexStaticContextMap, by the five high bits of the literals.
ShouldUseComplexStaticContextMap(input, start_pos, length, mask, size_hint) ==
    LET Context(pos) == ComplexContextMap[LiteralContext(ContextUtf8, ByteAt(input, pos - 1, mask),
                                                         ByteAt(input, pos - 2, mask)) + 1]
        at == Strides(start_pos, length, 2)
        pairs == [k \in DOMAIN at |-> <<Context(at[k]), ByteAt(input, at[k], mask) \div 8>>]
        combined == EstimateEntropy(HistogramOf([k \in DOMAIN pairs |-> pairs[k][2]]))
        split == EntropyInContexts(HistogramOf(pairs))
    IN  /\ size_hint >= 2^20
        /\ split <= 3 * Bit * Len(at)
        /\ 5 * (combined - split) >= Bit * Len(at)

DecideOverLiteralContextModeling(input, start_pos, length, mask, quality, size_hint) ==
    LET Class(pos) == Most(0, ByteAt(input, pos, mask) \div 64 - 1)
        at == Strides(start_pos, length, 1)
    IN  CASE quality < 5 \/ length < 64 -> NoContexts
          [] quality >= 5 /\ length >= 64
             /\ ShouldUseComplexStaticContextMap(input, start_pos, length, mask, size_hint) ->
                [num |-> 13, map |-> ComplexContextMap]
          [] OTHER -> ChooseContextMap(quality, [k \in DOMAIN at |-> <<Class(at[k] - 1), Class(at[k])>>])

\* ChooseContextMode: letters or, at the highest qualities, numbers.
ChooseContextMode(quality, data, pos, mask, length) ==
    IF quality >= 10 /\ ~IsMostlyUTF8(data, pos, mask, length) THEN ContextSigned ELSE ContextUtf8

-----------------------------------------------------------------------------
(* A metablock.                                                              *)

\* ShouldCompress: not if nearly all are literals, and these are noise.
ShouldCompress(data, mask, last_flush_pos, bytes, num_literals, num_commands) ==
    LET sample == [k \in 1..(bytes + 12) \div 13 |-> ByteAt(data, last_flush_pos + 13 * (k - 1), mask)] IN
    /\ bytes > 2
    /\ \/ num_commands >= bytes \div 256 + 2
       \/ 100 * num_literals <= 99 * bytes
       \/ 1300 * BitsEntropy(HistogramOf(sample)) <= 792 * Bit * bytes

\* The metablock of the splits, contexts and histograms of quality 4 on.
SplitMetaBlock(e, data, mask, start, bytes, is_last, mode) ==
    LET p == e.params
        contexts == IF p.disable_literal_context_modeling THEN NoContexts
                    ELSE DecideOverLiteralContextModeling(data, start, bytes, mask, p.quality, p.size_hint)
        built == IF p.quality < 10
                 THEN [commands |-> e.commands, dist |-> p.dist,
                       mb |-> BuildMetaBlockGreedy(data, start, mask, e.prev_byte, e.prev_byte2,
                                                   mode, contexts.num, contexts.map, e.commands)]
                 ELSE BuildMetaBlock(data, start, mask, e.prev_byte, e.prev_byte2, mode, e.commands,
                                     p.dist, p.large_window, p.quality,
                                     ~p.disable_literal_context_modeling)
    IN  StoreMetaBlock(e.last_bytes, data, start, bytes, mask, e.prev_byte, e.prev_byte2, is_last,
                       built.dist, mode, built.commands,
                       OptimizeHistograms(built.dist.alphabet_size_limit, built.mb))

\* WriteMetaBlockInternal: the storage, and if the bytes went out as they are,
\* for which the distances of the commands have to be taken back.
WriteMetaBlockInternal(e, data, mask, bytes, is_last, mode) ==
    LET start == WrapPosition(e.last_flush_pos)
        raw == [raw |-> TRUE, storage |-> StoreUncompressedMetaBlock(e.last_bytes, is_last, data,
                                                                     start, mask, bytes)]
        p == e.params
        storage ==
            CASE p.quality = 2 ->
                    StoreMetaBlockFast(e.last_bytes, data, start, bytes, mask, is_last, p.dist, e.commands)
              [] p.quality = 3 ->
                    StoreMetaBlockTrivial(e.last_bytes, data, start, bytes, mask, is_last, p.dist, e.commands)
              [] OTHER -> SplitMetaBlock(e, data, mask, start, bytes, is_last, mode)
    IN  CASE bytes = 0 -> [raw |-> FALSE, storage |-> EmptyLastMetaBlock(e.last_bytes)]
          [] bytes > 0 /\ ~ShouldCompress(data, mask, e.last_flush_pos, bytes, e.num_literals,
                                          Len(e.commands)) -> raw
          [] OTHER -> IF bytes + 4 < Len(storage) \div 8 THEN raw ELSE [raw |-> FALSE, storage |-> storage]

\* ExtendLastCommand: a copy that ran up to the end of the block before goes
\* on, in the window or in the attached dictionaries.
ExtendLastCommand(e) ==
    LET data == e.ringbuffer.buffer
        mask == RingMask(e.ringbuffer)
        position == WrapPosition(e.last_processed_pos)
        bytes == UnprocessedInputSize(e)
        last == e.commands[Len(e.commands)]
        code == CommandRestoreDistanceCode(last, e.params.dist)
        distance == e.dist_cache[1]
        max_distance == Least(e.last_processed_pos - last.copy_len, MaxBackwardLimit(e.params.lgwin))
        attached == FlattenSeq([k \in DOMAIN e.params.compound |-> e.params.compound[k].source])
        address == Len(attached) - (distance - max_distance) + last.copy_len
        InWindow(k) == ByteAt(data, position + k - distance, mask)
        InDictionary(k) == attached[address + k + 1]
        Length(Source(_), most) ==
            Min({k \in 0..most : k = most \/ ByteAt(data, position + k, mask) # Source(k)})
        extension == CASE distance <= max_distance -> Length(InWindow, bytes)
                       [] /\ distance > max_distance
                          /\ distance - max_distance - 1 < Len(attached)
                          /\ last.copy_len < distance - max_distance ->
                            Length(InDictionary, Least(bytes, Len(attached) - address))
                       [] OTHER -> 0
        longer == [last EXCEPT !.copy_len = @ + extension, !.copy_len_code = @ + extension,
                               !.cmd_prefix = GetLengthCode(last.insert_len, last.copy_len_code + extension,
                                                            last.dist_prefix = 0)]
    IN  IF code < NumShortCodes \/ code - (NumShortCodes - 1) = distance
        THEN [bytes |-> extension, commands |-> [e.commands EXCEPT ![Len(e.commands)] = longer]]
        ELSE [bytes |-> 0, commands |-> e.commands]

\* InitOrStitchToPreviousBlock
InitOrStitch(e, data, mask, position, bytes) ==
    LET p == e.params
        kind == IF p.quality >= 10 THEN Tree(p.lgwin) ELSE ChooseHasher(p.quality, p.lgwin, p.size_hint)
        h == IF e.hasher = NoHasher THEN EmptyHasher(kind) ELSE e.hasher
    IN  IF p.quality >= 10 THEN StitchTreeToPreviousBlock(h, bytes, position, data, mask)
        ELSE StitchToPreviousBlock(h, bytes, position, data, mask)

\* The commands of the input not processed yet.
CreateCommandsOfBlock(e, mode) ==
    LET data == e.ringbuffer.buffer
        mask == RingMask(e.ringbuffer)
        position == WrapPosition(e.last_processed_pos)
        bytes == UnprocessedInputSize(e)
        longer == IF e.commands # <<>> /\ e.last_insert_len = 0 THEN ExtendLastCommand(e)
                  ELSE [bytes |-> 0, commands |-> e.commands]
        f == [e EXCEPT !.hasher = InitOrStitch(e, data, mask, position, bytes),
                       !.commands = longer.commands]
    IN  CASE e.params.quality = 10 ->
                CreateZopfliBackwardReferences(e.params, data, mask, position + longer.bytes,
                                               bytes - longer.bytes, f)
          [] e.params.quality = 11 ->
                CreateHqZopfliBackwardReferences(e.params, data, mask, position + longer.bytes,
                                                 bytes - longer.bytes, f)
          [] OTHER -> CreateBackwardReferences(e.params, data, mask, position + longer.bytes,
                                               bytes - longer.bytes, f)
-----------------------------------------------------------------------------
(* EncodeData: the input not processed yet becomes commands, and these output  *)
(* unless they may wait for more.                                            *)

MaxDelayedSymbols == Scaled(\h2FFF)     \* MAX_NUM_DELAYED_SYMBOLS

\* Another block may go into the same metablock.
MayMerge(e) ==
    LET max_length == MaxMetablockSize(e.params) IN
    /\ e.params.quality >= 4 \/ e.num_literals + Len(e.commands) < MaxDelayedSymbols
    /\ e.input_pos - e.last_flush_pos + InputBlockSize(e) <= max_length
    /\ e.num_literals < max_length \div 8
    /\ Len(e.commands) < max_length \div 8

\* Whole bytes of the storage go out, the bits behind them wait.
Output(e, storage) ==
    LET whole == 8 * (Len(storage) \div 8) IN
    [e EXCEPT !.pending = BitsToBytes(SubSeq(storage, 1, whole)),
              !.last_bytes = SubSeq(storage, whole + 1, Len(storage))]

\* The literals behind the last copy.
WithLastInsert(e) ==
    IF e.last_insert_len = 0 THEN e
    ELSE [e EXCEPT !.commands = Append(@, InitInsertCommand(e.last_insert_len)),
                   !.num_literals = @ + e.last_insert_len, !.last_insert_len = 0]

\* The commands collected since last_flush_pos as a metablock.
EmitMetaBlock(e, is_last, mode) ==
    LET data == e.ringbuffer.buffer
        mask == RingMask(e.ringbuffer)
        block == WriteMetaBlockInternal(e, data, mask, e.input_pos - e.last_flush_pos, is_last, mode)
        cache == IF block.raw THEN e.saved_dist_cache ELSE e.dist_cache
        ByteBack(back, old) == IF e.input_pos >= back THEN ByteAt(data, e.input_pos - back, mask) ELSE old
    IN  [UpdateLastProcessedPos(Output(e, block.storage))
            EXCEPT !.last_flush_pos = e.input_pos, !.commands = <<>>, !.num_literals = 0,
                   !.dist_cache = cache, !.saved_dist_cache = cache,
                   !.prev_byte = ByteBack(1, @), !.prev_byte2 = ByteBack(2, @)]

\* Qualities 0 and 1 never come here: they have no ring buffer.  There is no
\* block behind the last one, and none larger than the blocks of the input.
EncodeData(e, is_last, force_flush) ==
    LET none == UnprocessedInputSize(e) = 0
        mode == ChooseContextMode(e.params.quality, e.ringbuffer.buffer, WrapPosition(e.last_flush_pos),
                                  RingMask(e.ringbuffer), e.input_pos - e.last_flush_pos)
        created == CreateCommandsOfBlock([e EXCEPT !.is_last_block_emitted = is_last], mode)
        last == e.last_bytes \o <<1, 1>>
        Encoded(f) ==
            IF ~is_last /\ ~force_flush /\ MayMerge(f) THEN UpdateLastProcessedPos(f)
            ELSE IF ~is_last /\ f.input_pos = f.last_flush_pos THEN WithLastInsert(f)
            ELSE EmitMetaBlock(WithLastInsert(f), is_last, mode)
    IN  CASE none /\ e.ringbuffer.buffer = <<>> ->
                [ok |-> TRUE,
                 e |-> IF is_last THEN [e EXCEPT !.last_bytes = last,
                                                 !.pending = BitsToBytes(JumpToByteBoundary(last))] ELSE e]
          [] none /\ e.ringbuffer.buffer # <<>> /\ ~is_last /\ ~force_flush -> [ok |-> TRUE, e |-> e]
          [] OTHER ->
               IF e.is_last_block_emitted \/ UnprocessedInputSize(e) > InputBlockSize(e)
               THEN [ok |-> FALSE, e |-> e]
               ELSE CHOOSE r \in {[ok |-> TRUE, e |-> Encoded(f)] : f \in {created}} : TRUE

-----------------------------------------------------------------------------
(* Calls of the caller: t has the encoder, the input left, the output that     *)
(* the call has given, the room left for it, and whether it failed.  Where     *)
(* the source compresses right into the caller's memory, which it does when    *)
(* that surely is large enough, the same bytes come out.                       *)

\* InjectBytePaddingBlock: an empty block of metadata fills the last byte.
InjectBytePaddingBlock(e) ==
    [e EXCEPT !.last_bytes = <<>>,
              !.pending = @ \o BitsToBytes(JumpToByteBoundary(e.last_bytes \o <<0, 1, 1, 0, 0, 0>>))]

\* Mutant: the bits of an incomplete byte stay behind.
MustPadNever(e) == FALSE

MustPad(e) == e.state = "flush_requested" /\ e.last_bytes # <<>>
CanPush(t) == MustPad(t.e) \/ (t.e.pending # <<>> /\ t.room > 0)
InjectFlushOrPushOutput(t) ==
    LET n == Least(Len(t.e.pending), t.room) IN
    IF MustPad(t.e) THEN [t EXCEPT !.e = InjectBytePaddingBlock(@)]
    ELSE [t EXCEPT !.room = @ - n, !.out = @ \o SubSeq(t.e.pending, 1, n),
                   !.e.pending = SubSeq(@, n + 1, Len(@))]

CheckFlushComplete(e) ==
    IF e.state = "flush_requested" /\ e.pending = <<>> THEN [e EXCEPT !.state = "processing"] ELSE e

Call(e, input, room) == [e |-> e, input |-> input, out |-> <<>>, room |-> room, ok |-> TRUE]
Failed(t) == [t EXCEPT !.ok = FALSE]
Consume(t, n) == [t EXCEPT !.input = SubSeq(@, n + 1, Len(@))]
After(force_flush, is_last, state) ==
    CASE is_last -> "finished" [] force_flush /\ ~is_last -> "flush_requested" [] OTHER -> state

\* UpdateSizeHint: a caller that gave no hint has at least this much.
UpdateSizeHint(e, available_in) ==
    [e EXCEPT !.params.size_hint =
        IF @ = 0 THEN Least(2^30, UnprocessedInputSize(e) + available_in) ELSE @]

\* A loop ends with the turn that does nothing, or that fails.
RECURSIVE Loop(_, _)
Loop(Turn(_), t) ==
    CHOOSE r \in {IF u = t \/ ~u.ok THEN u ELSE Loop(Turn, u) : u \in {Turn(t)}} : TRUE

\* A turn of BrotliEncoderCompressStreamFast.
FastTurn(t, op) ==
    LET n == Least(WindowSize(t.e.params.lgwin), Len(t.input))
        is_last == Len(t.input) = n /\ op = "finish"
        force_flush == Len(t.input) = n /\ op = "flush"
        block == SubSeq(t.input, 1, n)
        bits == GetHashTable(t.e.params.quality, n)
        coded == IF t.e.params.quality = 0
                 THEN CompressFragmentFast(t.e.last_bytes, t.e.arena, block, is_last, bits)
                 ELSE [storage |-> CompressFragmentTwoPass(t.e.last_bytes, block, is_last, bits),
                       arena |-> t.e.arena]
        Stored(c) == [Output(t.e, c.storage) EXCEPT !.arena = c.arena,
                                                   !.state = After(force_flush, is_last, @)]
        next == IF force_flush /\ n = 0 THEN [t EXCEPT !.e.state = "flush_requested"]
                ELSE CHOOSE r \in {[Consume(t, n) EXCEPT !.e = Stored(c)] : c \in {coded}} : TRUE
    IN  CASE CanPush(t) -> InjectFlushOrPushOutput(t)
          [] /\ ~CanPush(t) /\ t.e.pending = <<>> /\ t.e.state = "processing"
             /\ t.input # <<>> \/ op # "process" -> next
          [] OTHER -> t

\* WriteMetadataHeader
WriteMetadataHeader(e, size) ==
    LET nbytes == CASE size = 0 -> 0 [] size = 1 -> 1 [] OTHER -> (BitWidth(size - 1) + 7) \div 8
    IN  JumpToByteBoundary(e.last_bytes \o <<0, 1, 1, 0>> \o ToBits(2, nbytes)
                           \o ToBits(8 * nbytes, Most(0, size - 1)))

\* A turn of ProcessMetadata.  It is over when the whole block is out.
MetadataTurn(t) ==
    LET encoded == EncodeData(t.e, FALSE, TRUE)
        header == WriteMetadataHeader(t.e, t.e.remaining_metadata)
        n == Least(t.e.remaining_metadata, IF t.room > 0 THEN t.room ELSE 16)
        bytes == SubSeq(t.input, 1, n)
        rest == [Consume(t, n) EXCEPT !.e.remaining_metadata = @ - n]
    IN  CASE t.e.state = "processing" -> t
          [] t.e.state # "processing" /\ CanPush(t) -> InjectFlushOrPushOutput(t)
          [] t.e.state # "processing" /\ ~CanPush(t) /\ t.e.pending # <<>> -> t
          [] /\ t.e.state # "processing" /\ ~CanPush(t) /\ t.e.pending = <<>>
             /\ t.e.input_pos # t.e.last_flush_pos ->
                IF encoded.ok THEN [t EXCEPT !.e = encoded.e] ELSE Failed(t)
          [] OTHER ->
                CASE t.e.state = "metadata_head" ->
                        [t EXCEPT !.e.state = "metadata_body", !.e.last_bytes = <<>>,
                                  !.e.pending = BitsToBytes(header)]
                  [] t.e.state = "metadata_body" /\ t.e.remaining_metadata = 0 ->
                        [t EXCEPT !.e.state = "processing", !.e.remaining_metadata = NoMetadata]
                  [] t.e.state = "metadata_body" /\ t.e.remaining_metadata # 0 ->
                        IF t.room > 0 THEN [rest EXCEPT !.out = @ \o bytes, !.room = @ - n]
                        ELSE [rest EXCEPT !.e.pending = bytes]
                  [] OTHER -> t

\* ProcessMetadata: a block of metadata has to be given whole, and what of it
\* is left has to be given again.
ProcessMetadata(t) ==
    LET begun == IF t.e.state = "processing"
                 THEN [t EXCEPT !.e.remaining_metadata = Len(t.input), !.e.state = "metadata_head"]
                 ELSE t
    IN  IF Len(t.input) > 2^24 \/ begun.e.state \notin {"metadata_head", "metadata_body"} THEN Failed(t)
        ELSE Loop(MetadataTurn, begun)

\* A turn of BrotliEncoderCompressStream.  The first bytes of a stream that
\* continues another, the flint, are a block of their own.
StreamTurn(t, op) ==
    LET space == RemainingInputBlockSize(t.e)
        remaining == IF t.e.flint >= 0 THEN Least(space, t.e.flint) ELSE space
        n == Least(remaining, Len(t.input))
        copied == CopyInputToRingBuffer(t.e, SubSeq(t.input, 1, n))
        Pushed(u) == LET e == CheckFlushComplete(u.e) IN
                     CASE u.e.flint # FlintWaitingForFlushing -> u
                       [] u.e.flint = FlintWaitingForFlushing /\ e.state # "processing" -> [u EXCEPT !.e = e]
                       [] OTHER -> [u EXCEPT !.e = [e EXCEPT !.flint = FlintDone]]
        is_last == t.input = <<>> /\ op = "finish"
        struck == ~is_last /\ t.e.flint = 0
        force_flush == (t.input = <<>> /\ op = "flush") \/ struck
        hinted == UpdateSizeHint([t.e EXCEPT !.flint = IF struck THEN FlintWaitingForFlushing ELSE @],
                                 Len(t.input))
        encoded == EncodeData(hinted, is_last, force_flush)
    IN  CASE n > 0 -> [Consume(t, n) EXCEPT !.e = [copied EXCEPT !.flint = IF @ > 0 THEN @ - n ELSE @]]
          [] n = 0 /\ CanPush(t) -> Pushed(InjectFlushOrPushOutput(t))
          [] /\ n = 0 /\ ~CanPush(t) /\ t.e.pending = <<>> /\ t.e.state = "processing"
             /\ remaining = 0 \/ op # "process" ->
                IF encoded.ok THEN [t EXCEPT !.e = [encoded.e EXCEPT !.state = After(force_flush, is_last, @)]]
                ELSE Failed(t)
          [] OTHER -> t

\* BrotliEncoderCompressStream.  A block of metadata that was begun has to be
\* ended first, and behind a flush or the end there is no input.
CompressStream(encoder, op, input, room) ==
    LET e == EnsureInitialized(encoder)
        t == Call(e, input, room)
        metadata == Call(UpdateSizeHint(e, 0), input, room)
        Turn(u) == IF Fast(u.e) THEN FastTurn(u, op) ELSE StreamTurn(u, op)
        Ended(u) == IF u.ok THEN [u EXCEPT !.e = CheckFlushComplete(@)] ELSE u
    IN  CASE /\ e.remaining_metadata # NoMetadata
             /\ Len(input) # e.remaining_metadata \/ op # "emit_metadata" -> Failed(t)
          [] /\ e.remaining_metadata = NoMetadata \/ Len(input) = e.remaining_metadata
             /\ op = "emit_metadata" -> ProcessMetadata(metadata)
          [] OTHER ->
                IF \/ e.state \in {"metadata_head", "metadata_body"}
                   \/ e.state # "processing" /\ input # <<>>
                THEN Failed(t) ELSE Ended(Loop(Turn, t))

HasMoreOutput(e) == e.pending # <<>>
IsFinished(e) == e.state = "finished" /\ ~HasMoreOutput(e)

\* BrotliEncoderTakeOutput: so many bytes, or all of them.
TakeEncoded(e, size) ==
    LET n == IF size = 0 THEN Len(e.pending) ELSE Least(size, Len(e.pending))
        taken == [e EXCEPT !.pending = SubSeq(@, n + 1, Len(@))]
    IN  [out |-> SubSeq(e.pending, 1, n), e |-> IF n = 0 THEN e ELSE CheckFlushComplete(taken)]

-----------------------------------------------------------------------------
(* A whole stream in one call.                                               *)

\* BrotliEncoderMaxCompressedSize
MaxCompressedSize(input_size) ==
    IF input_size = 0 THEN 2 ELSE input_size + 2 + 4 * (input_size \div 2^14) + 3 + 1

\* MakeUncompressedStream: a window of 2^10, blocks as they are, an empty end.
MakeUncompressedStream(input) ==
    LET most == 2^24
        Chunk(k) == SubSeq(input, most * (k - 1) + 1, Least(most * k, Len(input)))
        Header(size) ==
            LET nibbles == CASE size > 2^20 -> 2 [] size \in 2^16 + 1..2^20 -> 1 [] OTHER -> 0
                bits == <<0>> \o ToBits(2, nibbles) \o ToBits(4 * (nibbles + 4), size - 1) \o <<1>>
            IN  BitsToBytes(JumpToByteBoundary(bits))
        chunks == [k \in 1..(Len(input) + most - 1) \div most |-> Header(Len(Chunk(k))) \o Chunk(k)]
    IN  IF input = <<>> THEN <<6>> ELSE <<33, 3>> \o FlattenSeq(chunks) \o <<3>>

\* BrotliEncoderCompress, with windows of at most 2^24.
Compress(quality, lgwin, mode, input, room) ==
    LET e == [InitEncoder EXCEPT !.params = [@ EXCEPT !.quality = quality, !.lgwin = lgwin,
                                                      !.mode = mode, !.size_hint = Len(input)]]
        Result(t) ==
            CASE t.ok /\ IsFinished(t.e) /\ Len(t.out) <= MaxCompressedSize(Len(input)) ->
                    [ok |-> TRUE, out |-> t.out]
              [] OTHER -> IF room >= MaxCompressedSize(Len(input))
                          THEN [ok |-> TRUE, out |-> MakeUncompressedStream(input)]
                          ELSE [ok |-> FALSE, out |-> <<>>]
    IN  CASE room = 0 -> [ok |-> FALSE, out |-> <<>>]
          [] room > 0 /\ input = <<>> -> [ok |-> TRUE, out |-> <<6>>]
          [] OTHER -> CHOOSE r \in {Result(t) : t \in {CompressStream(e, "finish", input, room)}} : TRUE
=============================================================================
