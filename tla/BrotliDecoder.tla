--------------------------- MODULE BrotliDecoder ---------------------------
(* The decoder of libbrotli (c/dec/decode.c), second half: its ring buffer,  *)
(* the commands of a metablock and the state machine of                      *)
(* BrotliDecoderDecompressStream, whose one call is one operator here.        *)
(*                                                                           *)
(* The bit reader holds real bits and the ring buffer real bytes.  Gap is also *)
(* the number of bytes a copy may move ahead of its length (memmove16), and    *)
(* MinRing the 1024 bytes of the smallest ring buffer.                        *)
EXTENDS BrotliHeader, BrotliTransform

CONSTANT MinRing


WriteAhead == 48        \* kRingBufferWriteAheadSlack: more than any word is long
Unset == 256            \* a byte of malloc that nobody wrote

Window(d) == WindowSize(d.window_bits)
IsError(res) == res \notin {"SUCCESS", "NEEDS_MORE_INPUT", "NEEDS_MORE_OUTPUT"}

\* BrotliDecoderStateInit.  memory is the number of allocations that succeed;
\* large_window and canny are BrotliDecoderSetParameter's.
DecoderInit(memory, large_window, canny) ==
    [state |-> "UNINITED", res |-> "SUCCESS", error |-> "SUCCESS", memory |-> memory,
     br |-> InitBitReader, buffer |-> <<>>, input |-> <<>>, next_in |-> 0, avail_in |-> 0,
     room |-> 0, out |-> <<>>, large_window |-> large_window, canny |-> canny,
     window_bits |-> 0, header |-> "NONE", uint8 |-> "NONE", blen |-> "NONE",
     huffman |-> "NONE", ctx |-> "NONE", unc |-> "NONE", value |-> 0, loop |-> 0,
     is_last |-> FALSE, remaining |-> 0, is_uncompressed |-> FALSE, is_metadata |-> FALSE,
     size_nibbles |-> 0, simple |-> <<>>, symbol |-> 0, lens |-> <<>>, prev_len |-> 0,
     repeat |-> 0, repeat_len |-> 0, space |-> 0, sub |-> 0, cl_table |-> <<>>,
     table |-> <<>>, blen_index |-> 0, num_types |-> <<1, 1, 1>>,
     type_rb |-> <<<<1, 0>>, <<1, 0>>, <<1, 0>>>>, block_length |-> <<0, 0, 0>>,
     type_trees |-> <<>>, len_trees |-> <<>>, htrees |-> 0, map |-> <<>>, max_run |-> 0,
     map_table |-> <<>>, code |-> -1, group |-> <<>>, modes |-> <<>>, i |-> 0,
     postfix |-> 0, ndirect |-> 0, context_map |-> <<>>, dist_map |-> <<>>,
     num_literal_htrees |-> 0, trees |-> <<>>, slice |-> 0, trivial |-> FALSE,
     dist_slice |-> 0, dist_tree |-> 0, distance_code |-> 0, distance_context |-> 0,
     copy_length |-> 0, ring |-> <<>>, ring_size |-> 0, new_ring_size |-> 0, pos |-> 0,
     roundtrips |-> 0, should_wrap |-> FALSE, max_backward |-> 0, max_distance |-> 0,
     dist_rb |-> <<16, 15, 11, 4>>, dist_idx |-> 0,
     chunks |-> <<>>, cd_index |-> 0, cd_offset |-> 0, cd_length |-> 0, cd_copied |-> 0]

\* BrotliDecoderStateMetablockBegin
MetablockBegin(d) ==
    [d EXCEPT !.remaining = 0, !.block_length = [t \in 1..3 |-> BlockSizeCap],
              !.num_types = <<1, 1, 1>>, !.type_rb = [t \in 1..3 |-> <<1, 0>>],
              !.type_trees = <<<<>>, <<>>, <<>>>>, !.len_trees = <<<<>>, <<>>, <<>>>>,
              !.context_map = <<>>, !.modes = <<>>, !.dist_map = <<>>, !.dist_tree = 0,
              !.trees = <<>>, !.group = <<>>]

-----------------------------------------------------------------------------
(* The ring buffer.                                                          *)

\* Positions in the buffer count from 0.
Put(ring, pos, bytes) ==
    SubSeq(ring, 1, pos) \o bytes \o SubSeq(ring, pos + Len(bytes) + 1, Len(ring))
Slice(ring, pos, len) == SubSeq(ring, pos + 1, pos + len)
ByteBefore(d, k) == d.ring[((d.pos - k) % d.ring_size) + 1]

\* BrotliCalculateRingBufferSize: the smallest power of two that holds what is
\* there and the metablock, unless the caller disabled reallocation.
CalculateRingBufferSize(d) ==
    LET min_size == Most(IF d.ring_size # 0 THEN d.ring_size ELSE MinRing,
                         (IF d.ring_size # 0 THEN d.pos ELSE 0) + d.remaining)
        Halvings == {k \in 0..d.window_bits - Shrink : Window(d) \div 2^k >= min_size}
        new == IF d.canny /\ Halvings # {} THEN Window(d) \div 2^Max(Halvings) ELSE Window(d)
    IN  IF d.ring_size = Window(d) \/ d.is_metadata THEN d ELSE [d EXCEPT !.new_ring_size = new]

\* BrotliEnsureRingBuffer: a larger buffer starts with the bytes of the old one;
\* the last two are 0 for the contexts of the first two literals.
EnsureRingBuffer(d, error, Continue(_)) ==
    LET size == d.new_ring_size
        blank == Fill(size - 2, Unset) \o <<0, 0>> \o Fill(WriteAhead, Unset)
        fresh == Put(blank, 0, SubSeq(d.ring, 1, d.pos))
    IN  IF d.ring_size = size THEN Continue(d)
        ELSE Allocate(d, error, LAMBDA e : Continue([e EXCEPT !.ring = fresh, !.ring_size = size]))

UnwrittenBytes(d, wrap) ==
    d.roundtrips * d.ring_size + (IF wrap THEN Least(d.pos, d.ring_size) ELSE d.pos) - Len(d.out)

\* WriteRingBuffer: what fits is pushed; a buffer as large as the window may
\* wrap around once all of it is out.
WriteRingBuffer(d, force) ==
    LET to_write == UnwrittenBytes(d, TRUE)
        num_written == Least(d.room, to_write)
        full == d.ring_size = Window(d)
        e == [d EXCEPT !.out = @ \o Slice(d.ring, Len(@) % d.ring_size, num_written),
                       !.room = @ - num_written, !.res = "SUCCESS"]
    IN  CASE d.remaining < 0 -> Return(d, "FORMAT_BLOCK_LENGTH_1")
          [] d.remaining >= 0 /\ num_written < to_write ->
                IF full \/ force THEN Return(e, "NEEDS_MORE_OUTPUT") ELSE e
          [] d.remaining >= 0 /\ num_written = to_write ->
                IF full /\ d.pos >= d.ring_size
                THEN [e EXCEPT !.pos = @ - d.ring_size, !.roundtrips = @ + 1,
                               !.should_wrap = d.pos # d.ring_size]
                ELSE e

WrapRingBuffer(d) ==
    IF d.should_wrap
    THEN [d EXCEPT !.ring = Put(@, 0, Slice(@, d.ring_size, d.pos)), !.should_wrap = FALSE]
    ELSE d

SkipMetadataBlock(d) ==
    LET nbytes == Least(RemainingBytes(d.br), d.remaining)
        e == [d EXCEPT !.br = CopyBytes(@, nbytes), !.remaining = @ - nbytes]
    IN  IF e.remaining = 0 THEN e ELSE Return(e, "NEEDS_MORE_INPUT")

RECURSIVE CopyUncompressedLoop(_)
CopyUncompressedLoop(d) ==
    LET nbytes == Least(Least(RemainingBytes(d.br), d.remaining), d.ring_size - d.pos)
        e == [d EXCEPT !.ring = Put(@, d.pos, CopiedBytes(d.br, nbytes)),
                       !.br = CopyBytes(@, nbytes),
                       !.pos = @ + nbytes, !.remaining = @ - nbytes]
        Write(c) == Then(WriteRingBuffer([c EXCEPT !.unc = "WRITE"], FALSE), LAMBDA w :
                       CopyUncompressedLoop([w EXCEPT !.unc = "NONE",
                           !.max_distance = IF w.ring_size = Window(w) THEN w.max_backward ELSE @]))
    IN  IF d.unc = "WRITE" THEN Write(d)
        ELSE IF e.pos >= Window(e) THEN Write(e)
        ELSE IF e.remaining = 0 THEN e ELSE Return(e, "NEEDS_MORE_INPUT")

CopyUncompressedBlockToOutput(d) ==
    EnsureRingBuffer(d, "ALLOC_RING_BUFFER_1", CopyUncompressedLoop)

-----------------------------------------------------------------------------
(* Compound dictionaries: the bytes before the first byte of the data.       *)

ChunkOffset(d, index) == LET Size(k) == Len(d.chunks[k]) IN MapThenSumSet(Size, 1..index)
CompoundSize(d) == ChunkOffset(d, Len(d.chunks))

\* BrotliDecoderAttachDictionary and AttachCompoundDictionary
AttachDictionary(d, data) ==
    IF d.state = "UNINITED" /\ Len(d.chunks) < 15 THEN [d EXCEPT !.chunks = Append(@, data)] ELSE d

\* EnsureCompoundDictionaryInitialized: at most 256 slots of 2^bits addresses,
\* each with the first chunk that ends at or after it.
BlockMapBits(d) == CHOOSE b \in 0..23 : /\ (CompoundSize(d) - 1) \div 2^(8 + b) = 0
                                        /\ b = 0 \/ (CompoundSize(d) - 1) \div 2^(7 + b) # 0
BlockMap(d, slot) == Min({k \in 0..Len(d.chunks) - 1 :
                            ChunkOffset(d, k + 1) >= slot * 2^BlockMapBits(d)})

\* InitializeCompoundDictionaryCopy
InitializeCompoundCopy(d, address, length) ==
    LET first == BlockMap(d, address \div 2^BlockMapBits(d))
        index == Min({k \in first..Len(d.chunks) - 1 : address < ChunkOffset(d, k + 1)})
    IN  IF CompoundSize(d) < address + length THEN Return(d, "COMPOUND_DICTIONARY")
        ELSE [d EXCEPT !.dist_rb[(d.dist_idx % 4) + 1] = d.distance_code, !.dist_idx = @ + 1,
                       !.remaining = @ - length, !.cd_index = index,
                       !.cd_offset = address - ChunkOffset(d, index),
                       !.cd_length = length, !.cd_copied = 0]

\* CopyFromCompoundDictionary
RECURSIVE CopyFromCompoundDictionary(_)
CopyFromCompoundDictionary(d) ==
    LET chunk == d.chunks[d.cd_index + 1]
        rem_chunk_length == Len(chunk) - d.cd_offset
        length == Least(Least(d.cd_length - d.cd_copied, rem_chunk_length), d.ring_size - d.pos)
        ends == length = rem_chunk_length
    IN  IF d.cd_length = d.cd_copied \/ d.pos = d.ring_size THEN d
        ELSE CopyFromCompoundDictionary(
               [d EXCEPT !.ring = Put(@, d.pos, SubSeq(chunk, d.cd_offset + 1, d.cd_offset + length)),
                         !.pos = @ + length, !.cd_copied = @ + length,
                         !.cd_index = IF ends THEN @ + 1 ELSE @,
                         !.cd_offset = IF ends THEN 0 ELSE @ + length])

-----------------------------------------------------------------------------
(* Block switches and the parts of a command.                                *)

\* PrepareLiteralDecoding, with the flag of DetectTrivialLiteralBlockTypes: all
\* contexts of the block type have the same tree.
PrepareLiteralDecoding(d) ==
    LET slice == 64 * d.type_rb[1][2] IN
    [d EXCEPT !.slice = slice,
              !.trivial = \A j \in 1..64 : d.context_map[slice + j] = d.context_map[slice + 1]]

DecodeLiteralBlockSwitch(d, safe) ==
    Then(DecodeBlockTypeAndLength(d, 1, safe), PrepareLiteralDecoding)

DecodeDistanceBlockSwitch(d, safe) ==
    Then(DecodeBlockTypeAndLength(d, 3, safe), LAMBDA e :
        [e EXCEPT !.dist_slice = 4 * e.type_rb[3][2],
                  !.dist_tree = e.dist_map[4 * e.type_rb[3][2] + e.distance_context + 1]])

\* TakeDistanceFromRingBuffer: the last four distances, and small changes of
\* the last two.
DistanceDelta == <<-1, 1, -2, 2, -3, 3>>
TakeDistanceFromRingBuffer(d, code) ==
    LET Past(k) == d.dist_rb[((d.dist_idx + k) % 4) + 1]
        near == IF code < 10 THEN Past(3) + DistanceDelta[code - 3]
                             ELSE Past(2) + DistanceDelta[code - 9]
        context == IF code = 0 THEN 1 ELSE 0
    IN  IF code <= 3
        THEN [d EXCEPT !.distance_code = Past(3 - code), !.distance_context = context,
                       !.dist_idx = @ - context]
        ELSE [d EXCEPT !.distance_code = IF near <= 0 THEN 2147483647 ELSE near]

ReadExtraBits(d, safe, n, Continue(_, _)) ==
    IF safe THEN ReadBits(d, n, Continue)
    ELSE LET br == IF n = 0 THEN d.br ELSE FillBitWindow(d.br, 4) IN
         Continue([d EXCEPT !.br = DropBits(br, n)], PeekBits(br, n))

\* ReadDistanceInternal: without enough input for the extra bits the reader
\* goes back to the symbol.
ReadDistance(d, safe) ==
    LET Far(e, bits) ==
            LET code == e.value IN
            [e EXCEPT !.distance_code = DistanceLut(code, d.postfix, d.ndirect).offset
                                          + bits * 2^d.postfix]
        Code(e, code) ==
            LET c == [e EXCEPT !.block_length[3] = @ - 1, !.distance_context = 0, !.value = code]
                f == ReadExtraBits(c, safe, DistanceLut(code, d.postfix, d.ndirect).extra_bits, Far)
            IN  IF code < NumShortCodes THEN TakeDistanceFromRingBuffer(c, code)
                ELSE IF f.res = "SUCCESS" THEN f
                ELSE [d EXCEPT !.distance_context = 0, !.res = f.res]
        table == d.trees[3][d.dist_tree + 1]
    IN  IF safe THEN SafeReadSymbol(d, table, Code) ELSE ReadSymbol(d, table, Code)

\* ReadCommandInternal: the insert length is in d.i.
ReadCommand(d, safe) ==
    LET Code(e, cmd_code) ==
            LET v == CmdLut(cmd_code)
                c == [e EXCEPT !.distance_code = v.distance_code, !.distance_context = v.context,
                               !.dist_tree = d.dist_map[d.dist_slice + v.context + 1],
                               !.i = v.insert_offset]
                r == ReadExtraBits(c, safe, v.insert_extra, LAMBDA f, insert :
                       ReadExtraBits(f, safe, v.copy_extra, LAMBDA g, copy :
                         [g EXCEPT !.i = @ + insert, !.copy_length = v.copy_offset + copy,
                                   !.block_length[2] = @ - 1]))
            IN  IF r.res = "SUCCESS" THEN r ELSE [c EXCEPT !.br = d.br, !.res = r.res]
        table == d.trees[2][d.type_rb[2][2] + 1]
    IN  IF safe THEN SafeReadSymbol(d, table, Code) ELSE ReadSymbol(d, table, Code)

-----------------------------------------------------------------------------
(* ProcessCommandsInternal.  Its labels are operators; d.state is the label   *)
(* from which it goes on when it is called again.  With ~safe it reads ahead  *)
(* and gives up near the end of the input, then it runs again with safe.      *)

RECURSIVE CommandBegin(_, _), CommandInner(_, _), Literals(_, _), PostDecodeLiterals(_, _),
          PostWrapCopy(_, _), CopyLiterals(_, _, _)

InputCheck(d, safe) == safe \/ CheckInputAmount(d.br)
GiveUp(d) == Return(d, "NEEDS_MORE_INPUT")
NextCommand(d, safe) == IF d.remaining <= 0 THEN [d EXCEPT !.state = "METABLOCK_DONE"]
                                            ELSE CommandBegin(d, safe)

ProcessCommands(d, safe) ==
    LET e == IF safe THEN d ELSE [d EXCEPT !.br = Warmup(@)] IN
    IF ~InputCheck(d, safe) THEN GiveUp(d)
    ELSE CASE d.state = "COMMAND_BEGIN" -> CommandBegin(e, safe)
           [] d.state = "COMMAND_INNER" -> CommandInner(e, safe)
           [] d.state = "COMMAND_POST_DECODE_LITERALS" -> PostDecodeLiterals(e, safe)
           [] d.state = "COMMAND_POST_WRAP_COPY" -> PostWrapCopy(e, safe)

CommandBegin(d, safe) ==
    LET c == [d EXCEPT !.state = "COMMAND_BEGIN"]
        Switch == Then(DecodeBlockTypeAndLength(c, 2, safe), LAMBDA e : CommandBegin(e, safe))
    IN  IF ~InputCheck(c, safe) THEN GiveUp(c)
        ELSE IF c.block_length[2] = 0 THEN Switch
        ELSE Then(ReadCommand(c, safe), LAMBDA e :
               IF e.i = 0 THEN PostDecodeLiterals(e, safe)
               ELSE CommandInner([e EXCEPT !.remaining = @ - e.i], safe))

\* BrotliCopyPreloadedSymbolsToU8 reads a number of literals without looking
\* at the input: as many as the bytes before the guard are enough for.
UncheckedLiterals(d) ==
    LET by_block == IF d.i - 1 > d.block_length[1] THEN d.block_length[1] ELSE d.i - 1
        limit == IF d.ring_size >= d.pos /\ d.ring_size - d.pos <= by_block
                 THEN d.ring_size - d.pos - 1 ELSE by_block
    IN  Most(0, Least(limit, ((d.br.guard - d.br.next) * 8) \div 15 - 4))

\* PreloadSymbol peeks 8 bits ahead, a longer symbol asks for 16.
Preload(d, safe) == IF safe THEN d ELSE [d EXCEPT !.br = FillBitWindow(@, 7)]

CommandInner(d, safe) ==
    LET c == [d EXCEPT !.state = "COMMAND_INNER"] IN
    IF ~c.trivial THEN Literals(c, safe)
    ELSE IF safe THEN Literals(c, safe)
    ELSE LET e == Preload(c, safe) IN CopyLiterals(e, safe, UncheckedLiterals(e))

LiteralTable(d) ==
    LET context == IF d.trivial THEN 0
                   ELSE LiteralContext(d.modes[d.type_rb[1][2] + 1] % 4,
                                       ByteBefore(d, 1), ByteBefore(d, 2))
    IN  d.trees[1][d.context_map[d.slice + context + 1] + 1]

ReadLiteral(d, safe, Continue(_)) ==
    LET Store(e, literal) ==
            Continue(Preload([e EXCEPT !.ring[d.pos + 1] = literal, !.pos = @ + 1, !.i = @ - 1,
                                       !.block_length[1] = @ - 1], safe \/ ~d.trivial))
        long == WordLength(LiteralTable(d), d.br.held) \notin 0..8
    IN  CASE safe -> SafeReadSymbol(d, LiteralTable(d), Store)
          [] ~safe /\ d.trivial /\ ~long -> TakeSymbol(d, d.br, LiteralTable(d), Store)
          [] ~safe /\ (~d.trivial \/ long) -> ReadSymbol(d, LiteralTable(d), Store)

CopyLiterals(d, safe, n) ==
    IF n = 0 THEN Literals(d, safe)
    ELSE ReadLiteral(d, safe, LAMBDA e : CopyLiterals(e, safe, n - 1))

\* The loops over the literals of a command.
Literals(d, safe) ==
    LET Switch == Then(DecodeLiteralBlockSwitch(d, safe), LAMBDA e : CommandInner(e, safe))
        Stored(e) ==
            CASE e.pos = e.ring_size -> [e EXCEPT !.state = "COMMAND_INNER_WRITE"]
              [] e.pos # e.ring_size /\ e.i # 0 -> Literals(e, safe)
              [] e.pos # e.ring_size /\ e.i = 0 ->
                    IF e.remaining <= 0 THEN [e EXCEPT !.state = "METABLOCK_DONE"]
                                        ELSE PostDecodeLiterals(e, safe)
    IN  IF ~InputCheck(d, safe) THEN GiveUp(d)
        ELSE IF d.block_length[1] = 0 THEN Switch
        ELSE ReadLiteral(d, safe, Stored)

\* A word of the static dictionary, or an error.
DictionaryReference(d, safe) ==
    LET address == d.distance_code - d.max_distance - 1 - CompoundSize(d)
        shift == SizeBitsByLength[d.copy_length + 1]
        transform_idx == address \div 2^shift
        word == TransformDictionaryWord(DictionaryWord(d.copy_length, address % 2^shift),
                                        transform_idx)
        e == [d EXCEPT !.dist_idx = @ + d.distance_context,
                       !.ring = Put(@, d.pos, word), !.pos = @ + Len(word),
                       !.remaining = @ - Len(word)]
    IN  IF d.copy_length \notin 4..31 \/ shift = 0 THEN Return(d, "FORMAT_DICTIONARY")
        ELSE IF transform_idx >= Len(TransformsData) THEN Return(d, "FORMAT_TRANSFORM")
        ELSE IF word = <<>> /\ d.distance_code <= 120 THEN Return(d, "FORMAT_TRANSFORM")
        ELSE IF e.pos >= e.ring_size THEN [e EXCEPT !.state = "COMMAND_POST_WRITE_1"]
        ELSE NextCommand(e, safe)

CompoundReference(d, safe) ==
    LET address == CompoundSize(d) - (d.distance_code - d.max_distance) IN
    Then(InitializeCompoundCopy(d, address, d.copy_length), LAMBDA c :
        LET e == CopyFromCompoundDictionary(c) IN
        IF e.pos >= e.ring_size THEN [e EXCEPT !.state = "COMMAND_POST_WRITE_1"]
                                ELSE NextCommand(e, safe))

\* A copy within the window.  The first Gap bytes are moved whatever its
\* length is; regions that overlap or wrap are then copied byte by byte.
BackwardCopy(d, safe) ==
    LET src_start == (d.pos - d.distance_code) % d.ring_size
        len == d.copy_length
        moved == CASE len <= Gap -> Gap [] len \in Gap + 1..2 * Gap -> 2 * Gap [] OTHER -> len
        overlap == src_start + len > d.pos /\ d.pos + len > src_start
        wraps == d.pos + len >= d.ring_size \/ src_start + len >= d.ring_size
        c == [d EXCEPT !.dist_rb[(d.dist_idx % 4) + 1] = d.distance_code, !.dist_idx = @ + 1,
                       !.remaining = @ - len]
        Guess(n) == Put(d.ring, d.pos, Slice(d.ring, src_start, n))
    IN  IF overlap \/ wraps THEN PostWrapCopy([c EXCEPT !.ring = Guess(Gap)], safe)
        ELSE NextCommand([c EXCEPT !.ring = Guess(moved), !.pos = @ + len], safe)

PostDecodeLiterals(d, safe) ==
    LET c == [d EXCEPT !.state = "COMMAND_POST_DECODE_LITERALS"]
        Implicit == [c EXCEPT !.distance_context = IF c.distance_code = 0 THEN 1 ELSE 0,
                              !.dist_idx = @ - 1,
                              !.distance_code = c.dist_rb[((c.dist_idx - 1) % 4) + 1]]
        Explicit == Then(IF c.block_length[3] = 0 THEN DecodeDistanceBlockSwitch(c, safe) ELSE c,
                         LAMBDA e : ReadDistance(e, safe))
        Copy(e) ==
            LET f == [e EXCEPT !.i = e.copy_length,
                        !.max_distance = IF @ # e.max_backward THEN Least(e.pos, e.max_backward)
                                                               ELSE @]
            IN  IF f.distance_code <= f.max_distance THEN BackwardCopy(f, safe)
                ELSE IF f.distance_code > MaxAllowedDistance THEN Return(e, "FORMAT_DISTANCE")
                ELSE IF f.distance_code - f.max_distance - 1 < CompoundSize(f)
                     THEN CompoundReference(f, safe)
                ELSE DictionaryReference(f, safe)
    IN  Then(IF c.distance_code >= 0 THEN Implicit ELSE Explicit, Copy)

PostWrapCopy(d, safe) ==
    LET n == Least(d.i, d.ring_size - d.pos)
        Source(k) == (d.pos + k - 1 - d.distance_code) % d.ring_size
        bytes[k \in 0..n] ==
            IF k = 0 THEN <<>>
            ELSE LET done == bytes[k - 1] IN
                 Append(done, IF Source(k) \in d.pos..d.pos + k - 2
                              THEN done[Source(k) - d.pos + 1] ELSE d.ring[Source(k) + 1])
        e == [d EXCEPT !.ring = Put(@, d.pos, bytes[n]), !.pos = @ + n, !.i = @ - n]
    IN  IF n > 0 /\ e.pos = e.ring_size THEN [e EXCEPT !.state = "COMMAND_POST_WRITE_2"]
        ELSE NextCommand(e, safe)

-----------------------------------------------------------------------------
(* The cases of the state machine.                                           *)

Uninited(d) ==
    LET c == [d EXCEPT !.br = Warmup(@)] IN
    IF c.br.held = <<>> THEN GiveUp(c)
    ELSE Then(DecodeWindowBits(c), LAMBDA e :
           [e EXCEPT !.state = IF e.large_window THEN "LARGE_WINDOW_BITS" ELSE "INITIALIZE"])

LargeWindowBits(d) ==
    ReadBits(d, 6, LAMBDA e, bits :
        IF bits \in 10..30 THEN [e EXCEPT !.window_bits = bits, !.state = "INITIALIZE"]
                           ELSE Return([e EXCEPT !.window_bits = bits], "FORMAT_WINDOW_BITS"))

Initialize(d) ==
    Allocate([d EXCEPT !.max_backward = MaxBackwardLimit(d.window_bits)], "ALLOC_BLOCK_TYPE_TREES",
             LAMBDA e : [e EXCEPT !.state = "METABLOCK_BEGIN"])

MetablockHeader(d) ==
    Then(DecodeMetaBlockLength(d), LAMBDA e :
        LET raw == e.is_metadata \/ e.is_uncompressed
            c == IF raw THEN [e EXCEPT !.br = ReadToByteBoundary(@)] ELSE e
            r == CalculateRingBufferSize(c)
            garbage == raw /\ PadBits(e.br) # 0
        IN  CASE garbage -> Return(c, "FORMAT_PADDING_1")
              [] ~garbage /\ c.is_metadata -> [c EXCEPT !.state = "METADATA"]
              [] ~garbage /\ ~c.is_metadata /\ c.remaining = 0 ->
                    [c EXCEPT !.state = "METABLOCK_DONE"]
              [] OTHER -> [r EXCEPT !.state = IF r.is_uncompressed THEN "UNCOMPRESSED"
                                              ELSE "BEFORE_COMPRESSED_METABLOCK_HEADER"])

BeforeCompressedHeader(d) ==
    [d EXCEPT !.i = 0, !.huffman = "NONE", !.ctx = "NONE", !.state = "HUFFMAN_CODE_0"]

\* HUFFMAN_CODE_0 to _3: the block types of each tree type, with the codes of
\* types and lengths and the first length.
HuffmanCode0(d) ==
    IF d.i >= 3 THEN [d EXCEPT !.state = "METABLOCK_HEADER_2"]
    ELSE Then(DecodeVarLenUint8(d), LAMBDA e :
           IF e.value = 0 THEN [e EXCEPT !.num_types[e.i + 1] = 1, !.i = @ + 1]
           ELSE [e EXCEPT !.num_types[e.i + 1] = e.value + 1, !.state = "HUFFMAN_CODE_1"])
HuffmanCode1(d) ==
    LET size == d.num_types[d.i + 1] + 2 IN
    Then(ReadHuffmanCode(d, size, size), LAMBDA e :
        [e EXCEPT !.type_trees[e.i + 1] = e.table, !.state = "HUFFMAN_CODE_2"])
HuffmanCode2(d) ==
    Then(ReadHuffmanCode(d, 26, 26), LAMBDA e :
        [e EXCEPT !.len_trees[e.i + 1] = e.table, !.state = "HUFFMAN_CODE_3"])
HuffmanCode3(d) ==
    Then(SafeReadBlockLength(d, d.len_trees[d.i + 1]), LAMBDA e :
        [e EXCEPT !.block_length[e.i + 1] = e.value, !.i = @ + 1, !.state = "HUFFMAN_CODE_0"])

MetablockHeader2(d) ==
    ReadBits(d, 6, LAMBDA e, bits :
        Allocate([e EXCEPT !.postfix = bits % 4, !.ndirect = (bits \div 4) * 2^(bits % 4)],
                 "ALLOC_CONTEXT_MODES",
                 LAMBDA c : [c EXCEPT !.modes = <<>>, !.state = "CONTEXT_MODES"]))

ContextModes(d) ==
    Then(ReadContextModes(d), LAMBDA e : [e EXCEPT !.state = "CONTEXT_MAP_1"])

ContextMap1(d) ==
    Then(DecodeContextMap(d, 64 * d.num_types[1]), LAMBDA e :
        [e EXCEPT !.num_literal_htrees = e.htrees, !.context_map = e.map,
                  !.state = "CONTEXT_MAP_2"])

\* The map of the distances and the memory of the three groups of trees.
ContextMap2(d) ==
    Then(DecodeContextMap(d, 4 * d.num_types[3]), LAMBDA e :
        Allocate(e, "ALLOC_TREE_GROUPS", LAMBDA f : Allocate(f, "ALLOC_TREE_GROUPS", LAMBDA g :
            Allocate(g, "ALLOC_TREE_GROUPS", LAMBDA c :
                [c EXCEPT !.dist_map = c.map, !.i = 0, !.group = <<>>, !.state = "TREE_GROUP"]))))

TreeGroup(d) ==
    LET distance_max == DistanceAlphabetSize(d.postfix, d.ndirect, IF d.large_window THEN 62 ELSE 24)
        distance_limit == IF d.large_window
                          THEN DistanceCodeLimit(MaxAllowedDistance, d.postfix, d.ndirect).alphabet
                          ELSE distance_max
        size_max == <<256, 704, distance_max>>[d.i + 1]
        size_limit == <<256, 704, distance_limit>>[d.i + 1]
        num == <<d.num_literal_htrees, d.num_types[2], d.htrees>>[d.i + 1]
    IN  Then(HuffmanTreeGroupDecode(d, size_max, size_limit, num), LAMBDA e :
            [e EXCEPT !.trees = Append(@, e.group), !.group = <<>>, !.i = @ + 1,
                      !.state = IF e.i = 2 THEN "BEFORE_COMPRESSED_METABLOCK_BODY" ELSE @])

BeforeCompressedBody(d) ==
    EnsureRingBuffer([PrepareLiteralDecoding(d) EXCEPT !.dist_slice = 0], "ALLOC_RING_BUFFER_2",
        LAMBDA e : [e EXCEPT !.state = "COMMAND_BEGIN"])

Commands(d) ==
    LET fast == ProcessCommands(d, FALSE) IN
    IF fast.res = "NEEDS_MORE_INPUT" THEN ProcessCommands(Return(fast, "SUCCESS"), TRUE) ELSE fast

\* COMMAND_INNER_WRITE, COMMAND_POST_WRITE_1 and COMMAND_POST_WRITE_2
CommandWrite(d) ==
    Then(WriteRingBuffer(d, FALSE), LAMBDA w :
        LET e == [WrapRingBuffer(w) EXCEPT
                    !.max_distance = IF w.ring_size = Window(w) THEN w.max_backward ELSE @]
            c == IF d.state = "COMMAND_POST_WRITE_1" THEN CopyFromCompoundDictionary(e) ELSE e
            Next(label) == [c EXCEPT !.state = IF c.remaining = 0 THEN "METABLOCK_DONE" ELSE label]
        IN  CASE d.state = "COMMAND_POST_WRITE_1" ->
                    IF e.cd_length # e.cd_copied /\ c.pos >= c.ring_size THEN c
                    ELSE Next("COMMAND_BEGIN")
              [] d.state = "COMMAND_POST_WRITE_2" -> [c EXCEPT !.state = "COMMAND_POST_WRAP_COPY"]
              [] d.state = "COMMAND_INNER_WRITE" ->
                    IF c.i = 0 THEN Next("COMMAND_POST_DECODE_LITERALS")
                    ELSE [c EXCEPT !.state = "COMMAND_INNER"])

\* METABLOCK_DONE, with BrotliDecoderStateCleanupAfterMetablock.
MetablockDone(d) ==
    LET clean == [d EXCEPT !.modes = <<>>, !.context_map = <<>>, !.dist_map = <<>>, !.trees = <<>>]
        c == [clean EXCEPT !.br = ReadToByteBoundary(@)]
        br == Unload(c.br)
    IN  CASE d.remaining < 0 -> Return(d, "FORMAT_BLOCK_LENGTH_2")
          [] d.remaining >= 0 /\ ~d.is_last -> [clean EXCEPT !.state = "METABLOCK_BEGIN"]
          [] d.remaining >= 0 /\ d.is_last /\ PadBits(d.br) # 0 -> Return(c, "FORMAT_PADDING_2")
          [] OTHER -> [(IF c.buffer # <<>> THEN c
                        ELSE [c EXCEPT !.br = br, !.avail_in = AvailIn(br), !.next_in = br.next])
                       EXCEPT !.state = "DONE"]

StateMachine(d) ==
    CASE d.state = "UNINITED" -> Uninited(d)
      [] d.state = "LARGE_WINDOW_BITS" -> LargeWindowBits(d)
      [] d.state = "INITIALIZE" -> Initialize(d)
      [] d.state = "METABLOCK_BEGIN" -> [MetablockBegin(d) EXCEPT !.state = "METABLOCK_HEADER"]
      [] d.state = "METABLOCK_HEADER" -> MetablockHeader(d)
      [] d.state = "BEFORE_COMPRESSED_METABLOCK_HEADER" -> BeforeCompressedHeader(d)
      [] d.state = "HUFFMAN_CODE_0" -> HuffmanCode0(d)
      [] d.state = "HUFFMAN_CODE_1" -> HuffmanCode1(d)
      [] d.state = "HUFFMAN_CODE_2" -> HuffmanCode2(d)
      [] d.state = "HUFFMAN_CODE_3" -> HuffmanCode3(d)
      [] d.state = "UNCOMPRESSED" -> Then(CopyUncompressedBlockToOutput(d), LAMBDA e :
                                        [e EXCEPT !.state = "METABLOCK_DONE"])
      [] d.state = "METADATA" -> Then(SkipMetadataBlock(d), LAMBDA e :
                                    [e EXCEPT !.state = "METABLOCK_DONE"])
      [] d.state = "METABLOCK_HEADER_2" -> MetablockHeader2(d)
      [] d.state = "CONTEXT_MODES" -> ContextModes(d)
      [] d.state = "CONTEXT_MAP_1" -> ContextMap1(d)
      [] d.state = "CONTEXT_MAP_2" -> ContextMap2(d)
      [] d.state = "TREE_GROUP" -> TreeGroup(d)
      [] d.state = "BEFORE_COMPRESSED_METABLOCK_BODY" -> BeforeCompressedBody(d)
      [] d.state \in {"COMMAND_BEGIN", "COMMAND_INNER", "COMMAND_POST_DECODE_LITERALS",
                      "COMMAND_POST_WRAP_COPY"} -> Commands(d)
      [] d.state \in {"COMMAND_INNER_WRITE", "COMMAND_POST_WRITE_1", "COMMAND_POST_WRITE_2"} ->
            CommandWrite(d)
      [] d.state = "METABLOCK_DONE" -> MetablockDone(d)

-----------------------------------------------------------------------------
(* A call.                                                                   *)

\* SaveErrorCode.  What the bit reader points to is of no use after the call.
SaveErrorCode(d) ==
    [d EXCEPT !.error = d.res,
              !.buffer = IF d.br.next = d.br.last THEN <<>> ELSE @,
              !.input = <<>>, !.avail_in = 0, !.room = 0,
              !.br.src = <<>>, !.br.next = 0, !.br.last = 0, !.br.guard = 0]

RECURSIVE Run(_)

\* The tail of the loop: a state needs more input, more output or has failed.
\* A read that the rest of the input is too short for is repeated from the
\* decoder's own buffer, one byte longer each time.
Interrupted(d) ==
    LET starved == d.res = "NEEDS_MORE_INPUT"
        w == IF starved /\ d.ring_size # 0 THEN WriteRingBuffer(d, TRUE) ELSE d
        c == IF IsError(w.res) THEN w ELSE [w EXCEPT !.res = d.res]
        Retry(e, src, next, avail) ==
            Run([e EXCEPT !.res = "SUCCESS", !.br = SetInput(@, src, next, avail)])
        longer == Append(c.buffer, c.input[c.next_in + 1])
        rest == SubSeq(c.br.src, c.br.next + 1, c.br.last)
        br == Unload(c.br)
    IN  CASE starved /\ IsError(c.res) -> SaveErrorCode(c)
          [] starved /\ ~IsError(c.res) /\ c.buffer # <<>> ->
                IF c.br.next = c.br.last
                THEN Retry([c EXCEPT !.buffer = <<>>], c.input, c.next_in, c.avail_in)
                ELSE IF c.avail_in # 0
                THEN Retry([c EXCEPT !.buffer = longer, !.next_in = @ + 1, !.avail_in = @ - 1],
                           longer, 0, Len(longer))
                ELSE SaveErrorCode(c)
          [] starved /\ ~IsError(c.res) /\ c.buffer = <<>> ->
                SaveErrorCode([c EXCEPT !.buffer = rest, !.next_in = c.br.last])
          [] ~starved ->
                SaveErrorCode(IF c.buffer # <<>> THEN [c EXCEPT !.buffer = <<>>]
                              ELSE [c EXCEPT !.br = br, !.next_in = br.next])

\* DONE: the rest of the output.
Done(d) ==
    LET w == IF d.ring_size # 0 THEN WriteRingBuffer(d, TRUE) ELSE d IN
    IF w.res = "SUCCESS" THEN SaveErrorCode(w) ELSE Run(w)

Run(d) ==
    IF d.res # "SUCCESS" THEN Interrupted(d)
    ELSE IF d.state = "DONE" THEN Done(d)
    ELSE Run(StateMachine(d))

\* BrotliDecoderDecompressStream.  The caller's next_in is an offset in input;
\* avail bytes of it are there.
DecompressStream(d, input, avail, room) ==
    LET c == [d EXCEPT !.input = input, !.avail_in = avail, !.room = room] IN
    IF IsError(d.error) THEN Return(d, d.error)
    ELSE IF d.buffer = <<>>
    THEN Run([c EXCEPT !.res = "SUCCESS", !.br = SetInput(@, input, d.next_in, avail)])
    ELSE Run([c EXCEPT !.res = "NEEDS_MORE_INPUT", !.br = SetInput(@, d.buffer, 0, Len(d.buffer))])

\* BrotliDecoderDecompress: the stream in one call, with room for all of it.
Decompress(input, room) ==
    LET d == DecompressStream(DecoderInit(1000, FALSE, TRUE), input, Len(input), room) IN
    [ok |-> d.res = "SUCCESS", bytes |-> d.out]

HasMoreOutput(d) == ~IsError(d.error) /\ d.ring_size # 0 /\ UnwrittenBytes(d, FALSE) # 0
IsFinished(d) == d.state = "DONE" /\ ~HasMoreOutput(d)
IsUsed(d) == d.state # "UNINITED" \/ d.br.held # <<>>

\* BrotliDecoderTakeOutput
TakeOutput(d, size) ==
    LET w == WriteRingBuffer([WrapRingBuffer(d) EXCEPT !.room = size], TRUE) IN
    IF d.ring_size = 0 \/ IsError(d.error) THEN d
    ELSE IF IsError(w.res) THEN [d EXCEPT !.error = w.res]
    ELSE [w EXCEPT !.room = 0, !.res = d.res]
=============================================================================
