----------------------------- MODULE BrotliStream -----------------------------
(* The brotli contexts of src/crates/core-lib/src/brotli_stream.rs, over the   *)
(* binding of src/crates/brotli-c/src/lib.rs: a compressing context, with or   *)
(* without a dictionary, a wire, and a decompressing context.  A step is a     *)
(* call of a context, or one of the calls of libbrotli in the loop of such a   *)
(* call, with as little room for output as the caller happens to have.        *)
(*                                                                           *)
(* A case has the kind of the compressing context, its quality and window, the *)
(* dictionary, the data, the sizes of its chunks and of those of the wire, the *)
(* room for the outputs of both, the limit of the decompressed size, and       *)
(* whether there are flushes, metadata, something behind the stream, and a     *)
(* decompressing context that is finished too early.                          *)
EXTENDS BrotliRingBuffer, SequencesExt

\* The contexts know the codec by its calls alone, which are parameters: those
\* of BrotliBinding, for a check, and any that keep the contract, for a proof.
CONSTANTS
    NewEncoder(_, _),       \* the encoder of a case, with a hint of the size
    Encode(_, _, _, _),     \* a call of it: its state, operation, input and room
    NewDecoder(_),          \* the decoder of a case
    Decode(_, _, _, _),     \* a call of it: its state, the wire, input and room
    Meaning(_, _),          \* what bytes of a case say: data, and where they end
    Farthest(_),            \* the longest distance in a window
    Cases,                  \* the cases
    Feed,                   \* FEED, scaled down
    Trailer                 \* what follows the stream on the wire

Byte == 0..255
Open == -1

ASSUME FeedAssumption == Feed \in Nat \ {0}
ASSUME TrailerAssumption == Trailer \in Seq(Byte)
ASSUME CasesAssumption == \A c \in Cases :
    /\ c.kind \in {"plain", "incremental", "buffered"} /\ Farthest(c.lgwin) \in Nat
    /\ c.data \in Seq(Byte) /\ c.metadata \in Seq(Byte) /\ Len(c.metadata) <= 2^24
    /\ c.rooms \subseteq Nat \ {0} /\ c.drains \subseteq Nat \ {0} /\ c.limit \in Nat
ASSUME CodecAssumption == \A c \in Cases :
    /\ \A n \in 0..Len(c.data) : \E e \in {NewEncoder(c, n)} :
            e.state = "processing" /\ ~e.is_initialized /\ e.input_pos = 0
    /\ NewDecoder(c).out = <<>> /\ NewDecoder(c).next_in = 0
    /\ Meaning(c, <<>>) = [out |-> <<>>, end |-> Open, ok |-> TRUE]

VARIABLES
    case,           \* the case
    context,        \* state of the compressing context
    held,           \* its input that the encoder did not get yet
    enc,            \* the encoder
    call,           \* the call of compress_all that runs, and what comes after it
    taken,          \* the data that the encoder took
    metadata,       \* metadata to come, from an encoder of another program
    given,          \* how many bytes of the data the context was given
    promised,       \* how many of them a flush, or the end, had out
    wire,           \* all that it returned, and what follows
    stream,         \* how much of it is the stream, once that is complete
    fed,            \* how many bytes of the wire the decompressing context got
    dec,            \* the decoder
    again,          \* the decompressing context is in its loop
    ending,         \* and that is the loop of its finish
    got,            \* how many bytes it returned
    outcome,        \* "open", or how the stream of that context ended
    spins           \* calls of libbrotli in a row that did nothing, modulo 2
vars == <<case, context, held, enc, call, taken, metadata, given, promised, wire, stream,
          fed, dec, again, ending, got, outcome, spins>>
compressor == <<context, held, enc, call, taken, metadata, given, promised, wire, stream>>
decompressor == <<fed, dec, again, ending, got, outcome>>

\* A call that did nothing is a step too: a loop of them is a behaviour.
Spin(state) == spins' = IF UNCHANGED state THEN 1 - spins ELSE 0

TypeOK ==
    /\ context \in {"holding", "streaming", "failed", "finished"}
    /\ enc.state \in {"processing", "flush_requested", "finished", "metadata_head", "metadata_body"}
    /\ given \in 0..Len(case.data) /\ promised \in 0..given
    /\ stream \in {Open} \cup 0..Len(wire)
    /\ fed \in 0..Len(wire) /\ dec.next_in \in 0..fed /\ got \in 0..Len(dec.out)
    /\ again \in BOOLEAN /\ ending \in BOOLEAN /\ spins \in {0, 1}
    /\ outcome \in {"open", "ended", "late", "trailing", "exceeded", "corrupt", "truncated"}

-----------------------------------------------------------------------------
(* The compressing context.                                                  *)

\* Most input that the context holds: DICT_REACH is the longest distance.
MaxHeld == IF case.kind = "buffered" THEN Len(case.data) ELSE Farthest(case.lgwin)

Rest(n) == SubSeq(case.data, given + 1, given + n)

\* A call of compress_all: its operation and what is left of its input, the
\* input of the same run behind it and the operation that ends the run, and
\* the input of a run to come.
NoCall == [op |-> "none", input |-> <<>>, later |-> <<>>, last |-> "none", then |-> <<>>]
Calling == call.op # "none"

\* Mutant: what does not make a piece is forgotten.
HeldByNothing(op, input) == <<>>

\* Input that does not make a piece waits for more.
HeldBy(op, input) == IF op = "process" /\ Len(input) < Feed THEN input ELSE <<>>

\* The encoder gets the input Feed bytes at a time, and a flush or the end
\* passes on what is left.
CallOf(op, input, then) ==
    CASE Len(input) >= Feed ->
            [op |-> "process", input |-> SubSeq(input, 1, Feed),
             later |-> SubSeq(input, Feed + 1, Len(input)), last |-> op, then |-> then]
      [] Len(input) < Feed /\ op # "process" ->
            [op |-> op, input |-> input, later |-> <<>>, last |-> op, then |-> then]
      [] OTHER -> NoCall

\* Mutant: the encoder gets the chunks as they come.
RunAsGiven(op, input, then) ==
    /\ call' = IF op = "process" /\ input = <<>> THEN NoCall
               ELSE [op |-> op, input |-> input, later |-> <<>>, last |-> op, then |-> then]
    /\ held' = <<>>

\* StreamEncoder::run, up to its first call, and from one call to the next.
Run(op, input, then) ==
    /\ call' = CallOf(op, input, then)
    /\ held' = HeldBy(op, input)

Init ==
    /\ case \in Cases
    /\ context = IF case.kind = "plain" THEN "streaming" ELSE "holding"
    /\ enc = NewEncoder(case, 0) /\ call = NoCall /\ metadata = case.metadata
    /\ held = <<>> /\ taken = <<>> /\ given = 0 /\ promised = 0 /\ wire = <<>> /\ stream = Open
    /\ dec = NewDecoder(case)
    /\ fed = 0 /\ again = FALSE /\ ending = FALSE /\ got = 0 /\ outcome = "open" /\ spins = 0

\* transform.  A context with a dictionary holds its input, until it is more
\* than the dictionary can be of use for: then it compresses and flushes what
\* it holds, and streams from there on.
Transform(n) ==
    LET all == held \o Rest(n) IN
        /\ ~Calling /\ n \in 1..Len(case.data) - given
        /\ given' = given + n
        /\ \/ context = "holding" /\ Len(all) <= MaxHeld
              /\ held' = all
              /\ UNCHANGED <<context, call>>
           \/ context = "holding" /\ Len(all) > MaxHeld
              /\ context' = "streaming"
              /\ Run("flush", SubSeq(all, 1, MaxHeld), SubSeq(all, MaxHeld + 1, Len(all)))
           \/ context = "streaming"
              /\ Run("process", all, <<>>)
              /\ UNCHANGED context
        /\ UNCHANGED <<case, spins, enc, taken, metadata, promised, wire, stream, decompressor>>

\* flush, which a context that holds its input ignores.
Flush ==
    /\ case.flushes /\ context = "streaming" /\ ~Calling
    /\ Run("flush", held, <<>>)
    /\ UNCHANGED <<case, spins, context, enc, taken, metadata, given, promised, wire, stream,
                   decompressor>>

\* finish.  A context that holds its input compresses it like the one-shot
\* functions: in one call, with the size of all of it.
Finish ==
    /\ context \in {"holding", "streaming"} /\ ~Calling
    /\ context' = "finished"
    /\ IF context = "holding"
       THEN /\ enc' = NewEncoder(case, Len(held))
            /\ call' = [NoCall EXCEPT !.op = "finish", !.input = held, !.last = "finish"]
            /\ held' = <<>>
       ELSE Run("finish", held, <<>>) /\ UNCHANGED enc
    /\ UNCHANGED <<case, spins, taken, metadata, given, promised, wire, stream, decompressor>>

\* An encoder of another program may put a block of metadata into the stream.
EmitMetadata ==
    /\ metadata # <<>> /\ context = "streaming" /\ ~Calling
    /\ call' = [NoCall EXCEPT !.op = "emit_metadata", !.input = metadata]
    /\ metadata' = <<>>
    /\ UNCHANGED <<case, spins, context, held, enc, taken, given, promised, wire, stream,
                   decompressor>>

\* Mutant: a flush ends when it has taken its input.
DoneWithInput(e, op, rest) ==
    CASE op = "finish" -> e.state = "finished" /\ e.pending = <<>>
      [] OTHER -> rest = <<>>

\* When the loop of compress_all ends: is_finished, or no has_more_output.
Done(e, op, rest) ==
    CASE op = "process" -> rest = <<>>
      [] op = "finish" -> e.state = "finished" /\ e.pending = <<>>
      [] OTHER -> rest = <<>> /\ e.pending = <<>>

\* What follows a call: the run goes on behind a piece, and a run to come begins
\* behind the end of a run.
Proceed ==
    CASE call.op = "process" -> Run(call.last, call.later, call.then)
      [] call.op = "emit_metadata" -> call' = NoCall /\ UNCHANGED held
      [] OTHER -> Run("process", call.then, <<>>)

\* The data among the first n bytes of the input of the call.
DataOf(n) == IF call.op = "emit_metadata" THEN <<>> ELSE SubSeq(call.input, 1, n)

\* Encoder::compress, in that loop.
EncoderCall(room) ==
    /\ Calling
    /\ \E t \in {Encode(enc, call.op, call.input, room)} :
        LET done == t.ok /\ Done(t.e, call.op, t.input)
        IN  /\ enc' = t.e
            /\ wire' = wire \o t.out
            /\ taken' = taken \o DataOf(Len(call.input) - Len(t.input))
            /\ context' = IF t.ok THEN context ELSE "failed"
            /\ \/ ~t.ok /\ call' = NoCall /\ UNCHANGED held
               \/ t.ok /\ ~done /\ call' = [call EXCEPT !.input = t.input] /\ UNCHANGED held
               \/ done /\ Proceed
            /\ promised' = IF done /\ call.op \in {"flush", "finish"}
                           THEN given - Len(call.then) ELSE promised
            /\ stream' = IF done /\ call.op = "finish" THEN Len(wire') ELSE stream
    /\ Spin(<<enc, wire, call>>)
    /\ UNCHANGED <<case, metadata, given, decompressor>>

\* Something else follows the stream.
Follow ==
    /\ case.followed /\ stream = Len(wire)
    /\ wire' = wire \o Trailer
    /\ UNCHANGED <<case, spins, context, held, enc, call, taken, metadata, given, promised, stream,
                   decompressor>>

-----------------------------------------------------------------------------
(* The decompressing context.                                                *)

Remaining == case.limit - Len(dec.out)

\* StreamDecoder::decompress with n more bytes of the wire.  Once the stream
\* has ended there may be none.
Decompress(n) ==
    /\ ~Calling /\ ~again /\ ~ending /\ n \in 1..Len(wire) - fed
    /\ outcome \in {"open", "ended"}
    /\ fed' = fed + n
    /\ again' = (outcome = "open")
    /\ outcome' = IF outcome = "ended" THEN "late" ELSE outcome
    /\ UNCHANGED <<case, spins, compressor, dec, ending, got>>

\* StreamDecoder::finish, which may come too early.
DecoderFinish ==
    /\ case.cut /\ ~Calling /\ ~again /\ ~ending /\ outcome = "open"
    /\ ending' = TRUE /\ again' = TRUE
    /\ UNCHANGED <<case, spins, compressor, fed, dec, got, outcome>>

\* Mutant: only a decoder that says so has more output.
GoesOnForOutput(d, filled) == d.res = "NEEDS_MORE_OUTPUT"

\* Mutant: the loop goes on to the end of the stream.
GoesOnToEnd(d, filled) == d.res # "SUCCESS"

\* A decoder that asks for more input may have filled the room for its output:
\* then it may have more.
GoesOn(d, filled) == d.res = "NEEDS_MORE_OUTPUT" \/ (d.res = "NEEDS_MORE_INPUT" /\ filled)

\* Mutant: the limit is one byte less.
ExceedsEarly(appended) == appended >= Remaining

\* LimitedVec::append_with: room for one byte more than may come.
Exceeds(appended) == appended > Remaining

\* Mutant: what comes with the end of the stream is taken for a part of it.
TrailsNever(d) == FALSE

\* Input is left behind the end of the stream.
Trails(d) == d.next_in < fed

\* The statuses of Decoder::decompress that are no errors.
Statuses == {"SUCCESS", "NEEDS_MORE_INPUT", "NEEDS_MORE_OUTPUT"}

\* Decoder::decompress, in the loop of StreamDecoder::run.
DecoderCall(size) ==
    LET room == Least(size, Remaining + 1)
        Appended(d) == Len(d.out) - Len(dec.out)
        More(d) == GoesOn(d, Appended(d) = room)
        Verdict(d) ==
            CASE Exceeds(Appended(d)) -> "exceeded"
              [] ~Exceeds(Appended(d)) /\ d.res \notin Statuses -> "corrupt"
              [] ~Exceeds(Appended(d)) /\ d.res = "SUCCESS" ->
                    IF Trails(d) THEN "trailing" ELSE "ended"
              [] OTHER -> IF ending /\ ~More(d) THEN "truncated" ELSE "open"
    IN  /\ again
        /\ dec' = Decode(dec, wire, fed - dec.next_in, room)
        /\ outcome' = Verdict(dec')
        /\ again' = (outcome' = "open" /\ More(dec'))
        /\ got' = IF ~again' /\ outcome' \in {"open", "ended"} THEN Len(dec'.out) ELSE got
        /\ Spin(<<dec, again, outcome>>)
        /\ UNCHANGED <<case, compressor, fed, ending>>

-----------------------------------------------------------------------------
EncoderStep == \E room \in case.rooms : EncoderCall(room)
DecoderStep == \E room \in case.drains : DecoderCall(room)
Receive == \E n \in case.reads : Decompress(Least(n, Len(wire) - fed))

Next ==
    \/ \E n \in case.chunks : Transform(Least(n, Len(case.data) - given))
    \/ Flush
    \/ Finish
    \/ EmitMetadata
    \/ EncoderStep
    \/ Follow
    \/ Receive
    \/ DecoderFinish
    \/ DecoderStep

Spec == Init /\ [][Next]_vars

\* A call of a context runs its loop to the end.  The stream is ended some day,
\* and what comes over the wire goes to the decompressing context.  The actions
\* are told by what they change, and are enabled where their guards hold, so
\* that TLC need not compress to see whether they are: this is
\*   WF_vars(EncoderStep) /\ WF_vars(DecoderStep) /\ SF_vars(Finish) /\ SF_vars(Receive).
CanFinish == context \in {"holding", "streaming"} /\ ~Calling
CanReceive == ~Calling /\ ~again /\ ~ending /\ fed < Len(wire) /\ outcome \in {"open", "ended"}
Fairness ==
    /\ <>[]Calling => []<><<Calling /\ UNCHANGED decompressor>>_vars
    /\ <>[]again => []<><<again /\ UNCHANGED compressor>>_vars
    /\ []<>CanFinish => []<><<context # "finished" /\ context' = "finished">>_vars
    /\ []<>CanReceive => []<><<fed' # fed>>_vars
FairSpec == Spec /\ Fairness

-----------------------------------------------------------------------------
(* The contract of the codec: what the contexts rely on.                     *)

Fed == SubSeq(wire, 1, fed)

\* An operation that was begun is repeated until it is done, with the input that
\* was not taken.
Legal(e, op, input) ==
    CASE op \in {"process", "flush", "finish"} ->
            \/ e.state = "processing"
            \/ e.state = "flush_requested" /\ op = "flush" /\ input = <<>>
            \/ e.state = "finished" /\ op = "finish" /\ input = <<>>
      [] op = "emit_metadata" ->
            \/ e.state = "processing" /\ Len(input) <= 2^24
            \/ e.state \in {"metadata_head", "metadata_body"} /\ e.remaining_metadata = Len(input)

\* A legal call takes input from the front, and its output makes the wire say
\* more of what the encoder took: all of that once a flush or the end is done,
\* and then the encoder is ready again, or at the end.  Only the end of the
\* last call is an end.
EncoderSound(said) ==
    Calling /\ Legal(enc, call.op, call.input) /\ said.ok =>
        \A room \in case.rooms : \E t \in {Encode(enc, call.op, call.input, room)} :
        \E says \in {Meaning(case, wire \o t.out)} :
            LET n == Len(call.input) - Len(t.input)
                took == taken \o DataOf(n)
                done == Done(t.e, call.op, t.input)
            IN  /\ t.ok /\ says.ok /\ t.out \in Seq(Byte) /\ says.out \in Seq(Byte)
                /\ n \in 0..Len(call.input) /\ t.input = SubSeq(call.input, n + 1, Len(call.input))
                /\ IsPrefix(said.out, says.out) /\ IsPrefix(says.out, took)
                /\ ~done => Legal(t.e, call.op, t.input)
                /\ done /\ call.op # "finish" => t.e.state = "processing"
                /\ done /\ call.op \in {"flush", "finish"} => t.input = <<>> /\ says.out = took
                /\ says.end = IF done /\ call.op = "finish" THEN Len(wire \o t.out) ELSE Open

\* A call of the decoder on the rest of a wire without an error takes input from
\* the front and gives more of what that wire says.  If it asks for input and has
\* left room, that is all, and at the end it is all, and the rest is left.
DecoderSound(told) ==
    again /\ told.ok => \A size \in case.drains :
        \E room \in {Least(size, Remaining + 1)} : \E d \in {Decode(dec, wire, fed - dec.next_in, room)} :
            /\ d.res \in Statuses
            /\ d.next_in \in dec.next_in..fed /\ d.out \in Seq(Byte)
            /\ IsPrefix(dec.out, d.out) /\ IsPrefix(d.out, told.out) /\ Len(d.out) <= Len(dec.out) + room
            /\ d.res = "NEEDS_MORE_INPUT" /\ Len(d.out) < Len(dec.out) + room =>
                    d.out = told.out /\ told.end = Open
            /\ d.res = "SUCCESS" => d.out = told.out /\ d.next_in = told.end

\* A part of the wire says a part of what the wire says, without the end unless
\* the end is in it, and what follows the end says nothing.
FormatSound(said, told) == said.ok =>
    /\ IF said.end # Open /\ fed >= said.end THEN told = said
       ELSE told.ok /\ told.end = Open /\ told.out \in Seq(Byte) /\ IsPrefix(told.out, said.out)
    /\ case.followed /\ said.end = Len(wire) => Meaning(case, wire \o Trailer) = said

\* An encoder of case c, with the output out so far, after a call that has room
\* for all that it has to give.
Ran(c, s, op, input) ==
    CHOOSE r \in {[e |-> t.e, out |-> s.out \o t.out] :
                  t \in {Encode(s.e, op, input, Len(c.data) + 1000)}} : TRUE

\* A stream that is neither flushed nor broken up by metadata.
Unbroken == case.kind = "plain" /\ ~case.flushes /\ case.metadata = <<>>

\* What becomes of such a stream does not depend on the room of a call, if the
\* call is repeated with the rest of its input, nor on when the output of an
\* earlier call is taken: and at the end no output is left.
EncoderSteady == Calling /\ Unbroken =>
    \E now \in {[e |-> enc, out |-> wire]} : \E whole \in {Ran(case, now, call.op, call.input)} :
        /\ Ran(case, Ran(case, now, "process", <<>>), call.op, call.input) = whole
        /\ \A room \in case.rooms : \E t \in {Encode(enc, call.op, call.input, room)} :
            \E next \in {[e |-> t.e, out |-> wire \o t.out]} :
                /\ Ran(case, next, call.op, t.input) = whole
                /\ call.op = "finish" /\ Done(t.e, call.op, t.input) => next.out = whole.out

\* A ring buffer rb after writes of bytes in parts that end at the given places,
\* none of them longer than most.
WriteAt(s, bytes, ends, k) ==
    IF k \in ends THEN [rb |-> PushInput(s.rb, SubSeq(bytes, s.from + 1, k)), from |-> k] ELSE s
Written(rb, bytes, ends) ==
    LET after[k \in 0..Len(bytes)] ==
            IF k = 0 THEN [rb |-> rb, from |-> 0]
            ELSE CHOOSE r \in {WriteAt(s, bytes, ends, k) : s \in {after[k - 1]}} : TRUE
    IN  after[Len(bytes)].rb
EndsOfParts(ends, n, most) ==
    n \in ends /\ \A i \in (ends \cup {0}) \ {n} : \E k \in ends : i < k /\ k <= i + most

\* The encoder e has written the bytes to its ring buffer, which was old: in parts
\* no longer than its tail, and to an empty one if it was not set up before.
Wrote(e, old, bytes) ==
    /\ e.is_initialized /\ e.input_pos = enc.input_pos + Len(bytes)
    /\ ~enc.is_initialized => /\ old.size \in Nat /\ old.tail_size \in Nat /\ old.tail_size >= 2
                              /\ old.size >= 2 * old.tail_size /\ LapSize % old.size = 0
    /\ \E inner \in SUBSET (1..Len(bytes) - 1) : \E ends \in {inner \cup {Len(bytes)}} :
            /\ EndsOfParts(ends, Len(bytes), old.tail_size)
            /\ e.ringbuffer = Written(old, bytes, ends)

\* Every call writes the data that it takes; at qualities 0 and 1 it writes nothing.
NewRing(rb) == [size |-> rb.size, tail_size |-> rb.tail_size, cur_size |-> 0, pos |-> 0, buffer |-> <<>>]
EncoderWrites == Calling =>
    \A room \in case.rooms : \E t \in {Encode(enc, call.op, call.input, room)} :
        Wrote(t.e, IF enc.is_initialized THEN enc.ringbuffer ELSE NewRing(t.e.ringbuffer),
              IF case.quality < 2 THEN <<>> ELSE DataOf(Len(call.input) - Len(t.input)))

\* No call of libbrotli that the contexts make breaks its contract, whatever the
\* quality, the dictionary, the state it is in and the room for its output.
CodecKeepsContract ==
    \E said \in {Meaning(case, wire)} :
    \E told \in {IF fed = Len(wire) THEN said ELSE Meaning(case, Fed)} :
        /\ EncoderSound(said) /\ EncoderSteady /\ EncoderWrites
        /\ DecoderSound(told) /\ FormatSound(said, told)

-----------------------------------------------------------------------------
(* Properties.                                                               *)

\* Whatever the chunks, the room, the quality and the dictionary: what one
\* context returns is what the other was given, in order, and the end is
\* reported only behind all of it.
Channel == INSTANCE ByteChannel WITH
    sent <- SubSeq(case.data, 1, given), received <- SubSeq(dec.out, 1, got),
    closed <- context = "finished", ended <- outcome \in {"ended", "late"}
IsChannel == Channel!Spec

\* No call of a legal sequence is refused by the encoder, and no stream of the
\* encoder by the decoder.
NobodyRefuses == context # "failed" /\ outcome # "corrupt"

\* Once a flush is complete, a decompressing context that was given the whole
\* wire has returned all that was to be flushed: nothing of it hangs in bits of
\* an incomplete byte, in the output of the encoder or in a ring buffer, even if
\* the output just fills its room (brotli_stream.rs:710-718).
FlushDelivers ==
    (~Calling /\ ~again /\ outcome = "open" /\ fed = Len(wire)) => got >= promised

\* A stream ends only as it deserves: no error is made of it by the codec; it ends well
\* only if nothing follows its end, whatever the decoder read ahead; it is refused for what
\* follows only if something does, and as truncated only if some of it is missing.
EndIsExact ==
    /\ NobodyRefuses
    /\ outcome = "ended" => fed = stream
    /\ outcome \in {"trailing", "late"} => stream # Open /\ fed > stream
    /\ outcome = "truncated" => stream = Open \/ fed < stream

\* The limit is met exactly, whatever the sizes of the writes (limited.rs:68-92):
\* output of that size passes, and one byte more is an error.
LimitIsExact ==
    /\ Len(dec.out) <= case.limit + 1
    /\ outcome = "ended" => got <= case.limit
    /\ outcome = "exceeded" => given > case.limit

\* The ring buffer of the encoder has the last bytes at their places, behind its
\* end those of the present lap once more, and is ready for the next write
\* (ringbuffer.h:91-159).
RingHoldsInput ==
    enc.is_initialized =>
        LET data == SubSeq(case.data, 1, enc.input_pos)
        IN  Fits(enc.ringbuffer, data) /\ Holds(enc.ringbuffer, data)

\* The encoder after so many pieces of the data: a call without input sets it up.
AfterPieces(c) ==
    LET after[k \in 0..Len(c.data) \div Feed] ==
            IF k = 0 THEN Ran(c, [e |-> NewEncoder(c, 0), out |-> <<>>], "process", <<>>)
            ELSE Ran(c, after[k - 1], "process", SubSeq(c.data, Feed * (k - 1) + 1, Feed * k))
    IN  after

\* The stream of the first n bytes, compressed at once.
Whole(c, n) ==
    LET pieces == n \div Feed
    IN  Ran(c, AfterPieces(c)[pieces], "finish", SubSeq(c.data, Feed * pieces + 1, n)).out

\* The stream is the same however its input was split into chunks and whatever
\* the room for its output was (brotli_stream.rs:381-382), if nothing was flushed.
ChunksDoNotMatter == [][stream' # stream /\ Unbroken => wire' = Whole(case, given)]_vars

\* Every stream comes to its end, or to an error that it deserves.
Finishes == <>(outcome # "open")
=============================================================================
