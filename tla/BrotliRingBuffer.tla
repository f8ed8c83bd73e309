-------------------------- MODULE BrotliRingBuffer --------------------------
(* The ring buffer of the encoder: c/enc/ringbuffer.h.                        *)
(*                                                                           *)
(* A ring buffer rb has the bytes in buffer, a copy of the first ones behind   *)
(* them as the tail, and seven bytes for those who read eight at a time.  The  *)
(* two bytes before it, which nothing reads, are left out.  Its position       *)
(* counts the whole input, up to a wrap at 2^Lap, 2^30 in the program.         *)
EXTENDS BrotliBits

CONSTANT Lap
ASSUME LapAssumption == Lap \in Nat \ {0}

\* Bytes behind the tail.
Slackness == 7

RingMask(rb) == rb.size - 1

\* RingBufferInitBuffer: old bytes stay; what was never written counts as zero.
RingBufferInitBuffer(rb, buflen) ==
    [rb EXCEPT !.cur_size = buflen,
               !.buffer = LET kept == Least(Len(@), buflen) IN
                          SubSeq(@, 1, kept) \o Zeros(buflen + Slackness - kept)]

\* memcpy of the bytes to an offset of the buffer.
Copied(buffer, at, bytes) ==
    SubSeq(buffer, 1, at) \o bytes \o SubSeq(buffer, at + Len(bytes) + 1, Len(buffer))

\* Mutant: the tail is written in the first lap only.
RingBufferWriteTailOnce(rb, bytes) ==
    IF rb.pos >= rb.tail_size THEN rb
    ELSE [rb EXCEPT !.buffer = Copied(@, rb.size + rb.pos,
                                      SubSeq(bytes, 1, Least(Len(bytes), rb.tail_size - rb.pos)))]

RingBufferWriteTail(rb, bytes) ==
    LET masked_pos == rb.pos % rb.size IN
    IF masked_pos >= rb.tail_size THEN rb
    ELSE [rb EXCEPT !.buffer = Copied(@, rb.size + masked_pos,
                                      SubSeq(bytes, 1, Least(Len(bytes), rb.tail_size - masked_pos)))]

\* The whole buffer, which a first write that is small does not make.
RingBufferGrow(rb) ==
    LET total == rb.size + rb.tail_size
        b == RingBufferInitBuffer(rb, total)
    IN  IF rb.cur_size >= total THEN rb
        ELSE [b EXCEPT !.buffer = [@ EXCEPT ![rb.size - 1] = 0, ![rb.size] = 0, ![rb.size + 1] = 241]]

\* Positions wrap, but stay behind the first lap.
LapSize == 2^(Lap + 1)
NextPosition(pos, n) ==
    LET next == (pos % LapSize) + (n % LapSize)
    IN  IF pos >= LapSize THEN (next % LapSize) + LapSize ELSE next

\* RingBufferWrite: a first write that is small has a buffer of its own size.
RingBufferWrite(rb, bytes) ==
    LET n == Len(bytes)
        masked_pos == rb.pos % rb.size
        ready == RingBufferWriteTail(RingBufferGrow(rb), bytes)
        first == Copied(ready.buffer, masked_pos,
                        SubSeq(bytes, 1, Least(n, rb.size + rb.tail_size - masked_pos)))
    IN  IF rb.pos = 0 /\ n < rb.tail_size
        THEN [RingBufferInitBuffer(rb, n) EXCEPT !.pos = n, !.buffer = Copied(@, 0, bytes)]
        ELSE [ready EXCEPT !.pos = NextPosition(rb.pos, n),
                           !.buffer = IF masked_pos + n <= rb.size THEN first
                                      ELSE Copied(first, 0, SubSeq(bytes, rb.size - masked_pos + 1, n))]

\* CopyInputToRingBuffer: on the first lap there are zeros behind the input.
PushInput(rb, bytes) ==
    LET next == RingBufferWrite(rb, bytes) IN
    IF next.pos > RingMask(next) THEN next
    ELSE [next EXCEPT !.buffer = Copied(@, next.pos, Zeros(Slackness))]

-----------------------------------------------------------------------------
(* What a ring buffer is after the input data.                               *)

\* The position is that of the input, or has wrapped and is at the same place;
\* the buffer is whole, or there was one small write.
Fits(rb, data) ==
    /\ rb \in [size : Nat, tail_size : Nat, cur_size : Nat, pos : Nat, buffer : Seq(Nat)]
    /\ rb.tail_size >= 2 /\ rb.size >= 2 * rb.tail_size
    /\ IF rb.pos < LapSize THEN rb.pos = Len(data)
       ELSE /\ Len(data) >= LapSize /\ rb.pos < 2 * LapSize
            /\ rb.pos % rb.size = Len(data) % rb.size
    /\ \/ data = <<>> /\ rb.buffer = <<>> /\ rb.cur_size = 0
       \/ /\ Len(rb.buffer) = rb.cur_size + Slackness
          /\ \/ rb.cur_size = rb.size + rb.tail_size
             \/ rb.cur_size = Len(data) /\ Len(data) < rb.tail_size

\* It has the last bytes of the input at their places, and behind its end those
\* of the present lap once more.
Kept(size, data) == Most(0, Len(data) - size)..Len(data) - 1
AtPlace(buffer, size, tail_size, data, p) ==
    /\ buffer[(p % size) + 1] = data[p + 1]
    /\ p >= size /\ p % size < tail_size => buffer[size + (p % size) + 1] = data[p + 1]
Holds(rb, data) ==
    \A p \in Kept(rb.size, data) : AtPlace(rb.buffer, rb.size, rb.tail_size, data, p)
=============================================================================
