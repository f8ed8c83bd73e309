------------------------ MODULE CompressedResponseProofs -----------------------
(***************************************************************************)
(* Proofs about CompressedResponse, for bodies and marks of any size.      *)
(***************************************************************************)
EXTENDS CompressedResponse, SequenceTheorems, TLAPS

(* The values that are counted with, and the sequences. *)
NumInv ==
    /\ inq \in Seq(0 .. MaxUnits) /\ held \in 0 .. MaxUnits /\ inLen \in Int
    /\ outq \in Seq(Nat) /\ sock \in Seq(Nat)
    /\ given \in Nat /\ covered \in Nat /\ written \in Nat
    /\ call.size \in 0 .. MaxUnits

(* Nothing of the body is there before the headers are out. *)
BeforeInv ==
    ~sent => /\ ~raw /\ ~resEnded /\ ~ending /\ ~eof /\ ~needDrain /\ ~unflushed
             /\ inq = <<>> /\ inLen = 0 /\ held = 0 /\ sock = <<>> /\ written = 0

(* Where a call is, and what the headers say meanwhile. *)
PlainHdr ==
    \/ hdr = OwnHeaders
    \/ declared = None /\ hdr = [OwnHeaders EXCEPT !.length = bodyLength]

EncodedHdr == hdr.encoding /\ hdr.length = None /\ hdr.etag # "strong"

HeadInv ==
    /\ step \in {"decide", "raw"} => ~sent /\ comp = "none" /\ hdr = OwnHeaders
    /\ step = "decide" => ~decided
    /\ step = "emit" =>
          /\ ~sent
          /\ snapshot.length = declared /\ snapshot.etag = OwnHeaders.etag
          /\ \/ comp = "open" /\ EncodedHdr
             \/ comp = "none" /\ PlainHdr
    /\ step \in {"body", "finish"} => sent
    /\ step = "finish" => comp # "none"
    /\ step = "none" /\ ~sent => comp = "none" /\ hdr = OwnHeaders
    /\ sent => \/ comp = "none" /\ PlainHdr
               \/ comp # "none" /\ EncodedHdr /\ ~raw
    /\ sent /\ comp = "none" => (ending <=> resEnded)
    /\ step # "none" => ~ending

(* The handler of a response whose end() failed answers with end() again. *)
NoRestarts == ~Restarts

(* Only an end() knows the length of the body, which is then its chunk. *)
LengthInv ==
    bodyLength # None =>
        /\ ~sent /\ step # "none" => call.op = "end" /\ call.size = bodyLength
        /\ sent /\ comp = "none" =>
              \/ step = "body" /\ written = 0 /\ call.op = "end" /\ call.size = bodyLength
              \/ step = "none" /\ ending /\ resEnded /\ written = bodyLength

(* The native state is open exactly while the compressor is at work. *)
StateInv ==
    /\ ~orphan
    /\ encoder = "none" <=> comp = "none"
    /\ comp \in {"failed", "destroyed"} => encoder = "closed"
    /\ eof /\ comp # "none" => encoder = "closed"
    /\ resEnded => comp \in {"none", "destroyed"}
    /\ gone /\ ~late => encoder # "open"

(* What was not flushed is input that the last flush did not cover. *)
FlushInv == covered <= given /\ (unflushed /\ comp = "open" => covered < given) /\ ~empty

(* Each buffer that is full holds up the one before it. *)
SocketInv ==
    comp # "none" => Len(sock) <= SockHigh /\ (flowing => Len(sock) < SockHigh)

InputInv ==
    comp = "open" =>
        /\ inLen >= InHigh => needDrain
        /\ needDrain => waiting

(* What holds whatever the handler does. *)
CoreInv ==
    /\ NumInv
    /\ BeforeInv
    /\ HeadInv
    /\ StateInv
    /\ FlushInv
    /\ SocketInv
    /\ InputInv

--------------------------------------------------------------------------------
(* Each part of the invariant, through every step. *)

(* What the sequences of the streams hold, and how long they are. *)
LEMMA SequenceFacts ==
    ASSUME NumInv
    PROVE  /\ \A n \in Nat : /\ Append(outq, n) \in Seq(Nat) /\ Append(sock, n) \in Seq(Nat)
                           /\ Len(Append(sock, n)) = Len(sock) + 1
           /\ \A n \in 0 .. MaxUnits : Append(inq, n) \in Seq(0 .. MaxUnits)
           /\ inq # <<>> => Head(inq) \in 0 .. MaxUnits /\ Head(inq) \in Nat
                            /\ Tail(inq) \in Seq(0 .. MaxUnits)
           /\ outq # <<>> => Head(outq) \in Nat /\ Tail(outq) \in Seq(Nat)
           /\ sock # <<>> => Head(sock) \in Nat /\ Tail(sock) \in Seq(Nat)
                             /\ Len(Tail(sock)) = Len(sock) - 1
           /\ Len(sock) \in Nat
           /\ <<>> \in Seq(0 .. MaxUnits)
<1> USE DEF NumInv
<1>1. \A n \in Nat : /\ Append(outq, n) \in Seq(Nat) /\ Append(sock, n) \in Seq(Nat)
                    /\ Len(Append(sock, n)) = Len(sock) + 1
  BY AppendProperties
<1>2. \A n \in 0 .. MaxUnits : Append(inq, n) \in Seq(0 .. MaxUnits)
  BY AppendProperties
<1>3. inq # <<>> => Head(inq) \in 0 .. MaxUnits /\ Tail(inq) \in Seq(0 .. MaxUnits)
  BY HeadTailProperties
<1>4. inq # <<>> => Head(inq) \in Nat
  BY <1>3, SizesAssumption
<1>5. outq # <<>> => Head(outq) \in Nat /\ Tail(outq) \in Seq(Nat)
  BY HeadTailProperties
<1>6. sock # <<>> => /\ Head(sock) \in Nat /\ Tail(sock) \in Seq(Nat)
                     /\ Len(Tail(sock)) = Len(sock) - 1
  BY HeadTailProperties
<1>7. Len(sock) \in Nat
  BY LenProperties
<1>8. <<>> \in Seq(0 .. MaxUnits)
  BY EmptySeq
<1> QED
  BY <1>1, <1>2, <1>3, <1>4, <1>5, <1>6, <1>7, <1>8

(* A reader that flows emits one output into a socket that is not full.   *)
LEMMA DeliverFacts ==
    ASSUME NumInv, NEW tag \in Nat, Deliver(tag), flowing
    PROVE  /\ sock' \in Seq(Nat)
           /\ Len(sock) < SockHigh => Len(sock') <= SockHigh /\ (flowing' => Len(sock') < SockHigh)
<1>1. CASE gone
  BY <1>1, SequenceFacts, SizesAssumption DEF Deliver, SendRaw, NumInv
<1>2. CASE ~gone
  <2>1. /\ Len(sock) \in Nat /\ Append(sock, tag) \in Seq(Nat)
        /\ Len(Append(sock, tag)) = Len(sock) + 1
    BY SequenceFacts
  <2>2. sock' = Append(sock, tag) /\ (flowing' <=> Len(sock') < SockHigh)
    BY <1>2 DEF Deliver, SendRaw
  <2> QED
    BY <2>1, <2>2, SizesAssumption
<1> QED
  BY <1>1, <1>2

LEMMA PushFacts ==
    ASSUME NumInv, NEW tag \in Nat, Push(tag)
    PROVE  /\ outq' \in Seq(Nat) /\ sock' \in Seq(Nat)
           /\ Len(sock) <= SockHigh /\ (flowing => Len(sock) < SockHigh)
                => Len(sock') <= SockHigh /\ (flowing' => Len(sock') < SockHigh)
<1>1. CASE flowing /\ Deliver(tag) /\ UNCHANGED outq
  BY <1>1, DeliverFacts DEF NumInv
<1>2. CASE outq' = Append(outq, tag) /\ UNCHANGED <<sock, sockNeed, flowing>>
  BY <1>2, SequenceFacts DEF NumInv
<1> QED
  BY <1>1, <1>2 DEF Push

(* Every step keeps the types of the values that are counted with. *)
LEMMA NumbersStay ==
    ASSUME NumInv, Next
    PROVE  NumInv'
<1> USE DEF NumInv,
            givenVars, headVars, callVars, inVars, encVars, flushVars,
            outVars, sockVars, userVars
<1>m. MaxUnits \in Nat
  BY SizesAssumption
<1>e. <<>> \in Seq(0 .. MaxUnits) /\ 0 \in 0 .. MaxUnits
  BY <1>m, SequenceFacts
<1>s. call.size \in Nat /\ written \in Nat /\ inLen \in Int
  BY <1>m
<1>1. ASSUME NEW code \in Codes, NEW fields \in {"none", "length", "odd"},
             CallWriteHead(code, fields)
      PROVE  NumInv'
  BY <1>1, <1>m DEF CallWriteHead, Begin
<1>2. ASSUME NEW n \in 0 .. MaxUnits, CallWrite(n)
      PROVE  NumInv'
  BY <1>2 DEF CallWrite, Begin
<1>3. ASSUME NEW n \in 0 .. MaxUnits, CallEnd(n)
      PROVE  NumInv'
  BY <1>3 DEF CallEnd, Begin
<1>4. ASSUME SetStatus
      PROVE  NumInv'
  BY <1>4 DEF SetStatus
<1>5. ASSUME CallFlush
      PROVE  NumInv'
  <2>1. /\ UNCHANGED <<call, inLen, given, written>>
        /\ (UNCHANGED <<inq, held>>) \/ (inq' = <<>> /\ held' = 0)
        /\ covered' \in {covered, given}
        /\ Push(given) \/ UNCHANGED <<outq, sock>>
    BY <1>5 DEF CallFlush, Flush, Fail
  <2>2. outq' \in Seq(Nat) /\ sock' \in Seq(Nat)
    BY <2>1, PushFacts
  <2> QED
    BY <2>1, <2>2, <1>e
<1>6. ASSUME WriteAfterEnd
      PROVE  NumInv'
  BY <1>6 DEF WriteAfterEnd, Flushing
<1>7. ASSUME Decide
      PROVE  NumInv'
  <2>1. /\ UNCHANGED <<inq, inLen, held, given, covered, written, outq, sock>>
        /\ call' = call \/ call' = NoCall
    BY <1>7 DEF Decide, Return
  <2> QED
    BY <2>1, <1>e DEF NoCall
<1>8. ASSUME EmitHeaders
      PROVE  NumInv'
  BY <1>8, <1>e DEF EmitHeaders, HeadersAreOut, Return, NoCall
<1>9. ASSUME UndoDecision
      PROVE  NumInv'
  <2>1. /\ UNCHANGED <<inq, inLen, held, given, covered, written, outq, sock>>
        /\ call' = NoCall
    BY <1>9 DEF UndoDecision, Return
  <2> QED
    BY <2>1, <1>e DEF NoCall
<1>10. ASSUME EmitRaw
      PROVE  NumInv'
  BY <1>10, <1>e DEF EmitRaw, HeadersAreOut, Return, NoCall
<1>11. ASSUME WriteRaw
      PROVE  NumInv'
  <2>1. /\ UNCHANGED <<inq, inLen, held, given, covered, outq>>
        /\ call'.size = 0 /\ written' = written + call.size
        /\ sock' \in {sock, Append(sock, written')}
    BY <1>11 DEF WriteRaw, SendRaw, Return, NoCall
  <2>2. written' \in Nat
    BY <2>1, <1>s
  <2>3. sock' \in Seq(Nat)
    BY <2>1, <2>2, SequenceFacts
  <2> QED
    BY <2>1, <2>2, <2>3, <1>e
<1>12. ASSUME EndRaw
      PROVE  NumInv'
  <2>1. /\ UNCHANGED <<inq, inLen, held, given, covered, outq>>
        /\ call'.size = 0 /\ written' = written + call.size
        /\ sock' \in {sock, Append(sock, written')}
    BY <1>12 DEF EndRaw, SendRaw, Return, NoCall
  <2>2. written' \in Nat
    BY <2>1, <1>s
  <2>3. sock' \in Seq(Nat)
    BY <2>1, <2>2, SequenceFacts
  <2> QED
    BY <2>1, <2>2, <2>3, <1>e
<1>13. ASSUME WriteToCompressor
      PROVE  NumInv'
  <2>1. /\ UNCHANGED <<held, given, covered, outq, sock>>
        /\ call'.size \in {0, call.size}
        /\ \/ /\ inq' = Append(inq, call.size) /\ inLen' = inLen + call.size
              /\ written' = written + call.size
           \/ UNCHANGED <<inq, inLen, written>>
    BY <1>13 DEF WriteToCompressor, Return, NoCall
  <2>2. inq' \in Seq(0 .. MaxUnits)
    BY <2>1, SequenceFacts
  <2>3. inLen' \in Int /\ written' \in Nat
    BY <2>1, <1>s
  <2> QED
    BY <2>1, <2>2, <2>3, <1>e
<1>14. ASSUME EndCompressor
      PROVE  NumInv'
  BY <1>14, <1>e DEF EndCompressor, Return, NoCall
<1>15. ASSUME Transform
      PROVE  NumInv'
  <2>1. Head(inq) \in Nat /\ Head(inq) \in 0 .. MaxUnits /\ Tail(inq) \in Seq(0 .. MaxUnits)
    BY <1>15, SequenceFacts DEF Transform, Transient
  <2>2. /\ UNCHANGED <<call, covered, written>>
        /\ given' \in {given, given + Head(inq)}
        /\ inLen' \in {inLen, inLen - Head(inq)}
        /\ held' \in {held, Head(inq), 0}
        /\ inq' \in {Tail(inq), <<>>}
        /\ Push(covered) \/ UNCHANGED <<outq, sock>>
    BY <1>15 DEF Transform, SkipEmpty, Compress, Fail
  <2>3. outq' \in Seq(Nat) /\ sock' \in Seq(Nat)
    BY <2>2, PushFacts
  <2>4. given' \in Nat /\ inLen' \in Int
    BY <2>1, <2>2
  <2> QED
    BY <2>1, <2>2, <2>3, <2>4, <1>e
<1>16. ASSUME ReadCompletes
      PROVE  NumInv'
  BY <1>16, <1>e DEF ReadCompletes
<1>17. ASSUME Read
      PROVE  NumInv'
  BY <1>17, SequenceFacts DEF Read, Deliver, SendRaw
<1>18. ASSUME AfterWrite
      PROVE  NumInv'
  BY <1>18 DEF AfterWrite
<1>19. ASSUME Finish
      PROVE  NumInv'
  <2>1. /\ UNCHANGED <<call, inLen, given, written>>
        /\ (UNCHANGED <<inq, held>>) \/ (inq' = <<>> /\ held' = 0)
        /\ covered' \in {covered, given}
        /\ Push(given) \/ UNCHANGED <<outq, sock>>
    BY <1>19 DEF Finish, Fail
  <2>2. outq' \in Seq(Nat) /\ sock' \in Seq(Nat)
    BY <2>1, PushFacts
  <2> QED
    BY <2>1, <2>2, <1>e
<1>20. ASSUME EmitEnd
      PROVE  NumInv'
  BY <1>20 DEF EmitEnd
<1>21. ASSUME EmitError
      PROVE  NumInv'
  BY <1>21 DEF EmitError
<1>22. ASSUME CheckIdle
      PROVE  NumInv'
  <2>1. /\ UNCHANGED <<call, inLen, given, written>>
        /\ (UNCHANGED <<inq, held>>) \/ (inq' = <<>> /\ held' = 0)
        /\ covered' \in {covered, given}
        /\ Push(given) \/ UNCHANGED <<outq, sock>>
    BY <1>22 DEF CheckIdle, Flush, Fail
  <2>2. outq' \in Seq(Nat) /\ sock' \in Seq(Nat)
    BY <2>1, PushFacts
  <2> QED
    BY <2>1, <2>2, <1>e
<1>23. ASSUME SocketDrains
      PROVE  NumInv'
  BY <1>23 DEF SocketDrains, EmitDrain
<1>24. ASSUME ClientReads
      PROVE  NumInv'
  BY <1>24, SequenceFacts DEF ClientReads
<1>25. ASSUME Close
      PROVE  NumInv'
  <2>1. /\ UNCHANGED <<call, inLen, given, covered, written, outq, sock>>
        /\ (UNCHANGED <<inq, held>>) \/ (inq' = <<>> /\ held' = 0)
    BY <1>25 DEF Close
  <2> QED
    BY <2>1, <1>e
<1> QED
  BY <1>1, <1>2, <1>3, <1>4, <1>5, <1>6, <1>7, <1>8, <1>9, <1>10, <1>11, <1>12, <1>13,
     <1>14, <1>15, <1>16, <1>17, <1>18, <1>19, <1>20, <1>21, <1>22, <1>23, <1>24, <1>25
  DEF Next, Handler, Tasks

(* The body starts after the headers: each part of it waits for sent. *)
LEMMA NothingBefore ==
    ASSUME NumInv, BeforeInv, HeadInv, Next
    PROVE  BeforeInv'
<1> USE DEF BeforeInv, HeadInv,
            givenVars, headVars, callVars, inVars, encVars, flushVars,
            outVars, sockVars, userVars
<1> USE DEF JsFree, Transient, HeadersAreOut
<1>1. ASSUME NEW code \in Codes, NEW fields \in {"none", "length", "odd"},
             CallWriteHead(code, fields)
      PROVE  BeforeInv'
  BY <1>1 DEF CallWriteHead, Begin, HeadStep, MayStart
<1>2. ASSUME NEW n \in 0 .. MaxUnits, CallWrite(n)
      PROVE  BeforeInv'
  BY <1>2 DEF CallWrite, Begin, HeadStep, MayStart
<1>3. ASSUME NEW n \in 0 .. MaxUnits, CallEnd(n)
      PROVE  BeforeInv'
  BY <1>3 DEF CallEnd, Begin, HeadStep
<1>4. ASSUME SetStatus
      PROVE  BeforeInv'
  BY <1>4 DEF SetStatus
<1>5. ASSUME CallFlush
      PROVE  BeforeInv'
  BY <1>5 DEF CallFlush, Flush, Fail, Push, Deliver, SendRaw
<1>6. ASSUME WriteAfterEnd
      PROVE  BeforeInv'
  BY <1>6 DEF WriteAfterEnd, Flushing
<1>7. ASSUME Decide
      PROVE  BeforeInv'
  BY <1>7 DEF Decide, Return, NoCall, NoSnapshot, EncodedHeaders, PlainHeaders
<1>8. ASSUME EmitHeaders
      PROVE  BeforeInv'
  BY <1>8 DEF EmitHeaders, HeadersAreOut, Return, NoCall, NoSnapshot
<1>9. ASSUME UndoDecision
      PROVE  BeforeInv'
  BY <1>9 DEF UndoDecision, Return, NoCall, NoSnapshot
<1>10. ASSUME EmitRaw
      PROVE  BeforeInv'
  BY <1>10 DEF EmitRaw, HeadersAreOut, Return, NoCall
<1>11. ASSUME WriteRaw
      PROVE  BeforeInv'
  BY <1>11 DEF WriteRaw, SendRaw, Return, NoCall
<1>12. ASSUME EndRaw
      PROVE  BeforeInv'
  BY <1>12 DEF EndRaw, SendRaw, Return, NoCall
<1>13. ASSUME WriteToCompressor
      PROVE  BeforeInv'
  BY <1>13 DEF WriteToCompressor, Return, NoCall
<1>14. ASSUME EndCompressor
      PROVE  BeforeInv'
  BY <1>14 DEF EndCompressor, Return, NoCall
<1>15. ASSUME Transform
      PROVE  BeforeInv'
  BY <1>15 DEF Transform, Transient, SkipEmpty, Compress, Fail, Push, Deliver, SendRaw
<1>16. ASSUME ReadCompletes
      PROVE  BeforeInv'
  BY <1>16 DEF ReadCompletes
<1>17. ASSUME Read
      PROVE  BeforeInv'
  BY <1>17 DEF Read, Deliver, SendRaw
<1>18. ASSUME AfterWrite
      PROVE  BeforeInv'
  BY <1>18 DEF AfterWrite
<1>19. ASSUME Finish
      PROVE  BeforeInv'
  BY <1>19 DEF Finish, Fail, Push, Deliver, SendRaw
<1>20. ASSUME EmitEnd
      PROVE  BeforeInv'
  BY <1>20 DEF EmitEnd
<1>21. ASSUME EmitError
      PROVE  BeforeInv'
  BY <1>21 DEF EmitError
<1>22. ASSUME CheckIdle
      PROVE  BeforeInv'
  BY <1>22 DEF CheckIdle, Quiet, Flush, Fail, Push, Deliver, SendRaw
<1>23. ASSUME SocketDrains
      PROVE  BeforeInv'
  BY <1>23 DEF SocketDrains, EmitDrain
<1>24. ASSUME ClientReads
      PROVE  BeforeInv'
  BY <1>24 DEF ClientReads
<1>25. ASSUME Close
      PROVE  BeforeInv'
  BY <1>25 DEF Close
<1> QED
  BY <1>1, <1>2, <1>3, <1>4, <1>5, <1>6, <1>7, <1>8, <1>9, <1>10, <1>11, <1>12, <1>13,
     <1>14, <1>15, <1>16, <1>17, <1>18, <1>19, <1>20, <1>21, <1>22, <1>23, <1>24, <1>25
  DEF Next, Handler, Tasks

(* The headers follow the decision through each call, and its undoing. *)
LEMMA HeadersFollow ==
    ASSUME BeforeInv, HeadInv, Next
    PROVE  HeadInv'
<1> USE DEF HeadInv, JsFree,
            givenVars, headVars, callVars, inVars, encVars, flushVars,
            outVars, sockVars, userVars
<1>g. UNCHANGED givenVars
  BY DEF Next
<1>t. Transient => comp # "none"
  BY DEF Transient
<1>1. ASSUME NEW code \in Codes, NEW fields \in {"none", "length", "odd"},
             CallWriteHead(code, fields)
      PROVE  HeadInv'
  <2> USE <1>1 DEF CallWriteHead
  <2>1. /\ step' \in {"decide", "raw"}
        /\ step' = "decide" => ~decided'
        /\ comp = "none" /\ comp' = "none" /\ ~sent /\ ~sent' /\ ~ending'
    BY DEF Begin, HeadStep, MayStart
  <2>2. hdr' = OwnHeaders'
    BY <1>g, <2>1 DEF MayStart, OwnHeaders
  <2> QED
    BY <2>1, <2>2
<1>2. ASSUME NEW n \in 0 .. MaxUnits, CallWrite(n)
      PROVE  HeadInv'
  <2> USE <1>2 DEF CallWrite
  <2>1. /\ step = "none" /\ ~ending
        /\ sent => step' = "body"
        /\ ~sent => step' = "raw" \/ (step' = "decide" /\ ~decided)
    BY DEF Begin, HeadStep, MayStart
  <2>2. /\ UNCHANGED <<hdr, sent, decided, comp, raw, ending, resEnded, declared, tagged>>
        /\ EncodedHdr => EncodedHdr'
        /\ UNCHANGED bodyLength
    BY <1>g DEF Begin, EncodedHdr
  <2>3. OwnHeaders' = OwnHeaders /\ (PlainHdr => PlainHdr')
    BY <2>2 DEF PlainHdr, OwnHeaders
  <2> QED
    BY <2>1, <2>2, <2>3
<1>3. ASSUME NEW n \in 0 .. MaxUnits, CallEnd(n)
      PROVE  HeadInv'
  <2> USE <1>3 DEF CallEnd
  <2>1. /\ step = "none" /\ ~ending
        /\ sent => step' = "body"
        /\ ~sent => step' = "raw" \/ (step' = "decide" /\ ~decided)
    BY DEF Begin, HeadStep, MayStart
  <2>2. /\ UNCHANGED <<hdr, sent, decided, comp, raw, ending, resEnded, declared, tagged>>
        /\ EncodedHdr => EncodedHdr'
        /\ sent => UNCHANGED bodyLength
    BY <1>g DEF Begin, EncodedHdr
  <2>3. OwnHeaders' = OwnHeaders /\ (sent /\ PlainHdr => PlainHdr')
    BY <2>2 DEF PlainHdr, OwnHeaders
  <2> QED
    BY <2>1, <2>2, <2>3
<1>4. ASSUME SetStatus
      PROVE  HeadInv'
  BY <1>4, <1>g DEF SetStatus, PlainHdr, EncodedHdr, OwnHeaders
<1>5. ASSUME CallFlush
      PROVE  HeadInv'
  <2>1. /\ UNCHANGED <<hdr, sent, decided, step, bodyLength, snapshot, raw, ending, resEnded,
                      declared, tagged>>
        /\ comp = "none" <=> comp' = "none"
    BY <1>5, <1>g DEF CallFlush, Flush, Fail
  <2>2. OwnHeaders' = OwnHeaders /\ (PlainHdr' <=> PlainHdr) /\ (EncodedHdr' <=> EncodedHdr)
    BY <2>1 DEF PlainHdr, EncodedHdr, OwnHeaders
  <2>3. step = "none"
    BY <1>5 DEF CallFlush, Flush, Fail
  <2> QED
    BY <2>1, <2>2, <2>3
<1>6. ASSUME WriteAfterEnd
      PROVE  HeadInv'
  BY <1>6, <1>g DEF WriteAfterEnd, Flushing, PlainHdr, EncodedHdr, OwnHeaders
<1>7. ASSUME Decide
      PROVE  HeadInv'
  <2>1. /\ ~sent /\ ~sent' /\ hdr = OwnHeaders /\ OwnHeaders' = OwnHeaders /\ comp = "none"
        /\ step' \in {"emit", "none"} /\ ~ending'
    BY <1>7, <1>g DEF Decide, Return, OwnHeaders
  <2>2. CASE step' = "none"
    BY <1>7, <2>1, <2>2 DEF Decide, Return
  <2>3. CASE step' = "emit"
    <3>1. snapshot'.length = declared' /\ snapshot'.etag = OwnHeaders'.etag
      BY <1>7, <2>1, <2>3 DEF Decide, OwnHeaders
    <3>2. CASE comp' = "open" /\ hdr' = EncodedHeaders
      BY <2>1, <2>3, <3>1, <3>2 DEF EncodedHeaders, EncodedHdr, OwnHeaders
    <3>3. CASE comp' = "none" /\ hdr' = PlainHeaders
      BY <1>7, <2>1, <2>3, <3>1, <3>3 DEF Decide, PlainHeaders, PlainHdr, OwnHeaders
    <3> QED
      BY <1>7, <2>1, <2>3, <3>2, <3>3 DEF Decide, Return
  <2> QED
    BY <2>1, <2>2, <2>3
<1>8. ASSUME EmitHeaders
      PROVE  HeadInv'
  <2> USE <1>8 DEF EmitHeaders
  <2>1. /\ UNCHANGED <<hdr, decided, comp, raw, ending, resEnded, declared, tagged, bodyLength>>
        /\ (sent' /\ step' \in {"none", "body"}) \/ FALSE
        /\ ~sent /\ ~raw /\ ~ending /\ ~resEnded
    BY <1>g DEF HeadersAreOut, Return, BeforeInv
  <2>2. /\ (PlainHdr' <=> PlainHdr) /\ (EncodedHdr' <=> EncodedHdr)
        /\ hdr = OwnHeaders => PlainHdr /\ hdr' = OwnHeaders'
    BY <2>1 DEF PlainHdr, EncodedHdr, OwnHeaders
  <2> QED
    BY <2>1, <2>2
<1>9. ASSUME UndoDecision
      PROVE  HeadInv'
  BY <1>9, <1>g
  DEF UndoDecision, Return, NoCall, NoSnapshot, PlainHdr, EncodedHdr, OwnHeaders
<1>10. ASSUME EmitRaw
      PROVE  HeadInv'
  <2> USE <1>10 DEF EmitRaw
  <2>1. /\ UNCHANGED <<hdr, decided, comp, raw, ending, resEnded, declared, tagged, bodyLength>>
        /\ (sent' /\ step' \in {"none", "body"}) \/ (~sent' /\ step' = "none")
        /\ ~sent /\ ~raw /\ ~ending /\ ~resEnded
    BY <1>g DEF HeadersAreOut, Return, BeforeInv
  <2>2. /\ (PlainHdr' <=> PlainHdr) /\ (EncodedHdr' <=> EncodedHdr)
        /\ hdr = OwnHeaders => PlainHdr /\ hdr' = OwnHeaders'
    BY <2>1 DEF PlainHdr, EncodedHdr, OwnHeaders
  <2> QED
    BY <2>1, <2>2
<1>11. ASSUME WriteRaw
      PROVE  HeadInv'
  BY <1>11, <1>g DEF WriteRaw, SendRaw, Return, NoCall, PlainHdr, EncodedHdr, OwnHeaders
<1>12. ASSUME EndRaw
      PROVE  HeadInv'
  BY <1>12, <1>g DEF EndRaw, SendRaw, Return, NoCall, PlainHdr, EncodedHdr, OwnHeaders
<1>13. ASSUME WriteToCompressor
      PROVE  HeadInv'
  BY <1>13, <1>g DEF WriteToCompressor, Return, NoCall, PlainHdr, EncodedHdr, OwnHeaders
<1>14. ASSUME EndCompressor
      PROVE  HeadInv'
  BY <1>14, <1>g DEF EndCompressor, Return, NoCall, PlainHdr, EncodedHdr, OwnHeaders
<1>15. ASSUME Transform
      PROVE  HeadInv'
  <2>1. /\ UNCHANGED <<hdr, sent, decided, step, bodyLength, snapshot, raw, ending, resEnded,
                      declared, tagged>>
        /\ comp = "none" <=> comp' = "none"
    BY <1>15, <1>g DEF Transform, SkipEmpty, Compress, Fail, Transient
  <2>2. OwnHeaders' = OwnHeaders /\ (PlainHdr' <=> PlainHdr) /\ (EncodedHdr' <=> EncodedHdr)
    BY <2>1 DEF PlainHdr, EncodedHdr, OwnHeaders
  <2>3. comp # "none" /\ sent /\ step # "emit"
    BY <1>15, <1>t DEF Transform, Transient, BeforeInv
  <2> QED
    BY <2>1, <2>2, <2>3
<1>16. ASSUME ReadCompletes
      PROVE  HeadInv'
  BY <1>16, <1>g DEF ReadCompletes, PlainHdr, EncodedHdr, OwnHeaders
<1>17. ASSUME Read
      PROVE  HeadInv'
  BY <1>17, <1>g DEF Read, Deliver, SendRaw, PlainHdr, EncodedHdr, OwnHeaders
<1>18. ASSUME AfterWrite
      PROVE  HeadInv'
  BY <1>18, <1>g DEF AfterWrite, PlainHdr, EncodedHdr, OwnHeaders
<1>19. ASSUME Finish
      PROVE  HeadInv'
  BY <1>19, <1>g
  DEF Finish, Fail, Push, Deliver, SendRaw, PlainHdr, EncodedHdr, OwnHeaders
<1>20. ASSUME EmitEnd
      PROVE  HeadInv'
  BY <1>20, <1>g DEF EmitEnd, PlainHdr, EncodedHdr, OwnHeaders
<1>21. ASSUME EmitError
      PROVE  HeadInv'
  BY <1>21, <1>g DEF EmitError, PlainHdr, EncodedHdr, OwnHeaders
<1>22. ASSUME CheckIdle
      PROVE  HeadInv'
  <2>1. /\ UNCHANGED <<hdr, sent, decided, step, bodyLength, snapshot, raw, ending, resEnded,
                      declared, tagged>>
        /\ comp = "none" <=> comp' = "none"
    BY <1>22, <1>g DEF CheckIdle, Quiet, Flush, Fail
  <2>2. OwnHeaders' = OwnHeaders /\ (PlainHdr' <=> PlainHdr) /\ (EncodedHdr' <=> EncodedHdr)
    BY <2>1 DEF PlainHdr, EncodedHdr, OwnHeaders
  <2>3. step = "none"
    BY <1>22 DEF CheckIdle, Quiet, Flush, Fail
  <2> QED
    BY <2>1, <2>2, <2>3
<1>23. ASSUME SocketDrains
      PROVE  HeadInv'
  BY <1>23, <1>g DEF SocketDrains, EmitDrain, PlainHdr, EncodedHdr, OwnHeaders
<1>24. ASSUME ClientReads
      PROVE  HeadInv'
  BY <1>24, <1>g DEF ClientReads, PlainHdr, EncodedHdr, OwnHeaders
<1>25. ASSUME Close
      PROVE  HeadInv'
  BY <1>25, <1>g DEF Close, PlainHdr, EncodedHdr, OwnHeaders
<1> QED
  BY <1>1, <1>2, <1>3, <1>4, <1>5, <1>6, <1>7, <1>8, <1>9, <1>10, <1>11, <1>12, <1>13,
     <1>14, <1>15, <1>16, <1>17, <1>18, <1>19, <1>20, <1>21, <1>22, <1>23, <1>24, <1>25
  DEF Next, Handler, Tasks

(* The native state follows the compressor through each way it ends. *)
LEMMA EncoderFollows ==
    ASSUME BeforeInv, HeadInv, StateInv, Next
    PROVE  StateInv'
<1> USE DEF StateInv,
            givenVars, headVars, callVars, inVars, encVars, flushVars,
            outVars, sockVars, userVars
<1>b. /\ ~sent => ~ending /\ ~eof /\ ~resEnded
      /\ step \in {"decide", "emit"} => ~sent
      /\ step = "decide" => comp = "none"
  BY DEF HeadInv, BeforeInv
<1>1. ASSUME NEW code \in Codes, NEW fields \in {"none", "length", "odd"},
             CallWriteHead(code, fields)
      PROVE  StateInv'
  BY <1>1, <1>b DEF CallWriteHead, Begin, MayStart
<1>2. ASSUME NEW n \in 0 .. MaxUnits, CallWrite(n)
      PROVE  StateInv'
  BY <1>2, <1>b DEF CallWrite, Begin, MayStart
<1>3. ASSUME NEW n \in 0 .. MaxUnits, CallEnd(n)
      PROVE  StateInv'
  BY <1>3, <1>b DEF CallEnd, Begin
<1>4. ASSUME SetStatus
      PROVE  StateInv'
  BY <1>4, <1>b DEF SetStatus
<1>5. ASSUME CallFlush
      PROVE  StateInv'
  BY <1>5, <1>b DEF CallFlush, Flush, Fail
<1>6. ASSUME WriteAfterEnd
      PROVE  StateInv'
  BY <1>6, <1>b DEF WriteAfterEnd, Flushing
<1>7. ASSUME Decide
      PROVE  StateInv'
  BY <1>7, <1>b DEF Decide, Return
<1>8. ASSUME EmitHeaders
      PROVE  StateInv'
  BY <1>8, <1>b DEF EmitHeaders, HeadersAreOut, Return
<1>9. ASSUME UndoDecision
      PROVE  StateInv'
  BY <1>9, <1>b DEF UndoDecision, Return
<1>10. ASSUME EmitRaw
      PROVE  StateInv'
  BY <1>10, <1>b DEF EmitRaw, HeadersAreOut, Return
<1>11. ASSUME WriteRaw
      PROVE  StateInv'
  BY <1>11, <1>b DEF WriteRaw, Return
<1>12. ASSUME EndRaw
      PROVE  StateInv'
  BY <1>12, <1>b DEF EndRaw, Return
<1>13. ASSUME WriteToCompressor
      PROVE  StateInv'
  BY <1>13, <1>b DEF WriteToCompressor, Return
<1>14. ASSUME EndCompressor
      PROVE  StateInv'
  BY <1>14, <1>b DEF EndCompressor, Return
<1>15. ASSUME Transform
      PROVE  StateInv'
  BY <1>15, <1>b DEF Transform, Transient, SkipEmpty, Compress, Fail
<1>16. ASSUME ReadCompletes
      PROVE  StateInv'
  BY <1>16, <1>b DEF ReadCompletes
<1>17. ASSUME Read
      PROVE  StateInv'
  BY <1>17, <1>b DEF Read
<1>18. ASSUME AfterWrite
      PROVE  StateInv'
  BY <1>18, <1>b DEF AfterWrite
<1>19. ASSUME Finish
      PROVE  StateInv'
  BY <1>19, <1>b DEF Finish, Fail
<1>20. ASSUME EmitEnd
      PROVE  StateInv'
  BY <1>20, <1>b DEF EmitEnd
<1>21. ASSUME EmitError
      PROVE  StateInv'
  BY <1>21, <1>b DEF EmitError
<1>22. ASSUME CheckIdle
      PROVE  StateInv'
  BY <1>22, <1>b DEF CheckIdle, Quiet, Flush, Fail
<1>23. ASSUME SocketDrains
      PROVE  StateInv'
  BY <1>23, <1>b DEF SocketDrains, EmitDrain
<1>24. ASSUME ClientReads
      PROVE  StateInv'
  BY <1>24, <1>b DEF ClientReads
<1>25. ASSUME Close
      PROVE  StateInv'
  BY <1>25, <1>b DEF Close
<1> QED
  BY <1>1, <1>2, <1>3, <1>4, <1>5, <1>6, <1>7, <1>8, <1>9, <1>10, <1>11, <1>12, <1>13,
     <1>14, <1>15, <1>16, <1>17, <1>18, <1>19, <1>20, <1>21, <1>22, <1>23, <1>24, <1>25
  DEF Next, Handler, Tasks

(* A flush covers what was given; only new input makes the next one due. *)
LEMMA FlushCovers ==
    ASSUME NumInv, BeforeInv, HeadInv, FlushInv, Next
    PROVE  FlushInv'
<1> USE DEF FlushInv,
            givenVars, headVars, callVars, inVars, encVars, flushVars,
            outVars, sockVars, userVars
<1>s. inq # <<>> => Head(inq) \in Nat
  BY SequenceFacts
<1>n. given \in Nat /\ covered \in Nat
  BY DEF NumInv
<1>b. (step = "decide" => ~sent) /\ (~sent => ~unflushed)
  BY DEF HeadInv, BeforeInv
<1>1. ASSUME NEW code \in Codes, NEW fields \in {"none", "length", "odd"},
             CallWriteHead(code, fields)
      PROVE  FlushInv'
  BY <1>1, <1>s, <1>n, <1>b DEF CallWriteHead, Begin, MayStart
<1>2. ASSUME NEW n \in 0 .. MaxUnits, CallWrite(n)
      PROVE  FlushInv'
  BY <1>2, <1>s, <1>n, <1>b DEF CallWrite, Begin, MayStart
<1>3. ASSUME NEW n \in 0 .. MaxUnits, CallEnd(n)
      PROVE  FlushInv'
  BY <1>3, <1>s, <1>n, <1>b DEF CallEnd, Begin
<1>4. ASSUME SetStatus
      PROVE  FlushInv'
  BY <1>4, <1>s, <1>n, <1>b DEF SetStatus
<1>5. ASSUME CallFlush
      PROVE  FlushInv'
  <2>1. CASE Fail
    BY <2>1, <1>5, <1>s, <1>n, <1>b DEF CallFlush, Flush, Fail
  <2>2. CASE ~Fail /\ unflushed /\ comp = "open"
    <3>1. given # covered
      BY <2>2, <1>n
    <3>2. ~empty /\ (empty' = (empty \/ given = covered) \/ empty' = empty)
      BY <2>2, <1>5 DEF CallFlush, Flush
    <3>3. ~empty'
      BY <3>1, <3>2, Zenon
    <3>4. covered' <= given' /\ ~unflushed'
      BY <2>2, <1>5, <1>n DEF CallFlush, Flush
    <3> QED
      BY <3>3, <3>4
  <2> QED
    BY <2>1, <2>2, <1>5, <1>s, <1>n, <1>b DEF CallFlush, Flush
<1>6. ASSUME WriteAfterEnd
      PROVE  FlushInv'
  BY <1>6, <1>s, <1>n, <1>b DEF WriteAfterEnd, Flushing
<1>7. ASSUME Decide
      PROVE  FlushInv'
  BY <1>7, <1>s, <1>n, <1>b DEF Decide, Return
<1>8. ASSUME EmitHeaders
      PROVE  FlushInv'
  BY <1>8, <1>s, <1>n, <1>b DEF EmitHeaders, HeadersAreOut, Return
<1>9. ASSUME UndoDecision
      PROVE  FlushInv'
  BY <1>9, <1>s, <1>n, <1>b DEF UndoDecision, Return
<1>10. ASSUME EmitRaw
      PROVE  FlushInv'
  BY <1>10, <1>s, <1>n, <1>b DEF EmitRaw, HeadersAreOut, Return
<1>11. ASSUME WriteRaw
      PROVE  FlushInv'
  BY <1>11, <1>s, <1>n, <1>b DEF WriteRaw, Return
<1>12. ASSUME EndRaw
      PROVE  FlushInv'
  BY <1>12, <1>s, <1>n, <1>b DEF EndRaw, Return
<1>13. ASSUME WriteToCompressor
      PROVE  FlushInv'
  BY <1>13, <1>s, <1>n, <1>b DEF WriteToCompressor, Return
<1>14. ASSUME EndCompressor
      PROVE  FlushInv'
  BY <1>14, <1>s, <1>n, <1>b DEF EndCompressor, Return
<1>15. ASSUME Transform
      PROVE  FlushInv'
  BY <1>15, <1>s, <1>n, <1>b DEF Transform, Transient, SkipEmpty, Compress, Fail
<1>16. ASSUME ReadCompletes
      PROVE  FlushInv'
  BY <1>16, <1>s, <1>n, <1>b DEF ReadCompletes
<1>17. ASSUME Read
      PROVE  FlushInv'
  BY <1>17, <1>s, <1>n, <1>b DEF Read
<1>18. ASSUME AfterWrite
      PROVE  FlushInv'
  BY <1>18, <1>s, <1>n, <1>b DEF AfterWrite
<1>19. ASSUME Finish
      PROVE  FlushInv'
  BY <1>19, <1>s, <1>n, <1>b DEF Finish, Fail
<1>20. ASSUME EmitEnd
      PROVE  FlushInv'
  BY <1>20, <1>s, <1>n, <1>b DEF EmitEnd
<1>21. ASSUME EmitError
      PROVE  FlushInv'
  BY <1>21, <1>s, <1>n, <1>b DEF EmitError
<1>22. ASSUME CheckIdle
      PROVE  FlushInv'
  <2>1. CASE Fail
    BY <2>1, <1>22, <1>s, <1>n, <1>b DEF CheckIdle, Flush, Fail
  <2>2. CASE ~Fail /\ unflushed /\ comp = "open" /\ inLen = 0
    <3>1. given # covered
      BY <2>2, <1>n
    <3>2. ~empty /\ (empty' = (empty \/ given = covered) \/ empty' = empty)
      BY <2>2, <1>22 DEF CheckIdle, Flush
    <3>3. ~empty'
      BY <3>1, <3>2, Zenon
    <3>4. covered' <= given' /\ ~unflushed'
      BY <2>2, <1>22, <1>n DEF CheckIdle, Flush
    <3> QED
      BY <3>3, <3>4
  <2> QED
    BY <2>1, <2>2, <1>22, <1>s, <1>n, <1>b DEF CheckIdle, Flush
<1>23. ASSUME SocketDrains
      PROVE  FlushInv'
  BY <1>23, <1>s, <1>n, <1>b DEF SocketDrains, EmitDrain
<1>24. ASSUME ClientReads
      PROVE  FlushInv'
  BY <1>24, <1>s, <1>n, <1>b DEF ClientReads
<1>25. ASSUME Close
      PROVE  FlushInv'
  BY <1>25, <1>s, <1>n, <1>b DEF Close
<1> QED
  BY <1>1, <1>2, <1>3, <1>4, <1>5, <1>6, <1>7, <1>8, <1>9, <1>10, <1>11, <1>12, <1>13,
     <1>14, <1>15, <1>16, <1>17, <1>18, <1>19, <1>20, <1>21, <1>22, <1>23, <1>24, <1>25
  DEF Next, Handler, Tasks

(* Output flows only into a socket below its mark. *)
LEMMA SocketHoldsUp ==
    ASSUME NumInv, BeforeInv, HeadInv, SocketInv, Next
    PROVE  SocketInv'
<1> USE DEF SocketInv,
            givenVars, headVars, callVars, inVars, encVars, flushVars,
            outVars, sockVars, userVars
<1>n. given \in Nat /\ covered \in Nat
  BY DEF NumInv
<1>z. Len(<<>>) < SockHigh
  BY EmptySeq, SizesAssumption
<1>s. /\ Len(sock) \in Nat
      /\ sock # <<>> => Len(Tail(sock)) = Len(sock) - 1
  BY SequenceFacts
<1>b. step \in {"decide", "emit", "raw"} => sock = <<>>
  BY DEF BeforeInv, HeadInv
<1>1. ASSUME NEW code \in Codes, NEW fields \in {"none", "length", "odd"},
             CallWriteHead(code, fields)
      PROVE  SocketInv'
  BY <1>1 DEF CallWriteHead, Begin
<1>2. ASSUME NEW n \in 0 .. MaxUnits, CallWrite(n)
      PROVE  SocketInv'
  BY <1>2 DEF CallWrite, Begin
<1>3. ASSUME NEW n \in 0 .. MaxUnits, CallEnd(n)
      PROVE  SocketInv'
  BY <1>3 DEF CallEnd, Begin
<1>4. ASSUME SetStatus
      PROVE  SocketInv'
  BY <1>4 DEF SetStatus
<1>5. ASSUME CallFlush
      PROVE  SocketInv'
  <2>1. UNCHANGED <<sock, flowing>> \/ Push(given)
    BY <1>5 DEF CallFlush, Flush, Fail
  <2>2. comp # "none"
    BY <1>5 DEF CallFlush, Flush, Fail
  <2> QED
    BY <2>1, <2>2, <1>n, PushFacts
<1>6. ASSUME WriteAfterEnd
      PROVE  SocketInv'
  BY <1>6 DEF WriteAfterEnd, Flushing
<1>7. ASSUME Decide
      PROVE  SocketInv'
  BY <1>7, <1>z, <1>s, <1>b, SizesAssumption DEF Decide, Return
<1>8. ASSUME EmitHeaders
      PROVE  SocketInv'
  BY <1>8 DEF EmitHeaders, HeadersAreOut, Return
<1>9. ASSUME UndoDecision
      PROVE  SocketInv'
  BY <1>9, <1>z, <1>s, <1>b, SizesAssumption DEF UndoDecision, Return
<1>10. ASSUME EmitRaw
      PROVE  SocketInv'
  BY <1>10 DEF EmitRaw, HeadersAreOut, Return
<1>11. ASSUME WriteRaw
      PROVE  SocketInv'
  BY <1>11 DEF WriteRaw, SendRaw, Return
<1>12. ASSUME EndRaw
      PROVE  SocketInv'
  BY <1>12 DEF EndRaw, SendRaw, Return
<1>13. ASSUME WriteToCompressor
      PROVE  SocketInv'
  BY <1>13 DEF WriteToCompressor, Return
<1>14. ASSUME EndCompressor
      PROVE  SocketInv'
  BY <1>14 DEF EndCompressor, Return
<1>15. ASSUME Transform
      PROVE  SocketInv'
  <2>1. UNCHANGED <<sock, flowing>> \/ Push(covered)
    BY <1>15 DEF Transform, Transient, SkipEmpty, Compress, Fail
  <2>2. comp # "none"
    BY <1>15 DEF Transform, Transient, SkipEmpty, Compress, Fail
  <2> QED
    BY <2>1, <2>2, <1>n, PushFacts
<1>16. ASSUME ReadCompletes
      PROVE  SocketInv'
  BY <1>16 DEF ReadCompletes
<1>17. ASSUME Read
      PROVE  SocketInv'
  <2>1. Head(outq) \in Nat /\ flowing /\ Deliver(Head(outq)) /\ comp # "none"
    BY <1>17, SequenceFacts DEF Read
  <2> QED
    BY <2>1, DeliverFacts
<1>18. ASSUME AfterWrite
      PROVE  SocketInv'
  BY <1>18 DEF AfterWrite
<1>19. ASSUME Finish
      PROVE  SocketInv'
  <2>1. UNCHANGED <<sock, flowing>> \/ Push(given)
    BY <1>19 DEF Finish, Fail
  <2>2. comp # "none"
    BY <1>19 DEF Finish, Fail
  <2> QED
    BY <2>1, <2>2, <1>n, PushFacts
<1>20. ASSUME EmitEnd
      PROVE  SocketInv'
  BY <1>20 DEF EmitEnd
<1>21. ASSUME EmitError
      PROVE  SocketInv'
  BY <1>21 DEF EmitError
<1>22. ASSUME CheckIdle
      PROVE  SocketInv'
  <2>1. UNCHANGED <<sock, flowing>> \/ Push(given)
    BY <1>22 DEF CheckIdle, Flush, Fail
  <2>2. comp = "none" => comp' = "none"
    BY <1>22 DEF CheckIdle, Flush, Fail, Quiet
  <2> QED
    BY <2>1, <2>2, <1>n, PushFacts
<1>23. ASSUME SocketDrains
      PROVE  SocketInv'
  BY <1>23, <1>z, <1>s, <1>b, SizesAssumption DEF SocketDrains, EmitDrain
<1>24. ASSUME ClientReads
      PROVE  SocketInv'
  BY <1>24, <1>z, <1>s, <1>b, SizesAssumption DEF ClientReads
<1>25. ASSUME Close
      PROVE  SocketInv'
  BY <1>25 DEF Close
<1> QED
  BY <1>1, <1>2, <1>3, <1>4, <1>5, <1>6, <1>7, <1>8, <1>9, <1>10, <1>11, <1>12, <1>13,
     <1>14, <1>15, <1>16, <1>17, <1>18, <1>19, <1>20, <1>21, <1>22, <1>23, <1>24, <1>25
  DEF Next, Handler, Tasks

(* A compressor that is full has told its writer to wait. *)
LEMMA InputHoldsUp ==
    ASSUME NumInv, BeforeInv, HeadInv, InputInv, Next
    PROVE  InputInv'
<1> USE DEF InputInv, JsFree,
            givenVars, headVars, callVars, inVars, encVars, flushVars,
            outVars, sockVars, userVars
<1>n. inLen \in Int /\ held \in Nat /\ InHigh \in Nat \ {0}
  BY SizesAssumption DEF NumInv
<1>s. inq # <<>> => Head(inq) \in Nat
  BY SequenceFacts
<1>b. /\ step \in {"decide", "emit"} => inLen = 0 /\ ~needDrain
      /\ step = "raw" => comp = "none"
  BY DEF BeforeInv, HeadInv
<1>1. ASSUME NEW code \in Codes, NEW fields \in {"none", "length", "odd"},
             CallWriteHead(code, fields)
      PROVE  InputInv'
  BY <1>1, <1>n, <1>s, <1>b DEF CallWriteHead, Begin, MayStart
<1>2. ASSUME NEW n \in 0 .. MaxUnits, CallWrite(n)
      PROVE  InputInv'
  BY <1>2, <1>n, <1>s, <1>b DEF CallWrite, Begin, MayStart
<1>3. ASSUME NEW n \in 0 .. MaxUnits, CallEnd(n)
      PROVE  InputInv'
  BY <1>3, <1>n, <1>s, <1>b DEF CallEnd, Begin
<1>4. ASSUME SetStatus
      PROVE  InputInv'
  BY <1>4, <1>n, <1>s, <1>b DEF SetStatus
<1>5. ASSUME CallFlush
      PROVE  InputInv'
  BY <1>5, <1>n, <1>s, <1>b DEF CallFlush, Flush, Fail
<1>6. ASSUME WriteAfterEnd
      PROVE  InputInv'
  BY <1>6, <1>n, <1>s, <1>b DEF WriteAfterEnd, Flushing
<1>7. ASSUME Decide
      PROVE  InputInv'
  BY <1>7, <1>n, <1>s, <1>b DEF Decide, Return
<1>8. ASSUME EmitHeaders
      PROVE  InputInv'
  BY <1>8, <1>n, <1>s, <1>b DEF EmitHeaders, HeadersAreOut, Return
<1>9. ASSUME UndoDecision
      PROVE  InputInv'
  BY <1>9, <1>n, <1>s, <1>b DEF UndoDecision, Return
<1>10. ASSUME EmitRaw
      PROVE  InputInv'
  BY <1>10, <1>n, <1>s, <1>b DEF EmitRaw, HeadersAreOut, Return
<1>11. ASSUME WriteRaw
      PROVE  InputInv'
  BY <1>11, <1>n, <1>s, <1>b DEF WriteRaw, Return
<1>12. ASSUME EndRaw
      PROVE  InputInv'
  BY <1>12, <1>n, <1>s, <1>b DEF EndRaw, Return
<1>13. ASSUME WriteToCompressor
      PROVE  InputInv'
  <2>1. CASE comp = "open"
    <3>1. (needDrain' <=> needDrain \/ inLen' >= InHigh) /\ (waiting' <=> waiting \/ inLen' >= InHigh)
      BY <1>13, <2>1 DEF WriteToCompressor
    <3>2. call.size \in Nat /\ inLen' = inLen + call.size
      BY <1>13, <2>1, SizesAssumption DEF WriteToCompressor, NumInv
    <3>3. inLen >= InHigh => inLen' >= InHigh
      BY <3>2, <1>n
    <3> QED
      BY <3>1, <3>2, <3>3, <1>n, <2>1, <1>13 DEF WriteToCompressor
  <2>2. CASE comp # "open"
    BY <2>2, <1>13 DEF WriteToCompressor
  <2> QED
    BY <2>1, <2>2
<1>14. ASSUME EndCompressor
      PROVE  InputInv'
  BY <1>14, <1>n, <1>s, <1>b DEF EndCompressor, Return
<1>15. ASSUME Transform
      PROVE  InputInv'
  BY <1>15, <1>n, <1>s, <1>b DEF Transform, Transient, SkipEmpty, Compress, Fail
<1>16. ASSUME ReadCompletes
      PROVE  InputInv'
  BY <1>16, <1>n, <1>s, <1>b DEF ReadCompletes
<1>17. ASSUME Read
      PROVE  InputInv'
  BY <1>17, <1>n, <1>s, <1>b DEF Read
<1>18. ASSUME AfterWrite
      PROVE  InputInv'
  BY <1>18, <1>n, <1>s, <1>b DEF AfterWrite
<1>19. ASSUME Finish
      PROVE  InputInv'
  BY <1>19, <1>n, <1>s, <1>b DEF Finish, Fail
<1>20. ASSUME EmitEnd
      PROVE  InputInv'
  BY <1>20, <1>n, <1>s, <1>b DEF EmitEnd
<1>21. ASSUME EmitError
      PROVE  InputInv'
  BY <1>21, <1>n, <1>s, <1>b DEF EmitError
<1>22. ASSUME CheckIdle
      PROVE  InputInv'
  BY <1>22, <1>n, <1>s, <1>b DEF CheckIdle, Quiet, Flush, Fail
<1>23. ASSUME SocketDrains
      PROVE  InputInv'
  BY <1>23, <1>n, <1>s, <1>b DEF SocketDrains, EmitDrain
<1>24. ASSUME ClientReads
      PROVE  InputInv'
  BY <1>24, <1>n, <1>s, <1>b DEF ClientReads
<1>25. ASSUME Close
      PROVE  InputInv'
  BY <1>25, <1>n, <1>s, <1>b DEF Close
<1> QED
  BY <1>1, <1>2, <1>3, <1>4, <1>5, <1>6, <1>7, <1>8, <1>9, <1>10, <1>11, <1>12, <1>13,
     <1>14, <1>15, <1>16, <1>17, <1>18, <1>19, <1>20, <1>21, <1>22, <1>23, <1>24, <1>25
  DEF Next, Handler, Tasks

(* The length that end() knew is the one of the body it sends. *)
LEMMA LengthFollows ==
    ASSUME NoRestarts, NumInv, BeforeInv, HeadInv, LengthInv, Next
    PROVE  LengthInv'
<1> USE DEF LengthInv, None, NoRestarts, BeforeInv, HeadInv, JsFree,
            givenVars, headVars, callVars, inVars, encVars, flushVars,
            outVars, sockVars, userVars
<1>1. ASSUME NEW code \in Codes, NEW fields \in {"none", "length", "odd"},
             CallWriteHead(code, fields)
      PROVE  LengthInv'
  BY <1>1 DEF CallWriteHead, Begin, HeadStep, MayStart
<1>2. ASSUME NEW n \in 0 .. MaxUnits, CallWrite(n)
      PROVE  LengthInv'
  BY <1>2 DEF CallWrite, Begin, HeadStep, MayStart
<1>3. ASSUME NEW n \in 0 .. MaxUnits, CallEnd(n)
      PROVE  LengthInv'
  BY <1>3 DEF CallEnd, Begin, HeadStep
<1>4. ASSUME SetStatus
      PROVE  LengthInv'
  BY <1>4 DEF SetStatus
<1>5. ASSUME CallFlush
      PROVE  LengthInv'
  BY <1>5 DEF CallFlush, Flush, Fail, Push, Deliver, SendRaw
<1>6. ASSUME WriteAfterEnd
      PROVE  LengthInv'
  BY <1>6 DEF WriteAfterEnd, Flushing
<1>7. ASSUME Decide
      PROVE  LengthInv'
  BY <1>7 DEF Decide, Return, NoCall, NoSnapshot, EncodedHeaders, PlainHeaders
<1>8. ASSUME EmitHeaders
      PROVE  LengthInv'
  BY <1>8 DEF EmitHeaders, HeadersAreOut, Return, NoCall, NoSnapshot
<1>9. ASSUME UndoDecision
      PROVE  LengthInv'
  BY <1>9 DEF UndoDecision, Return, NoCall, NoSnapshot
<1>10. ASSUME EmitRaw
      PROVE  LengthInv'
  BY <1>10 DEF EmitRaw, HeadersAreOut, Return, NoCall
<1>11. ASSUME WriteRaw
      PROVE  LengthInv'
  BY <1>11 DEF WriteRaw, SendRaw, Return, NoCall
<1>12. ASSUME EndRaw
      PROVE  LengthInv'
  <2>1. written = 0 => written' = call.size
    BY <1>12, SizesAssumption DEF EndRaw, NumInv
  <2> QED
    BY <2>1, <1>12 DEF EndRaw, SendRaw, Return, NoCall
<1>13. ASSUME WriteToCompressor
      PROVE  LengthInv'
  BY <1>13 DEF WriteToCompressor, Return, NoCall
<1>14. ASSUME EndCompressor
      PROVE  LengthInv'
  BY <1>14 DEF EndCompressor, Return, NoCall
<1>15. ASSUME Transform
      PROVE  LengthInv'
  BY <1>15 DEF Transform, Transient, SkipEmpty, Compress, Fail, Push, Deliver, SendRaw
<1>16. ASSUME ReadCompletes
      PROVE  LengthInv'
  BY <1>16 DEF ReadCompletes
<1>17. ASSUME Read
      PROVE  LengthInv'
  BY <1>17 DEF Read, Deliver, SendRaw
<1>18. ASSUME AfterWrite
      PROVE  LengthInv'
  BY <1>18 DEF AfterWrite
<1>19. ASSUME Finish
      PROVE  LengthInv'
  BY <1>19 DEF Finish, Fail, Push, Deliver, SendRaw
<1>20. ASSUME EmitEnd
      PROVE  LengthInv'
  BY <1>20 DEF EmitEnd
<1>21. ASSUME EmitError
      PROVE  LengthInv'
  BY <1>21 DEF EmitError
<1>22. ASSUME CheckIdle
      PROVE  LengthInv'
  BY <1>22 DEF CheckIdle, Quiet, Flush, Fail, Push, Deliver, SendRaw
<1>23. ASSUME SocketDrains
      PROVE  LengthInv'
  BY <1>23 DEF SocketDrains, EmitDrain
<1>24. ASSUME ClientReads
      PROVE  LengthInv'
  BY <1>24 DEF ClientReads
<1>25. ASSUME Close
      PROVE  LengthInv'
  BY <1>25 DEF Close
<1> QED
  BY <1>1, <1>2, <1>3, <1>4, <1>5, <1>6, <1>7, <1>8, <1>9, <1>10, <1>11, <1>12, <1>13,
     <1>14, <1>15, <1>16, <1>17, <1>18, <1>19, <1>20, <1>21, <1>22, <1>23, <1>24, <1>25
  DEF Next, Handler, Tasks

--------------------------------------------------------------------------------
(* The theorems. *)

LEMMA StartsRight ==
    Init => CoreInv /\ LengthInv
<1> SUFFICES ASSUME Init
             PROVE  CoreInv /\ LengthInv
  OBVIOUS
<1> USE DEF Init
<1>1. MaxUnits \in Nat /\ {InHigh, SockHigh} \subseteq Nat \ {0}
  BY SizesAssumption
<1>2. /\ <<>> \in Seq(0 .. MaxUnits) /\ <<>> \in Seq(Nat) /\ Len(<<>>) = 0
  BY EmptySeq
<1>3. NumInv
  BY <1>1, <1>2 DEF NumInv, NoCall
<1>4. BeforeInv /\ LengthInv
  BY DEF BeforeInv, LengthInv
<1>5. HeadInv
  BY DEF HeadInv, OwnHeaders
<1>6. StateInv /\ FlushInv
  BY DEF StateInv, FlushInv
<1>7. SocketInv /\ InputInv
  BY DEF SocketInv, InputInv
<1> QED
  BY <1>3, <1>4, <1>5, <1>6, <1>7 DEF CoreInv

LEMMA StutterKeeps ==
    ASSUME UNCHANGED vars
    PROVE  (CoreInv => CoreInv') /\ (LengthInv => LengthInv')
<1> USE DEF vars, givenVars, headVars, callVars, inVars, encVars, flushVars,
            outVars, sockVars, userVars
<1>1. (NumInv => NumInv') /\ (BeforeInv => BeforeInv')
  BY DEF NumInv, BeforeInv
<1>2. HeadInv => HeadInv'
  BY DEF HeadInv, PlainHdr, EncodedHdr, OwnHeaders
<1>3. (StateInv => StateInv') /\ (FlushInv => FlushInv')
  BY DEF StateInv, FlushInv
<1>4. (SocketInv => SocketInv') /\ (InputInv => InputInv')
  BY DEF SocketInv, InputInv
<1>5. LengthInv => LengthInv'
  BY DEF LengthInv
<1> QED
  BY <1>1, <1>2, <1>3, <1>4, <1>5 DEF CoreInv

LEMMA StepKeeps ==
    CoreInv /\ [Next]_vars => CoreInv'
<1> SUFFICES ASSUME CoreInv, [Next]_vars
             PROVE  CoreInv'
  OBVIOUS
<1>1. CASE Next
  BY <1>1, NumbersStay, NothingBefore, HeadersFollow, EncoderFollows, FlushCovers,
     SocketHoldsUp, InputHoldsUp DEF CoreInv
<1>2. CASE UNCHANGED vars
  BY <1>2, StutterKeeps
<1> QED
  BY <1>1, <1>2

(* The invariant that the properties below rest on. *)
THEOREM Invariance ==
    Spec => []CoreInv
<1>1. Init => CoreInv
  BY StartsRight
<1> QED
  BY <1>1, StepKeeps, PTL DEF Spec

(* undoDecision(), the end of the stream and each error release the native *)
(* state of the compressor, and so does a response that closes while it    *)
(* has one.  Only a compressor made after the response had closed may keep *)
(* its native state, until its output has ended or failed.                 *)
THEOREM ReleasesMemory ==
    Spec => []MemoryIsReleased
<1>1. CoreInv => MemoryIsReleased
  BY DEF CoreInv, StateInv, MemoryIsReleased
<1> QED
  BY <1>1, Invariance, PTL

(* #unflushed is set only by input: neither flush() nor the idle check     *)
(* flushes an encoder that has none.                                       *)
THEOREM FlushesInput ==
    Spec => []NoEmptyBlock
<1>1. CoreInv => NoEmptyBlock
  BY DEF CoreInv, FlushInv, NoEmptyBlock
<1> QED
  BY <1>1, Invariance, PTL

(* A socket at its mark stops the output of the compressor, and a          *)
(* compressor at its mark the handler, for marks of any height.            *)
THEOREM HoldsBack ==
    Spec => []BackpressureHolds
<1>1. CoreInv => BackpressureHolds
  BY DEF CoreInv, SocketInv, InputInv, BackpressureHolds
<1> QED
  BY <1>1, Invariance, PTL

(* The headers that went out tell how the body is sent, and those that did *)
(* not are the handler's again once a decision is undone; as long as a     *)
(* handler whose end() failed does not answer in another way.              *)
THEOREM TellsBody ==
    ASSUME NoRestarts
    PROVE  Spec => []HeadersTellBody
<1>1. Init => CoreInv /\ LengthInv
  BY StartsRight
<1>2. CoreInv /\ LengthInv /\ [Next]_vars => (CoreInv /\ LengthInv)'
  <2> SUFFICES ASSUME CoreInv, LengthInv, [Next]_vars
               PROVE  (CoreInv /\ LengthInv)'
    OBVIOUS
  <2>1. CASE Next
    BY <2>1, StepKeeps, LengthFollows, NoRestarts DEF CoreInv
  <2>2. CASE UNCHANGED vars
    BY <2>2, StutterKeeps
  <2> QED
    BY <2>1, <2>2
<1>3. CoreInv /\ LengthInv => HeadersTellBody
  <2> SUFFICES ASSUME HeadInv, LengthInv
               PROVE  HeadersTellBody
    BY DEF CoreInv
  <2>1. ASSUME sent
        PROVE  /\ hdr.encoding <=> comp # "none"
               /\ hdr.encoding => hdr.length = None /\ hdr.etag # "strong" /\ ~raw
               /\ ~hdr.encoding => hdr \in {OwnHeaders, [OwnHeaders EXCEPT !.length = bodyLength]}
    <3>1. CASE comp = "none"
      <4>1. PlainHdr
        BY <2>1, <3>1 DEF HeadInv
      <4>2. ~hdr.encoding
        BY <4>1 DEF PlainHdr, OwnHeaders
      <4> QED
        BY <3>1, <4>1, <4>2 DEF PlainHdr
    <3>2. CASE comp # "none"
      BY <2>1, <3>2 DEF HeadInv, EncodedHdr
    <3> QED
      BY <3>1, <3>2
  <2>2. ASSUME sent, raw, resEnded
        PROVE  hdr.length \in {declared, written}
    <3>1. comp = "none" /\ PlainHdr /\ step # "body"
      BY <2>2 DEF HeadInv
    <3>2. CASE hdr = OwnHeaders
      BY <3>2 DEF OwnHeaders
    <3>3. CASE declared = None /\ hdr = [OwnHeaders EXCEPT !.length = bodyLength]
      BY <2>2, <3>1, <3>3 DEF OwnHeaders, LengthInv
    <3> QED
      BY <3>1, <3>2, <3>3 DEF PlainHdr
  <2>3. ~sent /\ step = "none" => hdr = OwnHeaders
    BY DEF HeadInv
  <2> QED
    BY <2>1, <2>2, <2>3 DEF HeadersTellBody, LengthIsOfBody
<1> QED
  BY <1>1, <1>2, <1>3, PTL DEF Spec

================================================================================
