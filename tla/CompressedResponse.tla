--------------------------- MODULE CompressedResponse --------------------------
(***************************************************************************)
(* A response of the Express middleware: compressResponse() of express.ts  *)
(* over one ServerResponse, and the EncoderTransform of compress.ts that   *)
(* its body goes through.                                                  *)
(*                                                                         *)
(* The handler's chunks wait in the writable side of the Transform, its    *)
(* output in the readable side, then in the buffer of the socket, from     *)
(* which the client reads.  Sizes are counted in units; an output is the   *)
(* number of units of the body that can be decoded once it has arrived.    *)
(*                                                                         *)
(* One thread runs all this: a call of the handler, a task of the streams  *)
(* and what they call back are each run to their end (see JsFree), and a   *)
(* task of the event loop waits for the tasks of the streams (see Quiet).  *)
(***************************************************************************)
EXTENDS Integers, Sequences

CONSTANTS
    MaxUnits,   \* the length of the body at most
    MaxChunks,  \* the chunks that the handler writes at most
    Threshold,  \* settings.threshold
    Declared,   \* the lengths that a handler may declare before writeHead()
    InHigh,     \* highWaterMark of the writable side, in units
    OutHigh,    \* highWaterMark of the readable side, in outputs
    SockHigh,   \* highWaterMark of the socket, in outputs
    Restarts    \* a handler whose end() failed may answer in another way

ASSUME SizesAssumption ==
    /\ {MaxChunks, Threshold} \subseteq Nat
    /\ {MaxUnits, InHigh, OutHigh, SockHigh} \subseteq Nat \ {0}
    /\ Declared \subseteq 0 .. MaxUnits
    /\ Restarts \in BOOLEAN

None == -1
NoSnapshot == [status |-> "ok", length |-> None, etag |-> "none"]
NoCall == [op |-> "none", size |-> 0, code |-> "none"]

VARIABLES
    candidate,  \* isCandidate() and canCompressBody() of the response
    accepts,    \* settings.encoding: negotiated from the request
    declared,   \* the Content-Length that the handler set
    tagged,     \* the handler set a strong ETag
    status,     \* res.statusCode: "ok", or "invalid", which Node rejects
    hdr,        \* Content-Encoding, Content-Length and ETag of res
    sent,       \* res.headersSent
    decided, bodyLength, snapshot,
    call, step, \* the call of the handler, and where it is in it
    comp,       \* compressor
    encoder,    \* its native state
    orphan,     \* a compressor was given up with its encoder open
    late,       \* the compressor was made after res had emitted 'close'
    inq, inLen, \* chunks that wait in its writable side; writableLength
    held,       \* the chunk whose callback waits until its output is read
    needDrain,  \* state.needDrain of its writable side
    drainTick,  \* afterWrite() is due
    unflushed, idle,      \* #unflushed, #idleCheck
    given, covered,       \* units in the encoder; those of its last flush
    empty,      \* the encoder was flushed without new input
    outq, eof,  \* outputs that wait in its readable side; push(null)
    flowing,    \* its readable side flows: not paused by the socket
    sock, sockNeed,       \* outputs in the socket; kNeedDrain of res
    resEnded,   \* end() of the ServerResponse was called
    gone,       \* res has closed before it was complete
    written, chunks,      \* units and chunks that the handler has written
    ending,     \* the handler has called end()
    raw,        \* bytes of the handler went out as they are
    waiting,    \* the handler waits for 'drain'
    refused,    \* a call after end() failed
    received    \* units that the client can decode

givenVars == <<candidate, accepts, tagged>>
headVars == <<declared, status, hdr, sent, decided, bodyLength, snapshot>>
callVars == <<call, step>>
inVars == <<inq, inLen, held, needDrain, drainTick>>
encVars == <<comp, encoder, orphan, late>>
flushVars == <<unflushed, idle, given, covered, empty>>
outVars == <<outq, eof, flowing>>
sockVars == <<sock, sockNeed, resEnded, gone>>
userVars == <<written, chunks, ending, raw, waiting, refused>>
vars == <<givenVars, headVars, callVars, inVars, encVars, flushVars, outVars,
          sockVars, userVars, received>>

Lengths == 0 .. MaxUnits \cup {None}
Codes == {"ok", "invalid"}
Etags == {"none", "strong", "weak"}

TypeOK ==
    /\ {candidate, accepts, tagged, sent, decided, orphan, late, needDrain,
        drainTick, unflushed, idle, empty, eof, flowing, sockNeed, resEnded,
        gone, ending, raw, waiting, refused} \subseteq BOOLEAN
    /\ declared \in Lengths /\ bodyLength \in Lengths
    /\ status \in Codes
    /\ hdr \in [encoding : BOOLEAN, length : Lengths, etag : Etags]
    /\ snapshot \in [status : Codes, length : Lengths, etag : Etags]
    /\ call \in [op : {"none", "head", "write", "end"}, size : 0 .. MaxUnits,
                 code : Codes \cup {"none"}]
    /\ step \in {"none", "decide", "emit", "raw", "body", "finish"}
    /\ comp \in {"none", "open", "ended", "failed", "destroyed"}
    /\ encoder \in {"none", "open", "closed"}
    /\ inq \in Seq(0 .. MaxUnits) /\ held \in 0 .. MaxUnits
    /\ outq \in Seq(Nat) /\ sock \in Seq(Nat)
    /\ {given, covered, written, chunks, received} \subseteq Nat
    /\ inLen \in Int

Init ==
    /\ candidate \in BOOLEAN /\ accepts \in BOOLEAN /\ tagged \in BOOLEAN
    /\ declared \in Declared \cup {None}
    /\ status \in Codes
    /\ hdr = [encoding |-> FALSE, length |-> declared,
              etag |-> IF tagged THEN "strong" ELSE "none"]
    /\ sent = FALSE /\ decided = FALSE /\ bodyLength = None
    /\ snapshot = NoSnapshot
    /\ call = NoCall /\ step = "none"
    /\ comp = "none" /\ encoder = "none" /\ orphan = FALSE /\ late = FALSE
    /\ inq = <<>> /\ inLen = 0 /\ held = 0
    /\ needDrain = FALSE /\ drainTick = FALSE
    /\ unflushed = FALSE /\ idle = FALSE /\ given = 0 /\ covered = 0 /\ empty = FALSE
    /\ outq = <<>> /\ eof = FALSE /\ flowing = FALSE
    /\ sock = <<>> /\ sockNeed = FALSE /\ resEnded = FALSE /\ gone = FALSE
    /\ written = 0 /\ chunks = 0 /\ ending = FALSE /\ raw = FALSE
    /\ waiting = FALSE /\ refused = FALSE /\ received = 0

--------------------------------------------------------------------------------
(* What runs when. *)

\* A chunk that the Transform takes at once.
Transient == inq # <<>> /\ held = 0 /\ comp \in {"open", "ended"}

\* No call is in progress: a task of the streams or the handler may run.
JsFree == step = "none" /\ ~Transient

\* The streams have no task left: the event loop goes on.
Quiet ==
    /\ JsFree /\ ~drainTick /\ comp # "failed"
    /\ comp \in {"open", "ended"} /\ flowing => outq = <<>> /\ held = 0 /\ ~eof
    /\ comp = "ended" => eof \/ held > 0

\* Mutant: a write after end() is not told apart.
FlushingForgotten == FALSE

\* flushing(): end() was called and the compressor has not ended.
Flushing == comp # "none" /\ ending /\ ~resEnded

--------------------------------------------------------------------------------
(* Calls of the handler: res.writeHead(), res.write() and res.end(). *)

Return == call' = NoCall /\ step' = "none"
Begin(op, size, code, first) == call' = [op |-> op, size |-> size, code |-> code] /\ step' = first

\* How the headers go out, if they have not.
HeadStep == IF sent THEN "body" ELSE IF decided THEN "raw" ELSE "decide"

\* A handler whose end() threw answers with another end(), as that of Express
\* does, unless it Restarts.
MayStart == JsFree /\ ~ending /\ (Restarts \/ bodyLength = None)

(* Fields that are merged before the decision: a Content-Length, or none.  *)
(* Those of an odd shape go to the ServerResponse as they are.             *)
CallWriteHead(code, fields) ==
    /\ MayStart /\ ~sent
    /\ Begin("head", 0, code, IF fields = "odd" THEN "raw" ELSE HeadStep)
    /\ IF fields = "length" /\ ~decided
       THEN declared' = 1 /\ hdr' = [hdr EXCEPT !.length = 1]
       ELSE UNCHANGED <<declared, hdr>>
    /\ UNCHANGED <<status, sent, decided, bodyLength, snapshot, inVars, encVars,
                   flushVars, outVars, sockVars, userVars, received>>

CallWrite(n) ==
    /\ MayStart /\ ~waiting
    /\ chunks < MaxChunks /\ written + n <= MaxUnits
    /\ Begin("write", n, status, HeadStep)
    /\ UNCHANGED <<headVars, inVars, encVars, flushVars, outVars, sockVars, userVars,
                   received>>

CallEnd(n) ==
    /\ JsFree /\ ~ending
    /\ chunks < MaxChunks \/ n = 0
    /\ written + n <= MaxUnits
    /\ Begin("end", n, status, HeadStep)
    /\ bodyLength' = IF sent THEN bodyLength ELSE n
    /\ UNCHANGED <<declared, status, hdr, sent, decided, snapshot, inVars, encVars,
                   flushVars, outVars, sockVars, userVars, received>>

\* The handler corrects res.statusCode.
SetStatus ==
    /\ JsFree /\ ~sent /\ status = "invalid"
    /\ status' = "ok"
    /\ UNCHANGED <<declared, hdr, sent, decided, bodyLength, snapshot, callVars, inVars,
                   encVars, flushVars, outVars, sockVars, userVars, received>>

\* failWriteAfterEnd(), or the same by the ServerResponse once it has ended.
WriteAfterEnd ==
    /\ JsFree /\ ending /\ ~refused
    /\ refused' = TRUE
    /\ raw' = (raw \/ (~Flushing /\ ~resEnded))
    /\ UNCHANGED <<headVars, callVars, inVars, encVars, flushVars, outVars, sockVars,
                   written, chunks, ending, waiting, received>>

--------------------------------------------------------------------------------
(* emitHeaders(): the decision, then writeHead() of the ServerResponse. *)

\* The size of the body, as far as the decision knows it.
Length == IF hdr.length # None THEN hdr.length ELSE bodyLength

MeetsThreshold == Length = None \/ (Length > 0 /\ Length >= Threshold)

Compressible == candidate /\ accepts /\ MeetsThreshold

EncodedHeaders ==
    [encoding |-> TRUE, length |-> None,
     etag |-> IF hdr.etag = "none" THEN "none" ELSE "weak"]

\* keepBodyLength()
PlainHeaders == IF hdr.length = None THEN [hdr EXCEPT !.length = bodyLength] ELSE hdr

(* startCompression() makes the compressor, or throws where it would, and  *)
(* the decision stays made; or the response is sent as it is.              *)
Decide ==
    /\ step = "decide"
    /\ decided' = TRUE /\ status' = call.code
    /\ \/ /\ Compressible
          /\ hdr' = EncodedHeaders
          /\ comp' = "open" /\ encoder' = "open" /\ late' = gone /\ flowing' = TRUE
          /\ step' = "emit" /\ UNCHANGED call
       \/ /\ Compressible
          /\ Return
          /\ UNCHANGED <<hdr, comp, encoder, late, flowing>>
       \/ /\ ~Compressible
          /\ hdr' = PlainHeaders
          /\ step' = "emit"
          /\ UNCHANGED <<call, comp, encoder, late, flowing>>
    /\ snapshot' = IF step' = "none" THEN NoSnapshot
                   ELSE [status |-> status, length |-> hdr.length, etag |-> hdr.etag]
    /\ UNCHANGED <<declared, sent, bodyLength, inVars, orphan, flushVars, outq, eof,
                   sockVars, userVars, received>>

\* The call goes on to the body.
HeadersAreOut ==
    /\ sent' = TRUE
    /\ IF call.op = "head" THEN Return ELSE step' = "body" /\ UNCHANGED call

EmitHeaders ==
    /\ step = "emit" /\ call.code = "ok"
    /\ HeadersAreOut
    /\ snapshot' = NoSnapshot
    /\ UNCHANGED <<declared, status, hdr, decided, bodyLength, inVars, encVars,
                   flushVars, outVars, sockVars, userVars, received>>

\* Mutant: the compressor is forgotten and not destroyed.
UndoDecisionLeaks ==
    /\ step = "emit" /\ call.code = "invalid"
    /\ hdr' = [encoding |-> FALSE, length |-> snapshot.length, etag |-> snapshot.etag]
    /\ comp' = "none" /\ encoder' = "none" /\ flowing' = FALSE /\ late' = FALSE
    /\ orphan' = (orphan \/ encoder = "open")
    /\ status' = snapshot.status
    /\ decided' = FALSE /\ snapshot' = NoSnapshot
    /\ Return
    /\ UNCHANGED <<declared, sent, bodyLength, inVars, flushVars, outq, eof,
                   sockVars, userVars, received>>

(* writeHead() rejects the status: undoDecision(), which destroys the      *)
(* compressor.  What pipeToResponse() hooked up for it does nothing more.  *)
UndoDecision ==
    /\ step = "emit" /\ call.code = "invalid"
    /\ hdr' = [encoding |-> FALSE, length |-> snapshot.length, etag |-> snapshot.etag]
    /\ comp' = "none" /\ encoder' = "none" /\ flowing' = FALSE /\ late' = FALSE
    /\ status' = snapshot.status
    /\ decided' = FALSE /\ snapshot' = NoSnapshot
    /\ Return
    /\ UNCHANGED <<declared, sent, bodyLength, orphan, inVars, flushVars, outq,
                   eof, sockVars, userVars, received>>

(* writeHead() without a decision: the fields have an odd shape, which it  *)
(* emits or rejects, or an earlier decision threw.                         *)
EmitRaw ==
    /\ step = "raw"
    /\ \/ /\ call.code = "ok"
          /\ status' = "ok"
          /\ HeadersAreOut
       \/ /\ call.code = "invalid" \/ call.op = "head"
          /\ Return
          /\ UNCHANGED <<status, sent>>
    /\ UNCHANGED <<declared, hdr, decided, bodyLength, snapshot, inVars, encVars,
                   flushVars, outVars, sockVars, userVars, received>>

--------------------------------------------------------------------------------
(* The body without a compressor. *)

\* write() of the ServerResponse: a chunk goes to the socket, unless that has gone.
SendRaw(tag) ==
    IF gone
    THEN UNCHANGED <<sock, sockNeed>>
    ELSE /\ sock' = Append(sock, tag)
         /\ sockNeed' = (sockNeed \/ Len(sock') >= SockHigh)

WriteRaw ==
    /\ step = "body" /\ comp = "none" /\ call.op = "write"
    /\ written' = written + call.size /\ chunks' = chunks + 1 /\ raw' = TRUE
    /\ SendRaw(written')
    /\ waiting' = (gone \/ Len(sock') >= SockHigh)
    /\ Return
    /\ UNCHANGED <<headVars, inVars, encVars, flushVars, outVars, resEnded, gone, ending,
                   refused, received>>

EndRaw ==
    /\ step = "body" /\ comp = "none" /\ call.op = "end"
    /\ written' = written + call.size /\ raw' = TRUE
    /\ IF call.size > 0 THEN SendRaw(written') ELSE UNCHANGED <<sock, sockNeed>>
    /\ ending' = TRUE /\ resEnded' = TRUE
    /\ Return
    /\ UNCHANGED <<headVars, inVars, encVars, flushVars, outVars, gone, chunks, waiting,
                   refused, received>>

--------------------------------------------------------------------------------
(* The body into the compressor: the writable side of the Transform. *)

\* compressor.write(), also of the last chunk, that of end().
WriteToCompressor ==
    /\ step = "body" /\ comp # "none"
    /\ call.op = "write" \/ call.size > 0
    /\ chunks' = IF call.op = "write" THEN chunks + 1 ELSE chunks
    /\ IF comp = "open"
       THEN /\ inq' = Append(inq, call.size) /\ inLen' = inLen + call.size
            /\ written' = written + call.size
            /\ needDrain' = (needDrain \/ inLen' >= InHigh)
            /\ waiting' = (waiting \/ inLen' >= InHigh)
       ELSE waiting' = TRUE /\ UNCHANGED <<inq, inLen, written, needDrain>>
    /\ IF call.op = "end" THEN step' = "finish" /\ UNCHANGED call ELSE Return
    /\ UNCHANGED <<headVars, held, drainTick, encVars, flushVars, outVars, sockVars, ending,
                   raw, refused, received>>

\* compressor.end(), after its chunk.
EndCompressor ==
    /\ comp # "none" /\ call.op = "end" /\ ~Transient
    /\ step = "finish" \/ (step = "body" /\ call.size = 0)
    /\ ending' = TRUE
    /\ comp' = IF comp = "open" THEN "ended" ELSE comp
    /\ Return
    /\ UNCHANGED <<headVars, inVars, encoder, orphan, late, flushVars, outVars, sockVars,
                   written, chunks, raw, waiting, refused, received>>

\* The encoder throws: the stream is destroyed, and is to report the error.
Fail ==
    /\ comp' = "failed" /\ encoder' = "closed" /\ idle' = FALSE
    /\ inq' = <<>> /\ held' = 0

\* The 'data' listener of pipeToResponse().
Deliver(tag) ==
    /\ SendRaw(tag)
    /\ flowing' = (~gone /\ Len(sock') < SockHigh)

\* push(): a stream that flows may emit the output at once.
Push(tag) ==
    \/ /\ flowing /\ outq = <<>>
       /\ Deliver(tag) /\ UNCHANGED outq
    \/ /\ outq' = Append(outq, tag)
       /\ UNCHANGED <<sock, sockNeed, flowing>>

--------------------------------------------------------------------------------
(* EncoderTransform. *)

\* Mutant: an empty chunk counts as input.
TransformEmpty ==
    /\ Head(inq) = 0
    /\ unflushed' = TRUE /\ idle' = TRUE
    /\ drainTick' = TRUE
    /\ UNCHANGED <<inLen, held, encVars, given, covered, empty, outVars, sock, sockNeed>>

\* _transform() of an empty chunk.
SkipEmpty ==
    /\ Head(inq) = 0
    /\ idle' = (idle \/ unflushed)
    /\ drainTick' = TRUE
    /\ UNCHANGED <<inLen, held, encVars, unflushed, given, covered, empty, outVars, sock,
                   sockNeed>>

(* _transform(): the encoder takes the chunk, and may give output, which   *)
(* completes none of what was not flushed.  The Transform keeps the        *)
(* callback while the output it gave fills the readable side.              *)
Compress ==
    /\ Head(inq) > 0
    /\ given' = given + Head(inq) /\ unflushed' = TRUE
    /\ idle' = TRUE
    /\ UNCHANGED <<outq, sock, sockNeed, flowing>> \/ Push(covered)
    /\ IF Len(outq') > Len(outq) /\ Len(outq') >= OutHigh /\ comp = "open"
       THEN held' = Head(inq) /\ UNCHANGED <<inLen, drainTick>>
       ELSE inLen' = inLen - Head(inq) /\ drainTick' = TRUE /\ UNCHANGED held
    /\ UNCHANGED <<encVars, covered, empty, eof>>

Transform ==
    /\ Transient
    /\ \/ (SkipEmpty \/ Compress) /\ inq' = Tail(inq)
       \/ /\ Head(inq) > 0 /\ Fail
          /\ UNCHANGED <<inLen, drainTick, orphan, late, unflushed, given, covered, empty,
                         outVars, sock, sockNeed>>
    /\ UNCHANGED <<headVars, callVars, needDrain, resEnded, gone, userVars, received>>

\* Mutant: nothing looks at the input once the output was read.
ReadCompletesOnly ==
    /\ JsFree /\ flowing /\ held > 0 /\ Len(outq) <= OutHigh
    /\ held' = 0 /\ inLen' = inLen - held /\ drainTick' = TRUE
    /\ UNCHANGED <<headVars, callVars, inq, needDrain, encVars, flushVars, outVars, sockVars,
                   userVars, received>>

\* _read(): the chunk completes whose callback waited for this.
ReadCompletes ==
    /\ JsFree /\ flowing /\ held > 0 /\ Len(outq) <= OutHigh
    /\ held' = 0 /\ inLen' = inLen - held /\ drainTick' = TRUE
    /\ idle' = (idle \/ unflushed)
    /\ UNCHANGED <<headVars, callVars, inq, needDrain, encVars, unflushed, given, covered,
                   empty, outVars, sockVars, userVars, received>>

\* An output that waited is read.
Read ==
    /\ JsFree /\ comp \in {"open", "ended"} /\ flowing /\ outq # <<>>
    /\ held > 0 => Len(outq) > OutHigh
    /\ Deliver(Head(outq)) /\ outq' = Tail(outq)
    /\ UNCHANGED <<headVars, callVars, inVars, encVars, flushVars, eof, resEnded, gone,
                   userVars, received>>

\* afterWrite(): the stream's 'drain' is that of the response.
AfterWrite ==
    /\ JsFree /\ drainTick
    /\ drainTick' = FALSE
    /\ IF comp = "open" /\ inLen = 0 /\ needDrain
       THEN needDrain' = FALSE /\ waiting' = FALSE
       ELSE UNCHANGED <<needDrain, waiting>>
    /\ UNCHANGED <<headVars, callVars, inq, inLen, held, encVars, flushVars, outVars,
                   sockVars, written, chunks, ending, raw, refused, received>>

\* flush(), which does nothing without new input or after the end.
Flush ==
    /\ unflushed /\ comp = "open"
    /\ unflushed' = FALSE
    /\ \/ /\ empty' = (empty \/ given = covered) /\ covered' = given
          /\ Push(given)
          /\ UNCHANGED <<comp, encoder, inq, held>>
       \/ /\ Fail
          /\ UNCHANGED <<covered, empty, outq, flowing, sock, sockNeed>>

\* res.flush()
CallFlush ==
    /\ JsFree
    /\ Flush /\ idle' = (idle /\ comp' = "open")
    /\ UNCHANGED <<headVars, callVars, inLen, needDrain, drainTick, orphan, late, given,
                   eof, resEnded, gone, userVars, received>>

\* #checkIdle()
CheckIdle ==
    /\ Quiet /\ idle
    /\ idle' = FALSE
    /\ \/ inLen = 0 /\ Flush
       \/ /\ ~(unflushed /\ comp = "open" /\ inLen = 0)
          /\ UNCHANGED <<unflushed, empty, covered, outq, flowing, sock, sockNeed, comp,
                         encoder, inq, held>>
    /\ UNCHANGED <<headVars, callVars, inLen, needDrain, drainTick, orphan, late, given,
                   eof, resEnded, gone, userVars, received>>

\* _flush(): the input has ended.
Finish ==
    /\ JsFree /\ comp = "ended" /\ inLen = 0 /\ ~eof
    /\ idle' = FALSE
    /\ \/ /\ encoder' = "closed" /\ covered' = given /\ eof' = TRUE
          /\ Push(given)
          /\ UNCHANGED <<comp, inq, held>>
       \/ Fail /\ UNCHANGED <<covered, eof, outq, flowing, sock, sockNeed>>
    /\ UNCHANGED <<headVars, callVars, inLen, needDrain, drainTick, orphan, late, unflushed,
                   given, empty, resEnded, gone, userVars, received>>

\* 'end', after which the stream destroys itself.
EmitEnd ==
    /\ JsFree /\ comp = "ended" /\ eof /\ outq = <<>> /\ flowing
    /\ resEnded' = TRUE /\ comp' = "destroyed"
    /\ UNCHANGED <<headVars, callVars, inVars, encoder, orphan, late, flushVars, outVars,
                   sock, sockNeed, gone, userVars, received>>

\* 'error', which destroys the response.
EmitError ==
    /\ JsFree /\ comp = "failed"
    /\ comp' = "destroyed" /\ gone' = TRUE
    /\ UNCHANGED <<headVars, callVars, inVars, encoder, orphan, late, flushVars, outVars,
                   sock, sockNeed, resEnded, userVars, received>>

--------------------------------------------------------------------------------
(* The socket and the client. *)

ClientReads ==
    /\ ~gone /\ sock # <<>>
    /\ received' = Head(sock) /\ sock' = Tail(sock)
    /\ UNCHANGED <<headVars, callVars, inVars, encVars, flushVars, outVars, sockNeed,
                   resEnded, gone, userVars>>

\* Mutant: writers go on although the compressor is behind.
EmitDrainAlways ==
    /\ flowing' = (comp # "none")
    /\ waiting' = FALSE

\* Mutant: the compressor's 'drain' is the only one, and wakes the output too.
EmitDrainOnly ==
    /\ UNCHANGED flowing
    /\ waiting' = (waiting /\ comp = "open" /\ needDrain)

(* emit('drain') of the response: output flows again, and a writer that    *)
(* waits for the compressor goes on waiting.                               *)
EmitDrain ==
    /\ flowing' = (comp # "none")
    /\ waiting' = (waiting /\ comp = "open" /\ needDrain)

SocketDrains ==
    /\ Quiet /\ ~gone /\ sock = <<>> /\ sockNeed
    /\ sockNeed' = FALSE
    /\ IF resEnded THEN UNCHANGED <<flowing, waiting>> ELSE EmitDrain
    /\ UNCHANGED <<headVars, callVars, inVars, encVars, flushVars, outq, eof, sock, resEnded,
                   gone, written, chunks, ending, raw, refused, received>>

(* The client or the handler closes the response before it is complete,    *)
(* which destroys a compressor that it has.                                *)
Close ==
    /\ JsFree /\ ~gone /\ ~(resEnded /\ sock = <<>>)
    /\ gone' = TRUE
    /\ IF comp = "none" THEN UNCHANGED <<comp, encoder, idle, inq, held>>
       ELSE /\ comp' = "destroyed" /\ encoder' = "closed" /\ idle' = FALSE
            /\ inq' = <<>> /\ held' = 0
    /\ UNCHANGED <<headVars, callVars, inLen, needDrain, drainTick, orphan, late, unflushed,
                   given, covered, empty, outVars, sock, sockNeed, resEnded, userVars,
                   received>>

--------------------------------------------------------------------------------

Handler ==
    \/ \E code \in Codes, fields \in {"none", "length", "odd"} : CallWriteHead(code, fields)
    \/ \E n \in 0 .. MaxUnits : CallWrite(n) \/ CallEnd(n)
    \/ SetStatus \/ CallFlush \/ WriteAfterEnd

\* What goes on by itself once a call has begun.
Tasks ==
    \/ Decide \/ EmitHeaders \/ UndoDecision \/ EmitRaw
    \/ WriteRaw \/ EndRaw \/ WriteToCompressor \/ EndCompressor
    \/ Transform \/ ReadCompletes \/ Read \/ AfterWrite
    \/ Finish \/ EmitEnd \/ EmitError
    \/ CheckIdle \/ SocketDrains

Next == (Handler \/ Tasks \/ ClientReads \/ Close) /\ UNCHANGED givenVars

Spec == Init /\ [][Next]_vars

\* The event loop runs its tasks, and the client reads until it goes.
FairSpec ==
    /\ Spec
    /\ WF_vars(Tasks /\ UNCHANGED givenVars)
    /\ WF_vars(ClientReads /\ UNCHANGED givenVars)

--------------------------------------------------------------------------------
(* Properties. *)

\* The headers as the handler has set them.
OwnHeaders ==
    [encoding |-> FALSE, length |-> declared, etag |-> IF tagged THEN "strong" ELSE "none"]

(* A Content-Length that is not the handler's is the "body size, when      *)
(* `end()` emits the headers and so knows the whole body".                 *)
LengthIsOfBody == sent /\ raw /\ resEnded => hdr.length \in {declared, written}

(* The headers that go out tell how the body is sent: encoded through a    *)
(* compressor and nothing else, without the length of the body as it was   *)
(* and with a weak tag; or as the handler has it, with its own headers and *)
(* the length that end() knew.  A decision that was undone leaves no trace.*)
HeadersTellBody ==
    /\ sent =>
          /\ hdr.encoding <=> comp # "none"
          /\ hdr.encoding => hdr.length = None /\ hdr.etag # "strong" /\ ~raw
          /\ ~hdr.encoding => hdr \in {OwnHeaders, [OwnHeaders EXCEPT !.length = bodyLength]}
    /\ LengthIsOfBody
    /\ ~sent /\ step = "none" => hdr = OwnHeaders

(* No native state is left to the garbage collector: not by a decision     *)
(* that is undone, by a response that ends, by a compressor that was       *)
(* destroyed, nor by a response that closes with its compressor.  There is *)
(* one exception: a compressor made once res has emitted 'close' waits for *)
(* a 'close' that does not come again, and holds its native state until    *)
(* its output has ended or failed, if that ever happens.  "Release the     *)
(* compressor of a response that will never finish" is then not what the   *)
(* listener does.                                                          *)
MemoryIsReleased ==
    /\ ~orphan
    /\ resEnded \/ comp = "destroyed" => encoder # "open"
    /\ gone => encoder # "open" \/ late

\* "Flushing an encoder without new input would still emit an empty block."
NoEmptyBlock == ~empty

(* Whatever the client does, output stops at the socket's mark, and a      *)
(* handler that respects 'drain' is held while the compressor has yet to   *)
(* take what it wrote.  The readable side between them has no bound: each  *)
(* flush puts its output there, however much waits.                        *)
BackpressureHolds ==
    comp = "open" =>
        /\ Len(sock) <= SockHigh
        /\ inLen >= InHigh /\ step = "none" => waiting

(* A handler that waits for 'drain' goes on, through three buffers, or the *)
(* response closes.                                                        *)
WritersWake == waiting ~> ~waiting \/ ending \/ gone

(* The client can decode all that was written, whether or not the handler  *)
(* ever writes again or ends the response.                                 *)
PauseDelivers == \A k \in 1 .. MaxUnits : written = k ~> received >= k \/ gone

================================================================================
