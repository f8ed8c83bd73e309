# Verification of comprs

TLA+ models of the parts of comprs that decide things across threads, callbacks
and chunks, the TLC runs that check them on small instances, and proofs, checked
by TLAPS, of the most important properties for instances of any size.

comprs compresses and decompresses zstd, brotli, gzip/deflate and LZ4 for
JavaScript: a Rust core, a native addon that runs it on the libuv thread pool, a
WebAssembly build, stream helpers on top of both, and HTTP middleware.

## The system

| Component | Source | State | Operations |
| --- | --- | --- | --- |
| Stream contexts of the addon | `crates/core/src/context.rs`, `stream_task.rs`, `async_args.rs` | the slot (codec state, memory reported to V8) behind a lock; `busy`; `close_requested`; one task per call | `transform`, `flush`, `finish`, each synchronous or asynchronous, `close()`, the finalizer, the shutdown of the environment |
| One-shot tasks and their withdrawal | `crates/core/src/task.rs`, `src/next/abort.ts` | the claim on the start of a task; the listener on the signal; the race of two Promises | start, abort, the thread reaching the task, the Promise settling |
| Call scheduler | `src/stream-schedule.ts` | per thread: `spent`, `waiting`, `turnScheduled`; per stream: what it knows of its context and the speed it learnt | `transform`, `flush`, `finish`, `nextTurn` |
| Web streams of Node.js | `src/streams.ts`, `src/next/api.ts`, `src/next/native.ts` | `cancelled`, `open`, the context, the scheduler | the transformer's `transform`, `flush`, `cancel`; write, close, abort, cancel of the user |
| Node.js Transforms | `src/node.ts` | the context, the scheduler | `_transform`, `_flush`, `_destroy`, pushing in slices |
| Detection of the format | `src/next/api.ts`, `src/streams.ts`, `src/node.ts`, `crates/core-lib/src/unified.rs`, `detect.rs` | the input held, when detection runs next, the inner stream | a chunk, the end of the input |
| Codecs | `crates/core-lib/src/*_stream.rs`, `limited.rs`, `blocks.rs` and the one-shot modules | the state of each context (holding, streaming, failed, finished), the budget of the output | `transform`, `flush`, `finish` |
| Prepared dictionaries | `crates/core-lib/src/dictionary.rs`, `crates/core/src/next.rs` | the dictionary of the level it was made for, and a small cache of other levels behind a lock | take the dictionary of a level |
| WebAssembly and the browser | `crates/wasm`, `src/browser`, `src/next/wasm.ts` | a context that is freed by hand | as above, all synchronous |
| Middleware | `packages/middleware/src` | the compressor of a response, the decision and its snapshot, the idle check, the buffers of the Transform and of the socket | `writeHead`, `write`, `end`, `flush`, 'drain', 'close' |
| libbrotli and its binding | `crates/brotli-c` | the encoder (ring buffer, hasher, commands, pending output) and the decoder (bit reader, tables, ring buffer) | process, flush, finish, metadata; decompress |

How they interact. A stream helper asks its `ChunkScheduler` for a call. The
scheduler may first wait for a turn of the event loop (shared by all streams of
the thread), then makes the call on the context synchronously, or has a task of
the pool make it. The context lets one call in at a time; `close()` may come at
any time, and is honoured by the call in flight. The runtime (`TransformStream`)
serialises `transform` and `flush`, but calls `cancel` between their steps.

What is hard here: the lock of a context is released by a thread other than the
one that set `busy`; `close()`, the finalizer and a shutdown come in the middle of
a call; schedulers of unrelated streams share one budget; a scheduler predicts
what its context will do from an account of its own; a reader that cancels during
the end of a stream is treated unlike one that cancels earlier; an abort races
the thread that starts the work; a response passes three buffers, each of which may
hold up the others, and a decision about its headers that Node may reject; a codec is
called with as little room for output as its caller has, and keeps what does not fit in
bits, in a ring buffer and in its output. `PROJECT.json` lists each of these at its line.

What makes each component correct:

* a context: one call at a time, the JavaScript thread never blocked by the lock,
  memory released after `close()` or the end whatever runs meanwhile, V8 told of
  exactly that memory, every call answered;
* the scheduler: the event loop held for no longer than the budget and one more
  call, every waiting call let go on, in order; expensive calls on the pool;
* a stream: all output passed on, in order; nothing passed on after a cancel and
  no error made of it; memory released on every way to end;
* a call with a signal: an abort wins over all that comes later, work that was
  withdrawn never runs, nothing leaks;
* a response: its headers tell how its body is sent, its compressor is released with it
  (but one that was made after it closed, see Findings), a writer is held back and let go
  on, and what was written arrives, also in a pause;
* a codec: one context and another are a channel of bytes, flushes deliver, the end and
  the limit are met exactly.

## Modules

| Module | Models | Composes |
| --- | --- | --- |
| `NativeContext` | a context shared by the JavaScript thread and the pool | refines `ContextContract` |
| `ContextContract` | what a context promises to one caller | |
| `TurnBudget` | the budget of the thread and `nextTurn()` | |
| `CallPrediction` | a scheduler's account of its context, and the context | |
| `WebStream` | a Web stream of the package root (`helper = "root"`) or of the unified API (`"next"`) | its context is an instance of `ContextContract` |
| `NodeTransform` | a Node.js Transform with a context from the start (`helper = "context"`) or once the format is known (`"detect"`) | its context is an instance of `ContextContract` |
| `AbortableCall` | calls with an `AbortSignal` and their tasks in the pool | |
| `FormatDetection` | a stream that finds out the format of its input: `AutoDecoder` (`helper = "core"`), `DetectingStream` (`"api"`), the package root (`"root"`) | |
| `CompressedResponse` | a response of the Express middleware and its `EncoderTransform` | |
| `BrotliStream` | a compressing and a decompressing brotli context and the wire between them | refines `ByteChannel`; its encoder and decoder are parameters |
| `ByteChannel` | what the two contexts promise together | |
| `BrotliBinding` | the encoder and the decoder of a case, and their calls, for the parameters of `BrotliStream` | the two below |
| `BrotliEncoder`, `BrotliRingBuffer`, `BrotliFragment`, `BrotliZopfli`, `BrotliBinaryTree`, `BrotliMatch`, `BrotliDictionary`, `BrotliHasher`, `BrotliBlocks`, `BrotliCluster`, `BrotliBitStream` | the encoder of libbrotli, from its calls down to the bits | each extends those below it |
| `BrotliDecoder`, `BrotliHeader` | the decoder of libbrotli | |
| `BrotliBits`, `BrotliCommand`, `BrotliPrefixCode`, `BrotliTransform` | what both ends of libbrotli share | |
| `*Proofs` | the theorems about the module of that name; `ChunkSchedulerProofs` those about `TurnBudget` and `CallPrediction` | |

The `MC*` modules give TLC its model values and inputs.

**NativeContext.** `slot`, `usage` and `reported` are the fields of the Rust `Slot`;
`account` is what V8 has been told; `busy`, `closeRequested` and `lock` are the
shared flags. A synchronous method is two steps (`SyncBegin` checks the flags,
`SyncRun` takes the lock and calls the codec), an asynchronous one is
`BeginAsync`, then `PoolLock`, `PoolOperate`, `PoolUnlock` on a thread of the pool, then
`SettleBegin`, `SettleRun` on the JavaScript thread. `CloseBusy`, `CloseBegin`,
`CloseRun`, `Finalize`, `Shutdown` and `Cancel` interleave with all of them. What the
codec returns and how much memory its state has are any values. One step is more
atomic than the code: a check of flags by the JavaScript thread, which nothing
else writes at that moment.

**ContextContract.** The promise: calls are refused at once or answered one at a
time, the end and a close leave no memory. `NativeContext` shows that the threads,
the lock and the flags implement it; `WebStream` uses it in their place.

**TurnBudget.** `spent`, `waiting` and `turnScheduled` are the variables of the
source; `heldFor` and `waits` are history, for the properties; `waits` counts on if a call
that a turn has let go on has to queue again, so `WaitIsBounded` is about all of its wait. A call is
`WaitForTurn`, `CallSync`, `CallAsync` or `CallThrows`; `NextTurn` renews the budget and
lets the oldest call go on. `IdleTurn` is a turn of the event loop with no
immediate scheduled.

**CallPrediction.** The fields of `ChunkScheduler` next to the variables of the
context that they mirror. `Transform`, `Flush` and `Finish` update both. `blocking` is
how long the last call held the JavaScript thread. Sizes are in small units: what
matters is how chunks fall on the limits of what is held and of a block.

**WebStream.** The states of the two sides and of the operation in progress are
those of the Streams standard, the actions `WaitForTurn` to `Throw` are the code of the
helper, and `Write`, `Close`, `Abort`, `Cancel` are the user. Each chunk may fail the
codec, may be no bytes at all, may give output or none, and may run on either
thread with or without waiting for a turn.

**NodeTransform.** `phase` and `method` are where `runStep()` is in the step that
the stream asked for (`op`); `TakeChunk`, `TakeEnd`, `Read`, `EmitEnd` and the callback
that waits for the reader (`held`) are node:stream. A result is a number of slices:
`Buffer` pushes one into the buffer, `Emit` one that a 'data' listener gets inside
`push()`, where it may destroy the stream or transfer the chunk. `owed` counts the
slices that nobody has received. `canMark` says whether the runtime implements
`markAsUntransferable()`. Where it does not, a reader that transfers a chunk out of
the buffer detaches those behind it (`spoiled`), which the code cannot see and
`OutputIsWhole` excludes.

**FormatDetection.** Input is its length. `certain` is how much of it detection needs
until its answer does not change any more, any number for each input; a final answer
before that is a guess. `Try` is one turn of the loop of `transform()` in which
detection runs, `Hold` the one in which the chunk runs out. `NextTry`, `Take` and the
budget of `flush()` are those of the code; `decoded` adds up what detection decodes.
The package root differs: it looks at the limit after a whole chunk, and takes
"unknown" for "not known yet".

**AbortableCall.** `js` is where `settleWith()` is, `race` and `outcome` what its
two Promises have settled to, `task`, `claim` and `queue` are the pool's. Code that
awaits a settled Promise runs before any other JavaScript (`JsFree`).

**CompressedResponse.** `decided`, `bodyLength`, `snapshot` and `comp` are the variables
of `compressResponse()`; `hdr`, `status` and `sent` are the response's own. A call of the
handler (`CallWriteHead`, `CallWrite`, `CallEnd`, `CallFlush`) begins it, `step` says where in
the hooks it is (`Decide`, `EmitHeaders` or `UndoDecision` or `EmitRaw`, then the body), and
nothing else runs until it has returned (`JsFree`). The Transform is its writable side
(`inq`, `inLen`, `needDrain`, and `held`, the chunk whose callback waits for a read), the
encoder (`given` units of input, of which `covered` can be decoded by whoever gets all of
its output) and its readable side (`outq`, `flowing`); then come the socket (`sock`) and
the client (`received`). An output is the number of units that can be decoded once it has
arrived, so `PauseDelivers` is about what the client can read and not about bytes. The
handler may use any chunk down to nothing, set a length or an ETag, give a status that Node
rejects, flush, write after the end and stop at any moment; the encoder may fail in each
call, and the client may leave. `Restarts` is a handler that begins its error response
with `writeHead()` or `write()`; without it, as that of Express does, with `end()`.

**BrotliStream.** The variables are the two contexts: what the first holds (`held`), the
call of `compress_all` that runs, the rest of its run and the run to come (`call`), what the
encoder took so far (`taken`), the `wire`, and how far the second is. One step is one call of
libbrotli with one of the rooms for output that the case has. The contexts know the codec
only by its calls (`NewEncoder`, `Encode`, `NewDecoder`, `Decode`), by what bytes say
(`Meaning`) and by the reach of a window (`Farthest`). These are parameters, and
`CodecKeepsContract` is what the contexts rely on: a legal call of the encoder succeeds, takes
its input from the front and adds bytes that say what it took, all of it once a flush or the
end is done (`EncoderSound`, `Legal`); the decoder gives what its input says and nothing else,
asks for more only if that is all, and stops at the end (`DecoderSound`); a part of a stream
says a part of the data (`FormatSound`). Two more parts say how the encoder works: what
becomes of a stream does not depend on the room of a call nor on when earlier output is taken
(`EncoderSteady`), and a call writes the data that it takes to the ring buffer, in parts no
longer than its tail (`EncoderWrites`).

In the run the parameters are those of `BrotliBinding`: libbrotli itself, with real bits on
the wire. `BrotliEncoder` has the state of `encode.c`, and under it are the ring buffer
(`BrotliRingBuffer`), the qualities 0 and 1 (`BrotliFragment`), 2 to 9 (`BrotliMatch` over the
hashers of `BrotliHasher`), 10 and 11 (`BrotliZopfli` over `BrotliBinaryTree` and the static
dictionary in `BrotliDictionary`), the split into blocks and contexts (`BrotliBlocks`,
`BrotliCluster`), the prefix codes and the metablocks (`BrotliPrefixCode`, `BrotliBitStream`).
`BrotliHeader` and `BrotliDecoder` are `decode.c`: each function may run out of input at any
read and is called again from the top.

## Runs

| Run | Instance | Shows |
| --- | --- | --- |
| `context` | two calls, memory 0 or 1 | the account of V8 is right, calls begun before a close are answered, the contract is implemented; every call settles and memory is withdrawn, also after the object was collected |
| `budget` | three streams, calls of 0, 1, 3 ms, a budget of 4 ms | the hold and the wait are bounded, every waiting call goes on |
| `prediction` | a stream that holds 5 units and feeds blocks of 3, and one with a set-up of 6 below the limit of 8; chunks of 0, 1, 2, 5, 9, rates 1 to 3, 40 units of input | the account mirrors the context; cheap calls are cheap, those of the end included |
| `prediction_setup` | a set-up of 9 | violation: see Findings |
| `web` | both helpers, two chunks, then flush and finish | memory, order and completeness of the output, settled requests; the package root drops late output |
| `web_late` | one chunk | violation: see Findings |
| `node` | both helpers, two chunks, results of up to two slices, runtimes with and without the mark | memory and held input, order of the calls, completeness of the output, and that the stream closes |
| `abort` | three calls, two threads of the pool | withdrawal, truth of the outcome, promptness; calls settle, with no listener left, and threads come free |
| `response` | bodies of up to 3 units in up to 3 chunks, a threshold of 2, a declared length of 2, marks of 2 units in the compressor, 1 output behind it and 1 in the socket | headers tell the body, memory but of a late compressor (see Findings), no empty block, output stops at the mark of the socket and a full compressor has a writer that waits, writers wake, a pause delivers |
| `response_restarts` | the same with `Restarts` | violation: see Findings |
| `brotli_streams` | 15 cases: every quality, windows of two sizes, three dictionaries, metadata, and all splits of input, wire and output that a case allows | libbrotli keeps the contract from which the contexts are proved; flushes deliver, the end (nothing legal is refused on the way there), the limit and the ring buffer are exact, the channel, the split of the input does not matter, every stream ends |
| `detection` | tries at 2, 4, 8, 16 bytes, up to 18 bytes of input in chunks of 0 to 17 bytes with flushes anywhere | the split does not matter, no byte is lost or doubled, tries keep up, detection is cheap |

Why the bounds are enough. A context lets one call in at a time, so two calls
race, and what they leave behind is the state that another finds; that a third adds
nothing is proved (`Refinement`). With three
streams one can hold up a second while a third overdraws the budget; costs
are zero, small, and most of the budget. For `CallPrediction`, the chunks are
smaller than, equal to, and larger than a block and what is held, and 40 units
pass the held input and several blocks in every alignment. A Web stream has no
state that a third chunk could reach: the second already meets every state that
the first left, and neither has a Transform, whose two slices are the one in the
hand of the listener and the one that it may detach. `FormatDetection` has four tries
where the code has fifteen, which differ in nothing but their length; the input goes
past the limit by two bytes. For calls with a signal, one is queued, one is reached and one
runs when the signal aborts.

A response with marks of 2, 1 and 1 and three chunks of up to 3 units has each buffer below,
at and above its mark, alone and behind a full one; a length of 2 lies on the threshold.
What the invariants say is proved for marks of any height.

The bounds of `brotli_streams` scale libbrotli down, so that streams of 20 to 230 bytes
meet what takes megabytes in the program. `Shrink` = 9 divides the window and the
blocks by 512, and with them everything that is computed from the window (a distance that
reaches into the dictionary is still one beyond the largest that the window allows); `Gap` =
6 are the 16 bytes that a window leaves out, and the bytes that a copy of the decoder may
run ahead; `Lap` = 7 wraps positions at 128 instead of 2^30, behind the largest
ring buffer, as in the program; `Fine` = 16 divides the sizes at
which the encoder splits its input, so that a metablock of some dozens of bytes has several
blocks; `Feed` = 8 is FEED of `brotli_stream.rs`; `MinRing` = 2 are the 1024 bytes of the smallest
ring buffer of the decoder. The hash and the words of the static dictionary are small
functions with the same parameters and collisions: what they choose may only change which
stream is written, never whether it decodes. Each case fixes what it is about and leaves
the rest free: rooms of one byte, reads of one byte, outputs that just fill their room,
flushes anywhere, a stream cut off or followed by something, a limit that is met exactly and
one that is missed by one byte, a window that wraps several times.

Deadlock is not checked where the system really stops: a closed context, a
finished stream, calls that have all settled.

## Findings

Three runs end in a violation: what the code does is not what it says. `PROJECT.json` has
the quotations and their lines.

* `prediction_setup`, `SetupIsForeseen`: the time to set a codec up is predicted for
  `transform()` only, and `flush()` at the end of a zstd stream without input spends it
  synchronously (`stream-schedule.ts:446`).
* `web_late`, `LateOutputIsDropped`: a cancel during the `flush()` of a stream of the unified
  API makes `enqueue()` throw, where the output should be dropped (`next/api.ts:1586`).
* `response_restarts`, `LengthIsOfBody`: an `end()` whose headers Node rejects leaves its length
  to the next response (`express.ts:320`).

One more disagreement has no run; it is the exception in `MemoryIsReleased` of
`CompressedResponse`, and so in the theorem `ReleasesMemory`. `pipeToResponse()` registers
`res.once('close', () => stream.destroy())` when it makes a compressor (`express.ts:274`, "Release
the compressor of a response that will never finish."). If the client has gone before the first
call of the handler that emits headers, `res` has emitted 'close' already, once and for all, and the
listener never runs (`late`). The calls of the handler go on as ever, the first output that
`write()` drops pauses the compressor, and the 'drain' that would resume it cannot come: a
handler that waits for 'drain', or never ends, leaves the native state to the garbage
collector. Only an end of the output, an error of the encoder or an `undoDecision()`
releases it then. Without `\/ late` in the invariant TLC finds that in four states: the
client leaves (`Close`), the handler calls `writeHead()`, `Decide` makes the compressor, and it is
open on a response that has closed. With it, the invariant says that there is no other way.

## Fairness

* `context`: the pool runs the tasks in its queue, the JavaScript thread
  completes what it began (weak fairness), and the event loop settles a Promise
  whose task has run (strong fairness, as other JavaScript may run in between).
  Nothing obliges the user to call, the collector to collect or the
  environment to live.
* `budget`: `setImmediate()` runs its callback, and a call let go on runs. Only
  `CallsGoOn` uses it.
* `web`: the transformer goes on, which rests on the two runs above: the pool settles
  each call and each waiting call gets its turn. Only `RequestsSettle` uses it.
* `node`: as `web`, and a reader goes on reading until the stream is destroyed, as
  that of a pipeline does. Without it backpressure rightly holds a stream up. Only
  `StreamCloses` uses it.
* `abort`: microtasks run, the pool and the event loop go on. Only `CallsSettle` uses
  it: `AbortIsPrompt` is an invariant, and holds with a pool that hangs.
* `response`: the event loop runs its tasks, and the client reads until it leaves
  (`ClientReads`); the handler owes nothing, not even its end. Only `WritersWake` and
  `PauseDelivers` use it. A client that stops reading and stays rightly holds both up.
* `brotli_streams`: a context that is in the loop of a call goes on with it; the stream is
  finished some day, and what is on the wire is given to the decoder (strong fairness, as
  calls of the user come in between). The four conditions are written by what an
  action changes rather than as `WF_vars(EncoderStep)` and so on, which would have TLC
  compress in order to see whether an action is enabled; they say the same. Calls of libbrotli
  that change nothing are counted modulo 2 in `spins`, so that a loop that spins is seen to.
  Only `Finishes` uses it.

## Proofs

All by induction, for any number of calls or streams, any sizes and any times.

`NativeContextProofs`. The invariant `IInv` joins the properties with what makes
them inductive: `LockInv` (the holder of the lock is the marked task that is in the
codec), `JsInv` (what the JavaScript thread wants the lock for agrees with the stage
of its call, and it wants it only while no task may hold it), `SlotInv` (when the
slot is open, closed or finished), `AccountInv` (`account` is `reported`, and is `usage`
but for the call in flight), `CancelInv` (a shutdown), `AnswerInv` (which answers a
call can have by its stage). `BusyMarksTheCall` alone is not inductive: that a task
which ran is the only one marked needs `LockInv` and `JsInv`. From `IInv` follow
`TypeOK`, `BusyMarksTheCall`, `NeverContended`, `AccountMatchesState`,
`ClosedIsReleased`, the action property `BegunCallsSeeNoClose`, and `Refinement`: each
step of a thread is a step of the contract or changes nothing of it.

`ChunkSchedulerProofs`, about `TurnBudget`. `BudgetInv` is the type invariant, `NoLostTurn`,
`QueueIsExact`, `WaitIsBounded`, `ResumedInv` (at most one call has been let go on and not yet
run, and then the budget is new) and `SpentInv` (`heldFor` is `spent` and at most one call for
each stream that failed). `HoldIsBounded` follows from `SpentInv` and the check of the
budget; the bound on waits from `ResumedInv`, by which no call queues twice, and from the
queue holding each stream once, as a sequence without repetition is no longer than the set
is large. `TurnIsKept` states the former by itself.

The same module, about `CallPrediction`. `PredictionInv` joins `SetupInv` (the set-up is
foreseen until it is done), `HoldInv` (only a context that holds its input does not stream),
and that the account mirrors the context and counts what is left to the end. `SyncIsCheap`
needs one more assumption, `FlushIsCheap`: a stream that ends with `flush()` sets itself up in
less than ASYNC_MS. The run `prediction_setup` is what happens without it.

`FormatDetectionProofs`. `IInv` says, while the format is open (`OpenInv`), that all the
input is held, that it is shorter than the next try, that no try was certain, and
that detection has decoded no more than `flush()` paid for and twice the last try: each
try of `transform()` is at least twice as long as the last. Once it is decided
(`DecidedInv`), it was decided either with certainty or for want of it at the limit,
at a cost of at most seven times the limit. The four properties of the run follow.
`DetectionIsCheap` alone is not inductive, as a long last try could overshoot it.

`AbortableCallProofs`. `QueueInv` (the queue holds each task that no thread reached, once),
`ListenInv` (who listens to the signal), `ClaimInv` (the claim is taken by the abort, whose
call is then settled, or by the thread, which then runs the task) and `RaceInv` (what the
race gave is what became of the task), next to the properties themselves.
`WithdrawnNeverRuns` alone does not survive the step in which a thread takes the claim.

`WebStreamProofs` and `NodeTransformProofs`. Where the helper is in which operation
(`PhaseInv`), what the two sides of the stream, or a stream without a format, show of it
(`SideInv`, `StartInv`), which call the context works on (`CallInv`), that `finish()` is its
last and what closes it (`EndInv`), how many calls a chunk and the end make (`CountInv`), and
where output is that no reader has (`LossInv`, `OwedInv`). The interleaving of the user, the
pool and the queue of turns is in the phases; each property follows from one or two
conjuncts.

`CompressedResponseProofs`. `BeforeInv` (the body waits for the headers), `HeadInv` (what the
headers are at each step of a call, once they are out, and after a decision that was
undone), `StateInv` (the native state by the state of the compressor), `FlushInv` (input that
was not flushed is more than the last flush covered), `SocketInv` and `InputInv` (a full
buffer has stopped the one before it). `ReleasesMemory` has the exception of a compressor made
after the response had closed (see Findings). `BackpressureHolds` alone is not inductive: that a
writer waits follows from `writableNeedDrain`, which outlives the write that set it.
`LengthInv` (only an `end()` knows the length, which is then that of its chunk) holds under
`NoRestarts`, and so does `TellsBody`; the run `response_restarts` is what happens without it.

`BrotliStreamProofs`, about the contexts. Each theorem has the form `Spec /\
[]CodecKeepsContract => ...`: for any data, chunks, flushes, rooms, pieces of FEED and limit,
and over any codec that keeps the contract. The run `brotli_streams` checks of libbrotli, in
its 15 cases, that it does, so behaviours of the program meet the hypothesis; an encoder that
leaves a flush in an incomplete byte (`MustPadNever`) does not. `IInv` has
`TypeInv`; `CallInv` (which operation a call may be in, by the state of the context, and
what of its run is still to come); `FlowInv` (what the encoder took, what is left of its
call, the rest of the run, the run to come and what is held are one stretch of the data, from
its start to what was given); `EncoderInv` (the encoder is between operations unless a call
runs); `WireInv` (the wire says a prefix of what the encoder took, at least what was promised, and
all of it at the end); `DecoderInv` (what was decoded is a prefix of what the wire says, all
of what the part that it got says once the loop of the decoder has ended, and how each
outcome came about). None of the
properties is inductive alone: `FlushDelivers` compares two ends of the channel, and what
lies between is spread over all six. `NobodyRefuses` comes first, as the others hold of
behaviours without a refusal. `ChannelHolds` is the refinement of `ByteChannel`, step by step.
TLC has checked `IInv` on the cases of the run as well.

`ChunksDoNotMatter` compares the stream with the one that the same encoder makes of the whole
data at once, in pieces of FEED (`Whole`). Its invariant, `SteadyInv`, says of a stream without
flushes and metadata: between its calls the encoder is, up to output that is still to be taken, what
it is after the first k pieces (`AfterPieces`), where k pieces are all that it took; in a
call it will be that when the call is over; and the call of the end will give the stream of
the whole. That the pieces are the same whatever the chunks were is the arithmetic of `Run`;
that the rooms do not matter is `EncoderSteady`.

The same module, about the ring buffer of libbrotli's encoder. `RingBufferKeepsInput` is a
theorem about the operator `PushInput`: for every size of the buffer and its tail, and every
write no longer than the tail, what `RingHoldsInput` says of the ring buffer before the write it
says after it. `RingHoldsInput` is inductive once it has `Fits` (the buffer is whole, or there
was one small write; the position is that of the input, or has wrapped and is at the same
place), which the run therefore checks with it. Most of the argument is arithmetic of
remainders: an old byte that is still to be read lies neither where the write goes nor where
its second part goes (`PlaceBehind`), and the position that wraps at 2^31 stays at the place
of the input as the size of the buffer divides 2^31 (`Advances`). `RingHoldsInputHolds` carries
it through a stream: an empty ring buffer begins it (`NewRingBufferFits`), a call writes its data
in parts (`WritesKeepInput`, by induction over the bytes), and what is in the ring buffer is
always what the encoder took (`RingInv`).

Induction over numbers, for these two theorems, is by the least element of a set
(`LeastElement`, from the well-foundedness of the order): a recursive function of the model
exists (`SomeAfter`, `SomeWritten`) as there is no least number at which it does not.

The last part of the module is about the bits and codes on which the two ends of libbrotli must
agree, for all numbers and not for the lengths and distances of the few streams that
TLC runs. `BitsAreRead`: behind what was read, `BrotliReadBits` gets the number that
`BrotliWriteBits` put there and leaves the bits behind it. `BytesKeepBits`: bits stored as bytes and
loaded again are the same bits, with the zeros of `JumpToByteBoundary` behind them.
`DistancesAgree`: the extra bits of `PrefixEncodeCopyDistance` fit, the encoder gets the distance code
back (`CommandRestoreDistanceCode`), and the decoder's table and the extra bits give the same
distance, for any `postfix` and `ndirect`. `LengthsAgree`: the symbol of an insert and a copy leads
the decoder to ranges that hold both lengths with the extra bits that the encoder writes, up
to the ends of the last codes, which are beyond 2^24, the longest metablock. They rest on
powers of two (`PowerStep` counts subsets), the width of a number (`BitWidthIs`) and numbers made of
quotient and remainder (`DivIs`, `DivDiv`); the running sums of the tables and `BitsValue` are
recursive functions, handled as above.

The assumptions are those named in the modules: the constants have their types
(`FeedAssumption`, `TrailerAssumption`, `CasesAssumption` and so on), a new encoder and a new
decoder have done nothing yet (`CodecAssumption`, which TLC evaluates for libbrotli), the set
of streams is finite, a call takes no more than `MaxCost`, the first try is not beyond the
limit. The hypotheses that are not assumptions of a module, and which only the theorems that
name them have: `FlushIsCheap`, `NoRestarts`, the contract of the codec, and that the size of a
ring buffer divides the number of positions (both are powers of two, `ringbuffer.h:54-62` and `:150`).

Some invariants are proved and not run: `BusyMarksTheCall`, `NeverContended`,
`ClosedIsReleased` (`ImplementsContract` says more), `NoLostTurn` (`CallsGoOn` is what it is for),
`EndIsCounted` and `AbortWins`. `NobodyRefuses` is run as a part of `EndIsExact`.

Only model-checked: liveness (out of the prover's reach), and the contract of the codec, which
is all of libbrotli but the codes just named: its loops are recursive operators, of which
nothing can be proved here.

## Abstractions to know of

* Backpressure of a Web stream, which only delays a chunk, is left out.
* What a `writer.abort()` that waited for a write that fails returns is left to the
  runtime: both outcomes are allowed.
* A `flush()` in the middle of a stream, which no helper makes, is not part of
  `CallPrediction`.
* A backend without withdrawal (WebAssembly) makes no tasks; `AbortableCall` is the
  native one.
* The moving average of a scheduler is any of a few rates.
* `FormatDetection` takes the steps of `transform()` over one chunk as they come, with
  no other call between them, as the callers of a context serialise them. What a
  failed stream still holds is left out. That the answers of detection over growing
  input do not change once they are certain is what `detect_prefix()` documents; inputs
  for which they do change are those that are never certain.
* `CompressedResponse` takes the response to have a body: HEAD, 204 and 304, ranges and
  `Vary` are left out, and the type of the content, the filter and the encoding are three
  choices made at the start. Header fields that `writeHead()` cannot merge go out as they are and
  do not count in the properties. What the encoder gives without a flush completes nothing
  that was not flushed, which is the least it may do. `BackpressureHolds` bounds the socket and the
  writer; the readable side of the Transform has no bound, as each flush puts its output there.
  Node's streams are modelled by the
  parts that the middleware touches; an empty chunk is one of length zero.
* The costs of libbrotli are whole parts of a bit where the source has floating point, and
  tables are functions on the keys that have an entry.

## Plan

1. Contexts, scheduler, detection, streams, calls with a signal, and their proofs (done).
2. The brotli contexts and libbrotli (done); the middleware for Express (done).
3. `LevelCache`: the zstd dictionaries of extra levels under several threads
   (`dictionary.rs:322`).
4. The outputs of the two calls that end a `DetectingStream` (`api.ts:1508`), and detection over
   several backends (`detectAmongBackends()`) against one backend with every format.
5. The adapters of Hono and Fastify, against the same properties as the Express one.
6. The life of a WebAssembly context, which is freed by hand, and the browser streams.

## Not modelled

* Of libbrotli: the hashers of windows beyond 2^24 bytes, serialized dictionaries, which the
  build leaves out, the contents of the tables of the static dictionary, which are
  parameters, and allocations of the encoder that fail.
* zstd, gzip, deflate and LZ4: their libraries are not in the repository. What core-lib
  adds to them (frames, members, limits) is sequential and covered by its tests; the limit is
  in `BrotliStream`, the collected input and the set-up are in `CallPrediction`.
* Hono and Fastify, the negotiation of Accept-Encoding, the options.
* WebAssembly and the browser, the registry of backends, the conversion of arguments and
  errors, the cache of prepared dictionaries.
* Benches, scripts, tests and the website.
