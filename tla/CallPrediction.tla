----------------------------- MODULE CallPrediction ----------------------------
(***************************************************************************)
(* How a ChunkScheduler (src/stream-schedule.ts) tells which calls of its  *)
(* context are cheap enough for the JavaScript thread, next to a context   *)
(* that collects its input into blocks, holds the start of it for a        *)
(* dictionary, or sets up its codec in its first call:                     *)
(*                                                                         *)
(*   - CompressDictContext and StreamEncoder of core-lib/brotli_stream.rs, *)
(*     which hold DICT_REACH bytes and then feed blocks of FEED bytes;     *)
(*   - StreamEncoder of core-lib/zstd_stream.rs, which sets up its tables. *)
(*                                                                         *)
(* The scheduler keeps an account of its own of where the context is; what *)
(* it believes is cheap must be cheap.  Sizes and times are in units of    *)
(* the instance; module TurnBudget models the waiting for a turn.          *)
(***************************************************************************)
EXTENDS Integers

CONSTANTS
    Models,    \* what a stream can be: the codec and the helper that drives it
    AsyncMs,   \* ASYNC_MS
    Sample,    \* SAMPLE_BYTES
    Rates,     \* times per unit of input that the codec may show
    Chunks,    \* the lengths of the chunks that the user writes
    MaxInput   \* a bound on the input of the stream

ASSUME SizesAssumption ==
    /\ {AsyncMs, Sample, MaxInput} \subseteq Nat
    /\ Rates \subseteq Nat /\ Chunks \subseteq Nat
(* Only the streaming brotli context holds its input, and it has blocks. *)
ASSUME ModelsAssumption ==
    /\ Models \subseteq [block : Nat, holds : Nat, setup : Nat,
                         flushesAtEnd : BOOLEAN]
    /\ \A m \in Models : m.holds > 0 => m.block > 0

VARIABLES
    model,      \* the ContextModel of the stream
    \* The scheduler:
    held,       \* #held: input that the context holds, or -1
    blocked,    \* #blocked: input since the blocks of the codec started
    unflushed,  \* #unflushed: input since the last flush()
    wentAsync,  \* #wentAsync: a call went to the pool
    setupMs,    \* #setupMs: time that the next transform() sets up the codec for
    rate,       \* max(#prior, #measured): the time per unit of input
    \* The context:
    streaming,  \* it holds its input no longer
    input,      \* input that it holds for the dictionary
    pending,    \* input that waits for the rest of its block
    ready,      \* the codec is set up
    \* The stream:
    ended,      \* "no", "flushed", "finished"
    total,      \* its input so far
    blocking    \* how long its last call held the JavaScript thread

schedVars == <<held, blocked, unflushed, wentAsync, setupMs, rate>>
ctxVars == <<streaming, input, pending, ready>>
predictionVars == <<model, schedVars, ctxVars, ended, total, blocking>>

Block == model.block          \* blockBytes(), and FEED of the context; 0 for none
Holds == model.holds          \* BROTLI_DICT_REACH and DICT_REACH; 0 for none
Setup == model.setup          \* zstdSetupMs(); 0 for none
FlushesAtEnd == model.flushesAtEnd  \* the package root calls flush() first

Larger(a, b) == IF a > b THEN a ELSE b

PredictionTypeOK ==
    /\ model \in Models
    /\ held \in -1 .. Holds /\ blocked \in Nat /\ unflushed \in Nat
    /\ wentAsync \in BOOLEAN /\ setupMs \in {0, Setup} /\ rate \in Rates
    /\ {streaming, ready} \subseteq BOOLEAN
    /\ input \in 0 .. Holds /\ pending \in 0 .. Larger(Block - 1, 0)
    /\ ended \in {"no", "flushed", "finished"}
    /\ total \in 0 .. MaxInput
    /\ blocking \in Nat

PredictionInit ==
    /\ model \in Models
    /\ held = IF Holds > 0 THEN 0 ELSE -1
    /\ blocked = 0 /\ unflushed = 0 /\ wentAsync = FALSE
    /\ setupMs = Setup /\ rate \in Rates
    /\ streaming = (Holds = 0) /\ input = 0 /\ pending = 0
    /\ ready = (Setup = 0)
    /\ ended = "no" /\ total = 0 /\ blocking = 0

--------------------------------------------------------------------------------
(* The context: what a call processes, in units of input.                  *)

Blocks(bytes) == bytes \div Block

(* encoder.run() with the input of a chunk. *)
Fed(bytes) == IF Block = 0 THEN bytes ELSE Block * Blocks(pending + bytes)

(* Whether a chunk of `bytes` still fits what the context holds. *)
Fits(bytes) == ~streaming /\ input + bytes <= Holds

TransformWork(bytes) ==
    IF Fits(bytes) THEN 0
    ELSE IF streaming THEN Fed(bytes)
    ELSE Holds + Block * Blocks(input + bytes - Holds)

ContextTransform(bytes) ==
    /\ ready' = TRUE
    /\ IF Fits(bytes)
       THEN input' = input + bytes /\ UNCHANGED <<streaming, pending>>
       ELSE LET rest == IF streaming THEN pending + bytes ELSE input + bytes - Holds
            IN  /\ streaming' = TRUE /\ input' = 0
                /\ pending' = IF Block = 0 THEN 0 ELSE rest % Block

ContextFlush ==
    /\ ready' = TRUE
    /\ pending' = 0
    /\ UNCHANGED <<streaming, input>>

(* finish() compresses all that the context holds. *)
FinishWork == IF streaming THEN pending ELSE input

ContextFinish ==
    /\ streaming' = TRUE /\ input' = 0 /\ pending' = 0
    /\ UNCHANGED ready

SetupWork == IF ready THEN 0 ELSE Setup

--------------------------------------------------------------------------------
(* The scheduler. *)

(* Mutant: a chunk takes the time of its own bytes. *)
WorkOfChunk(bytes) == IF held >= 0 /\ held + bytes <= Holds THEN 0 ELSE bytes

(* #work: the input that a transform() of `bytes` is taken to process. *)
Work(bytes) ==
    IF held >= 0
    THEN IF held + bytes <= Holds THEN 0 ELSE held + bytes
    ELSE IF Block = 0 THEN bytes
    ELSE Larger(bytes, Block * (Blocks(blocked + bytes) - Blocks(blocked)))

(* Mutant: `held + bytes`, all of it, counts as input of the blocks. *)
CountInputUnaligned(bytes) ==
    IF held >= 0 /\ held + bytes <= Holds
    THEN held' = held + bytes /\ UNCHANGED blocked
    ELSE /\ held' = -1
         /\ blocked' = IF held >= 0 THEN held + bytes ELSE blocked + bytes

(* #work: the account of the input that goes with it. *)
CountInput(bytes) ==
    IF held >= 0 /\ held + bytes <= Holds
    THEN held' = held + bytes /\ UNCHANGED blocked
    ELSE /\ held' = -1
         /\ blocked' = IF held >= 0 THEN held + bytes - Holds ELSE blocked + bytes

(* #learn: the time of a call that worked on enough input sets the rate. *)
Learn(work) == IF work < Sample THEN UNCHANGED rate ELSE rate' \in Rates

Predict(work) == rate * work

TransformTime(bytes) == setupMs + Predict(Work(bytes))

(* transform(): on the pool if it is taken to be expensive. *)
Transform(bytes) ==
    /\ ended = "no" /\ total + bytes <= MaxInput
    /\ total' = total + bytes
    /\ unflushed' = unflushed + bytes
    /\ CountInput(bytes)
    /\ setupMs' = 0
    /\ \/ /\ TransformTime(bytes) >= AsyncMs
          /\ wentAsync' = TRUE
          /\ blocking' = 0
       \/ /\ TransformTime(bytes) < AsyncMs
          /\ blocking' = SetupWork + rate * TransformWork(bytes)
          /\ UNCHANGED wentAsync
    /\ Learn(Work(bytes))
    /\ ContextTransform(bytes)
    /\ UNCHANGED <<model, ended>>

(* #endsAsync *)
EndsAsync ==
    /\ unflushed' = 0 /\ blocked' = 0
    /\ wentAsync' = (wentAsync \/ Predict(unflushed) >= AsyncMs)

Flush ==
    /\ ended = "no" /\ FlushesAtEnd
    /\ EndsAsync
    /\ blocking' = IF wentAsync' THEN 0
                   ELSE SetupWork + rate * (IF streaming THEN pending ELSE 0)
    /\ ContextFlush
    /\ ended' = "flushed"
    /\ UNCHANGED <<model, held, setupMs, rate, total>>

Finish ==
    /\ ended = IF FlushesAtEnd THEN "flushed" ELSE "no"
    /\ EndsAsync
    /\ blocking' = IF wentAsync' THEN 0 ELSE rate * FinishWork
    /\ ContextFinish
    /\ ended' = "finished"
    /\ UNCHANGED <<model, held, setupMs, rate, total>>

PredictionNext == Flush \/ Finish \/ \E bytes \in Chunks : Transform(bytes)

PredictionSpec == PredictionInit /\ [][PredictionNext]_predictionVars

--------------------------------------------------------------------------------
(* Properties. *)

(* What the scheduler believes of the context is what the context does:    *)
(* while it holds its input, how much; then where its block is.            *)
AccountMirrorsContext ==
    ended = "no" =>
        /\ held >= 0 <=> ~streaming
        /\ held >= 0 => held = input
        /\ held < 0 /\ Block > 0 => blocked % Block = pending

(* No call that runs on the JavaScript thread takes as long as a call that *)
(* should go to the pool, at the rate that the scheduler has learnt.       *)
SyncIsCheap == blocking < AsyncMs

(* The end of the stream is foreseen: what is left to finish() is input    *)
(* that the scheduler counts, or the stream has gone to the pool.          *)
EndIsCounted ==
    \/ ended = "no" /\ FinishWork <= unflushed
    \/ ended = "flushed" /\ (wentAsync \/ rate * FinishWork < AsyncMs)
    \/ ended = "finished"

(* "The first call also takes the time that the codec takes to set itself  *)
(* up, if any": the JavaScript thread never does so when it takes too long.*)
SetupIsForeseen == blocking < Setup \/ Setup < AsyncMs
================================================================================
