---------------------------- MODULE FormatDetection ----------------------------
(***************************************************************************)
(* A decompression stream that has to find out the format of its input.    *)
(*                                                                         *)
(*   "core": AutoDecoder of crates/core-lib/src/unified.rs                 *)
(*   "api":  DetectingStream of src/next/api.ts                            *)
(*   "root": createDecompressStream() of src/streams.ts, and               *)
(*           createDecompressTransform() of src/node.ts                    *)
(*                                                                         *)
(* The input is known by its length.  Detection over the first n bytes of  *)
(* it answers "more" until n is `certain`, and the format of the input (or *)
(* that it has none) from there on.  Asked for a final answer earlier, it  *)
(* guesses.  "root" asks for a final answer each time, and takes "unknown" *)
(* for "more".                                                             *)
(***************************************************************************)
EXTENDS Integers

CONSTANTS
    Helpers,    \* of "core", "api" and "root"
    FirstTry,   \* FIRST_TRY, MAGIC_LENGTH
    MaxPrefix,  \* MAX_PREFIX, DETECT_LIMIT
    MaxInput,   \* the bytes of input at most
    Sizes       \* the lengths of the chunks

FlushTryBudget == 4 * MaxPrefix

ASSUME HelpersAssumption == Helpers \subseteq {"core", "api", "root"}
ASSUME SizesAssumption ==
    /\ FirstTry \in Nat \ {0} /\ MaxPrefix \in Nat /\ FirstTry <= MaxPrefix
    /\ MaxInput \in Nat /\ Sizes \subseteq Nat

VARIABLES
    helper,
    certain,    \* how much input detection needs to be certain, if ever
    format,     \* what it then answers, "known" or "unknown"
    state,      \* AutoState
    held,       \* bytes held back
    tried,      \* bytes that detection last ran on
    flushBudget,
    rest,       \* bytes of the chunk in hand that are not held yet
    looping,    \* transform() is in its loop
    received,   \* bytes that the stream was given
    fed,        \* bytes that it gave to the stream of the format
    decoded,    \* bytes that detection has decoded in all
    decidedAt   \* bytes that the format was decided on

inputVars == <<helper, certain, format>>
vars == <<inputVars, state, held, tried, flushBudget, rest, looping, received,
          fed, decoded, decidedAt>>

TypeOK ==
    /\ helper \in Helpers
    /\ certain \in 1 .. MaxPrefix + 1 /\ format \in {"known", "unknown"}
    /\ state \in {"detecting", "decoding", "failed", "finished"}
    /\ held \in Nat /\ rest \in Nat /\ fed \in Nat
    /\ received \in 0 .. MaxInput
    /\ tried \in Nat
    /\ flushBudget \in 0 .. FlushTryBudget
    /\ decoded \in Nat /\ decidedAt \in Nat
    /\ looping \in BOOLEAN

Init ==
    /\ helper \in Helpers
    /\ certain \in 1 .. MaxPrefix + 1 /\ format \in {"known", "unknown"}
    /\ state = "detecting"
    /\ held = 0 /\ tried = 0 /\ flushBudget = FlushTryBudget
    /\ rest = 0 /\ looping = FALSE
    /\ received = 0 /\ fed = 0 /\ decoded = 0 /\ decidedAt = 0

Lesser(a, b) == IF a <= b THEN a ELSE b
Greater(a, b) == IF a <= b THEN b ELSE a

--------------------------------------------------------------------------------

(* What detection may answer over the first n bytes.                       *)
Answers(n, final) ==
    IF n >= certain THEN {format}
    ELSE IF final THEN {"known", "unknown"} ELSE {"more"}

(* Mutant: detection runs once the input has grown at all. *)
NextTryAlways == Lesser(Greater(tried + 1, FirstTry), MaxPrefix)

(* Detection runs once the input held is twice as long as when it last did.*)
NextTry == Lesser(Greater(2 * tried, FirstTry), MaxPrefix)

(* The verdict of one try over the n bytes held.  Only the limit makes it  *)
(* final, but for "root".                                                  *)
TryAnswers(n) ==
    IF helper = "root"
    THEN {IF v = "unknown" /\ n < MaxPrefix THEN "more" ELSE v : v \in Answers(n, TRUE)}
    ELSE Answers(n, n = MaxPrefix)

Decode(n) == decoded' = decoded + Lesser(n, MaxPrefix)

(* decide: the stream of the format gets all the input that is there.      *)
Decide(verdict, n, more) ==
    /\ decidedAt' = n
    /\ held' = 0
    /\ IF verdict = "known"
       THEN state' = "decoding" /\ fed' = n + more
       ELSE state' = "failed" /\ UNCHANGED fed

--------------------------------------------------------------------------------

(* transform() is given a chunk. *)
Transform(size) ==
    /\ ~looping /\ state \in {"detecting", "decoding"}
    /\ received + size <= MaxInput
    /\ received' = received + size
    /\ IF state = "decoding"
       THEN fed' = fed + size /\ UNCHANGED <<rest, looping>>
       ELSE rest' = size /\ looping' = TRUE /\ UNCHANGED fed
    /\ UNCHANGED <<inputVars, state, held, tried, flushBudget, decoded, decidedAt>>

(* How much of the chunk the loop of transform() takes: up to the next try,*)
(* while "root" takes all of it and looks at the limit afterwards.         *)
Take == IF helper = "root" THEN rest ELSE Lesser(NextTry - held, rest)

(* The chunk runs out before the next try. *)
Hold ==
    /\ looping
    /\ held + Take < NextTry
    /\ held' = held + Take /\ rest' = 0 /\ looping' = FALSE
    /\ UNCHANGED <<inputVars, state, tried, flushBudget, received, fed, decoded,
                   decidedAt>>

(* Mutant: the input held is passed on without the rest of the chunk. *)
TryDropsRest ==
    /\ looping
    /\ held + Take >= NextTry
    /\ tried' = held + Take
    /\ Decode(tried')
    /\ \E verdict \in TryAnswers(tried') :
          IF verdict = "more"
          THEN /\ held' = tried' /\ rest' = rest - Take
               /\ looping' = (helper # "root")
               /\ UNCHANGED <<state, fed, decidedAt>>
          ELSE /\ Decide(verdict, tried', 0)
               /\ rest' = 0 /\ looping' = FALSE
    /\ UNCHANGED <<inputVars, flushBudget, received>>

(* Detection runs, and decides or lets the loop go on.                     *)
Try ==
    /\ looping
    /\ held + Take >= NextTry
    /\ tried' = held + Take
    /\ Decode(tried')
    /\ \E verdict \in TryAnswers(tried') :
          IF verdict = "more"
          THEN /\ held' = tried' /\ rest' = rest - Take
               /\ looping' = (helper # "root")
               /\ UNCHANGED <<state, fed, decidedAt>>
          ELSE /\ Decide(verdict, tried', rest - Take)
               /\ rest' = 0 /\ looping' = FALSE
    /\ UNCHANGED <<inputVars, flushBudget, received>>

(* Mutant: flush() tries as often as it is called. *)
FlushUnbounded ==
    /\ helper = "core" /\ ~looping /\ state = "detecting"
    /\ held > tried
    /\ tried' = held
    /\ Decode(held)
    /\ \E verdict \in Answers(held, FALSE) :
          IF verdict = "more"
          THEN UNCHANGED <<state, held, fed, decidedAt>>
          ELSE Decide(verdict, held, 0)
    /\ UNCHANGED <<inputVars, flushBudget, rest, looping, received>>

(* flush() of AutoDecoder, which tries while its own budget lasts.         *)
Flush ==
    /\ helper = "core" /\ ~looping /\ state = "detecting"
    /\ held > tried /\ held <= flushBudget
    /\ tried' = held
    /\ flushBudget' = flushBudget - held
    /\ Decode(held)
    /\ \E verdict \in Answers(held, FALSE) :
          IF verdict = "more"
          THEN UNCHANGED <<state, held, fed, decidedAt>>
          ELSE Decide(verdict, held, 0)
    /\ UNCHANGED <<inputVars, rest, looping, received>>

(* Mutant: the end of the input decides on what the last try saw. *)
FinishOnTried ==
    /\ ~looping /\ state # "finished"
    /\ state' = "finished"
    /\ IF state = "detecting"
       THEN \E verdict \in Answers(tried, TRUE) :
               /\ Decode(tried)
               /\ decidedAt' = tried
               /\ fed' = (IF verdict = "known" THEN held ELSE fed)
               /\ held' = 0
       ELSE UNCHANGED <<held, fed, decoded, decidedAt>>
    /\ UNCHANGED <<inputVars, tried, flushBudget, rest, looping, received>>

(* finish() decides on the input held as final, and ends the stream.       *)
Finish ==
    /\ ~looping /\ state # "finished"
    /\ state' = "finished"
    /\ IF state = "detecting"
       THEN \E verdict \in Answers(held, TRUE) :
               /\ Decode(held)
               /\ decidedAt' = held
               /\ fed' = (IF verdict = "known" THEN held ELSE fed)
               /\ held' = 0
       ELSE UNCHANGED <<held, fed, decoded, decidedAt>>
    /\ UNCHANGED <<inputVars, tried, flushBudget, rest, looping, received>>

Next ==
    \/ \E size \in Sizes : Transform(size)
    \/ Hold \/ Try \/ Flush \/ Finish

Spec == Init /\ [][Next]_vars

--------------------------------------------------------------------------------
(* Properties. *)

(* The decision does not depend on how the input is split: the stream      *)
(* guesses exactly if detection over all of the input, up to the limit,    *)
(* would have to.                                                          *)
SplitDoesNotMatter ==
    helper # "root" /\ state # "detecting" =>
        (decidedAt < certain <=> Lesser(received, MaxPrefix) < certain)

(* No byte is lost or passed on twice: the stream holds all the input, or  *)
(* has given it all to the stream of the format.                           *)
InputIsWhole ==
    /\ state = "detecting" => held + rest = received /\ fed = 0
    /\ state = "decoding" => fed = received
    /\ state = "finished" => fed \in {0, received}

(* The input held is never as long as the next try, so that the length of  *)
(* the part to take is never negative, and what detection knows is at most *)
(* a doubling of the input behind.                                         *)
TriesKeepUp ==
    state = "detecting" => held < NextTry /\ (format = "known" => tried < certain)

(* Detection decodes less than eight times its limit, 512 KiB, however the *)
(* input is split and flushed.                                             *)
DetectionIsCheap == decoded < 8 * MaxPrefix
================================================================================
