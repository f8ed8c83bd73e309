------------------------- MODULE FormatDetectionProofs -------------------------
(***************************************************************************)
(* What FormatDetection promises, for any limits, any chunks and any input.*)
(***************************************************************************)
EXTENDS FormatDetection, TLAPS

(* Nothing is left of a chunk once transform() has returned. *)
LoopInv ==
    /\ looping => state = "detecting"
    /\ ~looping => rest = 0

(* While the format is open: all the input is held, the next try is ahead  *)
(* of it, no try was certain, and each try is at least twice as long as    *)
(* the last one but for those of flush(), which its budget pays for.       *)
OpenInv ==
    state = "detecting" =>
        /\ held + rest = received /\ fed = 0
        /\ held < NextTry
        /\ tried < MaxPrefix
        /\ helper # "root" \/ format = "known" => tried < certain
        /\ decoded <= FlushTryBudget - flushBudget + 2 * tried

(* A decision at the limit, for lack of certainty, or a certain one.       *)
DecidedRight ==
    IF decidedAt < certain
    THEN MaxPrefix < certain /\ MaxPrefix <= received
    ELSE certain <= received /\ certain <= MaxPrefix

(* Once it is decided: where that was, and what it has cost.               *)
DecidedInv ==
    /\ state # "detecting" => decoded <= 7 * MaxPrefix
    /\ state = "decoding" => fed = received
    /\ state = "failed" => fed = 0
    /\ state \in {"decoding", "failed"} /\ helper # "root" => DecidedRight

IInv ==
    /\ TypeOK /\ LoopInv /\ OpenInv /\ DecidedInv
    /\ state = "finished" => SplitDoesNotMatter /\ fed \in {0, received}

(* The next try lies between the last one and the limit. *)
LEMMA NextTryBounds ==
    ASSUME tried \in Nat
    PROVE  /\ NextTry \in 1 .. MaxPrefix
           /\ tried < MaxPrefix => tried < NextTry
           /\ NextTry # MaxPrefix => NextTry >= 2 * tried
BY SizesAssumption DEF NextTry, Lesser, Greater

(* A try of a stream that is not "root" is certain, or open, or a guess at *)
(* the limit.                                                              *)
LEMMA TryAnswersAre ==
    ASSUME TypeOK, NEW n \in Nat, NEW verdict \in TryAnswers(n)
    PROVE  /\ verdict \in {"more", "known", "unknown"}
           /\ helper # "root" =>
                 /\ verdict = "more" <=> (n < certain /\ n # MaxPrefix)
           /\ helper = "root" /\ verdict = "more" =>
                 n < MaxPrefix /\ (n >= certain => format = "unknown")
<1>1. CASE helper = "root"
  <2>1. PICK v \in Answers(n, TRUE) :
           verdict = IF v = "unknown" /\ n < MaxPrefix THEN "more" ELSE v
    BY <1>1 DEF TryAnswers
  <2>2. v \in {"known", "unknown"} /\ (n >= certain => v = format)
    BY <2>1 DEF Answers, TypeOK
  <2> QED BY <1>1, <2>1, <2>2
<1>2. CASE helper # "root"
  <2>1. verdict \in Answers(n, n = MaxPrefix)
    BY <1>2 DEF TryAnswers
  <2> QED BY <1>2, <2>1, SizesAssumption DEF Answers, TypeOK
<1> QED BY <1>1, <1>2

LEMMA InitInv == Init => IInv
<1> SUFFICES ASSUME Init PROVE IInv
  OBVIOUS
<1>1. TypeOK
  <2>1. looping \in BOOLEAN
    BY DEF Init
  <2> QED BY <2>1, SizesAssumption DEF Init, TypeOK, FlushTryBudget
<1>2. LoopInv /\ DecidedInv
  BY DEF Init, LoopInv, DecidedInv
<1>3. OpenInv
  BY <1>1, NextTryBounds, SizesAssumption DEF Init, OpenInv, TypeOK, FlushTryBudget
<1> QED BY <1>1, <1>2, <1>3 DEF IInv, Init

(* transform() of a chunk. *)
LEMMA TransformInv ==
    ASSUME IInv, NEW size \in Sizes, Transform(size)
    PROVE  IInv'
<1>1. size \in Nat /\ NextTry' = NextTry
  BY SizesAssumption DEF Transform, NextTry
<1>2. TypeOK'
  <2>1. looping' \in BOOLEAN
    BY DEF IInv, TypeOK, Transform
  <2> QED
    BY <1>1, <2>1, SizesAssumption
       DEF IInv, TypeOK, Transform, inputVars, FlushTryBudget
<1>3. LoopInv'
  BY DEF IInv, TypeOK, LoopInv, Transform
<1>4. OpenInv'
  BY <1>1, SizesAssumption
     DEF IInv, TypeOK, LoopInv, OpenInv, Transform, inputVars, FlushTryBudget
<1>5. DecidedInv'
  BY <1>1, SizesAssumption
     DEF IInv, TypeOK, DecidedInv, DecidedRight, Transform, inputVars
<1> QED BY <1>2, <1>3, <1>4, <1>5 DEF IInv, Transform

LEMMA HoldInv == ASSUME IInv, Hold PROVE IInv'
<1>1. /\ state = "detecting" /\ NextTry' = NextTry
      /\ Take = rest /\ held' = held + rest
  BY NextTryBounds
     DEF Take, NextTry, Lesser, IInv, TypeOK, LoopInv, OpenInv, Hold, inputVars
<1>2. TypeOK'
  <2>1. looping' \in BOOLEAN
    BY DEF Hold
  <2> QED
    BY <1>1, <2>1 DEF IInv, TypeOK, Hold, inputVars, FlushTryBudget
<1>3. OpenInv'
  BY <1>1, SizesAssumption
     DEF IInv, TypeOK, OpenInv, Hold, inputVars, FlushTryBudget
<1> QED BY <1>1, <1>2, <1>3 DEF IInv, LoopInv, DecidedInv, Hold

(* One turn of the loop of transform() in which detection runs. *)
LEMMA TryInv == ASSUME IInv, Try PROVE IInv'
<1>1. PICK verdict \in TryAnswers(tried') :
         IF verdict = "more"
         THEN /\ held' = tried' /\ rest' = rest - Take
              /\ looping' = (helper # "root")
              /\ UNCHANGED <<state, fed, decidedAt>>
         ELSE /\ Decide(verdict, tried', rest - Take)
              /\ rest' = 0 /\ looping' = FALSE
  BY DEF Try
<1>2. /\ Take \in 0 .. rest
      /\ helper = "root" => Take = rest
      /\ helper # "root" => tried' = NextTry
  BY NextTryBounds DEF Take, Lesser, IInv, TypeOK, LoopInv, OpenInv, Try
<1>3. tried' \in Nat /\ tried' = held + Take /\ tried' >= NextTry /\ tried' > 0
  BY <1>2, NextTryBounds DEF IInv, TypeOK, Try
<1>4. /\ verdict \in {"more", "known", "unknown"}
      /\ helper # "root" => (verdict = "more" <=> (tried' < certain /\ tried' # MaxPrefix))
      /\ helper = "root" /\ verdict = "more" =>
            tried' < MaxPrefix /\ (tried' >= certain => format = "unknown")
  BY <1>3, TryAnswersAre DEF IInv
<1>5. /\ decoded' \in Nat
      /\ decoded' <= decoded + tried' /\ decoded' <= decoded + MaxPrefix
  BY <1>3, SizesAssumption DEF Try, Decode, Lesser, IInv, TypeOK
<1>6. /\ state = "detecting" /\ looping
      /\ fed = 0 /\ held + rest = received /\ rest \in Nat /\ received \in Nat
  BY DEF IInv, TypeOK, LoopInv, OpenInv, Try
<1>7. UNCHANGED <<inputVars, flushBudget, received>>
  BY DEF Try
<1>8. CASE verdict = "more"
  <2>1. tried' < MaxPrefix
    <3>1. CASE helper = "root"
      BY <3>1, <1>4, <1>8
    <3>2. CASE helper # "root"
      BY <3>2, <1>2, <1>4, <1>8, NextTryBounds, SizesAssumption DEF IInv, TypeOK
    <3> QED BY <3>1, <3>2
  <2>2. tried' >= 2 * tried
    BY <2>1, <1>3, NextTryBounds DEF IInv, TypeOK
  <2>3. tried' < NextTry'
    BY <2>1, <1>3, SizesAssumption DEF NextTry, Lesser, Greater
  <2>4. TypeOK'
    <3>1. looping' \in BOOLEAN
      BY <1>1, <1>8
    <3> QED
      BY <3>1, <1>1, <1>2, <1>3, <1>5, <1>6, <1>7, <1>8
         DEF IInv, TypeOK, inputVars, FlushTryBudget
  <2>5. LoopInv'
    <3>1. helper = "root" => rest' = 0
      BY <1>1, <1>2, <1>6, <1>8
    <3>2. state' = "detecting" /\ looping' = (helper # "root")
      BY <1>1, <1>6, <1>8
    <3> QED BY <3>1, <3>2 DEF LoopInv
  <2>6. OpenInv'
    <3>1. held' + rest' = received' /\ fed' = 0
      BY <1>1, <1>2, <1>3, <1>6, <1>7, <1>8 DEF IInv, TypeOK
    <3>2. held' < NextTry' /\ tried' < MaxPrefix
      BY <1>1, <1>8, <2>1, <2>3
    <3>3. helper' # "root" \/ format' = "known" => tried' < certain'
      BY <1>3, <1>4, <1>7, <1>8, SizesAssumption DEF IInv, TypeOK, inputVars
    <3>4. decoded' <= FlushTryBudget - flushBudget' + 2 * tried'
      BY <1>3, <1>5, <1>6, <1>7, <2>2, SizesAssumption
         DEF IInv, TypeOK, OpenInv, FlushTryBudget
    <3> QED BY <3>1, <3>2, <3>3, <3>4 DEF OpenInv, FlushTryBudget
  <2>7. DecidedInv' /\ state' = "detecting"
    BY <1>1, <1>6, <1>8 DEF DecidedInv
  <2> QED BY <2>4, <2>5, <2>6, <2>7 DEF IInv
<1>9. CASE verdict # "more"
  <2>1. /\ decidedAt' = tried' /\ held' = 0 /\ rest' = 0 /\ looping' = FALSE
        /\ \/ state' = "decoding" /\ fed' = tried' + (rest - Take)
           \/ state' = "failed" /\ fed' = fed
    BY <1>1, <1>9 DEF Decide
  <2>2. TypeOK'
    <3>1. looping' \in BOOLEAN
      BY <2>1
    <3> QED
      BY <3>1, <1>2, <1>3, <1>5, <1>6, <1>7, <2>1
         DEF IInv, TypeOK, inputVars, FlushTryBudget
  <2>3. LoopInv' /\ OpenInv' /\ state' # "finished"
    BY <2>1 DEF LoopInv, OpenInv
  <2>4. decoded' <= 7 * MaxPrefix
    BY <1>5, <1>6, SizesAssumption DEF IInv, TypeOK, OpenInv, FlushTryBudget
  <2>5. state' = "decoding" => fed' = received'
    BY <1>2, <1>3, <1>6, <1>7, <2>1 DEF IInv, TypeOK
  <2>6. state' = "failed" => fed' = 0
    BY <1>6, <2>1
  <2>7. helper' # "root" => DecidedRight'
    <3> SUFFICES ASSUME helper # "root" PROVE DecidedRight'
      BY <1>7 DEF inputVars
    <3>1. tried' <= received /\ tried' <= MaxPrefix
      BY <1>2, <1>3, <1>6, NextTryBounds DEF IInv, TypeOK
    <3>2. tried' < certain => tried' = MaxPrefix
      BY <1>4, <1>9
    <3> QED
      BY <3>1, <3>2, <2>1, <1>3, <1>6, <1>7, SizesAssumption
         DEF DecidedRight, IInv, TypeOK, inputVars
  <2> QED BY <2>2, <2>3, <2>4, <2>5, <2>6, <2>7 DEF IInv, DecidedInv
<1> QED BY <1>8, <1>9

(* flush() of AutoDecoder. *)
LEMMA FlushInv == ASSUME IInv, Flush PROVE IInv'
<1>1. PICK verdict \in Answers(held, FALSE) :
         IF verdict = "more"
         THEN UNCHANGED <<state, held, fed, decidedAt>>
         ELSE Decide(verdict, held, 0)
  BY DEF Flush
<1>2. /\ verdict \in {"more", "known", "unknown"}
      /\ verdict = "more" <=> held < certain
  BY DEF Answers, IInv, TypeOK
<1>3. /\ state = "detecting" /\ looping = FALSE /\ rest = 0 /\ fed = 0
      /\ held = received /\ held < MaxPrefix /\ held \in Nat /\ tried < held
  <2>1. state = "detecting" /\ looping = FALSE /\ rest = 0
    BY DEF IInv, TypeOK, LoopInv, Flush
  <2> QED
    BY <2>1, NextTryBounds, SizesAssumption DEF IInv, TypeOK, OpenInv, Flush
<1>4. decoded' = decoded + held /\ decoded' \in Nat
  BY <1>3, SizesAssumption DEF Flush, Decode, Lesser, IInv, TypeOK
<1>5. flushBudget' = flushBudget - held /\ flushBudget' \in 0 .. FlushTryBudget
  BY <1>3, SizesAssumption DEF Flush, IInv, TypeOK, FlushTryBudget
<1>6. decoded' <= FlushTryBudget - flushBudget' + 2 * held
  BY <1>3, <1>4, <1>5, SizesAssumption
     DEF IInv, TypeOK, OpenInv, FlushTryBudget
<1>7. UNCHANGED <<inputVars, rest, looping, received>> /\ tried' = held
  BY DEF Flush
<1>8. CASE verdict = "more"
  <2>1. /\ held' = held /\ fed' = fed /\ state' = state /\ decidedAt' = decidedAt
        /\ held < NextTry'
    BY <1>1, <1>3, <1>7, <1>8, SizesAssumption
       DEF NextTry, Lesser, Greater, IInv, TypeOK
  <2>2. TypeOK'
    <3>1. looping' \in BOOLEAN
      BY <1>3, <1>7
    <3> QED
      BY <3>1, <1>3, <1>4, <1>5, <1>7, <2>1
         DEF IInv, TypeOK, inputVars, FlushTryBudget
  <2>3. LoopInv'
    BY <1>3, <1>7 DEF LoopInv
  <2>4. OpenInv'
    BY <1>2, <1>3, <1>6, <1>7, <1>8, <2>1 DEF OpenInv, inputVars, FlushTryBudget
  <2>5. DecidedInv' /\ state' = "detecting"
    BY <1>3, <2>1 DEF DecidedInv
  <2> QED BY <2>2, <2>3, <2>4, <2>5 DEF IInv
<1>9. CASE verdict # "more"
  <2>1. /\ decidedAt' = held /\ held' = 0 /\ certain <= held
        /\ \/ state' = "decoding" /\ fed' = held
           \/ state' = "failed" /\ fed' = 0
    BY <1>1, <1>2, <1>3, <1>9 DEF Decide, IInv, TypeOK
  <2>2. TypeOK'
    <3>1. looping' \in BOOLEAN
      BY <1>3, <1>7
    <3> QED
      BY <3>1, <1>3, <1>4, <1>5, <1>7, <2>1
         DEF IInv, TypeOK, inputVars, FlushTryBudget
  <2>3. LoopInv' /\ OpenInv' /\ state' # "finished"
    BY <1>3, <1>7, <2>1 DEF LoopInv, OpenInv
  <2>4. decoded' <= 7 * MaxPrefix
    BY <1>3, <1>4, <1>5, <1>6, SizesAssumption DEF FlushTryBudget
  <2>5. DecidedInv'
    BY <1>3, <1>7, <2>1, <2>4, SizesAssumption
       DEF DecidedInv, DecidedRight, inputVars, IInv, TypeOK
  <2> QED BY <2>2, <2>3, <2>5 DEF IInv
<1> QED BY <1>8, <1>9

(* finish(), before and after the decision. *)
LEMMA FinishInv == ASSUME IInv, Finish PROVE IInv'
<1>1. /\ UNCHANGED <<inputVars, tried, flushBudget, rest, looping, received>>
      /\ state' = "finished" /\ state # "finished" /\ looping = FALSE
  BY DEF Finish, IInv, TypeOK
<1>2. looping' \in BOOLEAN /\ LoopInv' /\ OpenInv'
  BY <1>1 DEF LoopInv, OpenInv, IInv
<1>3. CASE state = "detecting"
  <2>1. PICK verdict \in Answers(held, TRUE) :
           /\ Decode(held)
           /\ decidedAt' = held
           /\ fed' = (IF verdict = "known" THEN held ELSE fed)
           /\ held' = 0
    BY <1>3 DEF Finish
  <2>2. /\ held = received /\ fed = 0 /\ held < MaxPrefix
        /\ held \in Nat /\ received \in Nat
    <3>1. rest = 0
      BY <1>1 DEF IInv, LoopInv
    <3> QED BY <3>1, <1>3, NextTryBounds, SizesAssumption DEF IInv, TypeOK, OpenInv
  <2>3. decoded' \in Nat /\ decoded' <= 7 * MaxPrefix
    BY <1>3, <2>1, <2>2, SizesAssumption
       DEF Decode, Lesser, IInv, TypeOK, OpenInv, FlushTryBudget
  <2>4. SplitDoesNotMatter'
    BY <1>1, <2>1, <2>2, SizesAssumption
       DEF SplitDoesNotMatter, Lesser, inputVars, IInv, TypeOK
  <2>5. fed' \in {0, received'} /\ fed' \in Nat
    BY <1>1, <2>1, <2>2
  <2>6. TypeOK'
    BY <1>1, <1>2, <2>1, <2>2, <2>3, <2>5 DEF IInv, TypeOK, inputVars, FlushTryBudget
  <2>7. DecidedInv'
    BY <1>1, <2>3 DEF DecidedInv
  <2> QED BY <1>2, <2>4, <2>5, <2>6, <2>7 DEF IInv
<1>4. CASE state # "detecting"
  <2>1. UNCHANGED <<held, fed, decoded, decidedAt>> /\ state \in {"decoding", "failed"}
    BY <1>1, <1>4 DEF Finish, IInv, TypeOK
  <2>2. SplitDoesNotMatter'
    BY <1>1, <2>1, SizesAssumption
       DEF SplitDoesNotMatter, Lesser, inputVars, IInv, TypeOK, DecidedInv,
           DecidedRight
  <2>3. fed' \in {0, received'}
    BY <1>1, <2>1 DEF IInv, DecidedInv
  <2>4. TypeOK'
    BY <1>1, <1>2, <2>1 DEF IInv, TypeOK, inputVars, FlushTryBudget
  <2>5. DecidedInv'
    BY <1>1, <1>4, <2>1 DEF IInv, DecidedInv
  <2> QED BY <1>2, <2>2, <2>3, <2>4, <2>5 DEF IInv
<1> QED BY <1>3, <1>4

LEMMA StutterInv == ASSUME IInv, UNCHANGED vars PROVE IInv'
BY DEF IInv, TypeOK, LoopInv, OpenInv, DecidedInv, DecidedRight,
       SplitDoesNotMatter, NextTry, Lesser, Greater, vars, inputVars

(* The invariant holds in every state of every stream. *)
THEOREM Invariance == Spec => []IInv
<1>1. IInv /\ [Next]_vars => IInv'
  <2> SUFFICES ASSUME IInv, [Next]_vars PROVE IInv'
    OBVIOUS
  <2>1. CASE \E size \in Sizes : Transform(size) BY <2>1, TransformInv
  <2>2. CASE Hold BY <2>2, HoldInv
  <2>3. CASE Try BY <2>3, TryInv
  <2>4. CASE Flush BY <2>4, FlushInv
  <2>5. CASE Finish BY <2>5, FinishInv
  <2>6. CASE UNCHANGED vars BY <2>6, StutterInv
  <2> QED BY <2>1, <2>2, <2>3, <2>4, <2>5, <2>6 DEF Next
<1> QED BY InitInv, <1>1, PTL DEF Spec

(* The decision does not depend on how the input was split into chunks, or *)
(* on where flush() was called.                                            *)
THEOREM DecisionIsStable == Spec => []SplitDoesNotMatter
<1>1. IInv => SplitDoesNotMatter
  BY SizesAssumption DEF IInv, TypeOK, DecidedInv, DecidedRight, SplitDoesNotMatter, Lesser
<1> QED BY Invariance, <1>1, PTL

(* No byte of the input is lost or given twice to the stream of the format.*)
THEOREM NoByteIsLost == Spec => []InputIsWhole
<1>1. IInv => InputIsWhole
  BY DEF IInv, OpenInv, DecidedInv, InputIsWhole
<1> QED BY Invariance, <1>1, PTL

(* The loops never take a negative part of a chunk, and detection is never *)
(* more than a doubling of the input behind what it could know.            *)
THEOREM DetectionKeepsUp == Spec => []TriesKeepUp
<1>1. IInv => TriesKeepUp
  BY DEF IInv, OpenInv, TriesKeepUp
<1> QED BY Invariance, <1>1, PTL

(* Detection decodes less than eight times its limit in all, for chunks of *)
(* any length and any number of flushes.                                   *)
THEOREM DetectionCost == Spec => []DetectionIsCheap
<1>1. IInv => DetectionIsCheap
  BY SizesAssumption
     DEF IInv, TypeOK, OpenInv, DecidedInv, DetectionIsCheap, FlushTryBudget
<1> QED BY Invariance, <1>1, PTL
================================================================================
