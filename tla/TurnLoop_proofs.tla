--------------------------- MODULE TurnLoop_proofs ---------------------------
(***************************************************************************)
(* Safety of a turn for any limits, any tools and images and any budget.   *)
(***************************************************************************)
EXTENDS TurnLoop, SequenceTheorems, TLAPS

(* The model is called only within its limit, and tools run after a call. *)
CallInv ==
  /\ pc \in {"model", "tools"} \/ batch > 0 => tracker.calls <= MaxToolTurns + 1
  /\ batch > 0 => pc \in {"tools", "done"}
  /\ pc = "tools" => tracker.calls >= 1
  /\ pc = "start" => iterations = 0

(* Every iteration but the first was charged to one of the two budgets. *)
ChargeInv ==
  /\ continuationCount <= AtLeastZero(GeneralCap)
  /\ imageContinuationCount <= AtLeastZero(ImageCap)
  /\ pc = "start" => continuationCount = 0 /\ imageContinuationCount = 0
  /\ pc \in {"start", "top"} => iterations = continuationCount + imageContinuationCount
  /\ pc \in {"model", "tools", "ended"} =>
       iterations = 1 + continuationCount + imageContinuationCount
  /\ pc = "done" => iterations <= 1 + continuationCount + imageContinuationCount

(* The last k failures are all the same. *)
Streak(k) ==
  k <= Len(fails) /\ \A i \in 0 .. k - 1 : fails[Len(fails) - i] = fails[Len(fails)]

(* While the breaker is closed its count lies between the length of the last
   streak and the number of failures since the last success. *)
BreakerInv ==
  /\ tracker.tripped => Len(fails) >= FailureBreakerThreshold
  /\ ~tracker.tripped =>
       /\ tracker.count < FailureBreakerThreshold
       /\ tracker.count <= Len(fails)
       /\ Len(fails) > 0 => tracker.signature = fails[Len(fails)]
       /\ \A k \in Nat : Streak(k) => k <= tracker.count

(* Where the loop goes on it can, and on what its hooks were told. *)
ContinueInv ==
  /\ pc = "start" => lastContinuationReason = "none"
  /\ ContinuesOnUser /\ BailRecovers /\ HookIsToldTheTruth

(* A promise is open only while its image is with a tool or with the loop. *)
PromiseInv ==
  /\ cfg.accepts = cfg.defers /\ ~cfg.disabled =>
       /\ promised \subseteq deferring \cup deferredScratchpadIDs
       /\ pc = "start" => promised = {}
  /\ ~cfg.defers => promised = {}
  /\ pc \in {"start", "top", "model", "ended"} => deferring = {}
  /\ result = "complete" => pc = "done"
  /\ ImagesAnswered

IInv == TypeOK /\ CallInv /\ ChargeInv /\ BreakerInv /\ ContinueInv /\ PromiseInv

-----------------------------------------------------------------------------
LEMMA ConstantsAre ==
  /\ MaxToolTurns \in Nat \ {0} /\ FailureBreakerThreshold \in Nat \ {0}
  /\ MaxBatch \in Nat \ {0} /\ Budget \in Nat /\ MaxSize \in Nat
  /\ DefaultMaxAutoContinuations \in Nat /\ DefaultMaxAutoContinuationsA2A \in Nat
  BY TurnLoopAssumption

LEMMA CapsAreIntegers ==
  ASSUME cfg \in Configs
  PROVE  GeneralCap \in Int /\ ImageCap \in Int
<1>1. cfg.general \in Limits /\ cfg.images \in Limits
  BY TurnLoopAssumption DEF Config
<1> QED
  BY <1>1, ConstantsAre DEF GeneralCap, ImageCap, Given, Limits

(* What any compaction leaves. *)
LEMMA OutcomeIs ==
  ASSUME TypeOK, NEW o \in Outcomes
  PROVE  o.tail \in Tails /\ o.size \in 0 .. MaxSize /\ o.mem \in BOOLEAN
<1> USE DEF TypeOK, Tails, Sizes
<1>1. CASE o = Untouched
  BY <1>1 DEF Untouched
<1>2. CASE \E m \in BOOLEAN : o = [Untouched EXCEPT !.failed = TRUE, !.mem = m]
  <2> PICK m \in BOOLEAN : o = [Untouched EXCEPT !.failed = TRUE, !.mem = m]
    BY <1>2
  <2> QED
    BY DEF Untouched
<1>3. CASE o \in [done : {TRUE}, failed : {FALSE}, tail : {tail, "user", "empty"}, size : Sizes,
                  mem : BOOLEAN, fewer : BOOLEAN]
  <2>1. o.tail \in {tail, "user", "empty"} /\ o.size \in Sizes /\ o.mem \in BOOLEAN
    BY <1>3
  <2> QED
    BY <2>1
<1> QED
  BY <1>1, <1>2, <1>3 DEF Outcomes

LEMMA PostTurnOutcomeIs ==
  ASSUME NEW o \in PostTurnOutcomes PROVE o \in Outcomes
BY DEF PostTurnOutcomes, Outcomes

(* The configuration of a turn does not change under it. *)
LEMMA SameConfig ==
  ASSUME [Next]_vars
  PROVE  cfg' = cfg /\ GeneralCap' = GeneralCap /\ ImageCap' = ImageCap
<1>1. CASE UNCHANGED vars
  BY <1>1 DEF vars, GeneralCap, ImageCap
<1>2. CASE Next
  <2>1. cfg' = cfg
    BY <1>2 DEF Next, Step, ModelStep, ToolStep, Decide, BeginTurn, RefuseTurn, StartIteration,
       RunnerFails, NoticeCancel, ConsumerLeaves, BreakerAnswers, BudgetAnswers, ImageAnswers,
       LimitAnswers, AnswerFor, CallModel, ToolSucceeds, DeferImage, ToolFails, ToolCall,
       ToolsAnswered, EmptyResponse, StopReinflated, StopDisabled, StopOverLimit, MayContinue,
       StopNotRecovered, ContinueWithImages, ContinueAfterBail, CompleteTurn, Ended
  <2> QED
    BY <2>1 DEF GeneralCap, ImageCap
<1> QED
  BY <1>1, <1>2

LEMMA InitIInv == Init => IInv
<1> SUFFICES ASSUME Init PROVE IInv
  OBVIOUS
<1> USE ConstantsAre DEF Init, Fresh
<1>1. TypeOK
  <2>1. tracker \in Trackers
    BY DEF Trackers
  <2>2. fails \in Seq(Signatures)
    OBVIOUS
  <2>3. hook \in Hooks
    BY DEF NoHook, Hooks
  <2>4. /\ {deferring, deferredScratchpadIDs, promised} \subseteq SUBSET Images
        /\ {continuationCount, imageContinuationCount, iterations} \subseteq Nat
    OBVIOUS
  <2>5. /\ cfg \in Configs /\ tail \in Tails /\ size \in 0 .. MaxSize
        /\ pc = "start" /\ lastContinuationReason = "none" /\ result = "none"
        /\ batch \in 0 .. MaxBatch
    OBVIOUS
  <2>6. memNew \in BOOLEAN /\ sink \in BOOLEAN /\ turnYieldedAny \in BOOLEAN
    OBVIOUS
  <2> HIDE DEF Init
  <2> QED
    BY <2>1, <2>2, <2>3, <2>4, <2>5, <2>6 DEF TypeOK, Reasons
<1>2. CallInv /\ ContinueInv /\ PromiseInv
  BY DEF CallInv, ContinueInv, ContinuesOnUser, BailRecovers, HookIsToldTheTruth,
     PromiseInv, ImagesAnswered
<1>3. ChargeInv
  BY CapsAreIntegers DEF ChargeInv, AtLeastZero
<1>4. BreakerInv
  BY DEF BreakerInv, Streak
<1> QED
  BY <1>1, <1>2, <1>3, <1>4 DEF IInv

-----------------------------------------------------------------------------
(* The calls of the model and of the tools. *)
LEMMA CallStep ==
  ASSUME IInv, [Next]_vars
  PROVE  CallInv'
<1> USE ConstantsAre DEF IInv, TypeOK, Trackers, CallInv
<1>1. CASE UNCHANGED vars
  BY <1>1 DEF vars
<1>2. CASE BeginTurn \/ RefuseTurn \/ RunnerFails \/ NoticeCancel \/ ConsumerLeaves \/ EmptyResponse
  BY <1>2 DEF BeginTurn, ColdStart, RefuseTurn, RunnerFails, NoticeCancel, ConsumerLeaves,
     EmptyResponse, toolVars, Done
<1>3. CASE StartIteration
  BY <1>3 DEF StartIteration, Fresh
<1>4. CASE BreakerAnswers \/ BudgetAnswers \/ ImageAnswers \/ LimitAnswers
  BY <1>4 DEF BreakerAnswers, BudgetAnswers, ImageAnswers, LimitAnswers, AnswerFor, toolVars
<1>5. CASE CallModel
  <2>1. tracker'.calls = tracker.calls + 1 /\ tracker.calls + 1 <= MaxToolTurns + 1
    BY <1>5 DEF CallModel, Calls
  <2>2. pc' = (IF batch' = 0 THEN "ended" ELSE "tools") /\ iterations' = iterations /\ batch' \in 0 .. MaxBatch
    BY <1>5 DEF CallModel, Calls
  <2>3. tracker.calls \in Nat
    OBVIOUS
  <2> QED
    BY <2>1, <2>2, <2>3
<1>6. CASE ToolSucceeds \/ DeferImage
  BY <1>6 DEF ToolSucceeds, DeferImage, ToolCall, Succeeded, ResetConsecutiveToolFailure
<1>7. CASE ToolFails
  <2>1. tracker'.calls = tracker.calls
    BY <1>7 DEF ToolFails, RecordConsecutiveToolFailure, Counted
  <2> QED
    BY <1>7, <2>1 DEF ToolFails, ToolCall
<1>8. CASE ToolsAnswered
  BY <1>8 DEF ToolsAnswered
<1>9. CASE Decide
  <2>1. batch' = batch /\ tracker' = tracker /\ pc' \in {"top", "done"} /\ pc = "ended"
    BY <1>9 DEF Decide, EmptyResponse, StopReinflated, StopDisabled, StopOverLimit,
       StopNotRecovered, ContinueWithImages, AppendDeferredImages, ContinueAfterBail,
       CompleteTurn, PersistSentinel, MayContinue, Ended, Stop, Done, Continue, toolVars
  <2> QED
    BY <2>1
<1> QED
  BY <1>1, <1>2, <1>3, <1>4, <1>5, <1>6, <1>7, <1>8, <1>9 DEF Next, Step, ModelStep, ToolStep

(* What the two budgets were charged with. *)
LEMMA ChargeStep ==
  ASSUME IInv, [Next]_vars
  PROVE  ChargeInv'
<1> DEFINE both == continuationCount + imageContinuationCount
<1>1. /\ GeneralCap \in Int /\ ImageCap \in Int
      /\ GeneralCap' = GeneralCap /\ ImageCap' = ImageCap
  BY CapsAreIntegers, SameConfig DEF IInv, TypeOK
<1>2. /\ continuationCount \in Nat /\ imageContinuationCount \in Nat /\ iterations \in Nat
      /\ ChargeInv
  BY DEF IInv, TypeOK
<1> USE <1>1, <1>2 DEF ChargeInv, AtLeastZero
<1>3. CASE UNCHANGED vars
  BY <1>3 DEF vars
<1>4. CASE BeginTurn \/ RefuseTurn \/ RunnerFails \/ NoticeCancel \/ ConsumerLeaves \/ EmptyResponse
  <2>1. /\ UNCHANGED <<continuationCount, imageContinuationCount, iterations>>
        /\ \/ pc' = "done"
           \/ pc = "start" /\ pc' = "top"
    BY <1>4 DEF BeginTurn, ColdStart, RefuseTurn, RunnerFails, NoticeCancel, ConsumerLeaves,
       EmptyResponse, countVars, Done
  <2>2. iterations <= 1 + both
    BY DEF IInv, TypeOK
  <2> QED
    BY <2>1, <2>2
<1>5. CASE StartIteration
  BY <1>5 DEF StartIteration, countVars
<1>6. CASE ModelStep \/ ToolStep
  <2>1. /\ UNCHANGED <<continuationCount, imageContinuationCount, iterations>>
        /\ pc \in {"model", "tools"} /\ pc' \in {"model", "tools", "ended"}
    BY <1>6 DEF ModelStep, ToolStep, BreakerAnswers, BudgetAnswers, ImageAnswers, LimitAnswers,
       AnswerFor, CallModel, ToolSucceeds, DeferImage, ToolFails, ToolCall, ToolsAnswered, countVars
  <2> QED
    BY <2>1
<1>7. CASE StopReinflated \/ StopDisabled \/ StopOverLimit \/ StopNotRecovered
  <2>1. /\ pc = "ended" /\ pc' = "done"
        /\ UNCHANGED <<continuationCount, imageContinuationCount, iterations>>
    <3>1. CASE StopReinflated
      BY <3>1 DEF StopReinflated, Ended, Stop, Done, countVars
    <3>2. CASE StopDisabled
      BY <3>2 DEF StopDisabled, Ended, Stop, Done, countVars
    <3>3. CASE StopOverLimit
      BY <3>3 DEF StopOverLimit, Ended, Stop, Done, countVars
    <3>4. CASE StopNotRecovered
      BY <3>4 DEF StopNotRecovered, MayContinue, Ended, Stop, Done, countVars
    <3> QED
      BY <1>7, <3>1, <3>2, <3>3, <3>4
  <2> QED
    BY <2>1
<1>8. CASE ContinueWithImages
  <2>1. imageContinuationCount < ImageCap
    BY <1>8 DEF ContinueWithImages, MayContinue, OverLimit
  <2>2. /\ pc = "ended" /\ iterations' = iterations
        /\ \/ pc' = "top" /\ imageContinuationCount' = imageContinuationCount + 1
              /\ UNCHANGED continuationCount
           \/ pc' = "done" /\ UNCHANGED <<continuationCount, imageContinuationCount>>
    BY <1>8 DEF ContinueWithImages, AppendDeferredImages, Continue, Done, MayContinue, Ended,
       countVars
  <2> QED
    BY <2>1, <2>2
<1>9. CASE ContinueAfterBail \/ CompleteTurn
  <2>1. /\ pc = "ended" /\ iterations' = iterations
        /\ \/ pc' = "top" /\ continuationCount' = continuationCount + 1
              /\ UNCHANGED imageContinuationCount /\ continuationCount < GeneralCap
           \/ pc' = "done" /\ UNCHANGED <<continuationCount, imageContinuationCount>>
    <3>1. CASE ContinueAfterBail
      BY <3>1 DEF ContinueAfterBail, PersistSentinel, Continue, Done, MayContinue, OverLimit,
         Ended, countVars
    <3>2. CASE CompleteTurn
      BY <3>2 DEF CompleteTurn, PersistSentinel, Continue, Done, MayContinue, Ended, countVars
    <3> QED
      BY <1>9, <3>1, <3>2
  <2> QED
    BY <2>1
<1> QED
  BY <1>3, <1>4, <1>5, <1>6, <1>7, <1>8, <1>9 DEF Next, Step, Decide

-----------------------------------------------------------------------------
(* The breaker. *)
LEMMA BreakerStep ==
  ASSUME IInv, [Next]_vars
  PROVE  BreakerInv'
<1>1. /\ tracker \in Trackers /\ tracker.tripped \in BOOLEAN /\ tracker.count \in Nat
      /\ fails \in Seq(Signatures) /\ BreakerInv
  BY ConstantsAre DEF IInv, TypeOK, Trackers
<1>2. ASSUME tracker'.tripped = tracker.tripped, tracker'.count = tracker.count,
             tracker'.signature = tracker.signature, fails' = fails
      PROVE  BreakerInv'
  BY <1>1, <1>2 DEF BreakerInv, Streak
<1>3. CASE UNCHANGED vars
  BY <1>2, <1>3 DEF vars
<1>4. CASE BeginTurn \/ RefuseTurn \/ RunnerFails \/ NoticeCancel \/ ConsumerLeaves \/ ToolsAnswered
  <2>1. UNCHANGED <<tracker, fails>>
    BY <1>4 DEF BeginTurn, RefuseTurn, RunnerFails, NoticeCancel, ConsumerLeaves, ToolsAnswered,
       toolVars
  <2> QED
    BY <1>2, <2>1
<1>5. CASE Decide
  <2>1. UNCHANGED <<tracker, fails>>
    BY <1>5 DEF Decide, EmptyResponse, StopReinflated, StopDisabled, StopOverLimit,
       StopNotRecovered, ContinueWithImages, ContinueAfterBail, CompleteTurn, MayContinue, Ended,
       toolVars
  <2> QED
    BY <1>2, <2>1
<1>6. CASE StartIteration
  <2>1. tracker'.tripped = FALSE /\ tracker'.count = 0 /\ fails' = <<>>
    BY <1>6 DEF StartIteration, Fresh
  <2> QED
    BY <2>1, ConstantsAre DEF BreakerInv, Streak
<1>7. CASE ModelStep
  <2>1. /\ tracker'.tripped = tracker.tripped /\ tracker'.count = tracker.count
        /\ tracker'.signature = tracker.signature /\ fails' = fails
    BY <1>1, <1>7 DEF ModelStep, BreakerAnswers, BudgetAnswers, ImageAnswers, LimitAnswers,
       AnswerFor, CallModel, toolVars, Trackers
  <2> QED
    BY <1>2, <2>1
<1>8. CASE ToolSucceeds \/ DeferImage
  <2>1. /\ tracker' = [tracker EXCEPT !.signature = Unset, !.count = 0]
        /\ fails' = IF tracker.tripped THEN fails ELSE <<>>
    BY <1>8 DEF ToolSucceeds, DeferImage, Succeeded, ResetConsecutiveToolFailure
  <2>2. tracker'.tripped = tracker.tripped /\ tracker'.count = 0
    BY <1>1, <2>1 DEF Trackers
  <2>3. CASE tracker.tripped
    BY <1>1, <2>1, <2>2, <2>3 DEF BreakerInv
  <2>4. CASE ~tracker.tripped
    BY <2>1, <2>2, <2>4, ConstantsAre DEF BreakerInv, Streak
  <2> QED
    BY <2>3, <2>4
<1>9. CASE ToolFails
  <2>1. PICK sig \in Signatures :
          /\ tracker' = RecordConsecutiveToolFailure(tracker, sig)
          /\ fails' = IF tracker.tripped THEN fails ELSE Append(fails, sig)
    BY <1>9 DEF ToolFails
  <2>2. CASE tracker.tripped
    BY <1>2, <2>1, <2>2 DEF RecordConsecutiveToolFailure
  <2>3. CASE ~tracker.tripped
    <3> DEFINE c == Counted(tracker, sig)
               n == Len(fails)
    <3>1. /\ c.signature = sig /\ c.count \in {1, tracker.count + 1}
          /\ sig = tracker.signature => c.count = tracker.count + 1
      BY <1>1 DEF Counted, Trackers
    <3>2. tracker' = [c EXCEPT !.tripped = c.count >= FailureBreakerThreshold]
      BY <2>1, <2>3 DEF RecordConsecutiveToolFailure
    <3>3. c = [tracker EXCEPT !.signature = c.signature, !.count = c.count]
      BY <1>1 DEF Counted, Trackers
    <3> HIDE DEF c
    <3>4. /\ tracker'.tripped = (c.count >= FailureBreakerThreshold)
          /\ tracker'.count = c.count /\ tracker'.signature = sig
      BY <1>1, <3>1, <3>2, <3>3 DEF Trackers
    <3>5. /\ n \in Nat /\ Len(fails') = n + 1 /\ fails'[n + 1] = sig
          /\ \A i \in 1 .. n : fails'[i] = fails[i]
      BY <1>1, <2>1, <2>3
    <3>6. c.count <= n + 1
      BY <1>1, <2>3, <3>1, <3>5 DEF BreakerInv
    <3>7. ASSUME NEW k \in Nat, Streak(k)' PROVE k <= c.count
      <4>1. CASE k <= 1
        BY <1>1, <3>1, <4>1
      <4>2. CASE k > 1
        <5>1. /\ k <= n + 1
              /\ \A i \in 0 .. k - 1 : fails'[n + 1 - i] = sig
          BY <3>5, <3>7 DEF Streak
        <5>2. \A i \in 0 .. k - 2 : fails[n - i] = sig
          <6> TAKE i \in 0 .. k - 2
          <6>1. i + 1 \in 0 .. k - 1 /\ n + 1 - (i + 1) = n - i /\ n - i \in 1 .. n
            BY <3>5, <4>2, <5>1
          <6> QED
            BY <3>5, <5>1, <6>1
        <5>3. fails[n] = sig
          BY <3>5, <4>2, <5>1, <5>2
        <5>4. Streak(k - 1)
          BY <3>5, <4>2, <5>1, <5>2, <5>3 DEF Streak
        <5>5. k - 1 <= tracker.count /\ tracker.signature = sig
          BY <1>1, <2>3, <3>5, <4>2, <5>1, <5>3, <5>4 DEF BreakerInv
        <5> QED
          BY <1>1, <3>1, <5>5
      <4> QED
        BY <4>1, <4>2
    <3> HIDE DEF n
    <3>8. n = Len(fails)
      BY DEF n
    <3>9. c.count \in Nat
      BY <1>1, <3>1
    <3>10. CASE c.count >= FailureBreakerThreshold
      <4>1. tracker'.tripped
        BY <3>4, <3>10, Zenon
      <4>2. Len(fails') >= FailureBreakerThreshold
        BY <3>5, <3>6, <3>9, <3>10, ConstantsAre
      <4> QED
        BY <4>1, <4>2 DEF BreakerInv
    <3>11. CASE ~(c.count >= FailureBreakerThreshold)
      <4>4. ~tracker'.tripped
        BY <3>4, <3>11, Zenon
      <4>1. tracker'.count < FailureBreakerThreshold
        BY <3>4, <3>9, <3>11, ConstantsAre
      <4>2. tracker'.count <= Len(fails') /\ tracker'.signature = fails'[Len(fails')]
        BY <3>4, <3>5, <3>6
      <4>3. \A k \in Nat : Streak(k)' => k <= tracker'.count
        BY <3>4, <3>7
      <4> QED
        BY <4>1, <4>2, <4>3, <4>4 DEF BreakerInv
    <3> QED
      BY <3>10, <3>11
  <2> QED
    BY <1>1, <2>2, <2>3
<1> QED
  BY <1>3, <1>4, <1>5, <1>6, <1>7, <1>8, <1>9 DEF Next, Step, ToolStep

(* The invariant is strong enough for the property. *)
LEMMA BreakerSuffices ==
  ASSUME IInv PROVE BreakerIsExact
<1>1. /\ tracker.tripped \in BOOLEAN /\ tracker.count \in Nat
      /\ fails \in Seq(Signatures) /\ BreakerInv
  BY ConstantsAre DEF IInv, TypeOK, Trackers
<1>2. ASSUME Stuck, ~tracker.tripped PROVE FALSE
  <2>1. Streak(FailureBreakerThreshold)
    BY <1>2 DEF Stuck, Streak
  <2> QED
    BY <1>1, <1>2, <2>1, ConstantsAre DEF BreakerInv
<1> QED
  BY <1>1, <1>2 DEF BreakerInv, BreakerIsExact

-----------------------------------------------------------------------------
(* What the next iteration starts from. *)
LEMMA ContinueStep ==
  ASSUME IInv, [Next]_vars
  PROVE  ContinueInv'
<1> USE DEF ContinueInv, ContinuesOnUser, BailRecovers, HookIsToldTheTruth
<1>1. ContinueInv /\ CallInv /\ tracker.calls \in Nat
  BY ConstantsAre DEF IInv, TypeOK, Trackers
<1>2. CASE UNCHANGED vars
  BY <1>1, <1>2 DEF vars
<1>3. CASE BeginTurn \/ RefuseTurn \/ RunnerFails \/ NoticeCancel \/ ConsumerLeaves \/ EmptyResponse
  <2>1. /\ UNCHANGED lastContinuationReason
        /\ \/ pc' = "done"
           \/ pc = "start" /\ pc' = "top"
    BY <1>3 DEF BeginTurn, ColdStart, RefuseTurn, RunnerFails, NoticeCancel, ConsumerLeaves,
       EmptyResponse, countVars, Done
  <2> QED
    BY <1>1, <2>1
<1>4. CASE StartIteration
  BY <1>1, <1>4 DEF StartIteration, countVars
<1>5. CASE BreakerAnswers \/ BudgetAnswers \/ ImageAnswers \/ LimitAnswers
  BY <1>5 DEF BreakerAnswers, BudgetAnswers, ImageAnswers, LimitAnswers, AnswerFor
<1>6. CASE CallModel
  BY <1>6 DEF CallModel
<1>7. CASE ToolSucceeds \/ DeferImage \/ ToolFails
  BY <1>7 DEF ToolSucceeds, DeferImage, ToolFails, ToolCall
<1>8. CASE ToolsAnswered
  BY <1>1, <1>8 DEF ToolsAnswered, CallInv
<1>9. CASE StopReinflated \/ StopDisabled \/ StopOverLimit \/ StopNotRecovered
  <2>1. pc' = "done"
    BY <1>9 DEF StopReinflated, StopDisabled, StopOverLimit, StopNotRecovered, Stop, Done
  <2> QED
    BY <2>1
<1>10. CASE ContinueWithImages
  <2>1. \/ pc' = "done"
        \/ pc' = "top" /\ lastContinuationReason' = "image" /\ tail' = "user"
    BY <1>10 DEF ContinueWithImages, AppendDeferredImages, Continue, Done
  <2> QED
    BY <2>1
<1>11. CASE ContinueAfterBail
  <2>1. PICK o \in Outcomes : Recovered(o) /\ size' = o.size /\ PersistSentinel("bail", o.tail)
    BY <1>11 DEF ContinueAfterBail
  <2>2. \/ pc' = "done"
        \/ pc' = "top" /\ lastContinuationReason' = "bail" /\ tail' = "user"
    BY <2>1 DEF PersistSentinel, Continue, Done
  <2> QED
    BY <2>1, <2>2 DEF Recovered
<1>12. CASE CompleteTurn
  <2>1. \/ pc' = "done"
        \/ /\ pc' = "top" /\ lastContinuationReason' = "hook" /\ tail' = "user"
           /\ continuationCount < GeneralCap
    BY <1>12 DEF CompleteTurn, PersistSentinel, Continue, Done
  <2>2. hook'.can = CanContinue /\ ~cfg.disabled
    BY <1>12 DEF CompleteTurn, FireEndOfTurnHooks, MayContinue
  <2>3. continuationCount < GeneralCap => hook'.can
    BY <2>2, Zenon DEF CanContinue
  <2> QED
    BY <2>1, <2>3
<1> QED
  BY <1>2, <1>3, <1>4, <1>5, <1>6, <1>7, <1>8, <1>9, <1>10, <1>11, <1>12
     DEF Next, Step, ModelStep, ToolStep, Decide

(* The images that were promised. *)
LEMMA PromiseStep ==
  ASSUME IInv, [Next]_vars
  PROVE  PromiseInv'
<1> USE DEF PromiseInv, ImagesAnswered
<1>1. /\ PromiseInv /\ cfg' = cfg
      /\ {deferring, deferredScratchpadIDs, promised} \subseteq SUBSET Images
  BY SameConfig DEF IInv, TypeOK
<1>2. CASE UNCHANGED vars
  BY <1>1, <1>2 DEF vars
<1>3. CASE BeginTurn
  BY <1>1, <1>3 DEF BeginTurn, ColdStart, toolVars, Done
<1>4. CASE RefuseTurn \/ RunnerFails \/ NoticeCancel \/ ConsumerLeaves \/ EmptyResponse
  <2>1. /\ UNCHANGED <<deferring, deferredScratchpadIDs, promised>>
        /\ pc' = "done" /\ result' # "complete"
    BY <1>4 DEF RefuseTurn, RunnerFails, NoticeCancel, ConsumerLeaves, EmptyResponse, toolVars, Done
  <2> QED
    BY <1>1, <2>1
<1>5. CASE StartIteration
  BY <1>1, <1>5 DEF StartIteration
<1>6. CASE BreakerAnswers \/ BudgetAnswers \/ ImageAnswers \/ LimitAnswers
  BY <1>1, <1>6 DEF BreakerAnswers, BudgetAnswers, ImageAnswers, LimitAnswers, AnswerFor, toolVars
<1>7. CASE CallModel
  BY <1>1, <1>7 DEF CallModel
<1>8. CASE ToolSucceeds \/ ToolFails
  BY <1>1, <1>8 DEF ToolSucceeds, ToolFails, ToolCall
<1>9. CASE DeferImage
  <2>1. PICK i \in Images : deferring' = deferring \cup {i} /\ promised' = promised \cup {i}
    BY <1>9 DEF DeferImage
  <2>2. /\ cfg.defers /\ pc = "tools" /\ pc' = "tools"
        /\ UNCHANGED <<deferredScratchpadIDs, result>>
    BY <1>9 DEF DeferImage, ToolCall
  <2> QED
    BY <1>1, <2>1, <2>2
<1>10. CASE ToolsAnswered
  BY <1>1, <1>10 DEF ToolsAnswered
<1>11. CASE StopReinflated \/ StopOverLimit \/ StopNotRecovered
  <2>1. /\ UNCHANGED <<deferring, deferredScratchpadIDs, promised>> /\ pc = "ended"
        /\ pc' = "done" /\ result' # "complete"
    BY <1>11 DEF StopReinflated, StopOverLimit, StopNotRecovered, MayContinue, Ended, Stop, Done
  <2> QED
    BY <1>1, <2>1
<1>12. CASE StopDisabled
  <2>1. /\ UNCHANGED <<deferring, deferredScratchpadIDs, promised>> /\ pc = "ended"
        /\ pc' = "done" /\ cfg.disabled
    BY <1>12 DEF StopDisabled, Ended, Stop, Done
  <2> QED
    BY <1>1, <2>1
<1>13. CASE ContinueWithImages
  <2>1. /\ UNCHANGED <<deferring, deferredScratchpadIDs>> /\ pc = "ended"
        /\ pc' = "done" \/ (pc' = "top" /\ result' = result)
        /\ promised' = promised \ deferredScratchpadIDs
    BY <1>13 DEF ContinueWithImages, AppendDeferredImages, MayContinue, Ended, Done, Continue
  <2> QED
    BY <1>1, <2>1
<1>14. CASE ContinueAfterBail \/ CompleteTurn
  <2>1. /\ UNCHANGED <<deferring, deferredScratchpadIDs, promised>> /\ pc = "ended"
        /\ pc' = "done" \/ (pc' = "top" /\ result' = result)
        /\ cfg.accepts => deferredScratchpadIDs = {}
    <3>1. CASE ContinueAfterBail
      BY <3>1 DEF ContinueAfterBail, MayContinue, Ended, PersistSentinel, Done, Continue,
         HasDeferredImages
    <3>2. CASE CompleteTurn
      BY <3>2 DEF CompleteTurn, MayContinue, Ended, PersistSentinel, Done, Continue,
         HasDeferredImages
    <3> QED
      BY <1>14, <3>1, <3>2
  <2> QED
    BY <1>1, <2>1
<1> QED
  BY <1>2, <1>3, <1>4, <1>5, <1>6, <1>7, <1>8, <1>9, <1>10, <1>11, <1>12, <1>13, <1>14
     DEF Next, Step, ModelStep, ToolStep, Decide

-----------------------------------------------------------------------------
(* Types.  The counters of the tracker stay in range because the invariants
   bound them before the step. *)
LEMMA TrackerStep ==
  ASSUME IInv, [Next]_vars
  PROVE  tracker' \in Trackers
<1>1. /\ tracker \in Trackers /\ tracker.calls \in 0 .. MaxToolTurns + 2
      /\ tracker.prompt \in Nat /\ tracker.count \in Nat /\ tracker.tripped \in BOOLEAN
      /\ CallInv /\ BreakerInv
  BY ConstantsAre DEF IInv, TypeOK, Trackers
<1>2. CASE UNCHANGED vars
  BY <1>1, <1>2 DEF vars
<1>3. CASE BeginTurn \/ RefuseTurn \/ RunnerFails \/ NoticeCancel \/ ConsumerLeaves \/ ToolsAnswered
  BY <1>1, <1>3 DEF BeginTurn, RefuseTurn, RunnerFails, NoticeCancel, ConsumerLeaves, ToolsAnswered
<1>4. CASE Decide
  BY <1>1, <1>4 DEF Decide, EmptyResponse, StopReinflated, StopDisabled, StopOverLimit,
     StopNotRecovered, ContinueWithImages, ContinueAfterBail, CompleteTurn, MayContinue, Ended
<1>5. CASE StartIteration
  BY <1>5, ConstantsAre DEF StartIteration, Fresh, Trackers
<1>6. CASE BreakerAnswers
  BY <1>1, <1>6 DEF BreakerAnswers, AnswerFor
<1>7. CASE BudgetAnswers \/ ImageAnswers \/ LimitAnswers
  <2>1. pc = "model" /\ Calls \in 0 .. MaxToolTurns + 2
    BY <1>1, <1>7, ConstantsAre
       DEF BudgetAnswers, ImageAnswers, LimitAnswers, AnswerFor, Calls, CallInv
  <2> QED
    BY <1>1, <1>7, <2>1 DEF BudgetAnswers, ImageAnswers, LimitAnswers, AnswerFor, Trackers
<1>8. CASE CallModel
  <2>1. pc = "model" /\ Calls \in 0 .. MaxToolTurns + 2
    BY <1>1, <1>8, ConstantsAre DEF CallModel, Calls, CallInv
  <2>2. PICK reading \in Sizes \cup {tracker.prompt} :
          tracker' = [tracker EXCEPT !.calls = Calls, !.prompt = reading]
    BY <1>8 DEF CallModel
  <2>3. reading \in Nat
    BY <1>1, <2>2, ConstantsAre DEF Sizes
  <2> QED
    BY <1>1, <2>1, <2>2, <2>3 DEF Trackers
<1>9. CASE ToolSucceeds \/ DeferImage
  <2>1. tracker' = [tracker EXCEPT !.signature = Unset, !.count = 0]
    BY <1>9 DEF ToolSucceeds, DeferImage, Succeeded, ResetConsecutiveToolFailure
  <2>2. 0 \in 0 .. FailureBreakerThreshold /\ Unset \in Signatures \cup {Unset}
    BY ConstantsAre
  <2> QED
    BY <1>1, <2>1, <2>2 DEF Trackers
<1>10. CASE ToolFails
  <2>1. PICK sig \in Signatures : tracker' = RecordConsecutiveToolFailure(tracker, sig)
    BY <1>10 DEF ToolFails
  <2>2. CASE tracker.tripped
    BY <1>1, <2>1, <2>2 DEF RecordConsecutiveToolFailure
  <2>3. CASE ~tracker.tripped
    <3> DEFINE c == Counted(tracker, sig)
               b == c.count >= FailureBreakerThreshold
    <3>1. tracker.count + 1 \in 0 .. FailureBreakerThreshold
      BY <1>1, <2>3, ConstantsAre DEF BreakerInv
    <3>2. c \in Trackers
      <4> DEFINE n == IF sig \in SchemaSignatures \/ sig = tracker.signature
                      THEN tracker.count + 1 ELSE 1
      <4>1. n \in 0 .. FailureBreakerThreshold
        BY <3>1, ConstantsAre
      <4>2. c = [tracker EXCEPT !.signature = sig, !.count = n]
        BY Zenon DEF Counted
      <4> HIDE DEF n, c
      <4> QED
        BY <1>1, <4>1, <4>2 DEF Trackers
    <3>3. tracker' = [c EXCEPT !.tripped = b]
      BY <2>1, <2>3, Zenon DEF RecordConsecutiveToolFailure
    <3>4. b \in BOOLEAN
      OBVIOUS
    <3> HIDE DEF c, b
    <3> QED
      BY <3>2, <3>3, <3>4 DEF Trackers
  <2> QED
    BY <1>1, <2>2, <2>3
<1> QED
  BY <1>2, <1>3, <1>4, <1>5, <1>6, <1>7, <1>8, <1>9, <1>10
     DEF Next, Step, ModelStep, ToolStep

LEMMA HookStep ==
  ASSUME IInv, [Next]_vars
  PROVE  hook' \in Hooks
<1>1. hook \in Hooks /\ NoHook \in Hooks
  BY DEF IInv, TypeOK, NoHook, Hooks
<1>2. ASSUME NEW can \in BOOLEAN, FireEndOfTurnHooks(can) PROVE hook' \in Hooks
  <2>1. tracker.tripped \in BOOLEAN /\ tracker.capped \in BOOLEAN
    BY DEF IInv, TypeOK, Trackers
  <2>2. TurnStopReason \in {"completed", "max_tool_turns", "failure_breaker",
                            "compacted_bail", "deferred_image"}
    BY <2>1 DEF TurnStopReason
  <2> QED
    BY <1>2, <2>2 DEF FireEndOfTurnHooks, Hooks
<1>3. CASE UNCHANGED vars
  BY <1>1, <1>3 DEF vars
<1>4. CASE Step \/ RunnerFails \/ NoticeCancel \/ ConsumerLeaves
  <2>1. CASE BeginTurn \/ RefuseTurn \/ RunnerFails \/ NoticeCancel \/ ConsumerLeaves
             \/ ModelStep \/ ToolStep \/ EmptyResponse
    BY <1>1, <2>1 DEF BeginTurn, RefuseTurn, RunnerFails, NoticeCancel, ConsumerLeaves,
       ModelStep, BreakerAnswers, BudgetAnswers, ImageAnswers, LimitAnswers, AnswerFor, CallModel,
       ToolStep, ToolSucceeds, DeferImage, ToolFails, ToolCall, ToolsAnswered, EmptyResponse
  <2>2. CASE StartIteration
    BY <1>1, <2>2 DEF StartIteration
  <2>3. CASE StopReinflated \/ StopDisabled \/ StopOverLimit \/ StopNotRecovered
    BY <1>2, <2>3 DEF StopReinflated, StopDisabled, StopOverLimit, StopNotRecovered, Stop
  <2>4. CASE ContinueWithImages
    <3>1. FireEndOfTurnHooks(FALSE) \/ UNCHANGED hook
      BY <2>4 DEF ContinueWithImages, AppendDeferredImages
    <3> QED
      BY <1>1, <1>2, <3>1
  <2>5. CASE ContinueAfterBail
    BY <1>1, <1>2, <2>5 DEF ContinueAfterBail
  <2>6. CASE CompleteTurn
    <3>1. CanContinue \in BOOLEAN
      BY DEF CanContinue
    <3> QED
      BY <1>2, <2>6, <3>1 DEF CompleteTurn
  <2> QED
    BY <1>4, <2>1, <2>2, <2>3, <2>4, <2>5, <2>6 DEF Step, Decide
<1> QED
  BY <1>3, <1>4 DEF Next

(* The session and the memory. *)
LEMMA SessionStep ==
  ASSUME IInv, [Next]_vars
  PROVE  tail' \in Tails /\ size' \in 0 .. MaxSize /\ memNew' \in BOOLEAN /\ sink' \in BOOLEAN
<1> DEFINE Fits == tail' \in Tails /\ size' \in 0 .. MaxSize
           Flags == memNew' \in BOOLEAN /\ sink' \in BOOLEAN
<1>1. /\ tail \in Tails /\ size \in 0 .. MaxSize /\ memNew \in BOOLEAN /\ sink \in BOOLEAN
      /\ TypeOK
  BY DEF IInv, TypeOK
<1>2. ASSUME NEW changed \in BOOLEAN, RefreshIfChanged(changed) PROVE Flags
  BY <1>1, <1>2 DEF RefreshIfChanged
<1>3. {"user", "tools", "deferred", "model"} \subseteq Tails
  BY DEF Tails
<1>4. CASE UNCHANGED vars \/ RefuseTurn \/ RunnerFails \/ NoticeCancel \/ ConsumerLeaves
           \/ ToolSucceeds \/ DeferImage \/ ToolFails \/ EmptyResponse \/ StopReinflated
  BY <1>1, <1>4 DEF vars, RefuseTurn, RunnerFails, NoticeCancel, ConsumerLeaves, ToolSucceeds,
     DeferImage, ToolFails, ToolCall, EmptyResponse, StopReinflated, Ended, sessionVars
<1>5. CASE BeginTurn
  <2>1. CASE UNCHANGED <<sessionVars, sink>>
    BY <1>1, <2>1 DEF sessionVars
  <2>2. CASE ColdStart
    <3> PICK o \in Outcomes :
          /\ tail' = o.tail /\ size' = o.size
          /\ (memNew' = o.mem /\ UNCHANGED sink) \/ RefreshIfChanged(o.mem)
      BY <2>2 DEF ColdStart
    <3> QED
      BY <1>1, <1>2, OutcomeIs
  <2> QED
    BY <1>5, <2>1, <2>2 DEF BeginTurn
<1>6. CASE StartIteration
  BY <1>1, <1>2, <1>6 DEF StartIteration
<1>7. CASE ModelStep
  BY <1>1, <1>3, <1>7 DEF ModelStep, BreakerAnswers, BudgetAnswers, ImageAnswers, LimitAnswers,
     AnswerFor, CallModel
<1>8. CASE ToolsAnswered
  <2>1. size' \in 0 .. MaxSize
    BY <1>1, <1>8, ConstantsAre DEF ToolsAnswered, Grown
  <2> QED
    BY <1>1, <1>3, <1>8, <2>1 DEF ToolsAnswered
<1>9. CASE StopDisabled \/ StopOverLimit \/ StopNotRecovered
  <2>1. PICK o \in Outcomes : Compacted(o)
    BY <1>9, PostTurnOutcomeIs DEF StopDisabled, StopOverLimit, StopNotRecovered
  <2>2. UNCHANGED sink
    BY <1>9 DEF StopDisabled, StopOverLimit, StopNotRecovered, MayContinue, Ended
  <2> QED
    BY <1>1, <2>1, <2>2, OutcomeIs DEF Compacted
<1>10. CASE ContinueWithImages
  <2>1. PICK o \in Outcomes : memNew' = (memNew \/ o.mem) /\ AppendDeferredImages(o.tail, o.size)
    BY <1>10, PostTurnOutcomeIs DEF ContinueWithImages
  <2>2. o.tail \in Tails /\ o.size \in 0 .. MaxSize /\ o.mem \in BOOLEAN
    BY <1>1, OutcomeIs
  <2>3. tail' \in {"user", o.tail} /\ size' \in (o.size .. MaxSize) \cup {o.size}
    BY <2>1 DEF AppendDeferredImages
  <2>4. UNCHANGED sink
    BY <1>10 DEF ContinueWithImages, MayContinue, Ended
  <2> QED
    BY <1>1, <1>3, <2>1, <2>2, <2>3, <2>4, ConstantsAre
<1>11. CASE ContinueAfterBail \/ CompleteTurn
  <2>1. PICK o \in Outcomes :
          tail' \in {"user", o.tail} /\ size' = o.size /\ memNew' = (memNew \/ o.mem)
    <3>1. CASE ContinueAfterBail
      BY <3>1 DEF ContinueAfterBail, PersistSentinel
    <3>2. CASE CompleteTurn
      <4> PICK o \in PostTurnOutcomes :
            /\ size' = o.size /\ memNew' = (memNew \/ o.mem)
            /\ tail' = o.tail \/ PersistSentinel("hook", o.tail)
        BY <3>2 DEF CompleteTurn
      <4> QED
        BY PostTurnOutcomeIs DEF PersistSentinel
    <3> QED
      BY <1>11, <3>1, <3>2
  <2>2. UNCHANGED sink
    BY <1>11 DEF ContinueAfterBail, CompleteTurn, MayContinue, Ended
  <2> QED
    BY <1>1, <1>3, <2>1, <2>2, OutcomeIs
<1> QED
  BY <1>4, <1>5, <1>6, <1>7, <1>8, <1>9, <1>10, <1>11 DEF Next, Step, ToolStep, Decide

LEMMA TypeStep ==
  ASSUME IInv, [Next]_vars
  PROVE  TypeOK'
<1>1. TypeOK /\ cfg' = cfg
  BY SameConfig DEF IInv
<1>2. tracker' \in Trackers /\ hook' \in Hooks
  BY TrackerStep, HookStep
<1>3. tail' \in Tails /\ size' \in 0 .. MaxSize /\ memNew' \in BOOLEAN /\ sink' \in BOOLEAN
  BY SessionStep
<1> DEFINE
  Loop == /\ pc' \in {"start", "top", "model", "tools", "ended", "done"}
          /\ turnYieldedAny' \in BOOLEAN
          /\ result' \in {"none", "complete", "incomplete", "error", "cancelled", "left"}
          /\ lastContinuationReason' \in Reasons
  Counters == /\ continuationCount' \in Nat /\ imageContinuationCount' \in Nat
              /\ iterations' \in Nat
  Tools == /\ batch' \in 0 .. MaxBatch /\ fails' \in Seq(Signatures)
           /\ deferring' \subseteq Images /\ deferredScratchpadIDs' \subseteq Images
           /\ promised' \subseteq Images
<1>4. /\ pc \in {"start", "top", "model", "tools", "ended", "done"}
      /\ turnYieldedAny \in BOOLEAN
      /\ result \in {"none", "complete", "incomplete", "error", "cancelled", "left"}
      /\ lastContinuationReason \in Reasons
      /\ continuationCount \in Nat /\ imageContinuationCount \in Nat /\ iterations \in Nat
      /\ batch \in 0 .. MaxBatch /\ fails \in Seq(Signatures)
      /\ deferring \subseteq Images /\ deferredScratchpadIDs \subseteq Images
      /\ promised \subseteq Images
  BY DEF IInv, TypeOK
<1>5. ASSUME UNCHANGED vars
      PROVE  Loop /\ Counters /\ Tools
  BY <1>4, <1>5 DEF vars
<1>6. ASSUME BeginTurn \/ RefuseTurn \/ RunnerFails \/ NoticeCancel \/ ConsumerLeaves \/ EmptyResponse
      PROVE  Loop /\ Counters /\ Tools
  BY <1>4, <1>6 DEF BeginTurn, ColdStart, RefuseTurn, RunnerFails, NoticeCancel, ConsumerLeaves,
     EmptyResponse, Done, toolVars, countVars
<1>7. ASSUME StartIteration
      PROVE  Loop /\ Counters /\ Tools
  <2>1. Loop /\ Counters
    <3>1. /\ pc' = "model" /\ turnYieldedAny' = FALSE /\ iterations' = iterations + 1
          /\ UNCHANGED <<result, lastContinuationReason, continuationCount,
                         imageContinuationCount>>
      BY <1>7 DEF StartIteration, countVars
    <3>2. Loop
      BY <1>4, <3>1
    <3>3. Counters
      BY <1>4, <3>1
    <3> QED
      BY <3>2, <3>3
  <2>2. fails' = <<>> /\ deferredScratchpadIDs' = {} /\ UNCHANGED <<batch, deferring, promised>>
    BY <1>7 DEF StartIteration
  <2>3. Tools
    BY <1>4, <2>2
  <2> QED
    BY <2>1, <2>3
<1>8. ASSUME ModelStep
      PROVE  Loop /\ Counters /\ Tools
  BY <1>4, <1>8 DEF ModelStep, BreakerAnswers, BudgetAnswers, ImageAnswers, LimitAnswers,
     AnswerFor, CallModel, toolVars, countVars
<1>9. ASSUME ToolSucceeds \/ DeferImage \/ ToolFails
      PROVE  Loop /\ Counters /\ Tools
  <2>1. Loop /\ Counters
    BY <1>4, <1>9 DEF ToolSucceeds, DeferImage, ToolFails, ToolCall, countVars
  <2>2. batch' \in 0 .. MaxBatch /\ deferredScratchpadIDs' \subseteq Images
    BY <1>4, <1>9, ConstantsAre DEF ToolSucceeds, DeferImage, ToolFails, ToolCall
  <2>3. deferring' \subseteq Images /\ promised' \subseteq Images
    BY <1>4, <1>9 DEF ToolSucceeds, DeferImage, ToolFails
  <2>4. fails' \in Seq(Signatures)
    <3>1. \/ fails' = fails \/ fails' = <<>>
          \/ \E sig \in Signatures : fails' = Append(fails, sig)
      BY <1>9 DEF ToolSucceeds, DeferImage, ToolFails, Succeeded
    <3>2. CASE fails' = fails
      BY <1>4, <3>2
    <3>3. CASE fails' = <<>>
      BY <3>3
    <3>4. CASE \E sig \in Signatures : fails' = Append(fails, sig)
      BY <1>4, <3>4
    <3> QED
      BY <3>1, <3>2, <3>3, <3>4
  <2> QED
    BY <2>1, <2>2, <2>3, <2>4
<1>10. ASSUME ToolsAnswered
       PROVE  Loop /\ Counters /\ Tools
  BY <1>4, <1>10 DEF ToolsAnswered, countVars
<1>11. ASSUME StopReinflated \/ StopDisabled \/ StopOverLimit \/ StopNotRecovered
       PROVE  Loop /\ Counters /\ Tools
  BY <1>4, <1>11 DEF StopReinflated, StopDisabled, StopOverLimit, StopNotRecovered, MayContinue,
     Ended, Stop, Done, countVars
<1>12. ASSUME ContinueWithImages
       PROVE  Loop /\ Counters /\ Tools
  <2>1. Loop /\ Counters
    <3>1. /\ UNCHANGED <<turnYieldedAny, iterations>>
          /\ \/ /\ pc' = "top" /\ lastContinuationReason' = "image" /\ result' = result
                /\ imageContinuationCount' = imageContinuationCount + 1
                /\ UNCHANGED continuationCount
             \/ pc' = "done" /\ result' = "complete" /\ UNCHANGED countVars
      BY <1>12 DEF ContinueWithImages, AppendDeferredImages, MayContinue, Ended, Continue, Done
    <3> QED
      BY <1>4, <3>1 DEF countVars, Reasons
  <2>2. Tools
    BY <1>4, <1>12 DEF ContinueWithImages, AppendDeferredImages, MayContinue, Ended
  <2> QED
    BY <2>1, <2>2
<1>13. ASSUME ContinueAfterBail \/ CompleteTurn
       PROVE  Loop /\ Counters /\ Tools
  <2>1. Loop /\ Counters
    <3>1. CASE ContinueAfterBail
      BY <1>4, <3>1 DEF ContinueAfterBail, PersistSentinel, MayContinue, Ended, Continue, Done,
         countVars, Reasons
    <3>2. CASE CompleteTurn
      BY <1>4, <3>2 DEF CompleteTurn, PersistSentinel, MayContinue, Ended, Continue, Done,
         countVars, Reasons
    <3> QED
      BY <1>13, <3>1, <3>2
  <2>2. Tools
    BY <1>4, <1>13 DEF ContinueAfterBail, CompleteTurn, PersistSentinel, MayContinue, Ended
  <2> QED
    BY <2>1, <2>2
<1> HIDE DEF Loop, Counters, Tools
<1>14. Loop /\ Counters /\ Tools
  BY <1>5, <1>6, <1>7, <1>8, <1>9, <1>10, <1>11, <1>12, <1>13
     DEF Next, Step, ToolStep, Decide
<1> QED
  BY <1>1, <1>2, <1>3, <1>14 DEF TypeOK, Loop, Counters, Tools

-----------------------------------------------------------------------------
(* IInv holds initially and every step keeps it. *)
THEOREM Invariance == Spec => []IInv
<1>1. IInv /\ [Next]_vars => IInv'
  BY TypeStep, CallStep, ChargeStep, BreakerStep, ContinueStep, PromiseStep DEF IInv
<1> QED
  BY InitIInv, <1>1, PTL DEF Spec

(* The state keeps its types, the tracker of tool failures its ranges. *)
THEOREM TypeCorrect == Spec => []TypeOK
<1>1. IInv => TypeOK
  BY DEF IInv
<1> QED
  BY Invariance, <1>1, PTL

(* Whatever model, tools and hooks ask for, a turn starts the model at most
   once more than both budgets allow, and tools run only within their limit. *)
THEOREM WorkIsBounded == Spec => []BudgetsHold
<1>1. ASSUME IInv PROVE BudgetsHold
  <2>1. /\ GeneralCap \in Int /\ ImageCap \in Int
        /\ continuationCount \in Nat /\ imageContinuationCount \in Nat /\ iterations \in Nat
        /\ ChargeInv /\ CallInv
        /\ pc \in {"start", "top", "model", "tools", "ended", "done"}
    BY <1>1, CapsAreIntegers DEF IInv, TypeOK
  <2>2. iterations <= 1 + continuationCount + imageContinuationCount
    BY <2>1 DEF ChargeInv
  <2> QED
    BY <2>1, <2>2 DEF BudgetsHold, ChargeInv, CallInv, AtLeastZero
<1> QED
  BY Invariance, <1>1, PTL

(* An iteration of the harness' own starts from a turn of the user. *)
THEOREM ContinuesSoundly == Spec => []ContinuesOnUser
<1>1. IInv => ContinuesOnUser
  BY DEF IInv, ContinueInv
<1> QED
  BY Invariance, <1>1, PTL

(* It follows a bail only within the budget that bailed out, and a hook only
   if the hook was told that it could continue the turn. *)
THEOREM ContinuationIsSound == Spec => []ContinuationSound
<1>1. IInv => ContinuationSound
  BY DEF IInv, ContinueInv, ContinuationSound
<1> QED
  BY Invariance, <1>1, PTL

(* No image that was promised is forgotten. *)
THEOREM PromisesAreKept == Spec => []ImagesAnswered
<1>1. IInv => ImagesAnswered
  BY DEF IInv, PromiseInv
<1> QED
  BY Invariance, <1>1, PTL

(* The failure breaker trips only on an uninterrupted run of failures as long
   as its threshold, and always on one of identical failures. *)
THEOREM BreakerIsSound == Spec => []BreakerIsExact
<1> QED
  BY Invariance, BreakerSuffices, PTL
=============================================================================
