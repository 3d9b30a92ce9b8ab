------------------------------ MODULE TurnLoop ------------------------------
(***************************************************************************)
(* The loop of one turn at one runtime level (generateTurnStreamWithGuard  *)
(* and handleContinuationOrCompaction in pkg/agent/agent_folder.go, with   *)
(* the callbacks of adk_agent.go): model calls and tool calls, the breaker *)
(* and the limits that stop them, and the grounds on which the harness     *)
(* goes on by itself.                                                      *)
(*                                                                         *)
(* The handler holds the session lock, so nobody else writes the session.  *)
(* Of it only the last turn matters, and its size in units of which a      *)
(* budget holds a few.  The model, the tools, the hooks and the outcome of *)
(* a compaction are free.                                                  *)
(***************************************************************************)
EXTENDS Integers, Sequences, FiniteSets

CONSTANTS
  Configs,                        \* the configurations a turn may run with
  Unset,                          \* a limit that runtime.json leaves out
  DefaultMaxAutoContinuations,
  DefaultMaxAutoContinuationsA2A,
  MaxToolTurns,
  FailureBreakerThreshold,
  Signatures, SchemaSignatures,   \* of tool failures; those of a bad schema
  Images,                         \* scratchpads that hold an image
  Budget,                         \* contextBudget, in units
  MaxSize,                        \* bound: size of a session, in units
  MaxBatch                        \* bound: tool calls in a model response

Limits == Int \cup {Unset}

Config ==
  [disabled : BOOLEAN,            \* disableAutoContinuation
   a2a : BOOLEAN,                 \* called by another agent
   general : Limits,              \* maxAutoContinuations
   images : Limits,               \* maxAutoContinuationsImages
   defers : BOOLEAN,              \* runtime.json has maxImageDimension
   accepts : BOOLEAN,             \* the level that runs has it
   window : BOOLEAN,              \* the level has a contextWindow
   resumable : BOOLEAN]           \* a fallback level runs the turn again

ASSUME TurnLoopAssumption ==
  /\ Configs \subseteq Config
  /\ Unset \notin Int
  /\ {DefaultMaxAutoContinuations, DefaultMaxAutoContinuationsA2A} \subseteq Nat
  /\ {MaxToolTurns, FailureBreakerThreshold, MaxBatch} \subseteq Nat \ {0}
  /\ SchemaSignatures \subseteq Signatures
  /\ {Budget, MaxSize} \subseteq Nat

VARIABLES
  cfg,
  pc,                      \* where the loop is
  tail, size,              \* the last turn of the session, the estimate of all
  memNew,                  \* MEMORY.md is not what the prompt was rendered from
  sink,                    \* the agent was built with the sink of tool events
  tracker,                 \* UsageTracker
  batch, deferring,        \* tool calls under way, images they deferred
  deferredScratchpadIDs,
  turnYieldedAny,
  continuationCount, imageContinuationCount, lastContinuationReason,
  result,
  iterations,              \* ghost: how often the model was started
  fails,                   \* ghost: failures since the last success
  promised,                \* ghost: images the model was promised
  hook                     \* ghost: what the last end-of-turn hook was told

sessionVars == <<tail, size, memNew>>
toolVars == <<batch, deferring, deferredScratchpadIDs, fails, promised>>
countVars == <<continuationCount, imageContinuationCount, lastContinuationReason>>
vars == <<cfg, pc, tail, size, memNew, sink, tracker, batch, deferring,
          deferredScratchpadIDs, turnYieldedAny, continuationCount,
          imageContinuationCount, lastContinuationReason, result, iterations, fails,
          promised, hook>>

-----------------------------------------------------------------------------
(* Limits. *)

Given(limit, default) == IF limit = Unset THEN default ELSE limit

GeneralCap ==
  IF cfg.disabled THEN 0
  ELSE Given(cfg.general, IF cfg.a2a THEN DefaultMaxAutoContinuationsA2A
                          ELSE DefaultMaxAutoContinuations)

ImageCap == IF cfg.disabled THEN 0 ELSE Given(cfg.images, MaxToolTurns)

-----------------------------------------------------------------------------
(* UsageTracker. *)

Fresh ==
  [calls |-> 0, prompt |-> 0, bailed |-> FALSE, capped |-> FALSE,
   signature |-> Unset, count |-> 0, tripped |-> FALSE]

Trackers ==
  [calls : 0 .. MaxToolTurns + 2, prompt : Nat, bailed : BOOLEAN, capped : BOOLEAN,
   signature : Signatures \cup {Unset}, count : 0 .. FailureBreakerThreshold,
   tripped : BOOLEAN]

(* contextUsed: the provider's number if there is one. *)
ContextUsed(provider, estimate) == IF provider > 0 THEN provider ELSE estimate
ExceedsBudget(used) == used >= Budget

Counted(t, sig) ==
  [t EXCEPT !.signature = sig,
            !.count = IF sig \in SchemaSignatures \/ sig = t.signature THEN t.count + 1 ELSE 1]

(* Mutant: the threshold itself is let through. *)
RecordConsecutiveToolFailure_Late(t, sig) ==
  IF t.tripped THEN t
  ELSE [Counted(t, sig) EXCEPT !.tripped = Counted(t, sig).count > FailureBreakerThreshold]

RecordConsecutiveToolFailure(t, sig) ==
  IF t.tripped THEN t
  ELSE [Counted(t, sig) EXCEPT !.tripped = Counted(t, sig).count >= FailureBreakerThreshold]

(* Mutant: only the signature is cleared. *)
ResetConsecutiveToolFailure_KeepsCount(t) == [t EXCEPT !.signature = Unset]

(* Success clears the count and leaves a tripped breaker tripped. *)
ResetConsecutiveToolFailure(t) == [t EXCEPT !.signature = Unset, !.count = 0]

(* Mutant: a bail hides the images that came with it. *)
HasDeferredImages_NotAtBail ==
  cfg.accepts /\ deferredScratchpadIDs # {} /\ ~tracker.bailed

HasDeferredImages == cfg.accepts /\ deferredScratchpadIDs # {}

TurnStopReason ==
  CASE tracker.tripped -> "failure_breaker"
    [] ~tracker.tripped /\ tracker.capped -> "max_tool_turns"
    [] OTHER -> IF tracker.bailed THEN "compacted_bail"
                ELSE IF HasDeferredImages THEN "deferred_image" ELSE "completed"

-----------------------------------------------------------------------------
(* The state. *)

Tails == {"empty", "user", "tools", "deferred", "model"}
Reasons == {"none", "bail", "image", "hook"}
NoHook == [reason |-> "none", can |-> FALSE]
Hooks ==
  [reason : {"none", "completed", "max_tool_turns", "failure_breaker", "compacted_bail",
             "deferred_image"}, can : BOOLEAN]

TypeOK ==
  /\ cfg \in Configs
  /\ pc \in {"start", "top", "model", "tools", "ended", "done"}
  /\ tail \in Tails /\ size \in 0 .. MaxSize /\ memNew \in BOOLEAN
  /\ sink \in BOOLEAN
  /\ tracker \in Trackers
  /\ batch \in 0 .. MaxBatch
  /\ {deferring, deferredScratchpadIDs, promised} \subseteq SUBSET Images
  /\ turnYieldedAny \in BOOLEAN
  /\ {continuationCount, imageContinuationCount, iterations} \subseteq Nat
  /\ lastContinuationReason \in Reasons
  /\ result \in {"none", "complete", "incomplete", "error", "cancelled", "left"}
  /\ fails \in Seq(Signatures)
  /\ hook \in Hooks

(* A session with its memory as rendered; it may have been left in a tool
   call by a turn that was killed. *)
Init ==
  /\ cfg \in Configs
  /\ pc = "start"
  /\ tail \in Tails /\ size \in 0 .. MaxSize /\ (tail = "empty" => size = 0)
  /\ memNew = FALSE /\ sink = TRUE
  /\ tracker = Fresh /\ batch = 0 /\ deferring = {} /\ deferredScratchpadIDs = {}
  /\ turnYieldedAny = FALSE
  /\ continuationCount = 0 /\ imageContinuationCount = 0
  /\ lastContinuationReason = "none" /\ result = "none"
  /\ iterations = 0 /\ fails = <<>> /\ promised = {} /\ hook = NoHook

Sizes == 0 .. MaxSize
Grown(n) == {m \in {n, n + 1} : m <= MaxSize}

Done(why) == pc' = "done" /\ result' = why

-----------------------------------------------------------------------------
(* Compaction, as its callers see it. *)

(* What CheckAndCompactSessionWithFallback may do to a session: nothing; fail,
   perhaps with MEMORY.md already written; or archive its first turns, all of
   them or all but some, behind which it may put a notice. *)
Outcome ==
  [done : BOOLEAN, failed : BOOLEAN, tail : Tails, size : Sizes, mem : BOOLEAN, fewer : BOOLEAN]

Untouched ==
  [done |-> FALSE, failed |-> FALSE, tail |-> tail, size |-> size, mem |-> FALSE,
   fewer |-> FALSE]

Outcomes ==
  {Untouched}
  \cup {[Untouched EXCEPT !.failed = TRUE, !.mem = m] : m \in BOOLEAN}
  \cup {o \in [done : {TRUE}, failed : {FALSE}, tail : {tail, "user", "empty"}, size : Sizes,
               mem : BOOLEAN, fewer : BOOLEAN] :
          /\ tail # "empty" /\ o.size <= size + 1
          /\ o.tail = "empty" => o.size = 0 /\ o.fewer}

(* checkPostTurnCompaction: the turn is over budget, or memory over its share,
   which is free here.  It resets the tracker and counts its own calls in it;
   nothing reads those before the next iteration resets it again. *)
PostTurnOutcomes == IF cfg.window THEN Outcomes ELSE {Untouched}

Compacted(o) == tail' = o.tail /\ size' = o.size /\ memNew' = (memNew \/ o.mem)

(* Mutant: a compaction that shrinks the session is enough. *)
Recovered_AnyReduction(o) == o.done /\ (o.fewer \/ o.size < size)

(* compactForContinuation: it has to shrink the session, and to fit it. *)
Recovered(o) ==
  /\ o.done /\ (o.fewer \/ o.size < size)
  /\ Budget > 0 => o.size < Budget

(* readMemoryForChangeDetection and refreshSystemPromptAndAgent, when memory
   has changed: the agent is built anew, without the sink.  If that fails the
   old one goes on; if memory cannot be read nothing is noticed. *)
RefreshIfChanged(changed) ==
  \/ ~changed /\ memNew' = FALSE /\ UNCHANGED sink
  \/ changed /\ memNew' = TRUE /\ UNCHANGED sink
  \/ changed /\ memNew' = FALSE /\ \E built \in BOOLEAN : sink' = (sink /\ ~built)

-----------------------------------------------------------------------------
(* The start of the turn and of an iteration. *)

GenerateGuard ==
  tail # "empty" /\ (cfg.resumable \/ tail \in {"user", "tools", "deferred"})

(* checkColdStartCompaction; the session may then be unreadable. *)
ColdStart ==
  \E o \in Outcomes :
    /\ tail' = o.tail /\ size' = o.size
    /\ \/ o.done /\ Done("error") /\ memNew' = o.mem /\ UNCHANGED sink
       \/ o.done /\ pc' = "top" /\ UNCHANGED result /\ RefreshIfChanged(o.mem)
       \/ /\ ~o.done
          /\ pc' = "top" /\ memNew' = o.mem /\ UNCHANGED <<result, sink>>

(* The guard that follows a cold-start compaction is asked about the old turns
   if no turn is left, so it refuses nothing. *)
BeginTurn ==
  /\ pc = "start"
  /\ GenerateGuard
  /\ IF cfg.window /\ ExceedsBudget(size) THEN ColdStart
     ELSE pc' = "top" /\ UNCHANGED <<sessionVars, sink, result>>
  /\ UNCHANGED <<cfg, tracker, toolVars, turnYieldedAny, countVars,
                 iterations, hook>>

(* The guard refuses, or the session cannot be read. *)
RefuseTurn ==
  /\ pc = "start"
  /\ Done("error")
  /\ UNCHANGED <<cfg, sessionVars, sink, tracker, toolVars, turnYieldedAny,
                 countVars, iterations, hook>>

StartIteration ==
  /\ pc = "top"
  /\ pc' = "model"
  /\ tracker' = Fresh
  /\ RefreshIfChanged(memNew)
  /\ deferredScratchpadIDs' = {} /\ turnYieldedAny' = FALSE
  /\ iterations' = iterations + 1 /\ fails' = <<>> /\ hook' = NoHook
  /\ UNCHANGED <<cfg, tail, size, batch, deferring, promised, countVars, result>>

(* The runner cannot be built, or reports an error. *)
RunnerFails ==
  /\ pc \in {"model", "tools"}
  /\ Done("error")
  /\ UNCHANGED <<cfg, sessionVars, sink, tracker, toolVars, turnYieldedAny,
                 countVars, iterations, hook>>

(* The context ends.  It is asked before an iteration, at every event and
   behind them; what runs until then leaves nothing that lasts. *)
NoticeCancel ==
  /\ pc # "done"
  /\ Done("cancelled")
  /\ UNCHANGED <<cfg, sessionVars, sink, tracker, toolVars, turnYieldedAny,
                 countVars, iterations, hook>>

(* The consumer stops at a chunk. *)
ConsumerLeaves ==
  /\ pc \in {"model", "tools", "ended"} /\ turnYieldedAny
  /\ Done("left")
  /\ UNCHANGED <<cfg, sessionVars, sink, tracker, toolVars, turnYieldedAny,
                 countVars, iterations, hook>>

-----------------------------------------------------------------------------
(* A model call: BeforeModelCallbacks answer it or let it through. *)

Calls == tracker.calls + 1

OverBudget ==
  Calls > 1 /\ cfg.window /\ ExceedsBudget(ContextUsed(tracker.prompt, size))

(* An answer of the harness has text and no calls, so it ends the run. *)
AnswerFor(t) ==
  /\ pc = "model"
  /\ pc' = "ended" /\ turnYieldedAny' = TRUE /\ tail' = "model"
  /\ tracker' = t
  /\ UNCHANGED <<cfg, size, memNew, sink, toolVars, countVars, result,
                 iterations, hook>>

(* Mutant: the answer of the breaker does not end the run. *)
BreakerAnswers_RunsOn ==
  /\ tracker.tripped /\ pc = "model"
  /\ turnYieldedAny' = TRUE /\ tail' = "model"
  /\ UNCHANGED <<cfg, pc, size, memNew, sink, tracker, toolVars, countVars, result,
                 iterations, hook>>

BreakerAnswers == tracker.tripped /\ AnswerFor(tracker)

BudgetAnswers ==
  /\ ~tracker.tripped /\ OverBudget
  /\ AnswerFor([tracker EXCEPT !.calls = Calls, !.bailed = TRUE])

ImageAnswers ==
  /\ ~tracker.tripped /\ ~OverBudget
  /\ tail = "deferred"
  /\ AnswerFor([tracker EXCEPT !.calls = Calls])

LimitAnswers ==
  /\ ~tracker.tripped /\ ~OverBudget /\ tail # "deferred"
  /\ Calls > MaxToolTurns + 1
  /\ AnswerFor([tracker EXCEPT !.calls = Calls, !.capped = TRUE])

CallModel ==
  /\ pc = "model"
  /\ ~tracker.tripped /\ ~OverBudget /\ tail # "deferred"
  /\ Calls <= MaxToolTurns + 1
  /\ tail' = "model"
  /\ \E reading \in Sizes \cup {tracker.prompt} :
       tracker' = [tracker EXCEPT !.calls = Calls, !.prompt = reading]
  /\ \E said \in BOOLEAN : turnYieldedAny' = (turnYieldedAny \/ said)
  /\ batch' \in 0 .. MaxBatch
  /\ pc' = IF batch' = 0 THEN "ended" ELSE "tools"
  /\ UNCHANGED <<cfg, size, memNew, sink, deferring, deferredScratchpadIDs,
                 fails, promised, countVars, result, iterations, hook>>

-----------------------------------------------------------------------------
(* The tool calls of one response run at once; each reports under the lock of
   the tracker. *)

ToolCall ==
  /\ pc = "tools" /\ batch > 0
  /\ batch' = batch - 1
  /\ UNCHANGED <<cfg, pc, sessionVars, sink, deferredScratchpadIDs,
                 turnYieldedAny, countVars, result, iterations, hook>>

Succeeded ==
  /\ tracker' = ResetConsecutiveToolFailure(tracker)
  /\ fails' = IF tracker.tripped THEN fails ELSE <<>>

ToolSucceeds == ToolCall /\ Succeeded /\ UNCHANGED <<deferring, promised>>

(* get_scratchpad and load_skill_extra ask runtime.json, not the level that
   runs, and promise the image for the next turn. *)
DeferImage ==
  /\ ToolCall /\ Succeeded
  /\ cfg.defers
  /\ \E i \in Images :
       deferring' = deferring \cup {i} /\ promised' = promised \cup {i}

ToolFails ==
  /\ ToolCall
  /\ \E sig \in Signatures :
       /\ tracker' = RecordConsecutiveToolFailure(tracker, sig)
       /\ fails' = IF tracker.tripped THEN fails ELSE Append(fails, sig)
  /\ UNCHANGED <<deferring, promised>>

(* The event with all responses is persisted and read by the loop. *)
ToolsAnswered ==
  /\ pc = "tools" /\ batch = 0
  /\ pc' = "model"
  /\ tail' = IF deferring = {} THEN "tools" ELSE "deferred"
  /\ size' \in Grown(size)
  /\ deferredScratchpadIDs' = deferredScratchpadIDs \cup deferring /\ deferring' = {}
  /\ UNCHANGED <<cfg, memNew, sink, tracker, batch, turnYieldedAny, countVars,
                 result, iterations, fails, promised, hook>>

-----------------------------------------------------------------------------
(* handleContinuationOrCompaction.  Its cases, in the order of the code. *)

(* The run is over and it yielded text. *)
Ended ==
  /\ pc = "ended" /\ turnYieldedAny
  /\ UNCHANGED <<cfg, sink, tracker, batch, deferring, deferredScratchpadIDs,
                 turnYieldedAny, iterations, fails>>

FireEndOfTurnHooks(can) == hook' = [reason |-> TurnStopReason, can |-> can]

Stop(why) ==
  Done(why) /\ UNCHANGED <<countVars, promised>> /\ FireEndOfTurnHooks(FALSE)

Continue(why) ==
  /\ pc' = "top" /\ lastContinuationReason' = why
  /\ UNCHANGED result
  /\ IF why = "image"
     THEN imageContinuationCount' = imageContinuationCount + 1 /\ UNCHANGED continuationCount
     ELSE continuationCount' = continuationCount + 1 /\ UNCHANGED imageContinuationCount

EmptyResponse ==
  /\ pc = "ended" /\ ~turnYieldedAny
  /\ Done("error")
  /\ UNCHANGED <<cfg, sessionVars, sink, tracker, toolVars, turnYieldedAny,
                 countVars, iterations, hook>>

Reinflated == tracker.bailed /\ lastContinuationReason = "image"

StopReinflated ==
  Ended /\ Reinflated /\ Stop("incomplete") /\ UNCHANGED sessionVars

StopDisabled ==
  /\ Ended /\ ~Reinflated
  /\ cfg.disabled
  /\ \E o \in PostTurnOutcomes : Compacted(o)
  /\ Stop("complete")

(* Mutant: a bail that comes with an image is charged to nobody. *)
OverLimit_BailsOnly ==
  IF HasDeferredImages THEN ~tracker.bailed /\ imageContinuationCount >= ImageCap
  ELSE tracker.bailed /\ continuationCount >= GeneralCap

OverLimit ==
  IF HasDeferredImages THEN imageContinuationCount >= ImageCap
  ELSE tracker.bailed /\ continuationCount >= GeneralCap

StopOverLimit ==
  /\ Ended /\ ~Reinflated /\ ~cfg.disabled
  /\ OverLimit
  /\ \E o \in PostTurnOutcomes : Compacted(o)
  /\ Stop("incomplete")

MayContinue == Ended /\ ~Reinflated /\ ~cfg.disabled /\ ~OverLimit

(* compactForContinuation gives up. *)
StopNotRecovered ==
  /\ MayContinue /\ tracker.bailed
  /\ \E o \in Outcomes : ~Recovered(o) /\ Compacted(o)
  /\ Stop("incomplete")

(* appendDeferredImages: each image is shown, or an error takes its place, or
   the append fails, which is warned about.  What is shown goes on. *)
AppendDeferredImages(compacted, n) ==
  \E fate \in [deferredScratchpadIDs -> {"shown", "error", "unwritten"}] :
    LET written == \E i \in deferredScratchpadIDs : fate[i] # "unwritten" IN
    /\ tail' = IF written THEN "user" ELSE compacted
    /\ size' \in IF written THEN n .. MaxSize ELSE {n}
    /\ IF \E i \in deferredScratchpadIDs : fate[i] = "shown"
       THEN Continue("image") /\ UNCHANGED hook
       ELSE Done("complete") /\ UNCHANGED countVars /\ FireEndOfTurnHooks(FALSE)
    /\ promised' = promised \ deferredScratchpadIDs

(* With or without a bail: the images go behind what compaction leaves. *)
ContinueWithImages ==
  /\ MayContinue /\ HasDeferredImages
  /\ \E o \in IF tracker.bailed THEN {x \in Outcomes : Recovered(x)} ELSE PostTurnOutcomes :
       memNew' = (memNew \/ o.mem) /\ AppendDeferredImages(o.tail, o.size)

(* The sentinel is written, or the turn stops aloud. *)
PersistSentinel(why, compacted) ==
  \/ tail' = "user" /\ Continue(why) /\ UNCHANGED promised
  \/ tail' \in {compacted, "user"} /\ Done("incomplete") /\ UNCHANGED <<countVars, promised>>

(* Mutant: the sentinel is forgotten. *)
ContinueAfterBail_NoSentinel ==
  /\ MayContinue /\ tracker.bailed /\ ~HasDeferredImages
  /\ \E o \in Outcomes : Recovered(o) /\ Compacted(o)
  /\ Continue("bail") /\ UNCHANGED <<promised, hook>>

ContinueAfterBail ==
  /\ MayContinue /\ tracker.bailed /\ ~HasDeferredImages
  /\ \E o \in Outcomes :
       /\ Recovered(o)
       /\ size' = o.size /\ memNew' = (memNew \/ o.mem)
       /\ PersistSentinel("bail", o.tail)
  /\ IF pc' = "done" THEN FireEndOfTurnHooks(FALSE) ELSE UNCHANGED hook

(* Mutant: image continuations count against what the hook is told. *)
CanContinue_CountsImages == continuationCount + imageContinuationCount < GeneralCap

(* What the payload of the end-of-turn hooks says. *)
CanContinue == ~cfg.disabled /\ continuationCount < GeneralCap

(* A turn that ends on its own.  A hook may ask for another iteration. *)
CompleteTurn ==
  /\ MayContinue /\ ~tracker.bailed /\ ~HasDeferredImages
  /\ \E o \in PostTurnOutcomes :
       /\ size' = o.size /\ memNew' = (memNew \/ o.mem)
       /\ \/ tail' = o.tail /\ Done("complete") /\ UNCHANGED <<countVars, promised>>
          \/ /\ continuationCount >= GeneralCap
             /\ tail' = o.tail /\ Done("incomplete") /\ UNCHANGED <<countVars, promised>>
          \/ continuationCount < GeneralCap /\ PersistSentinel("hook", o.tail)
  /\ FireEndOfTurnHooks(CanContinue)

-----------------------------------------------------------------------------
ModelStep ==
  BreakerAnswers \/ BudgetAnswers \/ ImageAnswers \/ LimitAnswers \/ CallModel

ToolStep == ToolSucceeds \/ DeferImage \/ ToolFails \/ ToolsAnswered

Decide ==
  \/ EmptyResponse \/ StopReinflated \/ StopDisabled \/ StopOverLimit \/ StopNotRecovered
  \/ ContinueWithImages \/ ContinueAfterBail \/ CompleteTurn

Step ==
  \/ BeginTurn \/ RefuseTurn \/ StartIteration
  \/ ModelStep \/ ToolStep \/ Decide

Next == Step \/ RunnerFails \/ NoticeCancel \/ ConsumerLeaves

Spec == Init /\ [][Next]_vars

(***************************************************************************)
(* Fairness: the goroutine of the turn goes on.  Model calls and tools     *)
(* return, because a level's deadline and the command timeout end them.    *)
(* No error, no cancel and no consumer that leaves is counted on.          *)
(***************************************************************************)
FairSpec == Spec /\ WF_vars(Step)

-----------------------------------------------------------------------------
(* Properties. *)

AtLeastZero(n) == IF n < 0 THEN 0 ELSE n

(***************************************************************************)
(* One message of a user buys a bounded amount of work: the continuations  *)
(* of both budgets, and in each iteration a bounded number of tool rounds, *)
(* whatever model, tools and hooks ask for (agent_folder.go:1160-1163:     *)
(* "cannot loop past MaxAutoContinuations"; adk_agent.go:650).             *)
(***************************************************************************)
BudgetsHold ==
  /\ iterations <= 1 + AtLeastZero(GeneralCap) + AtLeastZero(ImageCap)
  /\ batch > 0 => tracker.calls <= MaxToolTurns + 1

(***************************************************************************)
(* An iteration that the harness starts by itself has something to answer: *)
(* the session ends on a turn of the user, whatever compaction left        *)
(* (generateGuardError, agent_folder.go:1187).                             *)
(***************************************************************************)
ContinuesOnUser ==
  lastContinuationReason # "none" /\ (pc = "top" \/ (pc = "model" /\ tracker.calls = 0))
    => tail = "user"

(***************************************************************************)
(* After a bail the loop starts over only within the budget it bailed out  *)
(* of (agent_folder.go:935: "stopped" and "recovered" agree).              *)
(***************************************************************************)
BailRecovers ==
  pc = "top" /\ lastContinuationReason = "bail" /\ Budget > 0 => size < Budget

(***************************************************************************)
(* An image that a tool promised for the next turn is there when the next  *)
(* iteration starts, or an error in its place, or its append was tried and *)
(* failed; and a turn does not call itself complete with the promise open  *)
(* (tools_scratchpad.go:127), if the level that runs takes images as       *)
(* runtime.json says and may go on by itself.                              *)
(***************************************************************************)
ImagesAnswered ==
  cfg.accepts = cfg.defers /\ ~cfg.disabled /\ (pc = "top" \/ result = "complete")
    => promised = {}

(***************************************************************************)
(* The breaker trips on a run of failures that no success interrupts, and  *)
(* a model that repeats one failing call is always caught, however the     *)
(* reports of concurrent calls interleave (adk_agent.go:79-81).            *)
(***************************************************************************)
Stuck ==
  LET n == Len(fails) IN
  /\ n >= FailureBreakerThreshold
  /\ \A i \in 0 .. FailureBreakerThreshold - 1 : fails[n - i] = fails[n]

BreakerIsExact ==
  /\ tracker.tripped => Len(fails) >= FailureBreakerThreshold
  /\ Stuck => tracker.tripped

(***************************************************************************)
(* A hook that was told it cannot continue the turn is not the reason of   *)
(* the next iteration: it may have consumed a notification for nothing     *)
(* (hooks.go:627-631).                                                     *)
(***************************************************************************)
HookIsToldTheTruth ==
  pc = "top" /\ lastContinuationReason = "hook" => hook.can

(* Every turn ends, whatever the model, the tools and the hooks do. *)
TurnEnds == <>(pc = "done")

(***************************************************************************)
(* What adk_agent.go:458 says: "when a sink is provided, every real tool   *)
(* invocation emits a tool_call announce".                                 *)
(***************************************************************************)
EveryToolAnnounced == batch > 0 => sink

(***************************************************************************)
(* A further iteration is one the harness had grounds for: after a bail it *)
(* is within the budget it bailed out of, and a hook that started it was   *)
(* told that it could (agent_folder.go:935, hooks.go:627-631).             *)
(***************************************************************************)
ContinuationSound == BailRecovers /\ HookIsToldTheTruth
=============================================================================
