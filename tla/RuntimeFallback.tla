-------------------------- MODULE RuntimeFallback --------------------------
(***************************************************************************)
(* The walk of one turn over its chain of runtime backends (sdk.go,        *)
(* runTurnWithRuntimeFallback).                                            *)
(*                                                                         *)
(* Each level's stream runs in a goroutine of its own and hands its items  *)
(* over through a bounded channel; the walk selects between the channel    *)
(* and the context of the level, which ends at the level's deadline, with  *)
(* the turn's context, or when the walk returns.  A stream may ignore that *)
(* its context is done.                                                    *)
(***************************************************************************)
EXTENDS Naturals, Sequences, FiniteSets

CONSTANTS ChainLen,    \* length of the chain: the primary and its fallbacks
          Backends,    \* endpoint/model pairs
          BackendOf,   \* the backend of each level
          Cap,         \* capacity of the items channel
          MaxItems,    \* bound: chunks a stream produces
          MaxMarks     \* bound: failed-until windows opened by other turns

Levels == 1 .. ChainLen

ASSUME RuntimeFallbackAssumption ==
  /\ {ChainLen, Cap} \subseteq Nat \ {0}
  /\ {MaxItems, MaxMarks} \subseteq Nat
  /\ BackendOf \in [Levels -> Backends]

VARIABLES
  failed,       \* backends inside their failed-until window, process-wide
  marks,        \* how often another turn opened such a window
  turnCtx,      \* the context of the turn
  levelCtx,     \* the context of each level
  stream,       \* the goroutine of each level's stream
  items,        \* the channel of each level
  made,         \* how many chunks each stream produced
  cut,          \* ghost: levels whose stream ended because of its context
  wpc,          \* where the walk is
  level,        \* the level it is at
  spoken,       \* yieldedText: this level has yielded text
  lastErr,      \* the last error a level ended with
  terminalErr,  \* the error the turn ended with, for the completion hook
  attempted,    \* a level's stream was started
  sawBudget,    \* the budget notice was yielded
  yielded,      \* what the consumer was given: chunks with their level
  result,       \* how the consumer saw the turn end
  hook          \* the completion events that were fired

ctxVars == <<turnCtx, levelCtx>>
streamVars == <<stream, items, made, cut>>
windowVars == <<failed, marks>>
endVars == <<terminalErr, result, hook>>
walkVars == <<wpc, level, spoken, lastErr, attempted, sawBudget, yielded>>
vars == <<failed, marks, turnCtx, levelCtx, stream, items, made, cut, wpc, level,
          spoken, lastErr, terminalErr, attempted, sawBudget, yielded, result, hook>>

-----------------------------------------------------------------------------
(* Items are chunks, with or without text, or the error a stream ends with:
   a transport failure, a 429 with a reset hint, an authentication failure,
   a usage limit that reads like none of these, or its context's error. *)
Chunks == {"text", "budget", "empty"}
StreamErrors == {"transport", "quota", "auth", "usage", "context"}
Spoken == {"text", "budget"}

(* IsQualifyingFallbackError and ParseQuotaResetHint. *)
Qualifying == {"transport", "quota", "watchdog"}
Hinted == {"quota", "usage"}

Errors == StreamErrors \cup {"watchdog", "none"}
Results == Errors \cup {"ok", "stopped", "load", "exhausted"}
Reasons == {"completed", "budget_exhausted", "cancelled", "consumer_stopped",
            "watchdog", "stream_error"}

TypeOK ==
  /\ failed \subseteq Backends /\ marks \in Nat
  /\ turnCtx \in {"open", "cancelled", "expired"}
  /\ levelCtx \in [Levels -> {"none", "open", "cancelled", "expired"}]
  /\ stream \in [Levels -> {"none", "running", "ended"}]
  /\ items \in [Levels -> Seq(Chunks \cup StreamErrors)]
  /\ \A l \in Levels : Len(items[l]) <= Cap
  /\ made \in [Levels -> Nat]
  /\ cut \subseteq Levels
  /\ wpc \in {"next", "select", "done"}
  /\ level \in 1 .. ChainLen + 1
  /\ spoken \in BOOLEAN /\ attempted \in BOOLEAN /\ sawBudget \in BOOLEAN
  /\ lastErr \in Errors /\ terminalErr \in Errors
  /\ yielded \in Seq([level : Levels, chunk : Chunks])
  /\ result \in Results
  /\ hook \in Seq(Reasons)

Init ==
  /\ failed = {} /\ marks = 0
  /\ turnCtx = "open" /\ levelCtx = [l \in Levels |-> "none"]
  /\ stream = [l \in Levels |-> "none"]
  /\ items = [l \in Levels |-> <<>>] /\ made = [l \in Levels |-> 0]
  /\ cut = {}
  /\ wpc = "next" /\ level = 1
  /\ spoken = FALSE /\ attempted = FALSE /\ sawBudget = FALSE
  /\ lastErr = "none" /\ terminalErr = "none"
  /\ yielded = <<>> /\ result = "none" /\ hook = <<>>

-----------------------------------------------------------------------------
(* Returning: the deferred cancels of all levels, then the completion event. *)

(* Mutant: the terminal error of the turn does not reach the hook. *)
Reason_NoTerminal(terminal, stopped) ==
  IF turnCtx # "open" THEN "cancelled"
  ELSE IF stopped THEN "consumer_stopped"
  ELSE IF sawBudget THEN "budget_exhausted" ELSE "completed"

(* turnCompletionReason: the context first, then the terminal error. *)
Reason(terminal, stopped) ==
  IF turnCtx # "open" THEN "cancelled"
  ELSE IF stopped THEN "consumer_stopped"
  ELSE IF terminal = "watchdog" THEN "watchdog"
  ELSE IF terminal # "none" THEN "stream_error"
  ELSE IF sawBudget THEN "budget_exhausted" ELSE "completed"

Complete(terminal, stopped) ==
  hook' = IF attempted THEN Append(hook, Reason(terminal, stopped)) ELSE hook

(* Mutant: no deferred cancel of the levels. *)
Return_NoCancel(res, terminal) ==
  /\ wpc' = "done" /\ result' = res /\ terminalErr' = terminal
  /\ Complete(terminal, res = "stopped")
  /\ UNCHANGED <<ctxVars, level>>

Return(res, terminal) ==
  /\ wpc' = "done" /\ result' = res /\ terminalErr' = terminal
  /\ levelCtx' = [l \in Levels |-> IF levelCtx[l] = "open" THEN "cancelled" ELSE levelCtx[l]]
  /\ Complete(terminal, res = "stopped")
  /\ UNCHANGED <<turnCtx, level>>

-----------------------------------------------------------------------------
(* Setting up a level. *)

AtLevel == wpc = "next" /\ level \in Levels

(* A backend inside its failed-until window is skipped. *)
Skip ==
  /\ AtLevel /\ BackendOf[level] \in failed
  /\ level' = level + 1
  /\ UNCHANGED <<windowVars, ctxVars, streamVars, endVars, wpc, spoken, lastErr,
                 attempted, sawBudget, yielded>>

(* A fallback is loaded again from its own configuration. *)
LoadFails ==
  /\ AtLevel /\ BackendOf[level] \notin failed /\ level > 1
  /\ Return("load", terminalErr)
  /\ UNCHANGED <<windowVars, streamVars, spoken, lastErr, attempted, sawBudget, yielded>>

Attempt ==
  /\ AtLevel /\ BackendOf[level] \notin failed
  /\ wpc' = "select"
  /\ attempted' = TRUE /\ spoken' = FALSE
  /\ levelCtx' = [levelCtx EXCEPT ![level] = turnCtx]
  /\ stream' = [stream EXCEPT ![level] = "running"]
  /\ UNCHANGED <<windowVars, turnCtx, items, made, cut, endVars, level, lastErr,
                 sawBudget, yielded>>

(* Behind the last level: every backend failed or was skipped. *)
Exhausted ==
  /\ wpc = "next" /\ level > ChainLen
  /\ Return(IF turnCtx # "open" THEN "context" ELSE "exhausted", terminalErr)
  /\ UNCHANGED <<windowVars, streamVars, spoken, lastErr, attempted, sawBudget, yielded>>

-----------------------------------------------------------------------------
(* The goroutine of a level's stream. *)

(* Mutant: a send that does not wait for room in the channel. *)
Room_Unbounded(l) == stream[l] = "running"

Room(l) == stream[l] = "running" /\ Len(items[l]) < Cap

Produce(l) ==
  /\ Room(l) /\ made[l] < MaxItems
  /\ made' = [made EXCEPT ![l] = @ + 1]
  /\ \E c \in Chunks : items' = [items EXCEPT ![l] = Append(@, c)]
  /\ UNCHANGED <<windowVars, ctxVars, stream, cut, endVars, walkVars>>

(* The stream ends with an error; a stream that heeds its context ends with
   the context's error. *)
Fail(l) ==
  /\ Room(l)
  /\ \E e \in StreamErrors :
       /\ e = "context" => levelCtx[l] # "open"
       /\ items' = [items EXCEPT ![l] = Append(@, e)]
       /\ cut' = IF e = "context" THEN cut \cup {l} ELSE cut
  /\ stream' = [stream EXCEPT ![l] = "ended"]
  /\ UNCHANGED <<windowVars, ctxVars, made, endVars, walkVars>>

Finish(l) ==
  /\ stream[l] = "running"
  /\ stream' = [stream EXCEPT ![l] = "ended"]
  /\ UNCHANGED <<windowVars, ctxVars, items, made, cut, endVars, walkVars>>

(* The send selects on the context too: what was to be sent is dropped, and
   the channel is closed. *)
Drop(l) ==
  /\ stream[l] = "running" /\ levelCtx[l] # "open"
  /\ stream' = [stream EXCEPT ![l] = "ended"]
  /\ cut' = cut \cup {l}
  /\ UNCHANGED <<windowVars, ctxVars, items, made, endVars, walkVars>>

-----------------------------------------------------------------------------
(* The select of the walk.  Go takes any case that is ready. *)

Selecting == wpc = "select"

(* Mutant: a qualifying error descends although text was yielded. *)
Ended_AfterText(err) ==
  /\ lastErr' = err
  /\ IF err \in Qualifying /\ level < ChainLen
     THEN /\ wpc' = "next" /\ level' = level + 1
          /\ UNCHANGED <<ctxVars, endVars>>
     ELSE Return(err, err)

(* A level ended with an error: descend, if the error qualifies and nothing
   was said and there is a next level, or give up with it. *)
Ended(err) ==
  /\ lastErr' = err
  /\ IF ~spoken /\ err \in Qualifying /\ level < ChainLen
     THEN /\ wpc' = "next" /\ level' = level + 1
          /\ UNCHANGED <<ctxVars, endVars>>
     ELSE Return(err, err)

(* Mutant: the walk only listens to the channel. *)
LevelDone_Ignored == FALSE /\ UNCHANGED vars

(* levelCtx.Done: the watchdog, or the end of the turn's context. *)
LevelDone ==
  /\ Selecting /\ levelCtx[level] # "open"
  /\ Ended(IF levelCtx[level] = "expired" THEN "watchdog" ELSE "context")
  /\ UNCHANGED <<windowVars, streamVars, spoken, attempted, sawBudget, yielded>>

Take == items' = [items EXCEPT ![level] = Tail(@)]

(* An error item.  After the deadline it is named for the watchdog. *)
ReceiveError ==
  /\ Selecting /\ items[level] # <<>> /\ Head(items[level]) \in StreamErrors
  /\ Take
  /\ LET err == IF levelCtx[level] = "expired" THEN "watchdog" ELSE Head(items[level])
     IN  /\ failed' = IF err \in Hinted THEN failed \cup {BackendOf[level]} ELSE failed
         /\ Ended(err)
  /\ UNCHANGED <<marks, stream, made, cut, spoken, attempted, sawBudget, yielded>>

(* A chunk is yielded; the consumer goes on or breaks off. *)
ReceiveChunk ==
  /\ Selecting /\ items[level] # <<>> /\ Head(items[level]) \in Chunks
  /\ Take
  /\ LET c == Head(items[level]) IN
       /\ spoken' = (spoken \/ c \in Spoken)
       /\ sawBudget' = (sawBudget \/ c = "budget")
       /\ yielded' = Append(yielded, [level |-> level, chunk |-> c])
  /\ \/ UNCHANGED <<ctxVars, endVars, wpc, level>>
     \/ Return("stopped", terminalErr)
  /\ UNCHANGED <<windowVars, stream, made, cut, lastErr, attempted>>

(* The channel is closed: the turn completed on this level. *)
Completed ==
  /\ Selecting /\ items[level] = <<>> /\ stream[level] = "ended"
  /\ Return("ok", terminalErr)
  /\ UNCHANGED <<windowVars, streamVars, spoken, lastErr, attempted, sawBudget, yielded>>

-----------------------------------------------------------------------------
(* The world around the walk. *)

(* CancelTurn or the caller, or the caller's own deadline. *)
EndTurnCtx ==
  /\ turnCtx = "open" /\ wpc # "done"
  /\ turnCtx' \in {"cancelled", "expired"}
  /\ levelCtx' = [l \in Levels |-> IF levelCtx[l] = "open" THEN turnCtx' ELSE levelCtx[l]]
  /\ UNCHANGED <<windowVars, streamVars, endVars, walkVars>>

Deadline(l) ==
  /\ levelCtx[l] = "open"
  /\ levelCtx' = [levelCtx EXCEPT ![l] = "expired"]
  /\ UNCHANGED <<windowVars, turnCtx, streamVars, endVars, walkVars>>

(* Another turn, or a compaction, of the same process. *)
MarkElsewhere(b) ==
  /\ marks < MaxMarks /\ b \notin failed
  /\ marks' = marks + 1 /\ failed' = failed \cup {b}
  /\ UNCHANGED <<ctxVars, streamVars, endVars, walkVars>>

WindowCloses(b) ==
  /\ b \in failed /\ failed' = failed \ {b}
  /\ UNCHANGED <<marks, ctxVars, streamVars, endVars, walkVars>>

-----------------------------------------------------------------------------
Walk ==
  Skip \/ LoadFails \/ Attempt \/ Exhausted \/ LevelDone \/ ReceiveError
  \/ ReceiveChunk \/ Completed

Streaming(l) == Produce(l) \/ Fail(l) \/ Finish(l) \/ Drop(l)

Next ==
  \/ Walk
  \/ \E l \in Levels : Streaming(l) \/ Deadline(l)
  \/ EndTurnCtx
  \/ \E b \in Backends : MarkElsewhere(b) \/ WindowCloses(b)

Spec == Init /\ [][Next]_vars

(***************************************************************************)
(* Fairness: the walk takes a case that is ready, and timers fire.  The    *)
(* consumer's yield returns.  Nothing is asked of the streams, which may   *)
(* hang for ever.                                                          *)
(***************************************************************************)
FairSpec == Spec /\ WF_vars(Walk) /\ \A l \in Levels : WF_vars(Deadline(l))

-----------------------------------------------------------------------------
(* Properties. *)

(***************************************************************************)
(* No frankenstein output: all text the consumer is given comes from one   *)
(* backend (sdk.go:413-415).                                               *)
(***************************************************************************)
OneBackendSpeaks ==
  \A i, j \in DOMAIN yielded :
    yielded[i].chunk \in Spoken /\ yielded[j].chunk \in Spoken
      => yielded[i].level = yielded[j].level

(***************************************************************************)
(* A stream that is left behind was told to end: when the walk has gone to *)
(* another level or has returned, no other stream has an open context      *)
(* (sdk.go:506-509).                                                       *)
(***************************************************************************)
LeftBehindIsCancelled ==
  \A l \in Levels :
    stream[l] = "running" /\ (wpc # "select" \/ l # level) => levelCtx[l] # "open"

(***************************************************************************)
(* The completion hook fires once for a turn that ran and never for one    *)
(* that did not, and an error a level ended with is reported as a failure  *)
(* (sdk.go:436-447).                                                       *)
(***************************************************************************)
FailureReported ==
  wpc = "done" =>
    /\ Len(hook) = IF attempted THEN 1 ELSE 0
    /\ result \in Errors \cup {"stopped"} /\ attempted =>
         hook[1] \notin {"completed", "budget_exhausted"}

(***************************************************************************)
(* The walk ends, and with it the hold of the session lock, although every *)
(* stream may hang and ignore its context (sdk.go:420-424, 502-509).       *)
(***************************************************************************)
WalkEnds == <>(wpc = "done")

(***************************************************************************)
(* What sdk.go:504-506 says of the watchdog: the deadline wins and fails   *)
(* the level with a named error, so a turn whose stream was cut off by the *)
(* deadline does not end as a completed one.                               *)
(***************************************************************************)
CutIsLoud == result = "ok" /\ turnCtx = "open" => level \notin cut

(***************************************************************************)
(* What hooks.go:723-730 says of the completion events: turn-completed is  *)
(* for a turn without an error, turn-failed for one that surfaced one.     *)
(***************************************************************************)
CompletionHonest ==
  wpc = "done" /\ hook # <<>> /\ hook[1] \in {"completed", "budget_exhausted"} => result = "ok"

(***************************************************************************)
(* The backends of a chain are kept apart: their text is never mixed in    *)
(* one turn, and a stream that was given up is told to end                 *)
(* (sdk.go:413-415, 506-509).                                              *)
(***************************************************************************)
BackendsKeptApart == OneBackendSpeaks /\ LeftBehindIsCancelled
=============================================================================
