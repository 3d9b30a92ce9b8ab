---------------------- MODULE PromptsAndRuntime_proofs ----------------------
(***************************************************************************)
(* Safety of the walk of one turn down the fallback chain, for chains of    *)
(* any length, any assignment of backends to levels and any channel         *)
(* capacity; and of the calls that put something into a session, one of     *)
(* whose turns the walk is, for any commands, agents, set-ups, scripts,     *)
(* messages and caps.                                                       *)
(*                                                                         *)
(* For the calls, PromptsInv says at which stage of a call its message is   *)
(* in the session, where the hook variables of a message are until they     *)
(* are rendered, and that a chain has run the first of its scripts in       *)
(* their order and holds what they gave.                                    *)
(***************************************************************************)
EXTENDS RuntimeFallback, Prompts, FiniteSetTheorems, SequenceTheorems, NaturalsInduction,
        WellFoundedInduction, TLAPS

-----------------------------------------------------------------------------
(* The walk. *)

(* Levels the walk has not reached have neither a stream nor items. *)
FreshInv ==
  \A l \in Levels : l > level \/ (l = level /\ wpc = "next") =>
    stream[l] = "none" /\ items[l] = <<>>

(* Only the skips of the last levels lead behind the chain. *)
LevelInv == wpc = "select" => level \in Levels

(* An error is the last thing a stream sends. *)
ItemsInv ==
  \A l \in Levels : \A i \in DOMAIN items[l] :
    items[l][i] \in StreamErrors => stream[l] = "ended"

(* Text was yielded at the present level only, and spoken says so. *)
TextInv ==
  \A i \in DOMAIN yielded :
    yielded[i].chunk \in Spoken => spoken /\ wpc # "next" /\ yielded[i].level = level

(* The deferred hook has not run before the walk returns. *)
HookInv == wpc # "done" => hook = <<>>

IInv ==
  TypeOK /\ FreshInv /\ LevelInv /\ ItemsInv /\ TextInv /\ HookInv
  /\ LeftBehindIsCancelled /\ FailureReported

-----------------------------------------------------------------------------
LEMMA ConstantsAre == ChainLen \in Nat \ {0} /\ Cap \in Nat \ {0}
  BY RuntimeFallbackAssumption

LEMMA InitIInv == Init => IInv
<1> SUFFICES ASSUME Init PROVE IInv
  OBVIOUS
<1> USE ConstantsAre DEF Init, Levels
<1>1. TypeOK
  <2>1. /\ level \in 1 .. ChainLen + 1
        /\ \A l \in Levels : Len(items[l]) <= Cap
    OBVIOUS
  <2>2. items \in [Levels -> Seq(Chunks \cup StreamErrors)] /\ made \in [Levels -> Nat]
    OBVIOUS
  <2>3. yielded \in Seq([level : Levels, chunk : Chunks]) /\ hook \in Seq(Reasons)
    OBVIOUS
  <2> QED
    BY <2>1, <2>2, <2>3 DEF TypeOK, Errors, Results
<1>2. FreshInv /\ LevelInv /\ ItemsInv /\ TextInv /\ HookInv
  BY DEF FreshInv, LevelInv, ItemsInv, TextInv, HookInv
<1>3. LeftBehindIsCancelled /\ FailureReported
  BY DEF LeftBehindIsCancelled, FailureReported
<1> QED
  BY <1>1, <1>2, <1>3 DEF IInv

(* What the deferred calls of a return establish. *)
LEMMA ReturnIs ==
  ASSUME IInv, wpc # "done",
         NEW res \in Results, NEW terminal \in Errors, Return(res, terminal),
         res \in Errors => (terminal # "none" \/ turnCtx # "open"),
         attempted' = attempted
  PROVE  /\ wpc' = "done" /\ level' = level /\ turnCtx' = turnCtx
         /\ result' \in Results /\ terminalErr' \in Errors
         /\ hook' \in Seq(Reasons)
         /\ levelCtx' \in [Levels -> {"none", "open", "cancelled", "expired"}]
         /\ \A l \in Levels : levelCtx'[l] # "open"
         /\ FailureReported'
<1> DEFINE reason == Reason(terminal, res = "stopped")
<1>1. /\ reason \in Reasons
      /\ res \in Errors \cup {"stopped"} => reason \notin {"completed", "budget_exhausted"}
  BY DEF Reason, Reasons, Errors, StreamErrors
<1>2. hook = <<>> /\ attempted \in BOOLEAN
  BY DEF IInv, HookInv, TypeOK
<1>3. hook' = IF attempted THEN Append(hook, reason) ELSE hook
  BY DEF Return, Complete
<1> HIDE DEF reason
<1>4. hook' = IF attempted THEN <<reason>> ELSE <<>>
  BY <1>2, <1>3
<1>5. hook' \in Seq(Reasons)
  BY <1>1, <1>2, <1>4
<1>6. result' = res
  BY DEF Return
<1>7. FailureReported'
  BY <1>1, <1>2, <1>4, <1>6 DEF FailureReported
<1>8. /\ levelCtx' \in [Levels -> {"none", "open", "cancelled", "expired"}]
      /\ \A l \in Levels : levelCtx'[l] # "open"
  BY DEF Return, IInv, TypeOK
<1> QED
  BY <1>5, <1>7, <1>8 DEF Return

LEMMA Numbers == IInv => level \in Nat /\ \A l \in Levels : l \in Nat
  BY ConstantsAre DEF IInv, TypeOK, Levels

-----------------------------------------------------------------------------
(* Any step that returns with the streams and the yielded text as they are,
   or with one item taken from a channel. *)
LEMMA ReturnPreserves ==
  ASSUME IInv, wpc # "done",
         NEW res \in Results, NEW terminal \in Errors, Return(res, terminal),
         res \in Errors => (terminal # "none" \/ turnCtx # "open"),
         UNCHANGED <<marks, stream, made, cut, attempted>>,
         failed' \subseteq Backends,
         sawBudget' \in BOOLEAN, spoken' \in BOOLEAN, lastErr' \in Errors,
         TextInv', FreshInv', ItemsInv',
         items' \in [Levels -> Seq(Chunks \cup StreamErrors)],
         \A l \in Levels : Len(items'[l]) <= Cap,
         yielded' \in Seq([level : Levels, chunk : Chunks])
  PROVE  IInv'
<1>1. /\ wpc' = "done" /\ level' = level /\ turnCtx' = turnCtx
      /\ result' \in Results /\ terminalErr' \in Errors
      /\ hook' \in Seq(Reasons)
      /\ levelCtx' \in [Levels -> {"none", "open", "cancelled", "expired"}]
      /\ \A l \in Levels : levelCtx'[l] # "open"
      /\ FailureReported'
  BY ReturnIs
<1>2. TypeOK'
  BY <1>1 DEF IInv, TypeOK
<1>3. HookInv' /\ LevelInv' /\ LeftBehindIsCancelled'
  BY <1>1 DEF HookInv, LevelInv, LeftBehindIsCancelled
<1> QED
  BY <1>1, <1>2, <1>3 DEF IInv

LEMMA SkipPreserves == IInv /\ Skip => IInv'
<1> SUFFICES ASSUME IInv, Skip PROVE IInv'
  OBVIOUS
<1> USE ConstantsAre
    DEF IInv, Skip, AtLevel, windowVars, ctxVars, streamVars, endVars, Levels
<1>1. TypeOK'
  <2>1. level' \in 1 .. ChainLen + 1
    BY DEF TypeOK
  <2>2. /\ UNCHANGED <<failed, marks, turnCtx, levelCtx, stream, items, made, cut, wpc, spoken>>
        /\ UNCHANGED <<attempted, sawBudget, yielded, result, hook>>
    OBVIOUS
  <2>3. lastErr' \in Errors /\ terminalErr' \in Errors
    BY DEF TypeOK
  <2> QED
    BY <2>1, <2>2, <2>3 DEF TypeOK
<1>2. FreshInv'
  <2>1. level' = level + 1 /\ UNCHANGED <<stream, items, wpc>>
    OBVIOUS
  <2> QED
    BY <2>1, Numbers DEF FreshInv
<1>3. LevelInv' /\ ItemsInv' /\ TextInv' /\ HookInv'
  BY DEF LevelInv, ItemsInv, TextInv, HookInv
<1>4. LeftBehindIsCancelled'
  BY DEF LeftBehindIsCancelled
<1>5. FailureReported'
  BY DEF FailureReported
<1> QED
  BY <1>1, <1>2, <1>3, <1>4, <1>5

LEMMA AttemptPreserves == IInv /\ Attempt => IInv'
<1> SUFFICES ASSUME IInv, Attempt PROVE IInv'
  OBVIOUS
<1> USE DEF IInv, Attempt, AtLevel, windowVars, endVars
<1>1. TypeOK'
  BY DEF TypeOK
<1>2. FreshInv'
  <2>1. \A l \in Levels : l > level => stream'[l] = stream[l] /\ items'[l] = items[l]
    BY Numbers DEF TypeOK
  <2>2. level' = level /\ wpc' # "next"
    OBVIOUS
  <2> QED
    BY <2>1, <2>2 DEF FreshInv
<1>3. ItemsInv'
  BY DEF ItemsInv, FreshInv, TypeOK
<1>4. LevelInv' /\ TextInv' /\ HookInv'
  BY DEF LevelInv, TextInv, HookInv
<1>5. LeftBehindIsCancelled'
  BY DEF LeftBehindIsCancelled, TypeOK
<1>6. FailureReported'
  BY DEF FailureReported
<1> QED
  BY <1>1, <1>2, <1>3, <1>4, <1>5, <1>6

LEMMA LoadFailsPreserves == IInv /\ LoadFails => IInv'
<1> SUFFICES ASSUME IInv, LoadFails PROVE IInv'
  OBVIOUS
<1> USE DEF LoadFails, AtLevel, windowVars, streamVars
<1>1. /\ "load" \in Results /\ terminalErr \in Errors /\ "load" \notin Errors
      /\ failed' \subseteq Backends /\ Return("load", terminalErr) /\ wpc # "done"
      /\ sawBudget' \in BOOLEAN /\ spoken' \in BOOLEAN /\ lastErr' \in Errors
      /\ items' \in [Levels -> Seq(Chunks \cup StreamErrors)]
      /\ \A l \in Levels : Len(items'[l]) <= Cap
      /\ yielded' \in Seq([level : Levels, chunk : Chunks])
  BY DEF IInv, TypeOK, Results, Errors, StreamErrors
<1>2. FreshInv' /\ ItemsInv' /\ TextInv'
  BY DEF IInv, FreshInv, ItemsInv, TextInv, Return
<1> QED
  BY <1>1, <1>2, ReturnPreserves

LEMMA ExhaustedPreserves == IInv /\ Exhausted => IInv'
<1> SUFFICES ASSUME IInv, Exhausted PROVE IInv'
  OBVIOUS
<1> DEFINE res == IF turnCtx # "open" THEN "context" ELSE "exhausted"
<1> USE DEF Exhausted, windowVars, streamVars
<1>1. /\ res \in Results /\ terminalErr \in Errors
      /\ res \in Errors => turnCtx # "open"
      /\ failed' \subseteq Backends /\ Return(res, terminalErr) /\ wpc # "done"
      /\ sawBudget' \in BOOLEAN /\ spoken' \in BOOLEAN /\ lastErr' \in Errors
      /\ items' \in [Levels -> Seq(Chunks \cup StreamErrors)]
      /\ \A l \in Levels : Len(items'[l]) <= Cap
      /\ yielded' \in Seq([level : Levels, chunk : Chunks])
  BY DEF IInv, TypeOK, Results, Errors, StreamErrors
<1>2. FreshInv' /\ ItemsInv' /\ TextInv'
  BY DEF IInv, FreshInv, ItemsInv, TextInv, Return
<1> HIDE DEF res
<1> QED
  BY <1>1, <1>2, ReturnPreserves

LEMMA CompletedPreserves == IInv /\ Completed => IInv'
<1> SUFFICES ASSUME IInv, Completed PROVE IInv'
  OBVIOUS
<1> USE DEF Completed, Selecting, windowVars, streamVars
<1>1. /\ "ok" \in Results /\ terminalErr \in Errors /\ "ok" \notin Errors
      /\ failed' \subseteq Backends /\ Return("ok", terminalErr) /\ wpc # "done"
      /\ sawBudget' \in BOOLEAN /\ spoken' \in BOOLEAN /\ lastErr' \in Errors
      /\ items' \in [Levels -> Seq(Chunks \cup StreamErrors)]
      /\ \A l \in Levels : Len(items'[l]) <= Cap
      /\ yielded' \in Seq([level : Levels, chunk : Chunks])
  BY DEF IInv, TypeOK, Results, Errors, StreamErrors
<1>2. FreshInv' /\ ItemsInv' /\ TextInv'
  BY DEF IInv, FreshInv, ItemsInv, TextInv, Return
<1> QED
  BY <1>1, <1>2, ReturnPreserves

-----------------------------------------------------------------------------
(* A level that ended with an error: the walk descends or returns.  Its own
   stream has ended or was told to. *)
LEMMA EndedPreserves ==
  ASSUME IInv, Selecting, NEW err \in Errors, err # "none", Ended(err),
         UNCHANGED <<marks, stream, made, cut, attempted, spoken, sawBudget, yielded>>,
         failed' \subseteq Backends,
         stream[level] = "running" => levelCtx[level] # "open",
         ItemsInv', \A l \in Levels : l > level => items'[l] = items[l],
         items' \in [Levels -> Seq(Chunks \cup StreamErrors)],
         \A l \in Levels : Len(items'[l]) <= Cap
  PROVE  IInv'
<1>1. level \in Levels /\ level \in 1 .. ChainLen + 1 /\ wpc = "select"
  BY DEF IInv, LevelInv, TypeOK, Selecting
<1>2. CASE ~spoken /\ err \in Qualifying /\ level < ChainLen
  <2>1. /\ wpc' = "next" /\ level' = level + 1 /\ lastErr' = err
        /\ UNCHANGED <<ctxVars, endVars>>
    BY <1>2 DEF Ended
  <2> USE <1>1, <2>1 DEF IInv, ctxVars, endVars
  <2>2. TypeOK'
    <3>1. level' \in 1 .. ChainLen + 1
      BY <1>2, ConstantsAre
    <3> QED
      BY <3>1 DEF TypeOK
  <2>3. FreshInv'
    <3>1. \A l \in Levels : l >= level' => l > level
      BY Numbers
    <3> QED
      BY <3>1, Numbers DEF FreshInv
  <2>4. LevelInv' /\ HookInv'
    BY DEF LevelInv, HookInv
  <2>5. TextInv'
    BY <1>2 DEF TextInv
  <2>6. LeftBehindIsCancelled'
    BY DEF LeftBehindIsCancelled
  <2>7. FailureReported'
    BY DEF FailureReported
  <2> QED
    BY <2>2, <2>3, <2>4, <2>5, <2>6, <2>7
<1>3. CASE ~(~spoken /\ err \in Qualifying /\ level < ChainLen)
  <2>1. Return(err, err) /\ lastErr' = err
    BY <1>3 DEF Ended
  <2>2. wpc' = "done" /\ level' = level
    BY <2>1 DEF Return
  <2>3. FreshInv' /\ TextInv'
    BY <1>1, <2>2 DEF IInv, FreshInv, TextInv
  <2>4. /\ err \in Results /\ lastErr' \in Errors
        /\ sawBudget' \in BOOLEAN /\ spoken' \in BOOLEAN
        /\ yielded' \in Seq([level : Levels, chunk : Chunks])
    BY <2>1 DEF IInv, TypeOK, Results
  <2> QED
    BY <1>1, <2>1, <2>3, <2>4, ReturnPreserves
<1> QED
  BY <1>2, <1>3

LEMMA LevelDonePreserves == IInv /\ LevelDone => IInv'
<1> SUFFICES ASSUME IInv, LevelDone PROVE IInv'
  OBVIOUS
<1> DEFINE err == IF levelCtx[level] = "expired" THEN "watchdog" ELSE "context"
<1>1. /\ err \in Errors /\ err # "none" /\ Ended(err) /\ Selecting
      /\ levelCtx[level] # "open"
      /\ UNCHANGED <<failed, marks, stream, items, made, cut, attempted, spoken, sawBudget, yielded>>
  BY DEF LevelDone, Errors, StreamErrors, windowVars, streamVars
<1>2. /\ failed' \subseteq Backends /\ ItemsInv'
      /\ items' \in [Levels -> Seq(Chunks \cup StreamErrors)]
      /\ \A l \in Levels : Len(items'[l]) <= Cap
  BY <1>1 DEF IInv, ItemsInv, TypeOK
<1> HIDE DEF err
<1> QED
  BY <1>1, <1>2, EndedPreserves

(* Taking an item leaves the rest of the channel as it was. *)
LEMMA TakeLeaves ==
  ASSUME IInv, Selecting, items[level] # <<>>, Take, stream' = stream
  PROVE  /\ items' \in [Levels -> Seq(Chunks \cup StreamErrors)]
         /\ \A l \in Levels : Len(items'[l]) <= Cap
         /\ \A l \in Levels : l # level => items'[l] = items[l]
         /\ ItemsInv'
<1>1. /\ level \in Levels
      /\ items \in [Levels -> Seq(Chunks \cup StreamErrors)]
      /\ \A l \in Levels : Len(items[l]) <= Cap
  BY DEF IInv, LevelInv, TypeOK, Selecting
<1> DEFINE s == items[level]
<1>2. s \in Seq(Chunks \cup StreamErrors) /\ s # <<>>
  BY <1>1
<1>3. /\ Tail(s) \in Seq(Chunks \cup StreamErrors)
      /\ Len(Tail(s)) = Len(s) - 1 /\ Len(s) \in Nat
      /\ \A i \in DOMAIN Tail(s) : i + 1 \in DOMAIN s /\ Tail(s)[i] = s[i + 1]
  BY <1>2
<1>4. items'[level] = Tail(s) /\ \A l \in Levels : l # level => items'[l] = items[l]
  BY <1>1 DEF Take
<1>5. items' \in [Levels -> Seq(Chunks \cup StreamErrors)]
  BY <1>1, <1>3 DEF Take
<1>6. \A l \in Levels : Len(items'[l]) <= Cap
  BY <1>1, <1>3, <1>4, ConstantsAre
<1>7. ItemsInv'
  <2> SUFFICES ASSUME NEW l \in Levels, NEW i \in DOMAIN items'[l],
                      items'[l][i] \in StreamErrors
               PROVE  stream[l] = "ended"
    BY DEF ItemsInv
  <2>1. CASE l = level
    BY <1>3, <1>4, <2>1 DEF IInv, ItemsInv
  <2>2. CASE l # level
    BY <1>4, <2>2 DEF IInv, ItemsInv
  <2> QED
    BY <2>1, <2>2
<1> QED
  BY <1>4, <1>5, <1>6, <1>7

LEMMA ReceiveErrorPreserves == IInv /\ ReceiveError => IInv'
<1> SUFFICES ASSUME IInv, ReceiveError PROVE IInv'
  OBVIOUS
<1> DEFINE err == IF levelCtx[level] = "expired" THEN "watchdog" ELSE Head(items[level])
<1>1. /\ err \in Errors /\ err # "none" /\ Ended(err) /\ Selecting
      /\ items[level] # <<>> /\ Head(items[level]) \in StreamErrors /\ Take
      /\ failed' = IF err \in Hinted THEN failed \cup {BackendOf[level]} ELSE failed
      /\ UNCHANGED <<marks, stream, made, cut, attempted, spoken, sawBudget, yielded>>
  BY DEF ReceiveError, Errors, StreamErrors
<1>2. level \in Levels /\ failed \subseteq Backends /\ items[level] \in Seq(Chunks \cup StreamErrors)
  BY <1>1 DEF IInv, LevelInv, TypeOK, Selecting
<1>3. failed' \subseteq Backends
  BY <1>1, <1>2, RuntimeFallbackAssumption
<1>4. stream[level] = "ended"
  <2>1. 1 \in DOMAIN items[level] /\ items[level][1] = Head(items[level])
    BY <1>1, <1>2
  <2> QED
    BY <1>1, <1>2, <2>1 DEF IInv, ItemsInv
<1>5. /\ items' \in [Levels -> Seq(Chunks \cup StreamErrors)]
      /\ \A l \in Levels : Len(items'[l]) <= Cap
      /\ \A l \in Levels : l # level => items'[l] = items[l]
      /\ ItemsInv'
  BY <1>1, TakeLeaves
<1>6. \A l \in Levels : l > level => items'[l] = items[l]
  BY <1>2, <1>5, ConstantsAre DEF Levels
<1> HIDE DEF err
<1> QED
  BY <1>1, <1>3, <1>4, <1>5, <1>6, EndedPreserves

LEMMA ReceiveChunkPreserves == IInv /\ ReceiveChunk => IInv'
<1> SUFFICES ASSUME IInv, ReceiveChunk PROVE IInv'
  OBVIOUS
<1> DEFINE c == Head(items[level])
<1>1. /\ Selecting /\ items[level] # <<>> /\ c \in Chunks /\ Take
      /\ spoken' = (spoken \/ c \in Spoken)
      /\ sawBudget' = (sawBudget \/ c = "budget")
      /\ yielded' = Append(yielded, [level |-> level, chunk |-> c])
      /\ UNCHANGED <<failed, marks, stream, made, cut, attempted, lastErr>>
  BY DEF ReceiveChunk, windowVars
<1>2. level \in Levels /\ wpc = "select" /\ yielded \in Seq([level : Levels, chunk : Chunks])
  BY <1>1 DEF IInv, LevelInv, TypeOK, Selecting
<1>3. /\ items' \in [Levels -> Seq(Chunks \cup StreamErrors)]
      /\ \A l \in Levels : Len(items'[l]) <= Cap
      /\ \A l \in Levels : l # level => items'[l] = items[l]
      /\ ItemsInv'
  BY <1>1, TakeLeaves
<1> HIDE DEF c
<1>4. /\ sawBudget' \in BOOLEAN /\ spoken' \in BOOLEAN
      /\ yielded' \in Seq([level : Levels, chunk : Chunks])
  BY <1>1, <1>2 DEF IInv, TypeOK
<1>5. \A i \in DOMAIN yielded' :
        yielded'[i].chunk \in Spoken => spoken' /\ yielded'[i].level = level
  <2> SUFFICES ASSUME NEW i \in DOMAIN yielded', yielded'[i].chunk \in Spoken
               PROVE  spoken' /\ yielded'[i].level = level
    OBVIOUS
  <2>1. CASE i \in DOMAIN yielded
    <3>1. yielded'[i] = yielded[i]
      BY <1>1, <1>2, <2>1
    <3>2. yielded[i].chunk \in Spoken => spoken /\ yielded[i].level = level
      BY <2>1 DEF IInv, TextInv
    <3> QED
      BY <1>1, <3>1, <3>2
  <2>2. CASE i = Len(yielded) + 1
    <3>1. yielded'[i] = [level |-> level, chunk |-> c]
      BY <1>1, <1>2, <2>2
    <3>2. c \in Spoken /\ yielded'[i].level = level
      BY <3>1
    <3> QED
      BY <1>1, <3>2
  <2> QED
    BY <1>1, <1>2, <2>1, <2>2
<1>6. ASSUME level' = level, wpc' # "next" PROVE FreshInv' /\ TextInv'
  <2>1. TextInv'
    BY <1>5, <1>6 DEF TextInv
  <2>2. \A l \in Levels : l > level => items'[l] = items[l]
    BY <1>2, <1>3, ConstantsAre DEF Levels
  <2>3. FreshInv'
    BY <1>1, <1>6, <2>2 DEF IInv, FreshInv
  <2> QED
    BY <2>1, <2>3
<1>7. CASE UNCHANGED <<ctxVars, endVars, wpc, level>>
  <2> USE <1>1, <1>2, <1>7 DEF ctxVars, endVars, IInv
  <2>1. TypeOK'
    BY <1>3, <1>4 DEF TypeOK
  <2>2. LevelInv' /\ HookInv' /\ LeftBehindIsCancelled'
    BY DEF LevelInv, HookInv, LeftBehindIsCancelled
  <2>3. FailureReported'
    BY DEF FailureReported
  <2> QED
    BY <1>3, <1>6, <2>1, <2>2, <2>3
<1>8. CASE Return("stopped", terminalErr)
  <2>1. level' = level /\ wpc' = "done"
    BY <1>8 DEF Return
  <2>2. /\ "stopped" \in Results /\ terminalErr \in Errors /\ "stopped" \notin Errors
        /\ failed' \subseteq Backends /\ lastErr' \in Errors
    BY <1>1 DEF IInv, TypeOK, Results, Errors, StreamErrors
  <2>3. FreshInv' /\ TextInv'
    BY <1>6, <2>1
  <2> QED
    BY <1>1, <1>2, <1>3, <1>4, <1>8, <2>2, <2>3, ReturnPreserves
<1> QED
  BY <1>7, <1>8 DEF ReceiveChunk

-----------------------------------------------------------------------------
(* The steps of the streams and of the world leave the walk alone. *)

LEMMA StreamingPreserves ==
  ASSUME IInv, NEW k \in Levels, Streaming(k)
  PROVE  IInv'
<1>1. /\ stream[k] = "running" /\ UNCHANGED <<failed, marks, turnCtx, levelCtx>>
      /\ UNCHANGED <<endVars, walkVars>>
  BY DEF Streaming, Produce, Fail, Finish, Drop, Room, windowVars, ctxVars
<1>2. \A l \in Levels : l # k => stream'[l] = stream[l] /\ items'[l] = items[l]
  BY DEF Streaming, Produce, Fail, Finish, Drop, Room, IInv, TypeOK
<1>3. stream'[k] \in {"running", "ended"} /\ stream' \in [Levels -> {"none", "running", "ended"}]
  BY <1>1 DEF Streaming, Produce, Fail, Finish, Drop, Room, IInv, TypeOK
<1>4. made' \in [Levels -> Nat] /\ cut' \subseteq Levels
  <2>1. made \in [Levels -> Nat] /\ cut \subseteq Levels
    BY DEF IInv, TypeOK
  <2>2. CASE Produce(k)
    BY <2>1, <2>2 DEF Produce
  <2>3. CASE Fail(k)
    BY <2>1, <2>3 DEF Fail
  <2>4. CASE Finish(k) \/ Drop(k)
    BY <2>1, <2>4 DEF Finish, Drop
  <2> QED
    BY <2>2, <2>3, <2>4 DEF Streaming
<1>5. /\ items'[k] \in Seq(Chunks \cup StreamErrors) /\ Len(items'[k]) <= Cap
      /\ items' \in [Levels -> Seq(Chunks \cup StreamErrors)]
      /\ \A i \in DOMAIN items'[k] : items'[k][i] \in StreamErrors => stream'[k] = "ended"
  <2> DEFINE s == items[k]
  <2>1. /\ s \in Seq(Chunks \cup StreamErrors) /\ Len(s) <= Cap /\ Len(s) \in Nat
        /\ items \in [Levels -> Seq(Chunks \cup StreamErrors)]
        /\ \A i \in DOMAIN s : s[i] \notin StreamErrors
    BY <1>1 DEF IInv, TypeOK, ItemsInv
  <2>2. CASE Produce(k)
    <3>1. PICK c \in Chunks : items' = [items EXCEPT ![k] = Append(s, c)]
      BY <2>2 DEF Produce
    <3>2. /\ items'[k] = Append(s, c) /\ Len(s) < Cap
          /\ c \notin StreamErrors
      BY <2>1, <2>2, <3>1 DEF Produce, Room, Chunks, StreamErrors
    <3>3. /\ Append(s, c) \in Seq(Chunks \cup StreamErrors)
          /\ Len(Append(s, c)) = Len(s) + 1
          /\ \A i \in DOMAIN Append(s, c) : (i \in DOMAIN s /\ Append(s, c)[i] = s[i]) \/ Append(s, c)[i] = c
      BY <2>1
    <3> QED
      BY <2>1, <3>1, <3>2, <3>3, ConstantsAre
  <2>3. CASE Fail(k)
    <3>1. PICK e \in StreamErrors : items' = [items EXCEPT ![k] = Append(s, e)]
      BY <2>3 DEF Fail
    <3>2. /\ items'[k] = Append(s, e) /\ Len(s) < Cap /\ stream'[k] = "ended"
      BY <2>1, <2>3, <3>1 DEF Fail, Room, IInv, TypeOK
    <3>3. /\ Append(s, e) \in Seq(Chunks \cup StreamErrors)
          /\ Len(Append(s, e)) = Len(s) + 1
      BY <2>1
    <3> QED
      BY <2>1, <3>1, <3>2, <3>3, ConstantsAre
  <2>4. CASE Finish(k) \/ Drop(k)
    <3>1. items' = items
      BY <2>4 DEF Finish, Drop
    <3> QED
      BY <2>1, <3>1
  <2> QED
    BY <2>2, <2>3, <2>4 DEF Streaming
<1> USE <1>1 DEF endVars, walkVars
<1>6. TypeOK'
  <2>1. \A l \in Levels : Len(items'[l]) <= Cap
    BY <1>2, <1>5 DEF IInv, TypeOK
  <2> QED
    BY <1>3, <1>4, <1>5, <2>1 DEF IInv, TypeOK
<1>7. FreshInv' /\ LevelInv' /\ TextInv' /\ HookInv'
  BY <1>2 DEF IInv, FreshInv, LevelInv, TextInv, HookInv
<1>8. ItemsInv'
  BY <1>2, <1>5 DEF IInv, ItemsInv
<1>9. LeftBehindIsCancelled' /\ FailureReported'
  BY <1>2 DEF IInv, LeftBehindIsCancelled, FailureReported
<1> QED
  BY <1>6, <1>7, <1>8, <1>9 DEF IInv

LEMMA WorldPreserves ==
  ASSUME IInv,
         \/ EndTurnCtx
         \/ \E l \in Levels : Deadline(l)
         \/ \E b \in Backends : MarkElsewhere(b) \/ WindowCloses(b)
  PROVE  IInv'
<1> DEFINE Quiet ==
      /\ UNCHANGED <<streamVars, walkVars, terminalErr, result, hook>>
      /\ failed' \subseteq Backends /\ marks' \in Nat
      /\ turnCtx' \in {"open", "cancelled", "expired"}
      /\ levelCtx' \in [Levels -> {"none", "open", "cancelled", "expired"}]
      /\ \A l \in Levels : levelCtx[l] # "open" => levelCtx'[l] # "open"
<1>1. Quiet
  <2>1. /\ failed \subseteq Backends /\ marks \in Nat
        /\ turnCtx \in {"open", "cancelled", "expired"}
        /\ levelCtx \in [Levels -> {"none", "open", "cancelled", "expired"}]
    BY DEF IInv, TypeOK
  <2> USE <2>1 DEF windowVars, ctxVars, endVars, streamVars, walkVars
  <2>2. CASE EndTurnCtx
    BY <2>2 DEF EndTurnCtx
  <2>3. ASSUME NEW l \in Levels, Deadline(l) PROVE Quiet
    BY <2>3 DEF Deadline
  <2>4. ASSUME NEW b \in Backends, MarkElsewhere(b) \/ WindowCloses(b) PROVE Quiet
    BY <2>4 DEF MarkElsewhere, WindowCloses
  <2> HIDE DEF Quiet
  <2> QED
    BY <2>2, <2>3, <2>4
<1> USE <1>1 DEF streamVars, walkVars, IInv
<1>2. TypeOK'
  BY DEF TypeOK
<1>3. FreshInv' /\ LevelInv' /\ ItemsInv' /\ TextInv' /\ HookInv'
  BY DEF FreshInv, LevelInv, ItemsInv, TextInv, HookInv
<1>4. LeftBehindIsCancelled' /\ FailureReported'
  BY DEF LeftBehindIsCancelled, FailureReported
<1> QED
  BY <1>2, <1>3, <1>4

LEMMA StutterPreserves == IInv /\ UNCHANGED vars => IInv'
  BY DEF vars, IInv, TypeOK, FreshInv, LevelInv, ItemsInv, TextInv, HookInv,
         LeftBehindIsCancelled, FailureReported

(* The invariant of the walk, from which the properties follow. *)
THEOREM Invariance == Spec => []IInv
<1>1. IInv /\ [Next]_vars => IInv'
  <2> SUFFICES ASSUME IInv, [Next]_vars PROVE IInv'
    OBVIOUS
  <2>1. CASE Walk
    BY <2>1, SkipPreserves, LoadFailsPreserves, AttemptPreserves, ExhaustedPreserves,
       LevelDonePreserves, ReceiveErrorPreserves, ReceiveChunkPreserves, CompletedPreserves
       DEF Walk
  <2>2. CASE \E l \in Levels : Streaming(l)
    BY <2>2, StreamingPreserves
  <2>3. CASE \/ EndTurnCtx
             \/ \E l \in Levels : Deadline(l)
             \/ \E b \in Backends : MarkElsewhere(b) \/ WindowCloses(b)
    BY <2>3, WorldPreserves
  <2>4. CASE UNCHANGED vars
    BY <2>4, StutterPreserves
  <2> QED
    BY <2>1, <2>2, <2>3, <2>4 DEF Next
<1> QED
  BY InitIInv, <1>1, PTL DEF Spec

(* Every variable keeps to its range, and a channel to its capacity. *)
THEOREM TypeCorrect == Spec => []TypeOK
<1>1. IInv => TypeOK
  BY DEF IInv
<1> QED
  BY Invariance, <1>1, PTL

(* All text of a turn comes from one backend: a fallback is only tried while
   nothing was said (sdk.go:413-415, 574-590). *)
THEOREM NoFrankenstein == Spec => []OneBackendSpeaks
<1>1. IInv => OneBackendSpeaks
  BY DEF IInv, TextInv, OneBackendSpeaks
<1> QED
  BY Invariance, <1>1, PTL

(* The walk never leaves a stream behind that was not told to end
   (sdk.go:506-511). *)
THEOREM NoStrayStream == Spec => []LeftBehindIsCancelled
<1>1. IInv => LeftBehindIsCancelled
  BY DEF IInv
<1> QED
  BY Invariance, <1>1, PTL

(* One completion event for a turn that ran, and it says failed for every
   error a level ended with (sdk.go:448-479). *)
THEOREM FailuresAreReported == Spec => []FailureReported
<1>1. IInv => FailureReported
  BY DEF IInv
<1> QED
  BY Invariance, <1>1, PTL

(* For every chain: one backend speaks in a turn, and the streams of the others
   were told to end. *)
THEOREM BackendsStayApart == Spec => []BackendsKeptApart
<1>1. OneBackendSpeaks /\ LeftBehindIsCancelled => BackendsKeptApart
  BY DEF BackendsKeptApart
<1> QED
  BY <1>1, NoFrankenstein, NoStrayStream, PTL

-----------------------------------------------------------------------------
(* The calls: the invariant. *)

Stages == {"idle", "wants", "message", "load", "runtime", "media", "build", "turn", "tool",
           "prerun", "ok", "failed", "compact", "precompact", "failing", "done"}
Replies == {"ok", "error", "refused"}
Speaking == {"prompt", "repl"}

TypeInv ==
  /\ plan \in [Commands -> [op : Ops, agent : Agents, served : BOOLEAN]]
  /\ pc \in [Commands -> Stages] /\ line \in [Commands -> Nat \ {0}]
  /\ reply \in [Commands -> Seq(Replies)]
  /\ \A c \in Commands :
       IF pc[c] = "done" THEN Len(reply[c]) \in {line[c] - 1, line[c]} ELSE Len(reply[c]) = line[c] - 1

(* Where a command can be. *)
Stage(op, s) ==
  /\ s = "message" => op \in {"add", "prompt", "repl"}
  /\ s = "wants" => op # "nothing"
  /\ s \in {"load", "runtime"} => op \notin {"nothing", "add"}
  /\ s = "media" => op = "media"
  /\ s = "build" => op \notin {"nothing", "add", "media"}
  /\ s \in {"turn", "tool", "prerun", "ok", "failed"} => op \in {"prompt", "repl", "generate"}
  /\ s \in {"compact", "precompact", "failing"} => op = "compact"

StageInv == \A c \in Commands : Stage(Op(c), pc[c])

(* The message of a call is in the session, with what it is made of. *)
Kind(c) == IF Op(c) = "media" THEN "blob" ELSE "text"
Holds(c, i) == \E t \in log : t.by = <<c, i>> /\ \E j \in DOMAIN t.parts : t.parts[j].kind = Kind(c)

Told(c, i) ==
  /\ reply[c][i] = "ok" /\ Op(c) \notin {"generate", "compact"} => Holds(c, i)
  /\ reply[c][i] # "ok" /\ Op(c) \in {"add", "media"} => ~Holds(c, i)

Early == {"idle", "wants", "message"}
Unasked(c) == pc[c] \in Early \/ (Op(c) \notin Speaking /\ pc[c] # "done")

LogInv ==
  /\ \A t \in log : \E c \in Commands : \E i \in 1 .. line[c] : t.by = <<c, i>>
  /\ \A t \in log : t.parts # <<>> /\ Size(t.parts) <= TurnCap
  /\ \A c \in Commands : Unasked(c) => \A t \in log : t.by # Asked(c)
  /\ \A c \in Commands :
       Op(c) \in Speaking /\ pc[c] \notin Early \cup {"done"} => Holds(c, line[c])
  /\ \A c \in Commands : \A i \in DOMAIN reply[c] : Told(c, i)

(* The hook variables of a message are in one place, until they are rendered. *)
Logged(e) == \E t \in log : t.by = e.by /\ t.set = e.set
Pending(c) == pc[c] \in {"runtime", "build"} \/ (pc[c] = "load" /\ Op(c) # "generate")

EnvInv ==
  /\ lastHookEnv = [p \in Processes |-> [a \in Agents |-> lastHookEnv[p][a]]]
  /\ hookEnv = [c \in Commands |-> hookEnv[c]]
  /\ \A p \in Processes : \A a \in Agents : lastHookEnv[p][a] # NoHookEnv =>
       /\ Logged(lastHookEnv[p][a])
       /\ \E c \in Commands : /\ lastHookEnv[p][a].by[1] = c /\ Op(c) = "add"
                              /\ Process(c) = p /\ Agent(c) = a
       /\ \A c \in Commands : hookEnv[c].by # lastHookEnv[p][a].by
       /\ \A r \in rendered : r.env.by # lastHookEnv[p][a].by
  /\ \A c \in Commands :
       /\ hookEnv[c] # NoHookEnv => Logged(hookEnv[c]) /\ Op(c) \in {"prompt", "repl", "generate"}
       /\ \A d \in Commands : hookEnv[c].by = hookEnv[d].by /\ c # d => hookEnv[c] = NoHookEnv
       /\ Pending(c) => \A r \in rendered : r.env.by # hookEnv[c].by
  /\ \A r \in rendered : Logged(r.env)
  /\ \A r, q \in rendered : r.env.by = q.env.by => r = q

(* The environment of a process, and of a tool. *)
Loaded == {<<"os", None>>} \cup ({"env"} \X Agents)

InBounds(c, t) ==
  t.ran =>
    /\ \A i \in DOMAIN t.hooks.ran : t.hooks.ran[i].out.action # "short_circuit"
    /\ \A v \in Vars :
         IF v \in Locked THEN t.env[v][1] \in {"os", "env"}
         ELSE v \in DotEnv[Agent(c)] /\ t.env[v][1] = "env" => t.env[v] = <<"env", Agent(c)>>

ToolInv ==
  /\ environ \in [Processes -> [Vars -> Loaded]]
  /\ base = [c \in Commands |-> base[c]] /\ tool = [c \in Commands |-> tool[c]]
  /\ \A c \in Commands : pc[c] \in {"tool", "prerun"} => base[c] \in [Vars -> Loaded]
  /\ \A c \in Commands : InBounds(c, tool[c])

(* A chain under way has run the first of its scripts in their order, and what it
   holds is what they have given. *)
Shape(ch) ==
  ch = [event |-> ch.event, todo |-> ch.todo, text |-> ch.text, set |-> ch.set,
        actions |-> ch.actions, ran |-> ch.ran, script |-> ch.script, result |-> ch.result,
        spent |-> ch.spent]

Claimed(ch, x) == ch.event = PreRun /\ x.out.action = "short_circuit"

InOrder(ch, order) ==
  /\ ch.ran \in Seq([hook : Range(order), out : Outputs \cup {Failed}])
  /\ Len(ch.ran) <= Len(order) /\ \A i \in 1 .. Len(ch.ran) : ch.ran[i].hook = order[i]
  /\ \A i \in 1 .. Len(ch.ran) : i < Len(ch.ran) => ~Claimed(ch, ch.ran[i])
  /\ IF ch.ran # <<>> /\ Claimed(ch, ch.ran[Len(ch.ran)]) THEN ch.todo = <<>>
     ELSE ch.todo = SubSeq(order, Len(ch.ran) + 1, Len(order))
  /\ ch.script # "none" => ch.todo # <<>>

TextOfLast(ch) ==
  LET replaced == {i \in DOMAIN ch.ran : ch.ran[i].out.text}
  IN IF replaced # {} THEN \E i \in LastOf(replaced) : ch.text = <<"hook", ch.ran[i].hook.name>>
     ELSE ch.text[1] = "text"

SetByLast(ch) ==
  /\ \A v \in DOMAIN ch.set : ch.set[v][1] = "hook"
  /\ \A v \in Vars :
       LET touched == {i \in DOMAIN ch.ran : v \in ch.ran[i].out.sets \cup ch.ran[i].out.drops}
       IN v \in DOMAIN ch.set <=> \E i \in LastOf(touched) : v \in ch.ran[i].out.sets

ChainOk(ch) ==
  /\ Shape(ch)
  /\ ch.result \in Outputs \cup {Failed}
  /\ ch.event # "none" =>
       /\ ch.event \in Events
       /\ InOrder(ch, DiscoverHooks(dir[ch.event]))
       /\ TextOfLast(ch) /\ SetByLast(ch)
       /\ \A i \in DOMAIN ch.ran : Claimed(ch, ch.ran[i]) => "short_circuit" \in ch.actions
  /\ ch.event = "none" => ch.todo = <<>> /\ ch.script = "none"

ChainInv ==
  /\ \E s \in Setups : plan = s.plan /\ dir = s.dir
  /\ chain = [o \in Commands \X Slots |-> chain[o]]
  /\ \A o \in Commands \X Slots : ChainOk(chain[o])

PromptsInv == TypeInv /\ StageInv /\ LogInv /\ EnvInv /\ ToolInv /\ ChainInv
-----------------------------------------------------------------------------
(* What is persisted. *)

LEMMA SizeOfTwo == ASSUME NEW a, NEW b
  PROVE Size(<<a, b>>) = (0 + LineSize(a)) + LineSize(b)
<1> DEFINE q == <<a, b>>
           Sum(g, s) == IF s = {} THEN 0 ELSE g[s \ {Max(s)}] + LineSize(q[Max(s)])
           iter == CHOOSE g : g = [s \in SUBSET (1 .. 2) |-> Sum(g, s)]
           Total(s) == IF s = {} THEN 0 ELSE IF s = {1} THEN 0 + LineSize(a)
                       ELSE IF s = {2} THEN 0 + LineSize(b) ELSE (0 + LineSize(a)) + LineSize(b)
           h == [s \in SUBSET (1 .. 2) |-> Total(s)]
<1>1. Size(q) = iter[1 .. 2]
  BY DEF Size, FoldLeft, MapThenFoldSet
<1>2. \A s \in SUBSET (1 .. 2) : s \in {{}, {1}, {2}, {1, 2}}
  <2> SUFFICES ASSUME NEW s \in SUBSET (1 .. 2) PROVE s \in {{}, {1}, {2}, {1, 2}}
    OBVIOUS
  <2> \A x \in s : x = 1 \/ x = 2
    OBVIOUS
  <2>1. CASE 1 \in s /\ 2 \in s
    <3> s = {1, 2}
      BY <2>1
    <3> QED
      OBVIOUS
  <2>2. CASE 1 \in s /\ 2 \notin s
    <3> s = {1}
      BY <2>2
    <3> QED
      OBVIOUS
  <2>3. CASE 1 \notin s /\ 2 \in s
    <3> s = {2}
      BY <2>3
    <3> QED
      OBVIOUS
  <2>4. CASE 1 \notin s /\ 2 \notin s
    <3> s = {}
      BY <2>4
    <3> QED
      OBVIOUS
  <2> QED
    BY <2>1, <2>2, <2>3, <2>4
<1>3. Max({1}) = 1 /\ Max({2}) = 2 /\ Max({1, 2}) = 2
  <2>1. Max({1}) = 1 /\ Max({2}) = 2
    BY DEF Max
  <2>2. \A x \in {1, 2} : (\A y \in {1, 2} : x >= y) <=> x = 2
    OBVIOUS
  <2> QED
    BY <2>1, <2>2 DEF Max
<1>4. /\ h[{}] = 0 /\ h[{1}] = 0 + LineSize(a) /\ h[{2}] = 0 + LineSize(b)
      /\ h[{1, 2}] = (0 + LineSize(a)) + LineSize(b)
  <2>1. {} \in SUBSET (1 .. 2) /\ {1} \in SUBSET (1 .. 2) /\ {2} \in SUBSET (1 .. 2)
        /\ {1, 2} \in SUBSET (1 .. 2)
    OBVIOUS
  <2>2. {} # {1} /\ {} # {2} /\ {} # {1, 2} /\ {1} # {2} /\ {1} # {1, 2} /\ {2} # {1, 2}
    OBVIOUS
  <2>3. h[{}] = Total({}) /\ h[{1}] = Total({1}) /\ h[{2}] = Total({2}) /\ h[{1, 2}] = Total({1, 2})
    BY <2>1
  <2> QED
    BY <2>2, <2>3
<1> HIDE DEF Total
<1>5. h = [s \in SUBSET (1 .. 2) |-> h[s]]
  OBVIOUS
<1> HIDE DEF h
<1>6. ASSUME NEW s \in SUBSET (1 .. 2) PROVE h[s] = Sum(h, s)
  <2>1. CASE s = {}
    BY <1>4, <2>1
  <2>2. CASE s = {1}
    <3>1. s \ {Max(s)} = {} /\ q[Max(s)] = a /\ s # {}
      BY <1>3, <2>2
    <3> QED
      BY <1>4, <2>2, <3>1
  <2>3. CASE s = {2}
    <3>1. s \ {Max(s)} = {} /\ q[Max(s)] = b /\ s # {}
      BY <1>3, <2>3
    <3> QED
      BY <1>4, <2>3, <3>1
  <2>4. CASE s = {1, 2}
    <3>1. s \ {Max(s)} = {1} /\ q[Max(s)] = b /\ s # {}
      BY <1>3, <2>4
    <3> QED
      BY <1>4, <2>4, <3>1
  <2> QED
    BY <1>2, <2>1, <2>2, <2>3, <2>4
<1> HIDE DEF Sum
<1>7. h = [s \in SUBSET (1 .. 2) |-> Sum(h, s)]
  BY <1>5, <1>6
<1>8. iter = [s \in SUBSET (1 .. 2) |-> Sum(iter, s)]
  BY <1>7
<1> HIDE DEF iter
<1>9. iter[{}] = Sum(iter, {}) /\ iter[{1}] = Sum(iter, {1}) /\ iter[{1, 2}] = Sum(iter, {1, 2})
  <2>1. {} \in SUBSET (1 .. 2) /\ {1} \in SUBSET (1 .. 2) /\ {1, 2} \in SUBSET (1 .. 2)
    OBVIOUS
  <2> QED
    BY <1>8, <2>1
<1> USE DEF Sum
<1>10. iter[{}] = 0
  BY <1>9
<1>11. iter[{1}] = 0 + LineSize(a)
  <2>1. {1} \ {Max({1})} = {} /\ q[Max({1})] = a /\ {1} # {}
    BY <1>3
  <2> QED
    BY <1>9, <1>10, <2>1
<1>12. iter[{1, 2}] = (0 + LineSize(a)) + LineSize(b)
  <2>1. {1, 2} \ {Max({1, 2})} = {1} /\ q[Max({1, 2})] = b /\ {1, 2} # {}
    BY <1>3
  <2> QED
    BY <1>9, <1>11, <2>1
<1>13. 1 .. 2 = {1, 2}
  OBVIOUS
<1> QED
  BY <1>1, <1>12, <1>13

LEMMA SizeOfOne == ASSUME NEW a PROVE Size(<<a>>) = 0 + LineSize(a)
<1> DEFINE q == <<a>>
           Sum(g, s) == IF s = {} THEN 0 ELSE g[s \ {Max(s)}] + LineSize(q[Max(s)])
           iter == CHOOSE g : g = [s \in SUBSET {1} |-> Sum(g, s)]
           Total(s) == IF s = {} THEN 0 ELSE 0 + LineSize(a)
           h == [s \in SUBSET {1} |-> Total(s)]
<1>1. Size(q) = iter[{1}]
  <2>1. DOMAIN q = {1}
    OBVIOUS
  <2>2. Size(q) = (CHOOSE g : g = [s \in SUBSET DOMAIN q |-> Sum(g, s)])[DOMAIN q]
    BY DEF Size, FoldLeft, MapThenFoldSet
  <2> QED
    BY <2>1, <2>2
<1>2. \A s \in SUBSET {1} : s = {} \/ s = {1}
  OBVIOUS
<1>3. Max({1}) = 1 /\ q[1] = a
  BY DEF Max
<1>4. h[{}] = 0 /\ h[{1}] = 0 + LineSize(a)
  OBVIOUS
<1> HIDE DEF Total
<1>5. h = [s \in SUBSET {1} |-> h[s]]
  OBVIOUS
<1> HIDE DEF h
<1>6. ASSUME NEW s \in SUBSET {1} PROVE h[s] = Sum(h, s)
  <2>1. CASE s = {}
    BY <1>4, <2>1
  <2>2. CASE s = {1}
    <3>1. s \ {Max(s)} = {} /\ q[Max(s)] = a /\ s # {}
      BY <1>3, <2>2
    <3> QED
      BY <1>4, <2>2, <3>1
  <2> QED
    BY <1>2, <2>1, <2>2
<1> HIDE DEF Sum
<1>7. h = [s \in SUBSET {1} |-> Sum(h, s)]
  BY <1>5, <1>6
<1>8. iter = [s \in SUBSET {1} |-> Sum(iter, s)]
  BY <1>7
<1> HIDE DEF iter
<1>9. iter[{}] = Sum(iter, {}) /\ iter[{1}] = Sum(iter, {1})
  BY <1>8
<1>10. iter[{}] = 0
  BY <1>9 DEF Sum
<1>11. {1} \ {Max({1})} = {} /\ q[Max({1})] = a /\ {1} # {}
  BY <1>3
<1> QED
  BY <1>1, <1>9, <1>10, <1>11 DEF Sum

LEMMA LeastNat == ASSUME NEW T \in SUBSET Nat, T # {} PROVE \E m \in T : \A k \in T : m <= k
<1>1. OpToRel(<, Nat) = {ss \in Nat \X Nat : ss[1] < ss[2]}
  BY DEF OpToRel
<1>2. PICK m \in T : \A k \in T : ~ (<<k, m>> \in OpToRel(<, Nat))
  BY NatLessThanWellFounded, WFMin
<1>3. ASSUME NEW k \in T PROVE m <= k
  <2>1. ~ (<<k, m>> \in {ss \in Nat \X Nat : ss[1] < ss[2]})
    BY <1>1, <1>2
  <2> QED
    BY <2>1
<1> QED
  BY <1>3

Whole == [kind : {"text", "blob", "call"}, size : Nat, whole : {TRUE}]

(* The first text of a turn, or 0. *)
LEMMA FirstText ==
  ASSUME NEW parts, NEW n \in Nat, Len(parts) = n
  PROVE  LET first == SelectInSeq(parts, IsTextPart)
         IN  \/ first = 0 /\ \A i \in 1 .. n : parts[i].kind # "text"
             \/ first \in 1 .. n /\ parts[first].kind = "text"
<1> DEFINE I == {i \in 1 .. Len(parts) : IsTextPart(parts[i])}
<1>1. SelectInSeq(parts, IsTextPart) = IF I # {} THEN Min(I) ELSE 0
  BY DEF SelectInSeq
<1>2. \A i \in 1 .. n : i \in I <=> parts[i].kind = "text"
  BY DEF IsTextPart
<1>3. I \subseteq 1 .. n /\ I \subseteq Nat
  OBVIOUS
<1> HIDE DEF I
<1>4. CASE I = {}
  BY <1>1, <1>2, <1>4
<1>5. CASE I # {}
  <2>1. \E m \in I : \A k \in I : m <= k
    BY <1>3, <1>5, LeastNat
  <2>2. Min(I) \in I
    BY <2>1 DEF Min
  <2> QED
    BY <1>1, <1>2, <1>3, <1>5, <2>2
<1> QED
  BY <1>4, <1>5

(* What is persisted is never empty and fits; a text keeps a text, and an image is
   there or reported as dropped. *)
LEMMA PersistedIs ==
  ASSUME NEW parts \in Seq(Whole), NEW kind \in {"text", "blob"},
         \E i \in DOMAIN parts : parts[i].kind = kind
  PROVE  LET p == Persisted(parts)
         IN  /\ p.parts # <<>> /\ Size(p.parts) <= TurnCap
             /\ kind = "text" => \E j \in DOMAIN p.parts : p.parts[j].kind = kind
             /\ kind = "blob" =>
                  (p.dropped > 0 <=> ~\E j \in DOMAIN p.parts : p.parts[j].kind = kind)
<1>1. PICK trimmed : trimmed = [i \in DOMAIN parts |-> TruncateTextPart(parts[i])]
  OBVIOUS
<1>2. PICK n : n = Len(parts)
  OBVIOUS
<1>3. n \in Nat /\ DOMAIN parts = 1 .. n /\ \A i \in 1 .. n : parts[i] \in Whole
  BY <1>2
<1>4. PICK k \in 1 .. n : parts[k].kind = kind
  BY <1>3
<1>5. Len(trimmed) = n /\ DOMAIN trimmed = 1 .. n
  BY <1>1, <1>3
<1>6. {TextCap, TurnCap, Kept, Note} \subseteq Nat /\ Kept + Note <= TextCap /\ TextCap + Note <= TurnCap
  BY PersistAssumption
<1>7. ASSUME NEW i \in 1 .. n
      PROVE  trimmed[i].kind = parts[i].kind /\ trimmed[i].size \in Nat
             /\ (trimmed[i].kind = "text" => trimmed[i].size <= TextCap)
  <2>1. PICK p : p = parts[i]
    OBVIOUS
  <2>2. p \in Whole /\ trimmed[i] = TruncateTextPart(p)
    BY <1>1, <1>3, <2>1
  <2>3. p.kind \in {"text", "blob", "call"} /\ p.size \in Nat /\ p = [kind |-> p.kind, size |-> p.size, whole |-> p.whole]
    BY <2>2 DEF Whole
  <2>4. CASE p.kind = "text" /\ p.size > TextCap
    <3>1. trimmed[i] = [kind |-> p.kind, size |-> Kept + Note, whole |-> FALSE]
      BY <2>2, <2>3, <2>4 DEF TruncateTextPart, IsTextPart
    <3> QED
      BY <1>6, <2>1, <3>1
  <2>5. CASE ~(p.kind = "text" /\ p.size > TextCap)
    <3>1. trimmed[i] = p
      BY <2>2, <2>5 DEF TruncateTextPart, IsTextPart
    <3> QED
      BY <1>6, <2>1, <2>3, <2>5, <3>1
  <2> QED
    BY <2>4, <2>5
<1>8. PICK first : first = SelectInSeq(trimmed, IsTextPart)
  OBVIOUS
<1>9. \/ first = 0 /\ \A i \in 1 .. n : trimmed[i].kind # "text"
      \/ first \in 1 .. n /\ trimmed[first].kind = "text"
  BY <1>3, <1>5, <1>8, FirstText
<1>10. PICK p : p = Persisted(parts)
  OBVIOUS
<1>11. p.parts = LastResort(Fallback(trimmed)) /\ p.dropped = Dropped(trimmed)
  BY <1>1, <1>10 DEF Persisted
<1>12. CASE Size(trimmed) <= TurnCap
  <2>1. p.parts = trimmed /\ p.dropped = 0
    BY <1>11, <1>12 DEF LastResort, Fallback, Dropped
  <2>2. k \in DOMAIN trimmed /\ trimmed[k].kind = kind
    BY <1>4, <1>5, <1>7
  <2>3. trimmed # <<>> /\ ~(0 > 0)
    BY <1>4, <1>5
  <2> QED
    BY <1>10, <1>12, <2>1, <2>2, <2>3
<1>13. CASE ~(Size(trimmed) <= TurnCap) /\ first # 0
  <2>1. PICK part : part = trimmed[first]
    OBVIOUS
  <2>2. part.kind = "text" /\ part.size \in Nat /\ part.size <= TextCap
    BY <1>7, <1>9, <1>13, <2>1
  <2>3. Size(<<part, Banner>>) = (0 + part.size) + Note
    <3>1. LineSize(part) = part.size /\ LineSize(Banner) = Note
      BY <2>2 DEF LineSize, Banner
    <3> QED
      BY <3>1, SizeOfTwo
  <2>4. Size(<<part, Banner>>) <= TurnCap
    BY <1>6, <2>2, <2>3
  <2>5. p.parts = <<part, Banner>>
    <3>1. Fallback(trimmed) = <<part, Banner>>
      BY <1>8, <1>13, <2>1 DEF Fallback
    <3> QED
      BY <1>11, <2>4, <3>1 DEF LastResort
  <2>6. p.dropped = n - 1
    <3>1. \E i \in DOMAIN trimmed : IsTextPart(trimmed[i])
      BY <1>5, <1>9, <1>13 DEF IsTextPart
    <3> QED
      BY <1>5, <1>11, <1>13, <3>1 DEF Dropped
  <2>7. /\ DOMAIN p.parts = 1 .. 2 /\ p.parts # <<>>
        /\ p.parts[1].kind = "text" /\ p.parts[2].kind = "banner"
    BY <2>2, <2>5 DEF Banner
  <2>8. kind = "blob" => p.dropped > 0
    <3>1. kind = "blob" => first # k
      BY <1>4, <1>7, <2>1, <2>2
    <3>2. kind = "blob" => n > 1
      BY <1>3, <1>4, <1>9, <1>13, <3>1
    <3> QED
      BY <1>3, <2>6, <3>2
  <2>9. \A j \in DOMAIN p.parts : p.parts[j].kind # "blob"
    BY <2>7
  <2>10. \E j \in DOMAIN p.parts : p.parts[j].kind = "text"
    BY <2>7
  <2> QED
    BY <1>10, <2>4, <2>5, <2>7, <2>8, <2>9, <2>10
<1>14. CASE ~(Size(trimmed) <= TurnCap) /\ first = 0
  <2>1. kind = "blob"
    BY <1>4, <1>7, <1>9, <1>14
  <2>2. p.parts = <<Banner>>
    BY <1>8, <1>11, <1>14 DEF Fallback, LastResort
  <2>3. Size(<<Banner>>) <= TurnCap
    <3>1. LineSize(Banner) = Note
      BY DEF LineSize, Banner
    <3> QED
      BY <1>6, <3>1, SizeOfOne
  <2>4. p.dropped = n /\ n > 0
    <3>1. ~ \E i \in DOMAIN trimmed : IsTextPart(trimmed[i])
      BY <1>5, <1>9, <1>14 DEF IsTextPart
    <3> QED
      BY <1>3, <1>4, <1>5, <1>11, <1>14, <3>1 DEF Dropped
  <2>5. p.parts # <<>> /\ \A j \in DOMAIN p.parts : p.parts[j].kind = "banner"
    BY <2>2 DEF Banner
  <2>6. p.dropped > 0 /\ ~\E j \in DOMAIN p.parts : p.parts[j].kind = kind
    BY <2>1, <2>4, <2>5
  <2> QED
    BY <1>10, <2>1, <2>2, <2>3, <2>5, <2>6
<1> QED
  BY <1>12, <1>13, <1>14

-----------------------------------------------------------------------------
(* The order of the scripts. *)

Entries == [runs : BOOLEAN, number : 0 .. NoNumber, name : Nat]

LEMMA BeforeIs ==
  ASSUME NEW d \in Entries, NEW e \in Entries
  PROVE  Before(d, e) <=> d.number < e.number \/ (d.number = e.number /\ d.name < e.name)
<1>1. /\ d.number \in 0 .. NoNumber /\ e.number \in 0 .. NoNumber /\ NoNumber \in Nat
      /\ d.name \in Nat /\ e.name \in Nat
  BY NoNumberAssumption DEF Entries
<1> QED
  BY <1>1 DEF Before, Numbered

(* The executable files of a directory have one order, by number and then by name. *)
LEMMA DiscoveryIs ==
  ASSUME NEW entries \in SUBSET Entries, IsFiniteSet(entries),
         \A d, e \in entries : d.name = e.name => d = e
  PROVE  LET order == DiscoverHooks(entries)
             n == Len(order)
             hooks == {e \in entries : e.runs}
         IN  /\ order \in Seq(hooks) /\ n \in Nat /\ Range(order) = hooks
             /\ \A i, j \in 1 .. n : i < j => /\ order[i] # order[j]
                                             /\ order[i].number <= order[j].number
<1> DEFINE hooks == {e \in entries : e.runs}
           n == Cardinality(hooks)
           upTo(f) == {g \in hooks : g = f \/ Before(g, f)}
           rank == [f \in hooks |-> Cardinality(upTo(f))]
           Sorted(s) == \A i, j \in 1 .. n : i < j => Before(s[i], s[j])
<1>0. IsFiniteSet(hooks)
  BY FS_Subset
<1>1. n \in Nat
  BY <1>0, FS_CardinalityType
<1>a. \A f \in hooks : f \in Entries /\ f.number \in Nat /\ f.name \in Nat
  BY NoNumberAssumption DEF Entries
<1>b. \A f, g \in hooks : ~ (Before(f, g) /\ Before(g, f)) /\ (f # g => Before(f, g) \/ Before(g, f))
  BY <1>a, BeforeIs
<1>c. \A f, g, h \in hooks : Before(f, g) /\ Before(g, h) => Before(f, h)
  BY <1>a, BeforeIs
<1>d. \A f, g \in hooks : Before(f, g) => f # g /\ f.number <= g.number
  BY <1>a, BeforeIs
<1>e. \A f \in hooks : f \in entries
  OBVIOUS
<1> HIDE DEF hooks
<1>2. ASSUME NEW f \in hooks
      PROVE  IsFiniteSet(upTo(f)) /\ rank[f] \in 1 .. n /\ rank[f] = Cardinality(upTo(f))
  <2>1. upTo(f) \subseteq hooks
    OBVIOUS
  <2>2. IsFiniteSet(upTo(f)) /\ Cardinality(upTo(f)) \in Nat /\ Cardinality(upTo(f)) <= n
    BY <1>0, <2>1, FS_Subset, FS_CardinalityType
  <2>3. upTo(f) # {}
    BY DEF upTo
  <2>4. Cardinality(upTo(f)) # 0
    BY <2>2, <2>3, FS_EmptySet
  <2>5. rank[f] = Cardinality(upTo(f))
    OBVIOUS
  <2> HIDE DEF upTo, rank, n
  <2> QED
    BY <2>2, <2>4, <2>5, <1>1
<1>3. ASSUME NEW f \in hooks, NEW g \in hooks, Before(f, g) PROVE rank[f] < rank[g]
  <2>1. upTo(f) \subseteq upTo(g) /\ g \in upTo(g) /\ g \notin upTo(f)
    BY <1>3, <1>b, <1>c, <1>d
  <2>2. Cardinality(upTo(f)) <= Cardinality(upTo(g)) /\ Cardinality(upTo(g)) # Cardinality(upTo(f))
    BY <2>1, <1>2, FS_Subset
  <2>3. rank[f] \in Nat /\ rank[g] \in Nat /\ rank[f] = Cardinality(upTo(f)) /\ rank[g] = Cardinality(upTo(g))
    BY <1>1, <1>2
  <2> HIDE DEF upTo, rank
  <2> QED
    BY <2>2, <2>3
<1> HIDE DEF upTo
<1>4. rank \in Injection(hooks, 1 .. n)
  <2>1. rank \in [hooks -> 1 .. n]
    BY <1>2
  <2>2. ASSUME NEW f \in hooks, NEW g \in hooks, rank[f] = rank[g] PROVE f = g
    <3>1. ~ (rank[f] < rank[g]) /\ ~ (rank[g] < rank[f])
      BY <1>2, <2>2
    <3>2. ~ Before(f, g) /\ ~ Before(g, f)
      BY <1>3, <3>1
    <3> QED
      BY <1>b, <3>2
  <2> QED
    BY <2>1, <2>2 DEF Injection, IsInjective
<1> HIDE DEF rank
<1>5. rank \in Surjection(hooks, 1 .. n)
  <2>1. IsFiniteSet(1 .. n) /\ Cardinality(1 .. n) = n
    BY <1>1, FS_Interval
  <2> QED
    BY <1>0, <1>4, <2>1, FS_Injection
<1> DEFINE t == [i \in 1 .. n |-> CHOOSE f \in hooks : rank[f] = i]
<1>6. ASSUME NEW i \in 1 .. n PROVE t[i] \in hooks /\ rank[t[i]] = i
  BY <1>5 DEF Surjection
<1>7. t \in [1 .. n -> hooks] /\ Sorted(t)
  <2>1. ASSUME NEW i \in 1 .. n, NEW j \in 1 .. n, i < j PROVE Before(t[i], t[j])
    <3>1. t[i] \in hooks /\ t[j] \in hooks /\ rank[t[i]] = i /\ rank[t[j]] = j
      BY <1>6
    <3>2. t[i] # t[j] /\ ~ (rank[t[j]] < rank[t[i]])
      BY <2>1, <3>1, <1>1
    <3>3. ~ Before(t[j], t[i])
      BY <3>1, <3>2, <1>3
    <3> QED
      BY <1>b, <3>1, <3>2, <3>3
  <2> QED
    BY <1>6, <2>1
<1> HIDE DEF t
<1> DEFINE s == DiscoverHooks(entries)
<1>8. s \in [1 .. n -> hooks] /\ Sorted(s)
  <2>1. s = CHOOSE u \in [1 .. n -> hooks] : Sorted(u)
    BY DEF DiscoverHooks, hooks
  <2> QED
    BY <1>7, <2>1
<1> HIDE DEF s
<1>9. ASSUME NEW i \in 1 .. n, NEW j \in 1 .. n, i < j
      PROVE  s[i] # s[j] /\ s[i].number <= s[j].number
  BY <1>8, <1>9, <1>d
<1>10. s \in Seq(hooks) /\ Len(s) = n
  BY <1>1, <1>8
<1>11. Range(s) = hooks
  <2>1. s \in Injection(1 .. n, hooks)
    <3>1. ASSUME NEW i \in 1 .. n, NEW j \in 1 .. n, s[i] = s[j] PROVE i = j
      <4>1. ~ (i < j) /\ ~ (j < i)
        BY <1>9, <3>1
      <4> QED
        BY <4>1, <1>1
    <3> QED
      BY <3>1, <1>8 DEF Injection, IsInjective
  <2>2. IsFiniteSet(1 .. n) /\ Cardinality(1 .. n) = n
    BY <1>1, FS_Interval
  <2>3. s \in Surjection(1 .. n, hooks)
    BY <1>0, <2>1, <2>2, FS_Injection
  <2> QED
    BY <1>8, <2>3 DEF Surjection, Range
<1> QED
  BY <1>1, <1>9, <1>10, <1>11 DEF s, hooks

-----------------------------------------------------------------------------
(* Chains. *)

ScriptResults == Outputs \cup {Failed}

(* The hooks of an event, in their order. *)
Ordered(order, hooks) ==
  /\ order \in Seq(hooks) /\ Len(order) \in Nat /\ Range(order) = hooks
  /\ \A i, j \in 1 .. Len(order) : i < j => /\ order[i] # order[j]
                                           /\ order[i].number <= order[j].number

LEMMA EventsAreOrdered ==
  ASSUME ChainInv, NEW event \in Events
  PROVE  Ordered(DiscoverHooks(dir[event]), {e \in dir[event] : e.runs})
<1>1. PICK entries : entries = dir[event]
  OBVIOUS
<1>2. PICK s \in Setups : dir = s.dir
  BY DEF ChainInv
<1>3. /\ entries \in SUBSET Entries /\ IsFiniteSet(entries)
      /\ \A d, e \in entries : d.name = e.name => d = e
  BY <1>1, <1>2, SetupsAssumption DEF Entries
<1> QED
  BY <1>1, <1>3, DiscoveryIs DEF Ordered

LEMMA NoneIsOrdered == DiscoverHooks({}) = <<>>
<1>1. PICK entries : entries = {}
  OBVIOUS
<1>2. entries \in SUBSET Entries /\ IsFiniteSet(entries) /\ \A d, e \in entries : d.name = e.name => d = e
  BY <1>1, FS_EmptySet
<1>3. PICK order : order = DiscoverHooks(entries)
  OBVIOUS
<1>4. order \in Seq({e \in entries : e.runs}) /\ Range(order) = {e \in entries : e.runs}
  BY <1>2, <1>3, DiscoveryIs
<1>5. {e \in entries : e.runs} = {}
  BY <1>1
<1>6. order = <<>>
  BY <1>4, <1>5 DEF Range
<1> QED
  BY <1>1, <1>3, <1>6

LEMMA OutputsAre ==
  \A out \in ScriptResults : out.text \in BOOLEAN /\ out.sets \subseteq Vars /\ out.drops \subseteq Vars
<1>1. \A out \in Outputs : out.text \in BOOLEAN /\ out.sets \subseteq Vars /\ out.drops \subseteq Vars
  <2>1. Outputs \subseteq [text : BOOLEAN, sets : SUBSET Vars, drops : SUBSET Vars,
                         action : {"none", "short_circuit", "continue"}]
    BY ConstantsAssumption
  <2> QED
    BY <2>1
<1>2. Failed.text \in BOOLEAN /\ Failed.sets \subseteq Vars /\ Failed.drops \subseteq Vars
  BY DEF Failed
<1> QED
  BY <1>1, <1>2 DEF ScriptResults

(* A chain that has just begun. *)
LEMMA StartOk ==
  ASSUME ChainInv, NEW event \in Events
  PROVE  ChainOk(StartChain(event, <<"text", event>>, dir[event]))
<1>1. PICK order : order = DiscoverHooks(dir[event])
  OBVIOUS
<1>2. PICK ch : ch = StartChain(event, <<"text", event>>, dir[event])
  OBVIOUS
<1>3. ch = [event |-> event, todo |-> order, text |-> <<"text", event>>, set |-> <<>>,
            actions |-> {}, ran |-> <<>>, script |-> "none", result |-> Failed, spent |-> FALSE]
  BY <1>1, <1>2 DEF StartChain
<1>4. /\ ch.event = event /\ ch.todo = order /\ ch.text = <<"text", event>> /\ ch.set = <<>>
      /\ ch.ran = <<>> /\ ch.script = "none" /\ ch.result = Failed
  BY <1>3
<1>5. Shape(ch)
  BY <1>3 DEF Shape
<1>6. InOrder(ch, order)
  <2>1. order \in Seq({e \in dir[event] : e.runs}) /\ Len(order) \in Nat
    BY <1>1, EventsAreOrdered DEF Ordered
  <2>2. order = SubSeq(order, 1, Len(order)) /\ Len(<<>>) = 0 /\ 0 + 1 = 1
    BY <2>1
  <2> QED
    BY <1>4, <2>1, <2>2 DEF InOrder
<1>7. TextOfLast(ch) /\ SetByLast(ch)
  BY <1>4 DEF TextOfLast, SetByLast, LastOf
<1>8. event # "none"
  BY DEF Events, Message, PreRun, TurnCompleted, TurnFailed, PreCompact, PostCompact, CompactFailed
<1> QED
  BY <1>1, <1>2, <1>4, <1>5, <1>6, <1>7, <1>8 DEF ChainOk

LEMMA NoChainOk == ChainOk(NoChain) /\ NoChain.event = "none"
<1>1. PICK ch : ch = NoChain
  OBVIOUS
<1>2. ch = [event |-> "none", todo |-> <<>>, text |-> <<>>, set |-> <<>>,
            actions |-> {}, ran |-> <<>>, script |-> "none", result |-> Failed, spent |-> FALSE]
  BY <1>1, NoneIsOrdered DEF NoChain, StartChain
<1>3. Shape(ch) /\ ch.event = "none" /\ ch.todo = <<>> /\ ch.script = "none" /\ ch.result = Failed
  BY <1>2 DEF Shape
<1> QED
  BY <1>1, <1>3 DEF ChainOk

(* The last of a set that gets one more at the end. *)
LEMMA LastOne ==
  ASSUME NEW n \in Nat, NEW places \in SUBSET (1 .. n)
  PROVE  LastOf(places \cup {n + 1}) = {n + 1}
<1>1. \A i \in places : i \in Nat /\ i <= n + 1 /\ ~(n + 1 <= i)
  OBVIOUS
<1>2. n + 1 <= n + 1
  OBVIOUS
<1> QED
  BY <1>1, <1>2 DEF LastOf

(* A script has ended. *)
LEMMA AfterOk ==
  ASSUME ChainInv, NEW ch, ChainOk(ch), ch.event # "none", ch.todo # <<>>, NEW out \in ScriptResults
  PROVE  ChainOk(After(ch, out))
<1>1. PICK order : order = DiscoverHooks(dir[ch.event])
  OBVIOUS
<1>2. PICK next : next = After(ch, out)
  OBVIOUS
<1>3. PICK ran, n, head, event : ran = ch.ran /\ n = Len(ran) /\ head = Head(ch.todo) /\ event = ch.event
  OBVIOUS
<1>4. event \in Events /\ InOrder(ch, order) /\ TextOfLast(ch) /\ SetByLast(ch)
      /\ \A i \in DOMAIN ran : Claimed(ch, ran[i]) => "short_circuit" \in ch.actions
  BY <1>1, <1>3 DEF ChainOk
<1>5. order \in Seq({e \in dir[event] : e.runs}) /\ Len(order) \in Nat
  BY <1>1, <1>3, <1>4, EventsAreOrdered DEF Ordered
<1>6. /\ ran \in Seq([hook : Range(order), out : ScriptResults]) /\ n \in Nat /\ n <= Len(order)
      /\ DOMAIN ran = 1 .. n
      /\ \A i \in 1 .. n : ran[i].hook = order[i] /\ ran[i].out \in ScriptResults
      /\ \A i \in 1 .. n : ~Claimed(ch, ran[i])
      /\ ch.todo = SubSeq(order, n + 1, Len(order))
  <2>1. /\ ran \in Seq([hook : Range(order), out : ScriptResults]) /\ n <= Len(order)
        /\ \A i \in 1 .. n : ran[i].hook = order[i]
        /\ \A i \in 1 .. n : i < n => ~Claimed(ch, ran[i])
        /\ ran # <<>> => ~Claimed(ch, ran[n])
        /\ ch.todo = SubSeq(order, n + 1, Len(order))
    BY <1>3, <1>4 DEF InOrder, ScriptResults
  <2>2. n \in Nat /\ DOMAIN ran = 1 .. n
    BY <1>3, <2>1
  <2>3. ASSUME NEW i \in 1 .. n PROVE ~Claimed(ch, ran[i])
    <3>1. ran # <<>> /\ (i < n \/ i = n)
      BY <1>3, <2>2
    <3> QED
      BY <2>1, <3>1
  <2>4. \A i \in 1 .. n : ran[i].out \in ScriptResults
    <3> SUFFICES ASSUME NEW i \in 1 .. n PROVE ran[i].out \in ScriptResults
      OBVIOUS
    <3>1. PICK T : T = [hook : Range(order), out : ScriptResults]
      OBVIOUS
    <3>2. ran \in Seq(T) /\ i \in DOMAIN ran
      BY <2>1, <2>2, <3>1
    <3>3. ran[i] \in T
      BY <3>2
    <3> QED
      BY <3>1, <3>3
  <2> QED
    BY <2>1, <2>2, <2>3, <2>4
<1>7. /\ n + 1 \in 1 .. Len(order) /\ head = order[n + 1] /\ head \in Range(order)
      /\ Tail(ch.todo) = SubSeq(order, (n + 1) + 1, Len(order))
  <2>1. PICK todo : todo = ch.todo
    OBVIOUS
  <2>2. n < Len(order)
    BY <1>5, <1>6
  <2>3. /\ todo \in Seq({e \in dir[event] : e.runs}) /\ Len(todo) = Len(order) - n
        /\ \A i \in 1 .. Len(order) - n : todo[i] = order[n + i]
    BY <1>5, <1>6, <2>1, <2>2, SubSeqProperties
  <2>4. head = order[n + 1]
    <3>1. 1 \in 1 .. Len(order) - n /\ todo # <<>> /\ Head(todo) = todo[1]
      BY <1>5, <1>6, <2>1, <2>2, <2>3
    <3> QED
      BY <1>3, <2>1, <2>3, <3>1
  <2>5. Tail(todo) = SubSeq(order, (n + 1) + 1, Len(order))
    <3>1. PICK rest, m : rest = SubSeq(order, (n + 1) + 1, Len(order)) /\ m = Len(order) - (n + 1)
      OBVIOUS
    <3>2. /\ rest \in Seq({e \in dir[event] : e.runs}) /\ Len(rest) = m /\ m \in Nat
          /\ \A i \in 1 .. m : rest[i] = order[(n + 1) + i]
      BY <1>5, <1>6, <2>2, <3>1, SubSeqProperties
    <3>3. /\ Tail(todo) \in Seq({e \in dir[event] : e.runs}) /\ Len(Tail(todo)) = m
          /\ \A i \in 1 .. m : Tail(todo)[i] = todo[i + 1]
      BY <1>5, <1>6, <2>2, <2>3, <3>1
    <3>4. \A i \in 1 .. m : Tail(todo)[i] = rest[i]
      <4> SUFFICES ASSUME NEW i \in 1 .. m PROVE Tail(todo)[i] = rest[i]
        OBVIOUS
      <4>1. i + 1 \in 1 .. Len(order) - n /\ n + (i + 1) = (n + 1) + i
        BY <1>5, <1>6, <3>1, <3>2
      <4> QED
        BY <2>3, <3>2, <3>3, <4>1
    <3>5. PICK S, tail : S = {e \in dir[event] : e.runs} /\ tail = Tail(todo)
      OBVIOUS
    <3>6. tail \in Seq(S) /\ rest \in Seq(S) /\ Len(tail) = m /\ Len(rest) = m
          /\ \A i \in 1 .. m : tail[i] = rest[i]
      BY <3>2, <3>3, <3>4, <3>5
    <3>7. tail = rest
      BY <3>6, SeqEqual
    <3> QED
      BY <3>1, <3>5, <3>7
  <2>6. n + 1 \in 1 .. Len(order)
    BY <1>5, <1>6, <2>2
  <2>7. head \in Range(order)
    <3>1. n + 1 \in DOMAIN order
      BY <1>5, <2>6
    <3> QED
      BY <2>4, <3>1 DEF Range
  <2> QED
    BY <2>1, <2>4, <2>5, <2>6, <2>7
<1>8. PICK entry : entry = [hook |-> head, out |-> out]
  OBVIOUS
<1>9. entry.hook = head /\ entry.out = out /\ entry \in [hook : Range(order), out : ScriptResults]
  BY <1>7, <1>8
<1>10. PICK later : later = Append(ran, entry)
  OBVIOUS
<1>11. /\ later \in Seq([hook : Range(order), out : ScriptResults]) /\ Len(later) = n + 1
       /\ DOMAIN later = 1 .. n + 1 /\ later # <<>>
       /\ \A i \in 1 .. n : later[i] = ran[i]
       /\ later[n + 1] = entry
  BY <1>3, <1>6, <1>9, <1>10
<1>12. /\ next = [event |-> event, todo |-> next.todo, text |-> next.text, set |-> next.set,
                  actions |-> next.actions, ran |-> later, script |-> "none", result |-> Failed,
                  spent |-> next.spent]
       /\ next.event = event /\ next.ran = later /\ next.script = "none" /\ next.result = Failed
       /\ next.todo = Rest(ch, out)
       /\ next.text = IF out.text THEN <<"hook", head.name>> ELSE ch.text
       /\ next.set = MutatedEnv(ch.set, head, out)
       /\ next.actions = IF Honored(event, out.action) THEN ch.actions \cup {out.action} ELSE ch.actions
  BY <1>2, <1>3, <1>8, <1>10 DEF After
<1>13. Shape(next)
  BY <1>12 DEF Shape
<1>14. InOrder(next, order)
  <2>1. \A i \in 1 .. n + 1 : later[i].hook = order[i]
    <3> SUFFICES ASSUME NEW i \in 1 .. n + 1 PROVE later[i].hook = order[i]
      OBVIOUS
    <3>1. CASE i \in 1 .. n
      BY <1>6, <1>11, <3>1
    <3>2. CASE i = n + 1
      BY <1>7, <1>9, <1>11, <3>2
    <3> QED
      BY <1>6, <3>1, <3>2
  <2>2. \A i \in 1 .. n + 1 : i < n + 1 => ~Claimed(next, later[i])
    <3> SUFFICES ASSUME NEW i \in 1 .. n + 1, i < n + 1 PROVE ~Claimed(next, later[i])
      OBVIOUS
    <3>1. i \in 1 .. n /\ later[i] = ran[i] /\ ~Claimed(ch, ran[i])
      BY <1>6, <1>11
    <3> QED
      BY <1>3, <1>12, <3>1 DEF Claimed
  <2>3. IF Claimed(next, later[n + 1]) THEN next.todo = <<>>
        ELSE next.todo = SubSeq(order, (n + 1) + 1, Len(order))
    <3>1. Claimed(next, later[n + 1]) <=> (event = PreRun /\ out.action = "short_circuit")
      BY <1>9, <1>11, <1>12 DEF Claimed
    <3>2. (Honored(event, out.action) /\ out.action = "short_circuit")
             <=> (event = PreRun /\ out.action = "short_circuit")
      BY DEF Honored, AllowedActions, PreRun, EndOfTurn
    <3>3. next.todo = IF Honored(event, out.action) /\ out.action = "short_circuit" THEN <<>>
                      ELSE Tail(ch.todo)
      BY <1>3, <1>12 DEF Rest
    <3> QED
      BY <1>7, <3>1, <3>2, <3>3
  <2>4. n + 1 <= Len(order) /\ n + 1 \in Nat
    BY <1>5, <1>6, <1>7
  <2> QED
    BY <1>11, <1>12, <2>1, <2>2, <2>3, <2>4 DEF InOrder, ScriptResults
<1>15. TextOfLast(next)
  <2>1. PICK replaced : replaced = {i \in 1 .. n : ran[i].out.text}
    OBVIOUS
  <2>2. IF replaced # {} THEN \E i \in LastOf(replaced) : ch.text = <<"hook", ran[i].hook.name>>
        ELSE ch.text[1] = "text"
    BY <1>3, <1>4, <1>6, <2>1 DEF TextOfLast
  <2>3. PICK replaced2 : replaced2 = {i \in DOMAIN next.ran : next.ran[i].out.text}
    OBVIOUS
  <2>4. replaced2 = replaced \cup {i \in {n + 1} : out.text}
    BY <1>6, <1>9, <1>11, <1>12, <2>1, <2>3
  <2>5. CASE out.text
    <3>1. LastOf(replaced2) = {n + 1} /\ replaced2 # {}
      <4>1. replaced \in SUBSET (1 .. n) /\ replaced2 = replaced \cup {n + 1}
        BY <2>1, <2>4, <2>5
      <4> QED
        BY <1>6, <4>1, LastOne
    <3>2. next.text = <<"hook", next.ran[n + 1].hook.name>>
      BY <1>9, <1>11, <1>12, <2>5
    <3> QED
      BY <2>3, <3>1, <3>2 DEF TextOfLast
  <2>6. CASE ~out.text
    <3>1. replaced2 = replaced /\ next.text = ch.text
      BY <1>12, <2>4, <2>6
    <3>2. \A i \in LastOf(replaced) : next.ran[i] = ran[i]
      BY <1>11, <1>12, <2>1 DEF LastOf
    <3> QED
      BY <2>2, <2>3, <3>1, <3>2 DEF TextOfLast
  <2> QED
    BY <2>5, <2>6
<1>16. SetByLast(next)
  <2>1. PICK set, drops, sets : set = ch.set /\ drops = out.drops /\ sets = out.sets
    OBVIOUS
  <2>2. next.set = [v \in (DOMAIN set \ drops) \cup sets |->
                      IF v \in sets THEN <<"hook", head.name>> ELSE set[v]]
    BY <1>12, <2>1 DEF MutatedEnv
  <2>3. \A v \in DOMAIN set : set[v][1] = "hook"
    BY <1>4, <2>1 DEF SetByLast
  <2>4. \A v \in DOMAIN next.set : next.set[v][1] = "hook"
    BY <2>2, <2>3
  <2>5. ASSUME NEW v \in Vars
        PROVE  LET touched == {i \in DOMAIN next.ran : v \in next.ran[i].out.sets \cup next.ran[i].out.drops}
               IN v \in DOMAIN next.set <=> \E i \in LastOf(touched) : v \in next.ran[i].out.sets
    <3>1. PICK touched : touched = {i \in 1 .. n : v \in ran[i].out.sets \cup ran[i].out.drops}
      OBVIOUS
    <3>2. PICK touched2 : touched2 = {i \in DOMAIN next.ran : v \in next.ran[i].out.sets \cup next.ran[i].out.drops}
      OBVIOUS
    <3>3. v \in DOMAIN set <=> \E i \in LastOf(touched) : v \in ran[i].out.sets
      BY <1>3, <1>4, <1>6, <2>1, <3>1 DEF SetByLast
    <3>4. touched2 = touched \cup {i \in {n + 1} : v \in sets \cup drops}
      BY <1>6, <1>9, <1>11, <1>12, <2>1, <3>1, <3>2
    <3>5. v \in DOMAIN next.set <=> (v \in DOMAIN set /\ v \notin drops) \/ v \in sets
      BY <2>2
    <3>6. CASE v \in sets \cup drops
      <4>1. LastOf(touched2) = {n + 1}
        <5>1. touched \in SUBSET (1 .. n) /\ touched2 = touched \cup {n + 1}
          BY <3>1, <3>4, <3>6
        <5> QED
          BY <1>6, <5>1, LastOne
      <4>2. next.ran[n + 1].out.sets = sets
        BY <1>9, <1>11, <1>12, <2>1
      <4> QED
        BY <3>2, <3>5, <3>6, <4>1, <4>2
    <3>7. CASE v \notin sets \cup drops
      <4>1. touched2 = touched
        BY <3>4, <3>7
      <4>2. \A i \in LastOf(touched) : next.ran[i] = ran[i]
        BY <1>11, <1>12, <3>1 DEF LastOf
      <4> QED
        BY <3>2, <3>3, <3>5, <3>7, <4>1, <4>2
    <3> QED
      BY <3>6, <3>7
  <2> QED
    BY <2>4, <2>5 DEF SetByLast
<1>17. \A i \in DOMAIN next.ran : Claimed(next, next.ran[i]) => "short_circuit" \in next.actions
  <2> SUFFICES ASSUME NEW i \in 1 .. n + 1, Claimed(next, later[i]) PROVE "short_circuit" \in next.actions
    BY <1>11, <1>12
  <2>1. CASE i \in 1 .. n
    BY <1>3, <1>6, <1>11, <1>12, <2>1 DEF Claimed
  <2>2. CASE i = n + 1
    <3>1. event = PreRun /\ out.action = "short_circuit"
      BY <1>9, <1>11, <1>12, <2>2 DEF Claimed
    <3>2. Honored(event, out.action)
      BY <3>1 DEF Honored, AllowedActions, PreRun, EndOfTurn
    <3> QED
      BY <1>12, <3>1, <3>2
  <2> QED
    BY <1>6, <2>1, <2>2
<1>18. Failed \in Outputs \cup {Failed}
  OBVIOUS
<1> QED
  BY <1>1, <1>2, <1>3, <1>4, <1>12, <1>13, <1>14, <1>15, <1>16, <1>17, <1>18 DEF ChainOk

(* A chain that is as it should be has its scripts in place. *)
LEMMA OkInPlace ==
  ASSUME ChainInv, NEW ch, ChainOk(ch), ch.event # "none"
  PROVE  InPlace(ch)
<1>1. PICK order, hooks : order = DiscoverHooks(dir[ch.event]) /\ hooks = {e \in dir[ch.event] : e.runs}
  OBVIOUS
<1>2. PICK ran, n, event : ran = ch.ran /\ n = Len(ran) /\ event = ch.event
  OBVIOUS
<1>3. event \in Events /\ InOrder(ch, order) /\ TextOfLast(ch) /\ SetByLast(ch)
  BY <1>1, <1>2 DEF ChainOk
<1>4. Ordered(order, hooks)
  BY <1>1, <1>2, <1>3, EventsAreOrdered
<1>a. PICK Ran : Ran = [hook : Range(order), out : Outputs \cup {Failed}]
  OBVIOUS
<1>b. /\ ran \in Seq(Ran) /\ n <= Len(order)
      /\ \A i \in 1 .. n : ran[i].hook = order[i]
      /\ \A i \in 1 .. n : i < n => ~Claimed(ch, ran[i])
      /\ IF ran # <<>> /\ Claimed(ch, ran[n]) THEN ch.todo = <<>>
         ELSE ch.todo = SubSeq(order, n + 1, Len(order))
  BY <1>2, <1>3, <1>a DEF InOrder
<1>c. n \in Nat /\ DOMAIN ran = 1 .. n
  BY <1>2, <1>b
<1>5. /\ n \in Nat /\ n <= Len(order) /\ DOMAIN ran = 1 .. n
      /\ \A i \in 1 .. n : ran[i].hook = order[i]
      /\ \A i \in 1 .. n : i < n => ~Claimed(ch, ran[i])
      /\ IF ran # <<>> /\ Claimed(ch, ran[n]) THEN ch.todo = <<>>
         ELSE ch.todo = SubSeq(order, n + 1, Len(order))
  BY <1>b, <1>c
<1>6. ASSUME NEW i \in DOMAIN ran, NEW j \in DOMAIN ran, i < j
      PROVE  /\ ran[i].hook # ran[j].hook /\ ran[i].hook.number <= ran[j].hook.number
             /\ ~(event = PreRun /\ ran[i].out.action = "short_circuit")
  <2>1. i \in 1 .. Len(order) /\ j \in 1 .. Len(order) /\ i < n
    BY <1>4, <1>5, <1>6 DEF Ordered
  <2>2. ~Claimed(ch, ran[i])
    BY <1>5, <2>1
  <2> QED
    BY <1>2, <1>4, <1>5, <1>6, <2>1, <2>2 DEF Ordered, Claimed
<1>7. ASSUME Finished(ch)
      PROVE  \/ {ran[i].hook : i \in DOMAIN ran} = hooks
             \/ ran # <<>> /\ event = PreRun /\ Last(ran).out.action = "short_circuit"
  <2>1. CASE ran # <<>> /\ Claimed(ch, ran[n])
    BY <1>2, <2>1 DEF Claimed, Last
  <2>2. CASE ~(ran # <<>> /\ Claimed(ch, ran[n]))
    <3>1. SubSeq(order, n + 1, Len(order)) = <<>>
      BY <1>5, <1>7, <2>2 DEF Finished
    <3>2. Len(order) \in Nat /\ n = Len(order)
      <4>1. order \in Seq(hooks) /\ Len(order) \in Nat
        BY <1>4 DEF Ordered
      <4>2. ASSUME n < Len(order) PROVE FALSE
        <5>1. PICK m : m = Len(order)
          OBVIOUS
        <5>2. m \in Nat /\ n + 1 \in 1 .. m + 1 /\ m \in n .. m
          BY <1>5, <4>1, <4>2, <5>1
        <5>3. Len(SubSeq(order, n + 1, m)) = IF n + 1 <= m THEN m - (n + 1) + 1 ELSE 0
          BY <1>5, <4>1, <5>1, <5>2, SubSeqProperties
        <5>4. Len(SubSeq(order, n + 1, m)) = 0
          BY <3>1, <5>1
        <5> HIDE <3>1
        <5> QED
          BY <1>5, <4>2, <5>1, <5>2, <5>3, <5>4
      <4> QED
        BY <1>5, <4>1, <4>2
    <3>3. {order[i] : i \in 1 .. n} = hooks
      BY <1>4, <3>2 DEF Ordered, Range
    <3> QED
      BY <1>5, <3>3
  <2> QED
    BY <2>1, <2>2
<1>8. LET replaced == {i \in DOMAIN ch.ran : ch.ran[i].out.text}
      IN IF replaced # {} THEN \E i \in LastOf(replaced) : ch.text = <<"hook", ch.ran[i].hook.name>>
         ELSE ch.text[1] = "text"
  BY <1>3 DEF TextOfLast
<1>9. \A v \in Vars :
        LET touched == {i \in DOMAIN ch.ran : v \in ch.ran[i].out.sets \cup ch.ran[i].out.drops}
        IN v \in DOMAIN ch.set <=> \E i \in LastOf(touched) : v \in ch.ran[i].out.sets
  BY <1>3 DEF SetByLast
<1>10. \A i, j \in DOMAIN ch.ran : i < j =>
         /\ ch.ran[i].hook # ch.ran[j].hook /\ ch.ran[i].hook.number <= ch.ran[j].hook.number
         /\ ~(ch.event = PreRun /\ ch.ran[i].out.action = "short_circuit")
  BY <1>2, <1>6
<1>11. Finished(ch) =>
         \/ {ch.ran[i].hook : i \in DOMAIN ch.ran} = {e \in dir[ch.event] : e.runs}
         \/ ch.ran # <<>> /\ (ch.event = PreRun /\ Last(ch.ran).out.action = "short_circuit")
  BY <1>1, <1>2, <1>7
<1> QED
  BY <1>8, <1>9, <1>10, <1>11, Zenon DEF InPlace

(* A chain whose script is started, or holds its output. *)
LEMMA RunsOk ==
  ASSUME NEW ch, ChainOk(ch), ch.todo # <<>>, NEW script, NEW printed \in ScriptResults
  PROVE  ChainOk([ch EXCEPT !.script = script, !.result = printed])
<1>1. PICK next : next = [ch EXCEPT !.script = script, !.result = printed]
  OBVIOUS
<1>2. next = [event |-> ch.event, todo |-> ch.todo, text |-> ch.text, set |-> ch.set,
              actions |-> ch.actions, ran |-> ch.ran, script |-> script, result |-> printed,
              spent |-> ch.spent]
  <2>1. ch = [event |-> ch.event, todo |-> ch.todo, text |-> ch.text, set |-> ch.set,
              actions |-> ch.actions, ran |-> ch.ran, script |-> ch.script, result |-> ch.result,
              spent |-> ch.spent]
    BY DEF ChainOk, Shape
  <2>2. PICK event, todo, text, set, actions, ran, s, r, spent :
          ch = [event |-> event, todo |-> todo, text |-> text, set |-> set,
                actions |-> actions, ran |-> ran, script |-> s, result |-> r, spent |-> spent]
    BY <2>1
  <2> QED
    BY <1>1, <2>2
<1>3. /\ next.event = ch.event /\ next.todo = ch.todo /\ next.text = ch.text /\ next.set = ch.set
      /\ next.actions = ch.actions /\ next.ran = ch.ran /\ next.script = script /\ next.result = printed
  BY <1>2
<1>4. Shape(next)
  BY <1>2, <1>3 DEF Shape
<1>5. ch.event # "none" /\ ch.event \in Events /\ InOrder(ch, DiscoverHooks(dir[ch.event]))
      /\ TextOfLast(ch) /\ SetByLast(ch)
      /\ \A i \in DOMAIN ch.ran : Claimed(ch, ch.ran[i]) => "short_circuit" \in ch.actions
  BY DEF ChainOk
<1>6. \A order : InOrder(ch, order) => InOrder(next, order)
  BY <1>3 DEF InOrder, Claimed
<1>7. TextOfLast(next)
  BY <1>3, <1>5 DEF TextOfLast
<1>8. SetByLast(next)
  BY <1>3, <1>5 DEF SetByLast
<1>9. \A i \in DOMAIN next.ran : Claimed(next, next.ran[i]) => "short_circuit" \in next.actions
  BY <1>3, <1>5 DEF Claimed
<1>10. next.result \in Outputs \cup {Failed}
  BY <1>3 DEF ScriptResults
<1> QED
  BY <1>1, <1>3, <1>4, <1>5, <1>6, <1>7, <1>8, <1>9, <1>10 DEF ChainOk

(* A chain whose time is up. *)
LEMMA SpentOk ==
  ASSUME NEW ch, ChainOk(ch), NEW spent
  PROVE  ChainOk([ch EXCEPT !.spent = @ \/ spent])
<1>1. PICK next : next = [ch EXCEPT !.spent = @ \/ spent]
  OBVIOUS
<1>2. next = [event |-> ch.event, todo |-> ch.todo, text |-> ch.text, set |-> ch.set,
              actions |-> ch.actions, ran |-> ch.ran, script |-> ch.script, result |-> ch.result,
              spent |-> next.spent]
  <2>1. ch = [event |-> ch.event, todo |-> ch.todo, text |-> ch.text, set |-> ch.set,
              actions |-> ch.actions, ran |-> ch.ran, script |-> ch.script, result |-> ch.result,
              spent |-> ch.spent]
    BY DEF ChainOk, Shape
  <2>2. PICK event, todo, text, set, actions, ran, s, r, t :
          ch = [event |-> event, todo |-> todo, text |-> text, set |-> set,
                actions |-> actions, ran |-> ran, script |-> s, result |-> r, spent |-> t]
    BY <2>1
  <2> QED
    BY <1>1, <2>2
<1>3. /\ next.event = ch.event /\ next.todo = ch.todo /\ next.text = ch.text /\ next.set = ch.set
      /\ next.actions = ch.actions /\ next.ran = ch.ran /\ next.script = ch.script
      /\ next.result = ch.result
  BY <1>2
<1>4. Shape(next)
  BY <1>2, <1>3 DEF Shape
<1>5. \A order : InOrder(ch, order) => InOrder(next, order)
  BY <1>3 DEF InOrder, Claimed
<1>6. TextOfLast(ch) => TextOfLast(next)
  BY <1>3 DEF TextOfLast
<1>7. SetByLast(ch) => SetByLast(next)
  BY <1>3 DEF SetByLast
<1>8. \A i : Claimed(next, next.ran[i]) <=> Claimed(ch, ch.ran[i])
  BY <1>3 DEF Claimed
<1> QED
  BY <1>1, <1>3, <1>4, <1>5, <1>6, <1>7, <1>8 DEF ChainOk

-----------------------------------------------------------------------------
(* The calls: where they are, and what they were told. *)

LEMMA InitCalls == PromptsInit => TypeInv /\ StageInv /\ LogInv
<1> SUFFICES ASSUME PromptsInit PROVE TypeInv /\ StageInv /\ LogInv
  OBVIOUS
<1>1. PICK s \in Setups : plan = s.plan /\ dir = s.dir
  BY DEF PromptsInit
<1>2. plan \in [Commands -> [op : Ops, agent : Agents, served : BOOLEAN]]
  BY <1>1, SetupsAssumption
<1>3. /\ pc = [c \in Commands |-> "idle"] /\ line = [c \in Commands |-> 1]
      /\ reply = [c \in Commands |-> <<>>] /\ log = {}
  BY DEF PromptsInit
<1>4. TypeInv
  <2>1. \A c \in Commands : pc[c] = "idle" /\ line[c] = 1 /\ reply[c] = <<>> /\ Len(reply[c]) = 1 - 1
    BY <1>3
  <2>2. <<>> \in Seq(Replies) /\ "idle" \in Stages /\ 1 \in Nat \ {0}
    BY DEF Stages
  <2> QED
    BY <1>2, <1>3, <2>1, <2>2 DEF TypeInv
<1>5. StageInv
  BY <1>3 DEF StageInv, Stage
<1>6. LogInv
  <2>1. \A c \in Commands : pc[c] = "idle" /\ DOMAIN reply[c] = {}
    BY <1>3
  <2> QED
    BY <1>3, <2>1 DEF LogInv, Early
<1> QED
  BY <1>4, <1>5, <1>6

(* Nothing is asked or answered. *)
LEMMA CallsStay ==
  ASSUME TypeInv, StageInv, UNCHANGED <<setup, pc, line, reply>>
  PROVE  TypeInv' /\ StageInv'
BY DEF TypeInv, StageInv, Stage, Op, setup

LEMMA GoTo ==
  ASSUME TypeInv, StageInv, UNCHANGED setup, NEW c \in Commands, pc[c] # "done",
         NEW stage \in Stages, Go(c, stage), Stage(Op(c), stage)
  PROVE  TypeInv' /\ StageInv'
<1>1. plan' = plan /\ line' = line /\ reply' = reply /\ pc' = [pc EXCEPT ![c] = stage]
  BY DEF Go, setup
<1>2. pc' \in [Commands -> Stages]
  BY <1>1 DEF TypeInv
<1>3. \A d \in Commands : pc'[d] = IF d = c THEN stage ELSE pc[d]
  BY <1>1 DEF TypeInv
<1>4. ASSUME NEW d \in Commands
      PROVE  IF pc'[d] = "done" THEN Len(reply'[d]) \in {line'[d] - 1, line'[d]}
             ELSE Len(reply'[d]) = line'[d] - 1
  BY <1>1, <1>3 DEF TypeInv
<1>5. TypeInv'
  BY <1>1, <1>2, <1>4 DEF TypeInv
<1>6. ASSUME NEW d \in Commands PROVE Stage(Op(d), pc[d])'
  <2>1. Op(d)' = Op(d)
    BY <1>1 DEF Op
  <2>2. CASE d = c
    BY <1>3, <2>1, <2>2 DEF Stage
  <2>3. CASE d # c
    BY <1>3, <2>1, <2>3 DEF Stage, StageInv
  <2> QED
    BY <2>2, <2>3
<1> QED
  BY <1>5, <1>6 DEF StageInv

(* Where an answer leads, and what is written of it. *)
LEMMA Answered ==
  ASSUME TypeInv, NEW c \in Commands, pc[c] # "done", NEW r \in Replies, Answer(c, r)
  PROVE  /\ line[c] \in Nat \ {0} /\ DOMAIN reply'[c] = 1 .. line[c] /\ reply'[c][line[c]] = r
         /\ Len(reply'[c]) = line[c] /\ reply'[c] \in Seq(Replies)
         /\ \A i \in 1 .. line[c] : i # line[c] => i \in DOMAIN reply[c] /\ reply'[c][i] = reply[c][i]
         /\ \A d \in Commands : d # c => reply'[d] = reply[d] /\ pc'[d] = pc[d] /\ line'[d] = line[d]
         /\ \/ pc'[c] = "idle" /\ line'[c] = line[c] + 1
            \/ pc'[c] = "done" /\ line'[c] = line[c]
         /\ reply' \in [Commands -> Seq(Replies)] /\ pc' \in [Commands -> Stages]
         /\ line' \in [Commands -> Nat \ {0}]
<1>1. PICK told, n : told = reply[c] /\ n = line[c]
  OBVIOUS
<1>2. told \in Seq(Replies) /\ n \in Nat \ {0} /\ Len(told) = n - 1 /\ DOMAIN told = 1 .. n - 1
  BY <1>1 DEF TypeInv
<1>3. PICK now : now = Append(told, r)
  OBVIOUS
<1>4. /\ now \in Seq(Replies) /\ Len(now) = n /\ DOMAIN now = 1 .. n /\ now[n] = r
      /\ \A i \in 1 .. n : i # n => i \in DOMAIN told /\ now[i] = told[i]
  <2>1. now \in Seq(Replies) /\ Len(now) = (n - 1) + 1 /\ (n - 1) + 1 = n
    BY <1>2, <1>3
  <2>2. now[n] = r /\ \A i \in 1 .. n - 1 : now[i] = told[i]
    BY <1>2, <1>3, <2>1
  <2> QED
    BY <1>2, <2>1, <2>2
<1>5. PICK more \in BOOLEAN : more = (Op(c) = "repl" /\ line[c] < MaxLines)
  OBVIOUS
<1>6. /\ reply' = [reply EXCEPT ![c] = now]
      /\ pc' = [pc EXCEPT ![c] = IF more THEN "idle" ELSE "done"]
      /\ line' = [line EXCEPT ![c] = IF more THEN n + 1 ELSE n]
  BY <1>1, <1>3, <1>5 DEF Answer
<1>7. /\ reply'[c] = now /\ pc'[c] = (IF more THEN "idle" ELSE "done")
      /\ line'[c] = IF more THEN n + 1 ELSE n
      /\ \A d \in Commands : d # c => reply'[d] = reply[d] /\ pc'[d] = pc[d] /\ line'[d] = line[d]
  BY <1>6 DEF TypeInv
<1>8. reply' \in [Commands -> Seq(Replies)]
  BY <1>4, <1>6 DEF TypeInv
<1>9. pc' \in [Commands -> Stages]
  <2>1. "idle" \in Stages /\ "done" \in Stages
    BY DEF Stages
  <2> QED
    BY <1>6, <2>1 DEF TypeInv
<1>10. line' \in [Commands -> Nat \ {0}]
  <2>1. n + 1 \in Nat \ {0}
    BY <1>2
  <2> QED
    BY <1>2, <1>6, <2>1 DEF TypeInv
<1> QED
  BY <1>1, <1>2, <1>4, <1>7, <1>8, <1>9, <1>10

LEMMA AnswerCalls ==
  ASSUME TypeInv, StageInv, UNCHANGED setup, NEW c \in Commands, pc[c] # "done",
         NEW r \in Replies, Answer(c, r)
  PROVE  TypeInv' /\ StageInv'
<1>1. plan' = plan
  BY DEF setup
<1>2. PICK n, told : n = line[c] /\ told = reply'[c]
  OBVIOUS
<1>3. /\ n \in Nat \ {0} /\ Len(told) = n
      /\ (pc'[c] = "idle" /\ line'[c] = n + 1) \/ (pc'[c] = "done" /\ line'[c] = n)
      /\ \A d \in Commands : d # c => reply'[d] = reply[d] /\ pc'[d] = pc[d] /\ line'[d] = line[d]
  <2>1. /\ line[c] \in Nat \ {0} /\ Len(reply'[c]) = line[c]
        /\ \/ pc'[c] = "idle" /\ line'[c] = line[c] + 1
           \/ pc'[c] = "done" /\ line'[c] = line[c]
        /\ \A d \in Commands : d # c => reply'[d] = reply[d] /\ pc'[d] = pc[d] /\ line'[d] = line[d]
    BY Answered
  <2> QED
    BY <1>2, <2>1
<1>4. ASSUME NEW d \in Commands
      PROVE  IF pc'[d] = "done" THEN Len(reply'[d]) \in {line'[d] - 1, line'[d]}
             ELSE Len(reply'[d]) = line'[d] - 1
  <2>1. CASE d = c
    BY <1>2, <1>3, <2>1
  <2>2. CASE d # c
    BY <1>3, <2>2 DEF TypeInv
  <2> QED
    BY <2>1, <2>2
<1>5. TypeInv'
  <2>1. /\ reply' \in [Commands -> Seq(Replies)] /\ pc' \in [Commands -> Stages]
        /\ line' \in [Commands -> Nat \ {0}]
    BY Answered
  <2> QED
    BY <1>1, <1>4, <2>1 DEF TypeInv
<1>6. ASSUME NEW d \in Commands PROVE Stage(Op(d), pc[d])'
  <2>1. Op(d)' = Op(d) /\ Stage(Op(d), pc[d])
    BY <1>1 DEF Op, StageInv
  <2>2. pc'[d] = pc[d] \/ pc'[d] \in {"idle", "done"}
    BY <1>3
  <2> QED
    BY <2>1, <2>2 DEF Stage
<1> QED
  BY <1>5, <1>6 DEF StageInv

-----------------------------------------------------------------------------
(* The session of an agent, and what the calls were told of it. *)

LEMMA LogStays ==
  ASSUME LogInv, UNCHANGED <<setup, pc, line, reply, log>>
  PROVE  LogInv'
BY DEF LogInv, Holds, Told, Unasked, Kind, Asked, Op, setup

(* A call goes on: it has its message, or has not come to it. *)
LEMMA LogGo ==
  ASSUME TypeInv, LogInv, UNCHANGED <<setup, log>>, NEW c \in Commands, pc[c] # "done",
         NEW stage, Go(c, stage),
         stage \in Early => pc[c] \in Early,
         stage \notin Early \cup {"done"} /\ Op(c) \in Speaking => pc[c] \notin Early
  PROVE  LogInv'
<1>1. /\ plan' = plan /\ log' = log /\ line' = line /\ reply' = reply
      /\ \A d \in Commands : pc'[d] = IF d = c THEN stage ELSE pc[d]
  BY DEF Go, TypeInv, setup
<1>2. ASSUME NEW d \in Commands
      PROVE  Op(d)' = Op(d) /\ Asked(d)' = Asked(d) /\ \A i : Holds(d, i)' = Holds(d, i)
  BY <1>1 DEF Op, Asked, Holds, Kind
<1>3. ASSUME NEW d \in Commands, Unasked(d)' PROVE Unasked(d)
  <2>1. CASE d = c
    BY <1>1, <1>2, <1>3, <2>1 DEF Unasked
  <2>2. CASE d # c
    BY <1>1, <1>2, <1>3, <2>2 DEF Unasked
  <2> QED
    BY <2>1, <2>2
<1>4. \A t \in log' : \E d \in Commands : \E i \in 1 .. line'[d] : t.by = <<d, i>>
  BY <1>1 DEF LogInv
<1>5. \A t \in log' : t.parts # <<>> /\ Size(t.parts) <= TurnCap
  BY <1>1 DEF LogInv
<1>6. \A d \in Commands : Unasked(d)' => \A t \in log' : t.by # Asked(d)'
  BY <1>1, <1>2, <1>3 DEF LogInv
<1>7. ASSUME NEW d \in Commands, Op(d)' \in Speaking, pc'[d] \notin Early \cup {"done"}
      PROVE  Holds(d, line[d])'
  <2>1. pc[d] \notin Early \cup {"done"}
    BY <1>1, <1>2, <1>7
  <2> QED
    BY <1>1, <1>2, <1>7, <2>1 DEF LogInv
<1>8. ASSUME NEW d \in Commands, NEW i \in DOMAIN reply'[d] PROVE Told(d, i)'
  BY <1>1, <1>2 DEF LogInv, Told
<1> QED
  BY <1>4, <1>5, <1>6, <1>7, <1>8 DEF LogInv

(* Which messages are there after a step that adds at most one. *)
LEMMA HoldsAfter ==
  ASSUME UNCHANGED setup, NEW new, log' = log \cup new, NEW by, \A t \in new : t.by = by,
         NEW d \in Commands, NEW i
  PROVE  Holds(d, i)' <=> \/ Holds(d, i)
                          \/ /\ by = <<d, i>>
                             /\ \E t \in new : \E j \in DOMAIN t.parts : t.parts[j].kind = Kind(d)
<1>1. Kind(d)' = Kind(d) /\ log' = log \cup new
  BY DEF Kind, Op, setup
<1> QED
  BY <1>1 DEF Holds

(* A call is answered, perhaps with its message appended: the answer is the truth. *)
LEMMA LogAnswer ==
  ASSUME TypeInv, LogInv, UNCHANGED setup, NEW c \in Commands, pc[c] # "done",
         NEW r \in Replies, Answer(c, r),
         NEW new, log' = log \cup new,
         \A t \in new : t.by = Asked(c) /\ t.parts # <<>> /\ Size(t.parts) <= TurnCap,
         new # {} => Unasked(c),
         NEW n, n = line[c],
         r = "ok" /\ Op(c) \notin {"generate", "compact"} => Holds(c, n)',
         r # "ok" /\ Op(c) \in {"add", "media"} =>
           \A t \in new : ~\E j \in DOMAIN t.parts : t.parts[j].kind = Kind(c)
  PROVE  LogInv'
<1>1. n = line[c]
  OBVIOUS
<1>2. plan' = plan /\ \A d \in Commands : Op(d)' = Op(d) /\ Kind(d)' = Kind(d)
  BY DEF setup, Op, Kind
<1>3. /\ n \in Nat \ {0} /\ DOMAIN reply'[c] = 1 .. n /\ reply'[c][n] = r
      /\ \A i \in 1 .. n : i # n => i \in DOMAIN reply[c] /\ reply'[c][i] = reply[c][i]
      /\ \A d \in Commands : d # c => reply'[d] = reply[d] /\ pc'[d] = pc[d] /\ line'[d] = line[d]
      /\ \/ pc'[c] = "idle" /\ line'[c] = n + 1
         \/ pc'[c] = "done" /\ line'[c] = n
      /\ line' \in [Commands -> Nat \ {0}]
  BY <1>1, Answered
<1>4. line \in [Commands -> Nat \ {0}]
  BY DEF TypeInv
<1>5. Asked(c) = <<c, n>>
  BY <1>1 DEF Asked
<1>6. ASSUME NEW t \in log' PROVE \E d \in Commands : \E i \in 1 .. line'[d] : t.by = <<d, i>>
  <2>1. CASE t \in new
    <3>1. t.by = <<c, n>> /\ n \in 1 .. line'[c]
      BY <1>3, <1>5, <2>1
    <3> QED
      BY <3>1
  <2>2. CASE t \in log
    <3>1. PICK d \in Commands : \E i \in 1 .. line[d] : t.by = <<d, i>>
      BY <2>2 DEF LogInv
    <3>2. PICK m, m2 : m = line[d] /\ m2 = line'[d]
      OBVIOUS
    <3>3. m \in Nat /\ m2 \in Nat /\ m <= m2
      BY <1>1, <1>3, <1>4, <3>2
    <3>4. PICK i \in 1 .. m : t.by = <<d, i>>
      BY <3>1, <3>2
    <3>5. i \in 1 .. m2
      BY <3>3
    <3> QED
      BY <3>2, <3>4, <3>5
  <2> QED
    BY <2>1, <2>2
<1>7. \A t \in log' : t.parts # <<>> /\ Size(t.parts) <= TurnCap
  BY DEF LogInv
<1>8. ASSUME NEW d \in Commands, Unasked(d)', NEW t \in log' PROVE t.by # Asked(d)'
  <2>1. CASE d = c
    <3>1. Asked(d)' = <<c, n + 1>>
      <4>1. pc'[c] # "done"
        BY <1>8, <2>1 DEF Unasked, Early
      <4> QED
        BY <1>3, <2>1, <4>1 DEF Asked
    <3>2. CASE t \in new
      BY <1>3, <1>5, <3>1, <3>2
    <3>3. CASE t \in log
      <4>1. PICK e \in Commands : \E i \in 1 .. line[e] : t.by = <<e, i>>
        BY <3>3 DEF LogInv
      <4>2. PICK i \in 1 .. line[e] : t.by = <<e, i>>
        BY <4>1
      <4>3. e = c => i # n + 1
        BY <1>1, <1>3, <4>2
      <4> QED
        BY <3>1, <4>2, <4>3
    <3> QED
      BY <3>2, <3>3
  <2>2. CASE d # c
    <3>1. Asked(d)' = Asked(d) /\ Unasked(d)
      BY <1>2, <1>3, <1>8, <2>2 DEF Asked, Unasked
    <3>2. CASE t \in new
      BY <1>5, <2>2, <3>1, <3>2 DEF Asked
    <3>3. CASE t \in log
      BY <3>1, <3>3 DEF LogInv
    <3> QED
      BY <3>2, <3>3
  <2> QED
    BY <2>1, <2>2
<1>9. ASSUME NEW d \in Commands, Op(d)' \in Speaking, pc'[d] \notin Early \cup {"done"}
      PROVE  Holds(d, line[d])'
  <2>1. d # c
    BY <1>3, <1>9 DEF Early
  <2>2. PICK m : m = line[d]
    OBVIOUS
  <2>3. Holds(d, m)
    BY <1>2, <1>3, <1>9, <2>1, <2>2 DEF LogInv
  <2>4. Holds(d, m)'
    BY <2>3, HoldsAfter
  <2> QED
    BY <1>3, <2>1, <2>2, <2>4
<1>10. ASSUME NEW d \in Commands, NEW i \in DOMAIN reply'[d] PROVE Told(d, i)'
  <2>1. CASE d = c /\ i = n
    <3>1. r = "ok" /\ Op(c) \notin {"generate", "compact"} => Holds(c, n)'
      OBVIOUS
    <3>2. r # "ok" /\ Op(c) \in {"add", "media"} => ~Holds(c, n)'
      <4> SUFFICES ASSUME r # "ok", Op(c) \in {"add", "media"} PROVE ~Holds(c, n)'
        OBVIOUS
      <4>1. Unasked(c)
        BY DEF Unasked, Speaking
      <4>2. ~Holds(c, n)
        BY <1>5, <4>1 DEF LogInv, Holds
      <4>3. Holds(c, n)' <=> \/ Holds(c, n)
                             \/ /\ Asked(c) = <<c, n>>
                                /\ \E t \in new : \E j \in DOMAIN t.parts : t.parts[j].kind = Kind(c)
        BY HoldsAfter
      <4> QED
        BY <4>2, <4>3
    <3> QED
      BY <1>2, <1>3, <2>1, <3>1, <3>2 DEF Told
  <2>2. CASE ~(d = c /\ i = n)
    <3>1. i \in DOMAIN reply[d] /\ reply'[d][i] = reply[d][i]
      BY <1>3, <2>2
    <3>2. Told(d, i)
      BY <3>1 DEF LogInv
    <3>3. Holds(d, i) => Holds(d, i)'
      BY HoldsAfter
    <3>4. Op(d) \in {"add", "media"} /\ ~Holds(d, i) => ~Holds(d, i)'
      <4>1. ASSUME Holds(d, i)', ~Holds(d, i) PROVE FALSE
        <5>1. Holds(d, i)' <=> \/ Holds(d, i)
                               \/ /\ Asked(c) = <<d, i>>
                                  /\ \E t \in new : \E j \in DOMAIN t.parts : t.parts[j].kind = Kind(d)
          BY HoldsAfter
        <5>3. <<c, n>> = <<d, i>>
          BY <1>5, <4>1, <5>1
        <5> QED
          BY <2>2, <5>3
      <4> QED
        BY <4>1
    <3> QED
      BY <1>2, <3>1, <3>2, <3>3, <3>4 DEF Told
  <2> QED
    BY <2>1, <2>2
<1> QED
  BY <1>6, <1>7, <1>8, <1>9, <1>10 DEF LogInv

(* The message of a call that goes on with it. *)
LEMMA LogAppend ==
  ASSUME TypeInv, LogInv, UNCHANGED setup, NEW c \in Commands, pc[c] = "message", Op(c) \in Speaking,
         Go(c, "load"),
         NEW t, log' = log \cup {t}, t.by = Asked(c), t.parts # <<>>, Size(t.parts) <= TurnCap,
         \E j \in DOMAIN t.parts : t.parts[j].kind = "text"
  PROVE  LogInv'
<1>1. PICK n : n = line[c]
  OBVIOUS
<1>2. /\ plan' = plan /\ line' = line /\ reply' = reply
      /\ \A d \in Commands : pc'[d] = IF d = c THEN "load" ELSE pc[d]
  BY DEF Go, TypeInv, setup
<1>3. ASSUME NEW d \in Commands PROVE Op(d)' = Op(d) /\ Kind(d)' = Kind(d) /\ Asked(d)' = Asked(d)
  BY <1>2 DEF Op, Kind, Asked
<1>4. Asked(c) = <<c, n>> /\ Kind(c) = "text" /\ n \in Nat \ {0} /\ Unasked(c)
  BY <1>1 DEF Asked, Kind, TypeInv, Unasked, Speaking, Early
<1>5. ASSUME NEW d \in Commands, NEW i
      PROVE  Holds(d, i)' <=> Holds(d, i) \/ <<c, n>> = <<d, i>>
  <2>1. PICK new : new = {t}
    OBVIOUS
  <2>2. \A u \in new : u.by = <<c, n>>
    BY <1>4, <2>1
  <2>3. Holds(d, i)' <=> \/ Holds(d, i)
                         \/ /\ <<c, n>> = <<d, i>>
                            /\ \E u \in new : \E j \in DOMAIN u.parts : u.parts[j].kind = Kind(d)
    BY <2>1, <2>2, HoldsAfter
  <2> QED
    BY <1>4, <2>1, <2>3
<1>6. ASSUME NEW u \in log' PROVE \E d \in Commands : \E i \in 1 .. line'[d] : u.by = <<d, i>>
  <2>1. CASE u = t
    <3>1. u.by = <<c, n>> /\ n \in 1 .. line'[c]
      BY <1>1, <1>2, <1>4, <2>1
    <3> QED
      BY <3>1
  <2>2. CASE u \in log
    BY <1>2, <2>2 DEF LogInv
  <2> QED
    BY <2>1, <2>2
<1>7. \A u \in log' : u.parts # <<>> /\ Size(u.parts) <= TurnCap
  BY DEF LogInv
<1>8. ASSUME NEW d \in Commands, Unasked(d)', NEW u \in log' PROVE u.by # Asked(d)'
  <2>1. d # c
    BY <1>2, <1>3, <1>8 DEF Unasked, Early
  <2>2. Asked(d)' = Asked(d) /\ Unasked(d)
    BY <1>2, <1>3, <1>8, <2>1 DEF Unasked
  <2>3. CASE u = t
    BY <1>4, <2>1, <2>2, <2>3 DEF Asked
  <2>4. CASE u \in log
    BY <2>2, <2>4 DEF LogInv
  <2> QED
    BY <2>3, <2>4
<1>9. ASSUME NEW d \in Commands, Op(d)' \in Speaking, pc'[d] \notin Early \cup {"done"}
      PROVE  Holds(d, line[d])'
  <2>1. PICK m : m = line[d]
    OBVIOUS
  <2>2. Holds(d, m)'
    <3>1. CASE d = c
      BY <1>1, <1>5, <2>1, <3>1
    <3>2. CASE d # c
      <4>1. Holds(d, m)
        BY <1>2, <1>3, <1>9, <2>1, <3>2 DEF LogInv
      <4> QED
        BY <1>5, <4>1
    <3> QED
      BY <3>1, <3>2
  <2> QED
    BY <1>2, <2>1, <2>2
<1>10. ASSUME NEW d \in Commands, NEW i \in DOMAIN reply'[d] PROVE Told(d, i)'
  <2>1. i \in DOMAIN reply[d] /\ reply'[d][i] = reply[d][i] /\ Told(d, i)
    BY <1>2 DEF LogInv
  <2>2. Holds(d, i) => Holds(d, i)'
    BY <1>5
  <2>3. Holds(d, i)' => Holds(d, i) \/ Op(d) \in Speaking
    BY <1>5
  <2> QED
    BY <1>3, <2>1, <2>2, <2>3 DEF Told, Speaking
<1> QED
  BY <1>6, <1>7, <1>8, <1>9, <1>10 DEF LogInv

-----------------------------------------------------------------------------
(* The hook variables kept for the next generate, and of the turns. *)

LEMMA InitEnv == PromptsInit => EnvInv
<1> SUFFICES ASSUME PromptsInit PROVE EnvInv
  OBVIOUS
<1>1. /\ lastHookEnv = [p \in Processes |-> [a \in Agents |-> NoHookEnv]]
      /\ hookEnv = [c \in Commands |-> NoHookEnv] /\ rendered = {}
  BY DEF PromptsInit
<1>2. \A p \in Processes : \A a \in Agents : lastHookEnv[p][a] = NoHookEnv
  BY <1>1
<1>3. \A c \in Commands : hookEnv[c] = NoHookEnv
  BY <1>1
<1> QED
  BY <1>1, <1>2, <1>3 DEF EnvInv

(* The message of a logged entry is one that was asked; nobody asked NoHookEnv's. *)
LEMMA LoggedIsAsked ==
  ASSUME TypeInv, LogInv, NEW e, Logged(e)
  PROVE  e.by # NoHookEnv.by /\ \A c \in Commands : Unasked(c) => e.by # Asked(c)
<1>1. PICK t \in log : t.by = e.by
  BY DEF Logged
<1>2. PICK c \in Commands : \E i \in 1 .. line[c] : t.by = <<c, i>>
  BY DEF LogInv
<1>3. PICK i \in 1 .. line[c] : t.by = <<c, i>>
  BY <1>2
<1>4. i # 0
  BY <1>3
<1>5. NoHookEnv.by = <<None, 0>>
  BY DEF NoHookEnv
<1>6. e.by # NoHookEnv.by
  BY <1>1, <1>3, <1>4, <1>5
<1>7. \A d \in Commands : Unasked(d) => e.by # Asked(d)
  BY <1>1 DEF LogInv
<1> QED
  BY <1>6, <1>7

LEMMA Places == /\ \A c \in Commands : Process(c) \in Processes
                /\ TypeInv => \A c \in Commands : Agent(c) \in Agents /\ Op(c) \in Ops
BY DEF Process, Processes, Agent, Op, TypeInv

LEMMA EnvStays ==
  ASSUME TypeInv, LogInv, EnvInv, UNCHANGED <<setup, lastHookEnv, hookEnv, rendered>>, log \subseteq log',
         \A d \in Commands : Pending(d)' => Pending(d) \/ hookEnv[d] = NoHookEnv
  PROVE  EnvInv'
<1>1. plan' = plan /\ lastHookEnv' = lastHookEnv /\ hookEnv' = hookEnv /\ rendered' = rendered
  BY DEF setup
<1>2. /\ \A c \in Commands : Op(c)' = Op(c) /\ Process(c)' = Process(c) /\ Agent(c)' = Agent(c)
      /\ \A e : Logged(e) => Logged(e)'
  BY <1>1 DEF Op, Process, Agent, Logged
<1>3. ASSUME NEW d \in Commands, Pending(d)', NEW r \in rendered PROVE r.env.by # hookEnv[d].by
  <2>1. CASE Pending(d)
    BY <2>1 DEF EnvInv
  <2>2. CASE hookEnv[d] = NoHookEnv
    <3>1. PICK e : e = r.env
      OBVIOUS
    <3>2. Logged(e)
      BY <3>1 DEF EnvInv
    <3>3. e.by # NoHookEnv.by
      BY <3>2, LoggedIsAsked
    <3> QED
      BY <2>2, <3>1, <3>3
  <2> QED
    BY <1>3, <2>1, <2>2
<1>4. /\ lastHookEnv' = [p \in Processes |-> [a \in Agents |-> lastHookEnv'[p][a]]]
      /\ hookEnv' = [c \in Commands |-> hookEnv'[c]]
  BY <1>1 DEF EnvInv
<1>5. ASSUME NEW p \in Processes, NEW a \in Agents, lastHookEnv'[p][a] # NoHookEnv
      PROVE  /\ Logged(lastHookEnv[p][a])'
             /\ \E c \in Commands : /\ lastHookEnv'[p][a].by[1] = c /\ Op(c)' = "add"
                                    /\ Process(c)' = p /\ Agent(c)' = a
             /\ \A c \in Commands : hookEnv'[c].by # lastHookEnv'[p][a].by
             /\ \A r \in rendered' : r.env.by # lastHookEnv'[p][a].by
  BY <1>1, <1>2, <1>5 DEF EnvInv
<1>6. ASSUME NEW c \in Commands
      PROVE  /\ hookEnv'[c] # NoHookEnv => Logged(hookEnv[c])' /\ Op(c)' \in {"prompt", "repl", "generate"}
             /\ \A d \in Commands : hookEnv'[c].by = hookEnv'[d].by /\ c # d => hookEnv'[c] = NoHookEnv
             /\ Pending(c)' => \A r \in rendered' : r.env.by # hookEnv'[c].by
  BY <1>1, <1>2, <1>3 DEF EnvInv
<1>7. (\A r \in rendered' : Logged(r.env)') /\ \A r, q \in rendered' : r.env.by = q.env.by => r = q
  BY <1>1, <1>2 DEF EnvInv
<1> QED
  BY <1>4, <1>5, <1>6, <1>7 DEF EnvInv

(* The variables of an added message are kept for the next generate. *)
LEMMA EnvKept ==
  ASSUME TypeInv, LogInv, EnvInv, UNCHANGED <<setup, hookEnv, rendered>>, NEW c \in Commands,
         Unasked(c), Op(c) = "add", NEW set, SetLastHookEnv(c, set), log \subseteq log',
         \E t \in log' : t.by = Asked(c) /\ t.set = set,
         \A d \in Commands : Pending(d)' => Pending(d)
  PROVE  EnvInv'
<1>1. plan' = plan /\ hookEnv' = hookEnv /\ rendered' = rendered
  BY DEF setup
<1>2. /\ \A d \in Commands : Op(d)' = Op(d) /\ Process(d)' = Process(d) /\ Agent(d)' = Agent(d)
      /\ \A e : Logged(e) => Logged(e)'
  BY <1>1 DEF Op, Process, Agent, Logged
<1>3. PICK q, b : q = Process(c) /\ b = Agent(c)
  OBVIOUS
<1>4. q \in Processes /\ b \in Agents
  BY <1>3, Places
<1>5. PICK kept : kept = IF DOMAIN set = {} THEN NoHookEnv ELSE [by |-> Asked(c), set |-> set]
  OBVIOUS
<1>6. kept = NoHookEnv \/ (kept.by = Asked(c) /\ kept.set = set)
  BY <1>5
<1>7. /\ lastHookEnv' = [p \in Processes |-> [a \in Agents |-> lastHookEnv'[p][a]]]
      /\ \A p \in Processes : \A a \in Agents :
           lastHookEnv'[p][a] = IF p = q /\ a = b THEN kept ELSE lastHookEnv[p][a]
  <2>1. lastHookEnv' = [lastHookEnv EXCEPT ![q][b] = kept]
    BY <1>3, <1>5 DEF SetLastHookEnv
  <2>2. lastHookEnv = [p \in Processes |-> [a \in Agents |-> lastHookEnv[p][a]]]
    BY DEF EnvInv
  <2> QED
    BY <2>1, <2>2
<1>8. \A e : Logged(e) => e.by # Asked(c)
  BY LoggedIsAsked
<1>9. NoHookEnv.by # Asked(c)
  BY DEF NoHookEnv, Asked, TypeInv
<1>10. ASSUME NEW d \in Commands PROVE hookEnv[d].by # Asked(c)
  <2>1. PICK e : e = hookEnv[d]
    OBVIOUS
  <2>2. e = NoHookEnv \/ Logged(e)
    BY <2>1 DEF EnvInv
  <2> QED
    BY <1>8, <1>9, <2>1, <2>2
<1>11. ASSUME NEW r \in rendered PROVE r.env.by # Asked(c)
  <2>1. PICK e : e = r.env
    OBVIOUS
  <2>2. Logged(e)
    BY <2>1 DEF EnvInv
  <2> QED
    BY <1>8, <2>1, <2>2
<1>12. ASSUME NEW p \in Processes, NEW a \in Agents, lastHookEnv'[p][a] # NoHookEnv
       PROVE  /\ Logged(lastHookEnv[p][a])'
              /\ \E d \in Commands : /\ lastHookEnv'[p][a].by[1] = d /\ Op(d)' = "add"
                                     /\ Process(d)' = p /\ Agent(d)' = a
              /\ \A d \in Commands : hookEnv'[d].by # lastHookEnv'[p][a].by
              /\ \A r \in rendered' : r.env.by # lastHookEnv'[p][a].by
  <2>1. PICK e : e = lastHookEnv'[p][a]
    OBVIOUS
  <2>2. CASE p = q /\ a = b
    <3>1. e = kept /\ e.by = Asked(c) /\ e.set = set
      BY <1>6, <1>7, <1>12, <2>1, <2>2
    <3>2. Logged(e)'
      BY <3>1 DEF Logged
    <3>3. e.by[1] = c /\ Op(c)' = "add" /\ Process(c)' = p /\ Agent(c)' = a
      BY <1>2, <1>3, <2>2, <3>1 DEF Asked
    <3> QED
      BY <1>1, <1>10, <1>11, <2>1, <3>1, <3>2, <3>3
  <2>3. CASE ~(p = q /\ a = b)
    <3>1. e = lastHookEnv[p][a] /\ e # NoHookEnv
      BY <1>7, <1>12, <2>1, <2>3
    <3>2. /\ Logged(e)
          /\ \E d \in Commands : /\ e.by[1] = d /\ Op(d) = "add" /\ Process(d) = p /\ Agent(d) = a
          /\ \A d \in Commands : hookEnv[d].by # e.by
          /\ \A r \in rendered : r.env.by # e.by
      BY <3>1 DEF EnvInv
    <3> QED
      BY <1>1, <1>2, <2>1, <3>2
  <2> QED
    BY <2>2, <2>3
<1>13. ASSUME NEW d \in Commands
       PROVE  /\ hookEnv'[d] # NoHookEnv => Logged(hookEnv[d])' /\ Op(d)' \in {"prompt", "repl", "generate"}
              /\ \A e \in Commands : hookEnv'[d].by = hookEnv'[e].by /\ d # e => hookEnv'[d] = NoHookEnv
              /\ Pending(d)' => \A r \in rendered' : r.env.by # hookEnv'[d].by
  BY <1>1, <1>2 DEF EnvInv
<1>14. (\A r \in rendered' : Logged(r.env)') /\ \A r, s \in rendered' : r.env.by = s.env.by => r = s
  BY <1>1, <1>2 DEF EnvInv
<1>15. hookEnv' = [d \in Commands |-> hookEnv'[d]]
  BY <1>1 DEF EnvInv
<1> QED
  BY <1>7, <1>12, <1>13, <1>14, <1>15 DEF EnvInv

(* The variables of a message that its own call goes on with. *)
LEMMA EnvTurn ==
  ASSUME TypeInv, LogInv, EnvInv, UNCHANGED <<setup, lastHookEnv, rendered>>, NEW c \in Commands,
         Unasked(c), Op(c) \in {"prompt", "repl"}, NEW set,
         hookEnv' = [hookEnv EXCEPT ![c] = [by |-> Asked(c), set |-> set]], log \subseteq log',
         \E t \in log' : t.by = Asked(c) /\ t.set = set,
         \A d \in Commands : d # c => (Pending(d)' => Pending(d))
  PROVE  EnvInv'
<1>1. plan' = plan /\ lastHookEnv' = lastHookEnv /\ rendered' = rendered
  BY DEF setup
<1>2. /\ \A d \in Commands : Op(d)' = Op(d) /\ Process(d)' = Process(d) /\ Agent(d)' = Agent(d)
      /\ \A e : Logged(e) => Logged(e)'
  BY <1>1 DEF Op, Process, Agent, Logged
<1>3. PICK new : new = [by |-> Asked(c), set |-> set]
  OBVIOUS
<1>4. new.by = Asked(c) /\ new.set = set
  BY <1>3
<1>5. /\ hookEnv' = [d \in Commands |-> hookEnv'[d]]
      /\ \A d \in Commands : hookEnv'[d] = IF d = c THEN new ELSE hookEnv[d]
  <2>1. hookEnv = [d \in Commands |-> hookEnv[d]]
    BY DEF EnvInv
  <2> QED
    BY <1>3, <2>1
<1>6. Logged(new)'
  BY <1>4 DEF Logged
<1>8. \A e : Logged(e) => e.by # Asked(c)
  BY LoggedIsAsked
<1>9. NoHookEnv.by # Asked(c)
  BY DEF NoHookEnv, Asked, TypeInv
<1>10. ASSUME NEW d \in Commands PROVE hookEnv[d].by # Asked(c)
  <2>1. PICK e : e = hookEnv[d]
    OBVIOUS
  <2>2. e = NoHookEnv \/ Logged(e)
    BY <2>1 DEF EnvInv
  <2> QED
    BY <1>8, <1>9, <2>1, <2>2
<1>11. ASSUME NEW r \in rendered PROVE r.env.by # Asked(c)
  <2>1. PICK e : e = r.env
    OBVIOUS
  <2>2. Logged(e)
    BY <2>1 DEF EnvInv
  <2> QED
    BY <1>8, <2>1, <2>2
<1>12. ASSUME NEW p \in Processes, NEW a \in Agents, lastHookEnv'[p][a] # NoHookEnv
       PROVE  /\ Logged(lastHookEnv[p][a])'
              /\ \E d \in Commands : /\ lastHookEnv'[p][a].by[1] = d /\ Op(d)' = "add"
                                     /\ Process(d)' = p /\ Agent(d)' = a
              /\ \A d \in Commands : hookEnv'[d].by # lastHookEnv'[p][a].by
              /\ \A r \in rendered' : r.env.by # lastHookEnv'[p][a].by
  <2>1. PICK e : e = lastHookEnv[p][a]
    OBVIOUS
  <2>2. /\ Logged(e)
        /\ \E d \in Commands : /\ e.by[1] = d /\ Op(d) = "add" /\ Process(d) = p /\ Agent(d) = a
        /\ \A d \in Commands : hookEnv[d].by # e.by
        /\ \A r \in rendered : r.env.by # e.by
    BY <1>1, <1>12, <2>1 DEF EnvInv
  <2>3. \A d \in Commands : hookEnv'[d].by # e.by
    BY <1>4, <1>5, <1>8, <2>2
  <2> QED
    BY <1>1, <1>2, <2>1, <2>2, <2>3
<1>13. ASSUME NEW d \in Commands
       PROVE  /\ hookEnv'[d] # NoHookEnv => Logged(hookEnv[d])' /\ Op(d)' \in {"prompt", "repl", "generate"}
              /\ \A e \in Commands : hookEnv'[d].by = hookEnv'[e].by /\ d # e => hookEnv'[d] = NoHookEnv
              /\ Pending(d)' => \A r \in rendered' : r.env.by # hookEnv'[d].by
  <2>1. CASE d = c
    <3>1. hookEnv'[d] = new /\ \A e \in Commands : e # d => hookEnv'[e] = hookEnv[e]
      BY <1>5, <2>1
    <3> QED
      BY <1>1, <1>2, <1>4, <1>6, <1>10, <1>11, <2>1, <3>1
  <2>2. CASE d # c
    <3>1. PICK e : e = hookEnv[d]
      OBVIOUS
    <3>2. hookEnv'[d] = e
      BY <1>5, <2>2, <3>1
    <3>3. /\ e # NoHookEnv => Logged(e) /\ Op(d) \in {"prompt", "repl", "generate"}
          /\ \A f \in Commands : e.by = hookEnv[f].by /\ d # f => e = NoHookEnv
          /\ Pending(d)' => \A r \in rendered : r.env.by # e.by
          /\ e.by # Asked(c)
      BY <1>10, <2>2, <3>1 DEF EnvInv
    <3>4. \A f \in Commands : e.by = hookEnv'[f].by /\ d # f => e = NoHookEnv
      BY <1>4, <1>5, <3>3
    <3> QED
      BY <1>1, <1>2, <3>2, <3>3, <3>4
  <2> QED
    BY <2>1, <2>2
<1>14. (\A r \in rendered' : Logged(r.env)') /\ \A r, s \in rendered' : r.env.by = s.env.by => r = s
  BY <1>1, <1>2 DEF EnvInv
<1>15. lastHookEnv' = [p \in Processes |-> [a \in Agents |-> lastHookEnv'[p][a]]]
  BY <1>1 DEF EnvInv
<1> QED
  BY <1>5, <1>12, <1>13, <1>14, <1>15 DEF EnvInv

(* A generate takes the variables that were kept. *)
LEMMA EnvPopped ==
  ASSUME TypeInv, LogInv, EnvInv, UNCHANGED <<setup, log, rendered>>, NEW c \in Commands,
         Op(c) = "generate", PopLastHookEnv(c),
         \A d \in Commands : d # c => (Pending(d)' => Pending(d))
  PROVE  EnvInv'
<1>1. plan' = plan /\ log' = log /\ rendered' = rendered
  BY DEF setup
<1>2. /\ \A d \in Commands : Op(d)' = Op(d) /\ Process(d)' = Process(d) /\ Agent(d)' = Agent(d)
      /\ \A e : Logged(e)' <=> Logged(e)
  BY <1>1 DEF Op, Process, Agent, Logged
<1>3. PICK q, b : q = Process(c) /\ b = Agent(c)
  OBVIOUS
<1>4. q \in Processes /\ b \in Agents
  BY <1>3, Places
<1>5. PICK e : e = lastHookEnv[q][b]
  OBVIOUS
<1>6. /\ lastHookEnv' = [p \in Processes |-> [a \in Agents |-> lastHookEnv'[p][a]]]
      /\ \A p \in Processes : \A a \in Agents :
           lastHookEnv'[p][a] = IF p = q /\ a = b THEN NoHookEnv ELSE lastHookEnv[p][a]
  <2>1. lastHookEnv' = [lastHookEnv EXCEPT ![q][b] = NoHookEnv]
    BY <1>3 DEF PopLastHookEnv
  <2>2. lastHookEnv = [p \in Processes |-> [a \in Agents |-> lastHookEnv[p][a]]]
    BY DEF EnvInv
  <2> QED
    BY <2>1, <2>2
<1>7. /\ hookEnv' = [d \in Commands |-> hookEnv'[d]]
      /\ \A d \in Commands : hookEnv'[d] = IF d = c THEN e ELSE hookEnv[d]
  <2>1. hookEnv = [d \in Commands |-> hookEnv[d]]
    BY DEF EnvInv
  <2>2. hookEnv' = [hookEnv EXCEPT ![c] = e]
    BY <1>3, <1>5 DEF PopLastHookEnv
  <2> QED
    BY <2>1, <2>2
<1>8. e # NoHookEnv =>
        /\ Logged(e)
        /\ \E d \in Commands : /\ e.by[1] = d /\ Process(d) = q /\ Agent(d) = b
        /\ \A d \in Commands : hookEnv[d].by # e.by
        /\ \A r \in rendered : r.env.by # e.by
  BY <1>4, <1>5 DEF EnvInv
<1>9. \A r \in rendered : r.env.by # e.by
  <2> SUFFICES ASSUME e = NoHookEnv, NEW r \in rendered PROVE r.env.by # e.by
    BY <1>8
  <2>1. PICK f : f = r.env
    OBVIOUS
  <2>2. Logged(f)
    BY <2>1 DEF EnvInv
  <2> QED
    BY <2>1, <2>2, LoggedIsAsked
<1>10. ASSUME NEW d \in Commands, hookEnv[d].by = e.by PROVE e = NoHookEnv /\ hookEnv[d] = NoHookEnv
  <2>1. e = NoHookEnv
    BY <1>8, <1>10
  <2>2. PICK f : f = hookEnv[d]
    OBVIOUS
  <2>3. f # NoHookEnv => Logged(f)
    BY <2>2 DEF EnvInv
  <2>4. Logged(f) => f.by # NoHookEnv.by
    BY LoggedIsAsked
  <2> QED
    BY <1>10, <2>1, <2>2, <2>3, <2>4
<1>11. ASSUME NEW p \in Processes, NEW a \in Agents, lastHookEnv'[p][a] # NoHookEnv
       PROVE  /\ Logged(lastHookEnv[p][a])'
              /\ \E d \in Commands : /\ lastHookEnv'[p][a].by[1] = d /\ Op(d)' = "add"
                                     /\ Process(d)' = p /\ Agent(d)' = a
              /\ \A d \in Commands : hookEnv'[d].by # lastHookEnv'[p][a].by
              /\ \A r \in rendered' : r.env.by # lastHookEnv'[p][a].by
  <2>1. PICK f : f = lastHookEnv'[p][a]
    OBVIOUS
  <2>2. f = lastHookEnv[p][a] /\ f # NoHookEnv /\ ~(p = q /\ a = b)
    BY <1>6, <1>11, <2>1
  <2>3. /\ Logged(f)
        /\ \A d \in Commands : hookEnv[d].by # f.by
        /\ \A r \in rendered : r.env.by # f.by
    BY <2>2 DEF EnvInv
  <2>4. PICK d \in Commands : f.by[1] = d /\ Op(d) = "add" /\ Process(d) = p /\ Agent(d) = a
    BY <2>2 DEF EnvInv
  <2>5. e.by # f.by
    <3>1. CASE e = NoHookEnv
      <4>1. f.by # NoHookEnv.by
        BY <2>3, LoggedIsAsked
      <4> QED
        BY <3>1, <4>1
    <3>2. CASE e # NoHookEnv
      BY <1>8, <2>2, <2>4, <3>2
    <3> QED
      BY <3>1, <3>2
  <2>6. \A g \in Commands : hookEnv'[g].by # f.by
    BY <1>7, <2>3, <2>5
  <2> QED
    BY <1>1, <1>2, <2>1, <2>3, <2>4, <2>6
<1>12. ASSUME NEW d \in Commands
       PROVE  /\ hookEnv'[d] # NoHookEnv => Logged(hookEnv[d])' /\ Op(d)' \in {"prompt", "repl", "generate"}
              /\ \A f \in Commands : hookEnv'[d].by = hookEnv'[f].by /\ d # f => hookEnv'[d] = NoHookEnv
              /\ Pending(d)' => \A r \in rendered' : r.env.by # hookEnv'[d].by
  <2>1. CASE d = c
    <3>1. hookEnv'[d] = e /\ \A f \in Commands : d # f => hookEnv'[f] = hookEnv[f]
      BY <1>7, <2>1
    <3>2. \A f \in Commands : e.by = hookEnv'[f].by /\ d # f => e = NoHookEnv
      BY <1>10, <3>1
    <3> QED
      BY <1>1, <1>2, <1>8, <1>9, <2>1, <3>1, <3>2
  <2>2. CASE d # c
    <3>1. PICK f : f = hookEnv[d]
      OBVIOUS
    <3>2. hookEnv'[d] = f
      BY <1>7, <2>2, <3>1
    <3>3. /\ f # NoHookEnv => Logged(f) /\ Op(d) \in {"prompt", "repl", "generate"}
          /\ \A g \in Commands : f.by = hookEnv[g].by /\ d # g => f = NoHookEnv
          /\ Pending(d)' => \A r \in rendered : r.env.by # f.by
          /\ f.by = e.by => f = NoHookEnv
      BY <1>10, <2>2, <3>1 DEF EnvInv
    <3>4. \A g \in Commands : f.by = hookEnv'[g].by /\ d # g => f = NoHookEnv
      BY <1>7, <3>3
    <3> QED
      BY <1>1, <1>2, <3>2, <3>3, <3>4
  <2> QED
    BY <2>1, <2>2
<1>13. (\A r \in rendered' : Logged(r.env)') /\ \A r, s \in rendered' : r.env.by = s.env.by => r = s
  BY <1>1, <1>2 DEF EnvInv
<1> QED
  BY <1>6, <1>7, <1>11, <1>12, <1>13 DEF EnvInv

(* The variables go into a system prompt, and not into another. *)
LEMMA EnvRendered ==
  ASSUME TypeInv, LogInv, EnvInv, UNCHANGED <<setup, log, lastHookEnv, hookEnv>>, NEW c \in Commands,
         Pending(c), ~Pending(c)', RenderAgentSystemPrompt(c),
         \A d \in Commands : d # c => (Pending(d)' => Pending(d))
  PROVE  EnvInv'
<1>1. plan' = plan /\ log' = log /\ lastHookEnv' = lastHookEnv /\ hookEnv' = hookEnv
  BY DEF setup
<1>2. /\ \A d \in Commands : Op(d)' = Op(d) /\ Process(d)' = Process(d) /\ Agent(d)' = Agent(d)
      /\ \A e : Logged(e)' <=> Logged(e)
  BY <1>1 DEF Op, Process, Agent, Logged
<1>3. CASE DOMAIN hookEnv[c].set = {}
  <2>1. rendered' = rendered
    BY <1>3 DEF RenderAgentSystemPrompt
  <2>2. \A d \in Commands : Pending(d)' => Pending(d)
    OBVIOUS
  <2> QED
    BY <1>1, <2>1, <2>2, EnvStays
<1>4. CASE DOMAIN hookEnv[c].set # {}
  <2>1. PICK e : e = hookEnv[c]
    OBVIOUS
  <2>2. PICK new : new = [env |-> e, in |-> Asked(c)]
    OBVIOUS
  <2>3. rendered' = rendered \cup {new} /\ new.env = e
    BY <1>4, <2>1, <2>2 DEF RenderAgentSystemPrompt
  <2>4. e # NoHookEnv
    BY <1>4, <2>1 DEF NoHookEnv, NoVars
  <2>5. /\ Logged(e)
        /\ \A d \in Commands : hookEnv[d].by = e.by => d = c
        /\ \A r \in rendered : r.env.by # e.by
    BY <2>1, <2>4 DEF EnvInv
  <2>6. ASSUME NEW p \in Processes, NEW a \in Agents, lastHookEnv'[p][a] # NoHookEnv
        PROVE  /\ Logged(lastHookEnv[p][a])'
               /\ \E d \in Commands : /\ lastHookEnv'[p][a].by[1] = d /\ Op(d)' = "add"
                                      /\ Process(d)' = p /\ Agent(d)' = a
               /\ \A d \in Commands : hookEnv'[d].by # lastHookEnv'[p][a].by
               /\ \A r \in rendered' : r.env.by # lastHookEnv'[p][a].by
    <3>1. PICK f : f = lastHookEnv[p][a]
      OBVIOUS
    <3>2. /\ Logged(f)
          /\ \E d \in Commands : /\ f.by[1] = d /\ Op(d) = "add" /\ Process(d) = p /\ Agent(d) = a
          /\ \A d \in Commands : hookEnv[d].by # f.by
          /\ \A r \in rendered : r.env.by # f.by
      BY <1>1, <2>6, <3>1 DEF EnvInv
    <3>3. \A r \in rendered' : r.env.by # f.by
      BY <2>1, <2>3, <3>2
    <3> QED
      BY <1>1, <1>2, <3>1, <3>2, <3>3
  <2>7. ASSUME NEW d \in Commands
        PROVE  /\ hookEnv'[d] # NoHookEnv => Logged(hookEnv[d])' /\ Op(d)' \in {"prompt", "repl", "generate"}
               /\ \A f \in Commands : hookEnv'[d].by = hookEnv'[f].by /\ d # f => hookEnv'[d] = NoHookEnv
               /\ Pending(d)' => \A r \in rendered' : r.env.by # hookEnv'[d].by
    <3>1. PICK f : f = hookEnv[d]
      OBVIOUS
    <3>2. /\ f # NoHookEnv => Logged(f) /\ Op(d) \in {"prompt", "repl", "generate"}
          /\ \A g \in Commands : f.by = hookEnv[g].by /\ d # g => f = NoHookEnv
          /\ Pending(d) => \A r \in rendered : r.env.by # f.by
      BY <3>1 DEF EnvInv
    <3>3. Pending(d)' => \A r \in rendered' : r.env.by # f.by
      BY <2>3, <2>5, <3>1, <3>2
    <3> QED
      BY <1>1, <1>2, <3>1, <3>2, <3>3
  <2>8. \A r \in rendered' : Logged(r.env)'
    <3>1. \A r \in rendered : Logged(r.env)
      BY DEF EnvInv
    <3> QED
      BY <1>2, <2>3, <2>5, <3>1
  <2>9. \A r, s \in rendered' : r.env.by = s.env.by => r = s
    <3>1. \A r, s \in rendered : r.env.by = s.env.by => r = s
      BY DEF EnvInv
    <3> QED
      BY <2>3, <2>5, <3>1
  <2>10. /\ lastHookEnv' = [p \in Processes |-> [a \in Agents |-> lastHookEnv'[p][a]]]
         /\ hookEnv' = [d \in Commands |-> hookEnv'[d]]
    BY <1>1 DEF EnvInv
  <2> QED
    BY <2>6, <2>7, <2>8, <2>9, <2>10 DEF EnvInv
<1> QED
  BY <1>3, <1>4

-----------------------------------------------------------------------------
(* The environment of the processes, and of the tools. *)

LEMMA InitTool == PromptsInit => ToolInv
<1> SUFFICES ASSUME PromptsInit PROVE ToolInv
  OBVIOUS
<1>1. /\ pc = [c \in Commands |-> "idle"]
      /\ environ = [p \in Processes |-> [v \in Vars |-> <<"os", None>>]]
      /\ base = [c \in Commands |-> NoVars] /\ tool = [c \in Commands |-> NotRun]
  BY DEF PromptsInit
<1>2. environ \in [Processes -> [Vars -> Loaded]]
  BY <1>1 DEF Loaded
<1>3. \A c \in Commands : pc[c] = "idle" /\ tool[c] = NotRun
  BY <1>1
<1>4. ~NotRun.ran
  BY DEF NotRun
<1> QED
  BY <1>1, <1>2, <1>3, <1>4 DEF ToolInv, InBounds

(* Where no tool starts: the environment may change, nothing else does. *)
LEMMA ToolStays ==
  ASSUME ToolInv, UNCHANGED <<setup, base, tool>>, environ' \in [Processes -> [Vars -> Loaded]],
         \A d \in Commands : pc'[d] \in {"tool", "prerun"} => pc[d] \in {"tool", "prerun"}
  PROVE  ToolInv'
<1>1. plan' = plan /\ base' = base /\ tool' = tool
  BY DEF setup
<1>2. ASSUME NEW c \in Commands PROVE InBounds(c, tool[c])'
  BY <1>1 DEF ToolInv, InBounds, Agent
<1> QED
  BY <1>1, <1>2 DEF ToolInv

LEMMA EnvironLoads ==
  ASSUME TypeInv, ToolInv, NEW c \in Commands, LoadAgentDotEnv(c)
  PROVE  environ' \in [Processes -> [Vars -> Loaded]]
<1>1. PICK q, b, old : q = Process(c) /\ b = Agent(c) /\ old = environ[q]
  OBVIOUS
<1>2. q \in Processes /\ b \in Agents
  BY <1>1, Places
<1>3. PICK new : new = [v \in Vars |-> IF v \in DotEnv[b] THEN <<"env", b>> ELSE old[v]]
  OBVIOUS
<1>4. environ \in [Processes -> [Vars -> Loaded]] /\ old \in [Vars -> Loaded]
  BY <1>1, <1>2 DEF ToolInv
<1>5. <<"env", b>> \in Loaded
  BY <1>2 DEF Loaded
<1>6. new \in [Vars -> Loaded]
  BY <1>3, <1>4, <1>5
<1>7. environ' = [environ EXCEPT ![q] = new]
  BY <1>1, <1>3 DEF LoadAgentDotEnv
<1> QED
  BY <1>4, <1>6, <1>7

(* A tool that runs in the environment that was captured for it. *)
LEMMA ChildInBounds ==
  ASSUME TypeInv, NEW c \in Commands, base[c] \in [Vars -> Loaded],
         NEW set, \A v \in DOMAIN set : set[v][1] = "hook", NEW v \in Vars, NEW env, env = ChildEnv(c, set)
  PROVE  IF v \in Locked THEN env[v][1] \in {"os", "env"}
         ELSE v \in DotEnv[Agent(c)] /\ env[v][1] = "env" => env[v] = <<"env", Agent(c)>>
<1>1. PICK b, captured, dot : b = Agent(c) /\ captured = base[c] /\ dot = DotEnv[b]
  OBVIOUS
<1>2. env[v] = IF v \in Locked THEN captured[v]
               ELSE IF v \in DOMAIN set THEN set[v]
               ELSE IF v \in ArgVars THEN <<"args", c>>
               ELSE IF v \in dot THEN <<"env", b>> ELSE captured[v]
  BY <1>1 DEF ChildEnv
<1>3. captured[v][1] \in {"os", "env"}
  <2>1. captured[v] \in Loaded
    BY <1>1
  <2> QED
    BY <2>1 DEF Loaded
<1> QED
  BY <1>1, <1>2, <1>3

-----------------------------------------------------------------------------
(* Chains of a step. *)

LEMMA ChainStays == ASSUME ChainInv, UNCHANGED <<setup, chain>> PROVE ChainInv'
BY DEF ChainInv, ChainOk, setup

LEMMA ChainsStep ==
  ASSUME ChainInv, UNCHANGED setup, chain' = [o \in Commands \X Slots |-> chain'[o]],
         \A o \in Commands \X Slots : chain'[o] = chain[o] \/ ChainOk(chain'[o])
  PROVE  ChainInv'
<1>1. plan' = plan /\ dir' = dir
  BY DEF setup
<1>2. ASSUME NEW o \in Commands \X Slots PROVE ChainOk(chain[o])'
  <2>1. PICK ch : ch = chain'[o]
    OBVIOUS
  <2>2. ChainOk(ch)
    BY <2>1 DEF ChainInv
  <2>3. ChainOk(ch)'
    BY <1>1, <2>2 DEF ChainOk
  <2> QED
    BY <2>1, <2>3 DEF ChainOk
<1> QED
  BY <1>1, <1>2 DEF ChainInv

LEMMA ChainStep ==
  ASSUME ChainInv, UNCHANGED setup, NEW c \in Commands, NEW slot \in Slots, NEW ch, ChainOk(ch),
         chain' = [chain EXCEPT ![<<c, slot>>] = ch]
  PROVE  ChainInv'
<1>1. chain = [o \in Commands \X Slots |-> chain[o]]
  BY DEF ChainInv
<1>2. /\ chain' = [o \in Commands \X Slots |-> chain'[o]]
      /\ \A o \in Commands \X Slots : chain'[o] = chain[o] \/ chain'[o] = ch
  BY <1>1
<1> QED
  BY <1>2, ChainsStep

LEMMA HooksStart ==
  ASSUME ChainInv, UNCHANGED setup, NEW c \in Commands, NEW event \in Events, StartHooks(c, "turn", event)
  PROVE  ChainInv'
<1>1. PICK ch : ch = StartChain(event, <<"text", event>>, dir[event])
  OBVIOUS
<1>2. ChainOk(ch)
  BY <1>1, StartOk
<1>3. "turn" \in Slots
  BY DEF Slots
<1> QED
  BY <1>1, <1>2, <1>3, ChainStep DEF StartHooks

LEMMA HooksEnd ==
  ASSUME ChainInv, UNCHANGED setup, NEW c \in Commands, EndHooks(c)
  PROVE  ChainInv'
<1>1. PICK ch : ch = NoChain
  OBVIOUS
<1>2. ChainOk(ch) /\ "turn" \in Slots
  BY <1>1, NoChainOk DEF Slots
<1> QED
  BY <1>1, <1>2, ChainStep DEF EndHooks

LEMMA ChainInit == PromptsInit => ChainInv
<1> SUFFICES ASSUME PromptsInit PROVE ChainInv
  OBVIOUS
<1>1. PICK ch : ch = NoChain
  OBVIOUS
<1>2. chain = [o \in Commands \X Slots |-> ch] /\ \E s \in Setups : plan = s.plan /\ dir = s.dir
  BY <1>1 DEF PromptsInit
<1>3. ChainOk(ch)
  BY <1>1, NoChainOk
<1>4. \A o \in Commands \X Slots : chain[o] = ch
  BY <1>2
<1> QED
  BY <1>2, <1>3, <1>4 DEF ChainInv

-----------------------------------------------------------------------------
(* The kinds of steps. *)

Calls == TypeInv /\ StageInv /\ LogInv /\ EnvInv

(* A step of a chain. *)
LEMMA OnlyAChain ==
  ASSUME PromptsInv, UNCHANGED <<setup, call, log, process, turn>>, ChainInv'
  PROVE  PromptsInv'
<1>1. UNCHANGED <<setup, pc, line, reply, log, lastHookEnv, hookEnv, rendered, environ, base, tool>>
  BY DEF call, process, turn
<1>2. TypeInv' /\ StageInv'
  BY <1>1, CallsStay DEF PromptsInv
<1>3. LogInv'
  BY <1>1, LogStays DEF PromptsInv
<1>4. \A d \in Commands : Pending(d)' => Pending(d)
  BY <1>1 DEF Pending, Op, setup
<1>5. EnvInv'
  BY <1>1, <1>4, EnvStays DEF PromptsInv
<1>6. ToolInv'
  <2>1. environ' \in [Processes -> [Vars -> Loaded]]
    BY <1>1 DEF PromptsInv, ToolInv
  <2> QED
    BY <1>1, <2>1, ToolStays DEF PromptsInv
<1> QED
  BY <1>2, <1>3, <1>5, <1>6 DEF PromptsInv

(* A command goes on. *)
LEMMA Continues ==
  ASSUME PromptsInv, UNCHANGED <<setup, log, lastHookEnv, hookEnv, rendered>>,
         NEW c \in Commands, pc[c] # "done", NEW stage \in Stages, Go(c, stage), Stage(Op(c), stage),
         stage \in Early => pc[c] \in Early,
         stage \notin Early \cup {"done"} /\ Op(c) \in Speaking => pc[c] \notin Early,
         stage \in {"load", "runtime", "build"} =>
           Pending(c) \/ hookEnv[c] = NoHookEnv \/ (stage = "load" /\ Op(c) = "generate")
  PROVE  Calls'
<1>1. TypeInv' /\ StageInv'
  BY GoTo DEF PromptsInv
<1>2. LogInv'
  BY LogGo DEF PromptsInv
<1>3. ASSUME NEW d \in Commands, Pending(d)' PROVE Pending(d) \/ hookEnv[d] = NoHookEnv
  <2>1. Op(d)' = Op(d) /\ pc'[d] = IF d = c THEN stage ELSE pc[d]
    BY DEF Op, setup, Go, PromptsInv, TypeInv
  <2>2. CASE d = c
    BY <1>3, <2>1, <2>2 DEF Pending
  <2>3. CASE d # c
    BY <1>3, <2>1, <2>3 DEF Pending
  <2> QED
    BY <2>2, <2>3
<1>4. EnvInv'
  BY <1>3, EnvStays DEF PromptsInv
<1> QED
  BY <1>1, <1>2, <1>4 DEF Calls

(* Nobody else comes to load hook variables when a command is answered. *)
LEMMA AnsweredPending ==
  ASSUME TypeInv, UNCHANGED setup, NEW c \in Commands, pc[c] # "done", NEW r \in Replies, Answer(c, r),
         NEW d \in Commands
  PROVE  /\ Pending(d)' => Pending(d)
         /\ pc'[d] \in {"tool", "prerun"} => pc[d] \in {"tool", "prerun"}
<1>1. Op(d)' = Op(d)
  BY DEF Op, setup
<1>2. pc'[d] = pc[d] \/ pc'[d] \in {"idle", "done"}
  BY Answered
<1> QED
  BY <1>1, <1>2 DEF Pending

(* A command is answered without a word to the session. *)
LEMMA Ends ==
  ASSUME PromptsInv, UNCHANGED <<setup, log, lastHookEnv, hookEnv, rendered>>,
         NEW c \in Commands, pc[c] # "done", NEW r \in Replies, Answer(c, r),
         r = "ok" => \/ Op(c) \in {"generate", "compact"}
                     \/ Op(c) \in Speaking /\ pc[c] \notin Early
  PROVE  Calls'
<1>1. TypeInv' /\ StageInv'
  BY AnswerCalls DEF PromptsInv
<1>2. PICK n, new : n = line[c] /\ new = {}
  OBVIOUS
<1>3. log' = log \cup new
  BY <1>2
<1>4. r = "ok" /\ Op(c) \notin {"generate", "compact"} => Holds(c, n)'
  <2> SUFFICES ASSUME r = "ok", Op(c) \notin {"generate", "compact"} PROVE Holds(c, n)'
    OBVIOUS
  <2>1. Holds(c, n)
    BY <1>2 DEF PromptsInv, LogInv
  <2> QED
    BY <2>1 DEF Holds, Kind, Op, setup
<1>5. LogInv'
  <2>1. /\ \A t \in new : t.by = Asked(c) /\ t.parts # <<>> /\ Size(t.parts) <= TurnCap
        /\ \A t \in new : ~\E j \in DOMAIN t.parts : t.parts[j].kind = Kind(c)
        /\ ~(new # {})
    BY <1>2
  <2>2. TypeInv /\ LogInv
    BY DEF PromptsInv
  <2>3. n = line[c]
    BY <1>2
  <2> QED
    BY <1>3, <1>4, <2>1, <2>2, <2>3, LogAnswer
<1>6. EnvInv'
  <2>1. \A d \in Commands : Pending(d)' => Pending(d)
    BY AnsweredPending DEF PromptsInv
  <2> QED
    BY <2>1, EnvStays DEF PromptsInv
<1> QED
  BY <1>1, <1>5, <1>6 DEF Calls

(* The tools do not notice. *)
LEMMA NoTool ==
  ASSUME PromptsInv, UNCHANGED <<setup, environ, base, tool>>,
         \A d \in Commands : pc'[d] \in {"tool", "prerun"} => pc[d] \in {"tool", "prerun"}
  PROVE  ToolInv'
<1>1. environ' \in [Processes -> [Vars -> Loaded]]
  BY DEF PromptsInv, ToolInv
<1> QED
  BY <1>1, ToolStays DEF PromptsInv

LEMMA NoToolAnswer ==
  ASSUME PromptsInv, UNCHANGED <<setup, environ, base, tool>>,
         NEW c \in Commands, pc[c] # "done", NEW r \in Replies, Answer(c, r)
  PROVE  ToolInv'
<1>1. \A d \in Commands : pc'[d] \in {"tool", "prerun"} => pc[d] \in {"tool", "prerun"}
  BY AnsweredPending DEF PromptsInv
<1> QED
  BY <1>1, NoTool

LEMMA NoToolGo ==
  ASSUME PromptsInv, UNCHANGED <<setup, environ, base, tool>>,
         NEW c \in Commands, NEW stage, stage \notin {"tool", "prerun"}, Go(c, stage)
  PROVE  ToolInv'
<1>1. \A d \in Commands : pc'[d] = IF d = c THEN stage ELSE pc[d]
  BY DEF Go, PromptsInv, TypeInv
<1> QED
  BY <1>1, NoTool

-----------------------------------------------------------------------------
(* The steps. *)

LEMMA AskStep ==
  ASSUME PromptsInv, NEW c \in Commands, Ask(c)
  PROVE  PromptsInv'
<1>1. /\ pc[c] = "idle" /\ Op(c) # "nothing" /\ Same
      /\ Go(c, "wants") \/ Go(c, "done") \/ Refuse(c)
  BY DEF Ask, AskAdd, AskPrompt, AskMedia, AskGenerate, AskCompact, AskRepl, Given
<1>2. UNCHANGED <<setup, log, chain, lastHookEnv, hookEnv, rendered, environ, base, tool>>
  BY <1>1 DEF Same, process, turn
<1>3. ChainInv'
  BY <1>2, ChainStays DEF PromptsInv
<1>4. CASE Refuse(c)
  <2>1. Answer(c, "refused") /\ "refused" \in Replies /\ pc[c] # "done"
    BY <1>1, <1>4 DEF Refuse, Replies
  <2>2. Calls'
    BY <1>2, <2>1, Ends
  <2>3. ToolInv'
    BY <1>2, <2>1, NoToolAnswer
  <2> QED
    BY <1>3, <2>2, <2>3 DEF PromptsInv, Calls
<1>5. ASSUME NEW stage \in {"wants", "done"}, Go(c, stage) PROVE PromptsInv'
  <2>1. stage \in Stages /\ Stage(Op(c), stage) /\ pc[c] \in Early /\ pc[c] # "done"
        /\ stage \in Early \cup {"done"} /\ stage \notin {"load", "runtime", "build", "tool", "prerun"}
    BY <1>1 DEF Stages, Stage, Early
  <2>2. Calls'
    BY <1>2, <1>5, <2>1, Continues
  <2>3. ToolInv'
    BY <1>2, <1>5, <2>1, NoToolGo
  <2> QED
    BY <1>3, <2>2, <2>3 DEF PromptsInv, Calls
<1> QED
  BY <1>1, <1>4, <1>5

LEMMA LockStep ==
  ASSUME PromptsInv, NEW c \in Commands, AcquireSessionLock(c)
  PROVE  PromptsInv'
<1>1. pc[c] = "wants" /\ UNCHANGED <<setup, log, lastHookEnv, hookEnv, rendered, environ, base, tool>>
  BY DEF AcquireSessionLock, process, turn
<1>2. pc[c] \in Early /\ pc[c] # "done" /\ Op(c) # "nothing"
  BY <1>1 DEF Early, PromptsInv, StageInv, Stage
<1>3. CASE Op(c) \in {"add", "prompt", "repl"}
  <2>1. Go(c, "message") /\ StartHooks(c, "turn", Message)
    BY <1>3 DEF AcquireSessionLock
  <2>2. /\ "message" \in Stages /\ Stage(Op(c), "message") /\ "message" \in Early /\ Message \in Events
        /\ "message" \notin {"load", "runtime", "build", "tool", "prerun"}
    BY <1>2, <1>3 DEF Stages, Stage, Early, Events
  <2>3. Calls'
    BY <1>1, <1>2, <2>1, <2>2, Continues
  <2>4. ToolInv'
    BY <1>1, <2>1, <2>2, NoToolGo
  <2>5. ChainInv'
    BY <1>1, <2>1, <2>2, HooksStart DEF PromptsInv
  <2> QED
    BY <2>3, <2>4, <2>5 DEF PromptsInv, Calls
<1>4. CASE Op(c) \notin {"add", "prompt", "repl"}
  <2>1. Go(c, "load") /\ chain' = chain
    BY <1>4 DEF AcquireSessionLock
  <2>2. /\ "load" \in Stages /\ Stage(Op(c), "load") /\ "load" \notin Early /\ Op(c) \notin Speaking
        /\ "load" \notin {"tool", "prerun"}
    BY <1>2, <1>4 DEF Stages, Stage, Early, Speaking
  <2>3. hookEnv[c] = NoHookEnv \/ Op(c) = "generate"
    BY <1>4 DEF PromptsInv, EnvInv
  <2>4. Calls'
    BY <1>1, <1>2, <2>1, <2>2, <2>3, Continues
  <2>5. ToolInv'
    BY <1>1, <2>1, <2>2, NoToolGo
  <2>6. ChainInv'
    BY <1>1, <2>1, ChainStays DEF PromptsInv
  <2> QED
    BY <2>4, <2>5, <2>6 DEF PromptsInv, Calls
<1> QED
  BY <1>3, <1>4

LEMMA GiveUpStep ==
  ASSUME PromptsInv, NEW c \in Commands, GiveUp(c)
  PROVE  PromptsInv'
<1>1. /\ pc[c] # "done" /\ Answer(c, "error") /\ "error" \in Replies
      /\ UNCHANGED <<setup, log, chain, lastHookEnv, hookEnv, rendered, environ, base, tool>>
  BY DEF GiveUp, Replies, process, turn
<1>2. Calls'
  BY <1>1, Ends
<1>3. ToolInv'
  BY <1>1, NoToolAnswer
<1>4. ChainInv'
  BY <1>1, ChainStays DEF PromptsInv
<1> QED
  BY <1>2, <1>3, <1>4 DEF PromptsInv, Calls

LEMMA InterruptStep ==
  ASSUME PromptsInv, NEW c \in Commands, Interrupt(c)
  PROVE  PromptsInv'
<1>1. UNCHANGED <<setup, call, log, chain, process, turn>>
  BY DEF Interrupt
<1>2. ChainInv'
  BY <1>1, ChainStays DEF PromptsInv
<1> QED
  BY <1>1, <1>2, OnlyAChain

(* A script is started, ends, is killed, or lets go of its output. *)
LEMMA ScriptStep ==
  ASSUME PromptsInv, NEW c \in Commands, NEW slot \in Slots, Script(c, slot)
  PROVE  PromptsInv'
<1>1. PICK o, ch : o = <<c, slot>> /\ ch = chain[<<c, slot>>]
  OBVIOUS
<1>2. ch = chain[o] /\ ChainOk(ch)
  BY <1>1 DEF PromptsInv, ChainInv
<1>3. Failed \in ScriptResults
  BY DEF ScriptResults
<1>4. ch.script # "none" => ch.todo # <<>>
  BY <1>2 DEF ChainOk, InOrder
<1>5. ch.todo # <<>> => ch.event # "none"
  BY <1>2 DEF ChainOk
<1>6. ASSUME NEW next, ChainOk(next), StepChain(o, next) PROVE PromptsInv'
  <2>1. chain' = [chain EXCEPT ![<<c, slot>>] = next] /\ UNCHANGED <<setup, call, log, process, turn>>
    BY <1>1, <1>6 DEF StepChain
  <2>2. ChainInv'
    BY <1>6, <2>1, ChainStep DEF PromptsInv
  <2> QED
    BY <2>1, <2>2, OnlyAChain
<1>7. ASSUME NEW out \in ScriptResults, ch.todo # <<>> PROVE ChainOk(After(ch, out))
  BY <1>2, <1>5, <1>7, AfterOk DEF PromptsInv
<1>8. ASSUME NEW spent, ch.todo # <<>> PROVE ChainOk([After(ch, Failed) EXCEPT !.spent = @ \/ spent])
  <2>1. PICK next : next = After(ch, Failed)
    OBVIOUS
  <2>2. ChainOk(next)
    BY <1>3, <1>7, <1>8, <2>1
  <2> QED
    BY <2>1, <2>2, SpentOk
<1>9. CASE StartScript(c, slot)
  <2>1. ch.todo # <<>>
    BY <1>1, <1>9 DEF StartScript
  <2>2. StepChain(o, IF Dead(c, ch) THEN After(ch, Failed) ELSE [ch EXCEPT !.script = "runs"])
    BY <1>1, <1>9 DEF StartScript
  <2>3. CASE Dead(c, ch)
    <3>1. PICK next : next = After(ch, Failed)
      OBVIOUS
    <3>2. ChainOk(next)
      BY <1>3, <1>7, <2>1, <3>1
    <3> QED
      BY <1>6, <2>2, <2>3, <3>1, <3>2
  <2>4. CASE ~Dead(c, ch)
    <3>1. PICK next : next = [ch EXCEPT !.script = "runs"]
      OBVIOUS
    <3>2. next = [ch EXCEPT !.script = "runs", !.result = ch.result]
      <4>1. PICK event, todo, text, set, actions, ran, script, printed, spent :
              ch = [event |-> event, todo |-> todo, text |-> text, set |-> set,
                    actions |-> actions, ran |-> ran, script |-> script, result |-> printed,
                    spent |-> spent]
        BY <1>2 DEF ChainOk, Shape
      <4> QED
        BY <3>1, <4>1
    <3>3. PICK printed : printed = ch.result
      OBVIOUS
    <3>4. printed \in ScriptResults
      BY <1>2, <3>3 DEF ChainOk, ScriptResults
    <3>5. ChainOk(next)
      BY <1>2, <2>1, <3>2, <3>3, <3>4, RunsOk
    <3> QED
      BY <1>6, <2>2, <2>4, <3>1, <3>5
  <2> QED
    BY <2>3, <2>4
<1>10. CASE Exit(c, slot)
  <2>1. ch.todo # <<>>
    BY <1>1, <1>4, <1>10 DEF Exit
  <2>2. PICK out \in Outputs \cup {Failed} :
          StepChain(o, After(ch, out)) \/ StepChain(o, [ch EXCEPT !.script = "held", !.result = out])
    BY <1>1, <1>10 DEF Exit
  <2>3. out \in ScriptResults
    BY DEF ScriptResults
  <2>4. PICK next, held : next = After(ch, out) /\ held = [ch EXCEPT !.script = "held", !.result = out]
    OBVIOUS
  <2>5. ChainOk(next)
    BY <1>7, <2>1, <2>3, <2>4
  <2>6. ChainOk(held)
    BY <1>2, <2>1, <2>3, <2>4, RunsOk
  <2> QED
    BY <1>6, <2>2, <2>4, <2>5, <2>6
<1>11. CASE Kill(c, slot)
  <2>1. ch.todo # <<>>
    BY <1>1, <1>4, <1>11 DEF Kill
  <2>2. PICK spent : StepChain(o, [After(ch, Failed) EXCEPT !.spent = @ \/ spent])
    BY <1>1, <1>11 DEF Kill
  <2>3. PICK next : next = [After(ch, Failed) EXCEPT !.spent = @ \/ spent]
    OBVIOUS
  <2>4. ChainOk(next)
    BY <1>8, <2>1, <2>3
  <2> QED
    BY <1>6, <2>2, <2>3, <2>4
<1>12. CASE CloseStdout(c, slot)
  <2>1. ch.todo # <<>>
    BY <1>1, <1>4, <1>12 DEF CloseStdout
  <2>2. CASE StepChain(o, After(ch, ch.result))
    <3>1. PICK printed : printed = ch.result
      OBVIOUS
    <3>2. printed \in ScriptResults
      BY <1>2, <3>1 DEF ChainOk, ScriptResults
    <3>3. PICK next : next = After(ch, printed)
      OBVIOUS
    <3>4. ChainOk(next)
      BY <1>7, <2>1, <3>2, <3>3
    <3> QED
      BY <1>6, <2>2, <3>1, <3>3, <3>4
  <2>3. ASSUME NEW spent, StepChain(o, [After(ch, Failed) EXCEPT !.spent = @ \/ spent]) PROVE PromptsInv'
    <3>1. PICK next : next = [After(ch, Failed) EXCEPT !.spent = @ \/ spent]
      OBVIOUS
    <3>2. ChainOk(next)
      BY <1>8, <2>1, <3>1
    <3> QED
      BY <1>6, <2>3, <3>1, <3>2
  <2> QED
    BY <1>1, <1>12, <2>2, <2>3 DEF CloseStdout
<1> QED
  BY <1>9, <1>10, <1>11, <1>12 DEF Script

(* A message as it reaches the session. *)
LEMMA MessageIs ==
  ASSUME NEW parts \in Messages
  PROVE  LET kept == Persisted(parts).parts
         IN  kept # <<>> /\ Size(kept) <= TurnCap /\ \E j \in DOMAIN kept : kept[j].kind = "text"
<1>1. parts \in Seq(Whole) /\ \E i \in DOMAIN parts : parts[i].kind = "text"
  BY MessagesAssumption DEF Whole
<1>2. PICK kind : kind = "text"
  OBVIOUS
<1>3. PICK p : p = Persisted(parts)
  OBVIOUS
<1>4. /\ p.parts # <<>> /\ Size(p.parts) <= TurnCap
      /\ kind = "text" => \E j \in DOMAIN p.parts : p.parts[j].kind = kind
  BY <1>1, <1>2, <1>3, PersistedIs
<1> QED
  BY <1>2, <1>3, <1>4

LEMMA ImageIs ==
  ASSUME NEW parts \in Images
  PROVE  LET p == Persisted(parts)
         IN  /\ p.parts # <<>> /\ Size(p.parts) <= TurnCap
             /\ p.dropped > 0 <=> ~\E j \in DOMAIN p.parts : p.parts[j].kind = "blob"
<1>1. parts \in Seq(Whole) /\ \E i \in DOMAIN parts : parts[i].kind = "blob"
  BY MessagesAssumption DEF Whole
<1>2. PICK kind : kind = "blob"
  OBVIOUS
<1>3. PICK p : p = Persisted(parts)
  OBVIOUS
<1>4. /\ p.parts # <<>> /\ Size(p.parts) <= TurnCap
      /\ kind = "blob" => (p.dropped > 0 <=> ~\E j \in DOMAIN p.parts : p.parts[j].kind = kind)
  BY <1>1, <1>2, <1>3, PersistedIs
<1> QED
  BY <1>2, <1>3, <1>4

(* What an append leaves in the log. *)
LEMMA AppendedIs ==
  ASSUME NEW c \in Commands, NEW set, NEW parts, Appended(c, set, parts)
  PROVE  \E t : /\ log' = log \cup {t} /\ t.by = Asked(c) /\ t.set = set
                /\ t.parts = Persisted(parts).parts
<1>1. PICK t, by, kept : /\ by = Asked(c) /\ kept = Persisted(parts).parts
                         /\ t = [by |-> by, set |-> set, parts |-> kept]
  OBVIOUS
<1>2. t.by = by /\ t.set = set /\ t.parts = kept
  BY <1>1
<1>3. log' = log \cup {t}
  BY <1>1 DEF Appended
<1> QED
  BY <1>1, <1>2, <1>3

LEMMA AddStep ==
  ASSUME PromptsInv, NEW c \in Commands, AddUserTurn(c)
  PROVE  PromptsInv'
<1>1. /\ pc[c] = "message" /\ Op(c) = "add" /\ EndHooks(c)
      /\ UNCHANGED <<setup, hookEnv, rendered, environ, base, tool>>
  BY DEF AddUserTurn, turn
<1>2. pc[c] # "done" /\ Unasked(c)
  BY <1>1 DEF Unasked, Early
<1>3. ChainInv'
  BY <1>1, HooksEnd DEF PromptsInv
<1>4. PICK set : set = chain[<<c, "turn">>].set
  OBVIOUS
<1>5. ASSUME UNCHANGED <<log, lastHookEnv>>, Answer(c, "error") PROVE PromptsInv'
  <2>1. "error" \in Replies
    BY DEF Replies
  <2>2. Calls'
    BY <1>1, <1>2, <1>5, <2>1, Ends
  <2>3. ToolInv'
    BY <1>1, <1>2, <1>5, <2>1, NoToolAnswer
  <2> QED
    BY <1>3, <2>2, <2>3 DEF PromptsInv, Calls
<1>6. ASSUME NEW parts \in Messages, Appended(c, set, parts), SetLastHookEnv(c, set), Answer(c, "ok")
      PROVE  PromptsInv'
  <2>1. PICK t : /\ log' = log \cup {t} /\ t.by = Asked(c) /\ t.set = set
                 /\ t.parts = Persisted(parts).parts
    BY <1>6, AppendedIs
  <2>2. t.parts # <<>> /\ Size(t.parts) <= TurnCap /\ \E j \in DOMAIN t.parts : t.parts[j].kind = "text"
    BY <2>1, MessageIs
  <2>3. PICK n, r, new : n = line[c] /\ r = "ok" /\ new = {t}
    OBVIOUS
  <2>4. r \in Replies /\ Answer(c, r) /\ log' = log \cup new
    BY <1>6, <2>1, <2>3 DEF Replies
  <2>5. Holds(c, n)'
    <3>1. Kind(c)' = "text" /\ t \in log' /\ t.by = <<c, n>>
      BY <1>1, <2>1, <2>3 DEF Kind, Op, Asked, setup
    <3> QED
      BY <2>2, <3>1 DEF Holds
  <2>6. TypeInv' /\ StageInv'
    BY <1>1, <1>2, <2>4, AnswerCalls DEF PromptsInv
  <2>7. LogInv'
    <3>1. \A u \in new : u.by = Asked(c) /\ u.parts # <<>> /\ Size(u.parts) <= TurnCap
      BY <2>1, <2>2, <2>3
    <3>2. TypeInv /\ LogInv /\ r = "ok" /\ n = line[c] /\ UNCHANGED setup
      BY <1>1, <2>3 DEF PromptsInv
    <3> QED
      BY <1>2, <2>4, <2>5, <3>1, <3>2, LogAnswer
  <2>8. EnvInv'
    <3>1. \A d \in Commands : Pending(d)' => Pending(d)
      BY <1>1, <1>2, <2>4, AnsweredPending DEF PromptsInv
    <3>2. \E u \in log' : u.by = Asked(c) /\ u.set = set
      BY <2>1
    <3>3. log \subseteq log' /\ TypeInv /\ LogInv /\ EnvInv
      BY <2>1 DEF PromptsInv
    <3> QED
      BY <1>1, <1>2, <1>6, <3>1, <3>2, <3>3, EnvKept
  <2>9. ToolInv'
    BY <1>1, <1>2, <2>4, NoToolAnswer
  <2> QED
    BY <1>3, <2>6, <2>7, <2>8, <2>9 DEF PromptsInv
<1> QED
  BY <1>4, <1>5, <1>6 DEF AddUserTurn

LEMMA AddAndGenerateStep ==
  ASSUME PromptsInv, NEW c \in Commands, AddAndGenerate(c)
  PROVE  PromptsInv'
<1>1. /\ pc[c] = "message" /\ Op(c) # "add" /\ EndHooks(c)
      /\ UNCHANGED <<setup, lastHookEnv, rendered, environ, base, tool>>
  BY DEF AddAndGenerate, process
<1>2. pc[c] # "done" /\ Unasked(c) /\ Op(c) \in {"prompt", "repl"} /\ Op(c) \in Speaking
  BY <1>1 DEF Unasked, Early, PromptsInv, StageInv, Stage, Speaking
<1>3. ChainInv'
  BY <1>1, HooksEnd DEF PromptsInv
<1>4. PICK set : set = chain[<<c, "turn">>].set
  OBVIOUS
<1>5. ASSUME UNCHANGED <<log, hookEnv>>, Answer(c, "error") PROVE PromptsInv'
  <2>1. "error" \in Replies
    BY DEF Replies
  <2>2. Calls'
    BY <1>1, <1>2, <1>5, <2>1, Ends
  <2>3. ToolInv'
    BY <1>1, <1>2, <1>5, <2>1, NoToolAnswer
  <2> QED
    BY <1>3, <2>2, <2>3 DEF PromptsInv, Calls
<1>6. ASSUME NEW parts \in Messages, Appended(c, set, parts), Go(c, "load"),
             hookEnv' = [hookEnv EXCEPT ![c] = [by |-> Asked(c), set |-> set]]
      PROVE  PromptsInv'
  <2>1. PICK t : /\ log' = log \cup {t} /\ t.by = Asked(c) /\ t.set = set
                 /\ t.parts = Persisted(parts).parts
    BY <1>6, AppendedIs
  <2>2. t.parts # <<>> /\ Size(t.parts) <= TurnCap /\ \E j \in DOMAIN t.parts : t.parts[j].kind = "text"
    BY <2>1, MessageIs
  <2>3. "load" \in Stages /\ Stage(Op(c), "load") /\ "load" \notin {"tool", "prerun"}
    BY <1>1, <1>2 DEF Stages, Stage
  <2>4. TypeInv' /\ StageInv'
    BY <1>1, <1>2, <1>6, <2>3, GoTo DEF PromptsInv
  <2>5. LogInv'
    <3>1. TypeInv /\ LogInv /\ UNCHANGED setup
      BY <1>1 DEF PromptsInv
    <3> QED
      BY <1>1, <1>2, <1>6, <2>1, <2>2, <3>1, LogAppend
  <2>6. EnvInv'
    <3>1. ASSUME NEW d \in Commands, d # c, Pending(d)' PROVE Pending(d)
      BY <1>1, <1>6, <3>1 DEF Pending, Go, PromptsInv, TypeInv, Op, setup
    <3>2. \E u \in log' : u.by = Asked(c) /\ u.set = set
      BY <2>1
    <3>3. log \subseteq log' /\ TypeInv /\ LogInv /\ EnvInv
      BY <2>1 DEF PromptsInv
    <3> QED
      BY <1>1, <1>2, <1>6, <3>1, <3>2, <3>3, EnvTurn
  <2>7. ToolInv'
    BY <1>1, <1>6, <2>3, NoToolGo
  <2> QED
    BY <1>3, <2>4, <2>5, <2>6, <2>7 DEF PromptsInv
<1> QED
  BY <1>4, <1>5, <1>6 DEF AddAndGenerate, FailCall

LEMMA MediaStep ==
  ASSUME PromptsInv, NEW c \in Commands, AddMedia(c)
  PROVE  PromptsInv'
<1>1. /\ pc[c] = "media"
      /\ UNCHANGED <<setup, chain, lastHookEnv, hookEnv, rendered, environ, base, tool>>
  BY DEF AddMedia, process, turn
<1>2. pc[c] # "done" /\ Op(c) = "media" /\ Unasked(c)
  BY <1>1 DEF Unasked, Speaking, PromptsInv, StageInv, Stage
<1>3. ChainInv'
  BY <1>1, ChainStays DEF PromptsInv
<1>4. ASSUME UNCHANGED log, Answer(c, "error") PROVE PromptsInv'
  <2>1. "error" \in Replies
    BY DEF Replies
  <2>2. Calls'
    BY <1>1, <1>2, <1>4, <2>1, Ends
  <2>3. ToolInv'
    BY <1>1, <1>2, <1>4, <2>1, NoToolAnswer
  <2> QED
    BY <1>3, <2>2, <2>3 DEF PromptsInv, Calls
<1>5. ASSUME NEW parts \in Images, Appended(c, NoVars, parts),
             Answer(c, IF Persisted(parts).dropped > 0 THEN "error" ELSE "ok")
      PROVE  PromptsInv'
  <2>1. PICK t : log' = log \cup {t} /\ t.by = Asked(c) /\ t.parts = Persisted(parts).parts
    BY <1>5, AppendedIs
  <2>a. PICK lost \in BOOLEAN : (lost <=> Persisted(parts).dropped > 0)
    OBVIOUS
  <2>2. PICK r : (lost <=> Persisted(parts).dropped > 0) /\ r = IF lost THEN "error" ELSE "ok"
    BY <2>a
  <2>3. t.parts # <<>> /\ Size(t.parts) <= TurnCap
    BY <2>1, ImageIs
  <2>4. lost <=> ~\E j \in DOMAIN t.parts : t.parts[j].kind = "blob"
    BY <2>1, <2>2, ImageIs
  <2>5. PICK n, new : n = line[c] /\ new = {t}
    OBVIOUS
  <2>6. r \in Replies /\ Answer(c, r) /\ log' = log \cup new
    BY <1>5, <2>1, <2>2, <2>5 DEF Replies
  <2>7. Kind(c) = "blob" /\ Kind(c)' = "blob"
    BY <1>1, <1>2 DEF Kind, Op, setup
  <2>8. r = "ok" => Holds(c, n)'
    <3>1. t \in log' /\ t.by = <<c, n>>
      BY <2>1, <2>5 DEF Asked
    <3> QED
      BY <2>2, <2>4, <2>7, <3>1 DEF Holds
  <2>9. TypeInv' /\ StageInv'
    BY <1>1, <1>2, <2>6, AnswerCalls DEF PromptsInv
  <2>10. LogInv'
    <3>1. \A u \in new : u.by = Asked(c) /\ u.parts # <<>> /\ Size(u.parts) <= TurnCap
      BY <2>1, <2>3, <2>5
    <3>2. r # "ok" => \A u \in new : ~\E j \in DOMAIN u.parts : u.parts[j].kind = Kind(c)
      BY <2>2, <2>4, <2>5, <2>7
    <3>3. TypeInv /\ LogInv /\ n = line[c] /\ UNCHANGED setup
      BY <1>1, <2>5 DEF PromptsInv
    <3> QED
      BY <1>2, <2>6, <2>8, <3>1, <3>2, <3>3, LogAnswer
  <2>11. EnvInv'
    <3>1. \A d \in Commands : Pending(d)' => Pending(d)
      BY <1>1, <1>2, <2>6, AnsweredPending DEF PromptsInv
    <3>2. log \subseteq log' /\ TypeInv /\ LogInv /\ EnvInv
      BY <2>1 DEF PromptsInv
    <3> QED
      BY <1>1, <3>1, <3>2, EnvStays
  <2>12. ToolInv'
    BY <1>1, <1>2, <2>6, NoToolAnswer
  <2> QED
    BY <1>3, <2>9, <2>10, <2>11, <2>12 DEF PromptsInv
<1> QED
  BY <1>4, <1>5 DEF AddMedia

LEMMA LoadDotEnvStep ==
  ASSUME PromptsInv, NEW c \in Commands, LoadDotEnv(c)
  PROVE  PromptsInv'
<1>1. /\ pc[c] = "load" /\ LoadAgentDotEnv(c) /\ Go(c, "runtime")
      /\ UNCHANGED <<setup, log, chain, rendered, base, tool>>
  BY DEF LoadDotEnv
<1>2. /\ Op(c) \notin {"nothing", "add"} /\ pc[c] # "done" /\ pc[c] \notin Early
      /\ "runtime" \in Stages /\ Stage(Op(c), "runtime") /\ "runtime" \notin Early \cup {"tool", "prerun"}
  BY <1>1 DEF PromptsInv, StageInv, Stage, Stages, Early
<1>3. ChainInv'
  BY <1>1, ChainStays DEF PromptsInv
<1>4. ASSUME NEW d \in Commands
      PROVE  pc'[d] = (IF d = c THEN "runtime" ELSE pc[d]) /\ Op(d)' = Op(d)
  BY <1>1 DEF Go, PromptsInv, TypeInv, Op, setup
<1>5. ToolInv'
  <2>1. environ' \in [Processes -> [Vars -> Loaded]]
    BY <1>1, EnvironLoads DEF PromptsInv
  <2>2. \A d \in Commands : pc'[d] \in {"tool", "prerun"} => pc[d] \in {"tool", "prerun"}
    BY <1>4
  <2> QED
    BY <1>1, <2>1, <2>2, ToolStays DEF PromptsInv
<1>6. CASE Op(c) = "generate"
  <2>1. PopLastHookEnv(c)
    BY <1>6 DEF LoadDotEnv
  <2>2. TypeInv' /\ StageInv'
    BY <1>1, <1>2, GoTo DEF PromptsInv
  <2>3. LogInv'
    BY <1>1, <1>2, LogGo DEF PromptsInv
  <2>4. \A d \in Commands : d # c => (Pending(d)' => Pending(d))
    BY <1>4 DEF Pending
  <2>5. EnvInv'
    BY <1>1, <1>6, <2>1, <2>4, EnvPopped DEF PromptsInv
  <2> QED
    BY <1>3, <1>5, <2>2, <2>3, <2>5 DEF PromptsInv
<1>7. CASE Op(c) # "generate"
  <2>1. UNCHANGED <<hookEnv, lastHookEnv>>
    BY <1>7 DEF LoadDotEnv
  <2>2. Pending(c)
    BY <1>1, <1>7 DEF Pending
  <2>3. Calls'
    BY <1>1, <1>2, <2>1, <2>2, Continues
  <2> QED
    BY <1>3, <1>5, <2>3 DEF PromptsInv, Calls
<1> QED
  BY <1>6, <1>7

LEMMA LoadRuntimeStep ==
  ASSUME PromptsInv, NEW c \in Commands, LoadRuntimeConfig(c)
  PROVE  PromptsInv'
<1>1. /\ pc[c] = "runtime"
      /\ UNCHANGED <<setup, log, chain, lastHookEnv, hookEnv, rendered, environ, base, tool>>
      /\ Answer(c, "error") \/ Go(c, IF Op(c) = "media" THEN "media" ELSE "build")
  BY DEF LoadRuntimeConfig, FailCall, process
<1>2. pc[c] # "done" /\ pc[c] \notin Early /\ Op(c) \notin {"nothing", "add"} /\ Pending(c)
  BY <1>1 DEF PromptsInv, StageInv, Stage, Early, Pending
<1>3. ChainInv'
  BY <1>1, ChainStays DEF PromptsInv
<1>4. CASE Answer(c, "error")
  <2>1. "error" \in Replies
    BY DEF Replies
  <2>2. Calls' /\ ToolInv'
    BY <1>1, <1>2, <1>4, <2>1, Ends, NoToolAnswer
  <2> QED
    BY <1>3, <2>2 DEF PromptsInv, Calls
<1>5. CASE Go(c, IF Op(c) = "media" THEN "media" ELSE "build")
  <2>1. PICK stage : stage = IF Op(c) = "media" THEN "media" ELSE "build"
    OBVIOUS
  <2>2. /\ stage \in Stages /\ Stage(Op(c), stage) /\ stage \notin Early
        /\ stage \notin {"tool", "prerun"} /\ Go(c, stage)
    BY <1>2, <1>5, <2>1 DEF Stages, Stage, Early
  <2>3. Calls'
    BY <1>1, <1>2, <2>2, Continues
  <2>4. ToolInv'
    BY <1>1, <2>2, NoToolGo
  <2> QED
    BY <1>3, <2>3, <2>4 DEF PromptsInv, Calls
<1> QED
  BY <1>1, <1>4, <1>5

LEMMA LoadFolderStep ==
  ASSUME PromptsInv, NEW c \in Commands, LoadFolderAgent(c)
  PROVE  PromptsInv'
<1>1. /\ pc[c] = "build"
      /\ UNCHANGED <<setup, log, chain, lastHookEnv, hookEnv, environ, base, tool>>
      /\ \/ Answer(c, "error") /\ rendered' = rendered
         \/ RenderAgentSystemPrompt(c) /\ Go(c, IF Op(c) = "compact" THEN "compact" ELSE "turn")
  BY DEF LoadFolderAgent, FailCall, process
<1>2. /\ pc[c] # "done" /\ pc[c] \notin Early /\ Op(c) \notin {"nothing", "add", "media"}
      /\ Op(c) \in Ops /\ Pending(c)
  BY <1>1, Places DEF PromptsInv, StageInv, Stage, Early, Pending
<1>3. ChainInv'
  BY <1>1, ChainStays DEF PromptsInv
<1>4. CASE Answer(c, "error") /\ rendered' = rendered
  <2>1. "error" \in Replies
    BY DEF Replies
  <2>2. Calls' /\ ToolInv'
    BY <1>1, <1>2, <1>4, <2>1, Ends, NoToolAnswer
  <2> QED
    BY <1>3, <2>2 DEF PromptsInv, Calls
<1>5. CASE RenderAgentSystemPrompt(c) /\ Go(c, IF Op(c) = "compact" THEN "compact" ELSE "turn")
  <2>1. PICK stage : stage = IF Op(c) = "compact" THEN "compact" ELSE "turn"
    OBVIOUS
  <2>2. /\ stage \in Stages /\ Stage(Op(c), stage) /\ stage \notin Early
        /\ stage \notin {"tool", "prerun"} /\ Go(c, stage)
    BY <1>2, <1>5, <2>1 DEF Stages, Stage, Early, Ops
  <2>3. TypeInv' /\ StageInv'
    BY <1>1, <1>2, <2>2, GoTo DEF PromptsInv
  <2>4. LogInv'
    BY <1>1, <1>2, <2>2, LogGo DEF PromptsInv
  <2>5. ASSUME NEW d \in Commands
        PROVE  pc'[d] = (IF d = c THEN stage ELSE pc[d]) /\ Op(d)' = Op(d)
    BY <1>1, <2>2 DEF Go, PromptsInv, TypeInv, Op, setup
  <2>6. ~Pending(c)' /\ \A d \in Commands : d # c => (Pending(d)' => Pending(d))
    BY <2>1, <2>5 DEF Pending
  <2>7. EnvInv'
    BY <1>1, <1>2, <1>5, <2>6, EnvRendered DEF PromptsInv
  <2>8. ToolInv'
    BY <1>1, <2>2, NoToolGo
  <2> QED
    BY <1>3, <2>3, <2>4, <2>7, <2>8 DEF PromptsInv
<1> QED
  BY <1>1, <1>4, <1>5

(* The steps of a turn go on, but for the tool. *)
Turning == {"turn", "tool", "prerun", "ok", "failed"}

LEMMA TurnGoes ==
  ASSUME PromptsInv, UNCHANGED <<setup, log, lastHookEnv, hookEnv, rendered>>,
         NEW c \in Commands, pc[c] \in Turning, NEW stage \in Turning, Go(c, stage)
  PROVE  Calls' /\ \A d \in Commands : pc'[d] = IF d = c THEN stage ELSE pc[d]
<1>1. /\ pc[c] # "done" /\ pc[c] \notin Early /\ stage \in Stages /\ Stage(Op(c), stage)
      /\ stage \notin Early \cup {"load", "runtime", "build"}
  BY DEF Turning, PromptsInv, StageInv, Stage, Stages, Early
<1>2. Calls'
  BY <1>1, Continues
<1> QED
  BY <1>2 DEF Go, PromptsInv, TypeInv

LEMMA CallToolStep ==
  ASSUME PromptsInv, NEW c \in Commands, CallTool(c)
  PROVE  PromptsInv'
<1>1. /\ pc[c] = "turn" /\ Go(c, "tool") /\ base' = [base EXCEPT ![c] = environ[Process(c)]]
      /\ UNCHANGED <<setup, log, chain, lastHookEnv, hookEnv, rendered, environ, tool>>
  BY DEF CallTool, process
<1>2. pc[c] \in Turning /\ "tool" \in Turning
  BY <1>1 DEF Turning
<1>3. Calls' /\ \A d \in Commands : pc'[d] = IF d = c THEN "tool" ELSE pc[d]
  BY <1>1, <1>2, TurnGoes
<1>4. ChainInv'
  BY <1>1, ChainStays DEF PromptsInv
<1>5. ToolInv'
  <2>1. PICK q, new : q = Process(c) /\ new = environ[q]
    OBVIOUS
  <2>2. new \in [Vars -> Loaded]
    BY <2>1, Places DEF PromptsInv, ToolInv
  <2>3. /\ base' = [d \in Commands |-> base'[d]]
        /\ \A d \in Commands : base'[d] = IF d = c THEN new ELSE base[d]
    <3>1. base = [d \in Commands |-> base[d]]
      BY DEF PromptsInv, ToolInv
    <3> QED
      BY <1>1, <2>1, <3>1
  <2>4. \A d \in Commands : pc'[d] \in {"tool", "prerun"} => base'[d] \in [Vars -> Loaded]
    BY <1>3, <2>2, <2>3 DEF PromptsInv, ToolInv
  <2>5. ASSUME NEW d \in Commands PROVE InBounds(d, tool[d])'
    BY <1>1 DEF PromptsInv, ToolInv, InBounds, Agent, setup
  <2>6. environ' \in [Processes -> [Vars -> Loaded]] /\ tool' = [d \in Commands |-> tool'[d]]
    BY <1>1 DEF PromptsInv, ToolInv
  <2> QED
    BY <2>3, <2>4, <2>5, <2>6 DEF ToolInv
<1> QED
  BY <1>3, <1>4, <1>5 DEF PromptsInv, Calls

LEMMA PrepareToolStep ==
  ASSUME PromptsInv, NEW c \in Commands, PrepareTool(c)
  PROVE  PromptsInv'
<1>1. /\ pc[c] = "tool" /\ LoadAgentDotEnv(c)
      /\ UNCHANGED <<setup, log, lastHookEnv, hookEnv, rendered, base, tool>>
      /\ \/ StartHooks(c, "turn", PreRun) /\ Go(c, "prerun")
         \/ chain' = chain /\ Go(c, "turn")
  BY DEF PrepareTool, RunPreRunCommandHooks, turn
<1>2. PICK stage \in {"prerun", "turn"} : Go(c, stage)
  BY <1>1
<1>3. pc[c] \in Turning /\ stage \in Turning
  BY <1>1 DEF Turning
<1>4. Calls' /\ \A d \in Commands : pc'[d] = IF d = c THEN stage ELSE pc[d]
  BY <1>1, <1>2, <1>3, TurnGoes
<1>5. ChainInv'
  <2>1. PreRun \in Events
    BY DEF Events
  <2> QED
    BY <1>1, <2>1, HooksStart, ChainStays DEF PromptsInv
<1>6. ToolInv'
  <2>1. environ' \in [Processes -> [Vars -> Loaded]]
    BY <1>1, EnvironLoads DEF PromptsInv
  <2>2. \A d \in Commands : pc'[d] \in {"tool", "prerun"} => pc[d] \in {"tool", "prerun"}
    BY <1>1, <1>4
  <2> QED
    BY <1>1, <2>1, <2>2, ToolStays DEF PromptsInv
<1> QED
  BY <1>4, <1>5, <1>6 DEF PromptsInv, Calls

LEMMA RunToolStep ==
  ASSUME PromptsInv, NEW c \in Commands, RunTool(c)
  PROVE  PromptsInv'
<1>1. PICK ch : ch = chain[<<c, "turn">>]
  OBVIOUS
<1>2. /\ pc[c] = "prerun" /\ ch.event = PreRun /\ Go(c, "turn") /\ EndHooks(c)
      /\ UNCHANGED <<setup, log, lastHookEnv, hookEnv, rendered, environ, base>>
      /\ \/ tool' = tool
         \/ /\ "short_circuit" \notin ch.actions
            /\ tool' = [tool EXCEPT ![c] = [ran |-> TRUE, env |-> ChildEnv(c, ch.set), hooks |-> ch]]
  BY <1>1 DEF RunTool, Hooks, process
<1>3. pc[c] \in Turning /\ "turn" \in Turning
  BY <1>2 DEF Turning
<1>4. Calls' /\ \A d \in Commands : pc'[d] = IF d = c THEN "turn" ELSE pc[d]
  BY <1>2, <1>3, TurnGoes
<1>5. ChainInv'
  BY <1>2, HooksEnd DEF PromptsInv
<1>6. \A d \in Commands : pc'[d] \in {"tool", "prerun"} => pc[d] \in {"tool", "prerun"}
  BY <1>4
<1>7. CASE tool' = tool
  <2>1. ToolInv'
    BY <1>2, <1>6, <1>7, NoTool
  <2> QED
    BY <1>4, <1>5, <2>1 DEF PromptsInv, Calls
<1>8. ASSUME "short_circuit" \notin ch.actions,
             tool' = [tool EXCEPT ![c] = [ran |-> TRUE, env |-> ChildEnv(c, ch.set), hooks |-> ch]]
      PROVE  PromptsInv'
  <2>1. PICK set, env, new : /\ set = ch.set /\ env = ChildEnv(c, set)
                             /\ new = [ran |-> TRUE, env |-> env, hooks |-> ch]
    OBVIOUS
  <2>2. new.env = env /\ new.hooks = ch
    BY <2>1
  <2>3. /\ tool' = [d \in Commands |-> tool'[d]]
        /\ \A d \in Commands : tool'[d] = IF d = c THEN new ELSE tool[d]
    <3>1. tool = [d \in Commands |-> tool[d]]
      BY DEF PromptsInv, ToolInv
    <3> QED
      BY <1>8, <2>1, <3>1
  <2>4. ChainOk(ch) /\ ch.event # "none"
    <3>1. <<c, "turn">> \in Commands \X Slots
      BY DEF Slots
    <3> QED
      BY <1>1, <1>2, <3>1 DEF PromptsInv, ChainInv, PreRun
  <2>5. \A i \in DOMAIN ch.ran : ch.ran[i].out.action # "short_circuit"
    BY <1>2, <1>8, <2>4 DEF ChainOk, Claimed
  <2>6. \A v \in DOMAIN set : set[v][1] = "hook"
    BY <2>1, <2>4 DEF ChainOk, SetByLast
  <2>7. base[c] \in [Vars -> Loaded]
    BY <1>2 DEF PromptsInv, ToolInv
  <2>8. ASSUME NEW v \in Vars
        PROVE  IF v \in Locked THEN env[v][1] \in {"os", "env"}
               ELSE v \in DotEnv[Agent(c)] /\ env[v][1] = "env" => env[v] = <<"env", Agent(c)>>
    BY <2>1, <2>6, <2>7, ChildInBounds DEF PromptsInv
  <2>9. InBounds(c, new)
    BY <2>2, <2>5, <2>8 DEF InBounds
  <2>10. ASSUME NEW d \in Commands PROVE InBounds(d, tool[d])'
    <3>1. Agent(d)' = Agent(d)
      BY <1>2 DEF Agent, setup
    <3>2. InBounds(d, tool'[d])
      BY <2>3, <2>9 DEF PromptsInv, ToolInv
    <3> QED
      BY <3>1, <3>2 DEF InBounds
  <2>11. \A d \in Commands : pc'[d] \in {"tool", "prerun"} => base'[d] \in [Vars -> Loaded]
    BY <1>2, <1>6 DEF PromptsInv, ToolInv
  <2>12. environ' \in [Processes -> [Vars -> Loaded]] /\ base' = [d \in Commands |-> base'[d]]
    BY <1>2 DEF PromptsInv, ToolInv
  <2>13. ToolInv'
    BY <2>3, <2>10, <2>11, <2>12 DEF ToolInv
  <2> QED
    BY <1>4, <1>5, <2>13 DEF PromptsInv, Calls
<1> QED
  BY <1>2, <1>7, <1>8

LEMMA EndTurnStep ==
  ASSUME PromptsInv, NEW c \in Commands, EndTurn(c)
  PROVE  PromptsInv'
<1>1. /\ pc[c] = "turn"
      /\ UNCHANGED <<setup, log, lastHookEnv, hookEnv, rendered, environ, base, tool>>
      /\ \/ Go(c, "ok") /\ StartHooks(c, "turn", TurnCompleted)
         \/ Go(c, "failed") /\ StartHooks(c, "turn", TurnFailed)
  BY DEF EndTurn, process, turn
<1>2. PICK stage \in {"ok", "failed"} : Go(c, stage)
  BY <1>1
<1>3. pc[c] \in Turning /\ stage \in Turning /\ stage \notin {"tool", "prerun"}
  BY <1>1 DEF Turning
<1>4. Calls'
  BY <1>1, <1>2, <1>3, TurnGoes
<1>5. ToolInv'
  BY <1>1, <1>2, <1>3, NoToolGo
<1>6. ChainInv'
  <2>1. TurnCompleted \in Events /\ TurnFailed \in Events
    BY DEF Events
  <2> QED
    BY <1>1, <2>1, HooksStart DEF PromptsInv
<1> QED
  BY <1>4, <1>5, <1>6 DEF PromptsInv, Calls

LEMMA FinishTurnStep ==
  ASSUME PromptsInv, NEW c \in Commands, FinishTurn(c)
  PROVE  PromptsInv'
<1>1. /\ pc[c] \in {"ok", "failed"} /\ EndHooks(c)
      /\ Answer(c, "ok") \/ Answer(c, "error")
      /\ tool' = [tool EXCEPT ![c] = NotRun] /\ base' = [base EXCEPT ![c] = NoVars]
      /\ UNCHANGED <<setup, log, lastHookEnv, hookEnv, rendered, environ>>
  BY DEF FinishTurn, GenerateTurn, process
<1>2. PICK r \in Replies : Answer(c, r)
  BY <1>1 DEF Replies
<1>3. pc[c] # "done" /\ pc[c] \notin Early /\ Op(c) \in {"prompt", "repl", "generate"}
  BY <1>1 DEF Early, PromptsInv, StageInv, Stage
<1>4. Calls'
  <2>1. Op(c) \in {"generate", "compact"} \/ (Op(c) \in Speaking /\ pc[c] \notin Early)
    BY <1>3 DEF Speaking
  <2> QED
    BY <1>1, <1>2, <1>3, <2>1, Ends
<1>5. ChainInv'
  BY <1>1, HooksEnd DEF PromptsInv
<1>6. ToolInv'
  <2>1. /\ tool' = [d \in Commands |-> tool'[d]] /\ base' = [d \in Commands |-> base'[d]]
        /\ \A d \in Commands : tool'[d] = IF d = c THEN NotRun ELSE tool[d]
        /\ \A d \in Commands : base'[d] = IF d = c THEN NoVars ELSE base[d]
    <3>1. tool = [d \in Commands |-> tool[d]] /\ base = [d \in Commands |-> base[d]]
      BY DEF PromptsInv, ToolInv
    <3> QED
      BY <1>1, <3>1
  <2>2. ASSUME NEW d \in Commands, pc'[d] \in {"tool", "prerun"} PROVE base'[d] \in [Vars -> Loaded]
    <3>1. pc'[c] \notin {"tool", "prerun"} /\ (d # c => pc'[d] = pc[d])
      BY <1>2, <1>3, Answered DEF PromptsInv
    <3>2. d # c /\ pc[d] \in {"tool", "prerun"}
      BY <2>2, <3>1
    <3> QED
      BY <2>1, <3>2 DEF PromptsInv, ToolInv
  <2>3. ASSUME NEW d \in Commands PROVE InBounds(d, tool[d])'
    <3>1. Agent(d)' = Agent(d)
      BY <1>1 DEF Agent, setup
    <3>2. InBounds(d, NotRun)
      BY DEF InBounds, NotRun
    <3>3. InBounds(d, tool'[d])
      BY <2>1, <3>2 DEF PromptsInv, ToolInv
    <3> QED
      BY <3>1, <3>3 DEF InBounds
  <2>4. environ' \in [Processes -> [Vars -> Loaded]]
    BY <1>1 DEF PromptsInv, ToolInv
  <2> QED
    BY <2>1, <2>2, <2>3, <2>4 DEF ToolInv
<1> QED
  BY <1>4, <1>5, <1>6 DEF PromptsInv, Calls

(* A compaction goes on to its hooks. *)
LEMMA CompactGoes ==
  ASSUME PromptsInv, UNCHANGED <<setup, log, lastHookEnv, hookEnv, rendered, environ, base, tool>>,
         NEW c \in Commands, pc[c] \in {"compact", "precompact"},
         NEW stage \in {"precompact", "failing"}, Go(c, stage),
         NEW event \in Events, StartHooks(c, "turn", event)
  PROVE  PromptsInv'
<1>1. /\ pc[c] # "done" /\ Op(c) = "compact" /\ Op(c) \notin Speaking /\ stage \in Stages
      /\ Stage(Op(c), stage) /\ stage \notin Early \cup {"load", "runtime", "build", "tool", "prerun"}
  BY DEF Speaking, PromptsInv, StageInv, Stage, Stages, Early
<1>2. Calls'
  BY <1>1, Continues
<1>3. ToolInv'
  BY <1>1, NoToolGo
<1>4. ChainInv'
  BY HooksStart DEF PromptsInv
<1> QED
  BY <1>2, <1>3, <1>4 DEF PromptsInv, Calls

(* And is answered. *)
LEMMA CompactEnds ==
  ASSUME PromptsInv, UNCHANGED <<setup, log, lastHookEnv, hookEnv, rendered, environ, base, tool>>,
         NEW c \in Commands, pc[c] \in {"compact", "precompact", "failing"},
         NEW r \in Replies, Answer(c, r), ChainInv'
  PROVE  PromptsInv'
<1>1. pc[c] # "done" /\ Op(c) \in {"generate", "compact"}
  BY DEF PromptsInv, StageInv, Stage
<1>2. Calls' /\ ToolInv'
  BY <1>1, Ends, NoToolAnswer
<1> QED
  BY <1>2 DEF PromptsInv, Calls

LEMMA StartCompactStep ==
  ASSUME PromptsInv, NEW c \in Commands, StartCompact(c)
  PROVE  PromptsInv'
<1>1. /\ pc[c] = "compact"
      /\ UNCHANGED <<setup, log, lastHookEnv, hookEnv, rendered, environ, base, tool>>
      /\ \/ Go(c, "precompact") /\ StartHooks(c, "turn", PreCompact)
         \/ Answer(c, "ok") /\ chain' = chain
         \/ Go(c, "failing") /\ StartHooks(c, "turn", CompactFailed)
  BY DEF StartCompact, process, turn
<1>2. PreCompact \in Events /\ CompactFailed \in Events /\ "ok" \in Replies
  BY DEF Events, Replies
<1>3. CASE Answer(c, "ok") /\ chain' = chain
  <2>1. ChainInv'
    BY <1>1, <1>3, ChainStays DEF PromptsInv
  <2> QED
    BY <1>1, <1>2, <1>3, <2>1, CompactEnds
<1> QED
  BY <1>1, <1>2, <1>3, CompactGoes

LEMMA CompactedStep ==
  ASSUME PromptsInv, NEW c \in Commands, Compacted(c)
  PROVE  PromptsInv'
<1>1. PICK post : post = StartChain(PostCompact, <<"text", PostCompact>>, dir[PostCompact])
  OBVIOUS
<1>2. /\ pc[c] = "precompact"
      /\ UNCHANGED <<setup, log, lastHookEnv, hookEnv, rendered, environ, base, tool>>
      /\ \/ Answer(c, "ok") /\ chain' = [chain EXCEPT ![<<c, "turn">>] = NoChain, ![<<c, "post">>] = post]
         \/ Go(c, "failing") /\ StartHooks(c, "turn", CompactFailed)
  BY <1>1 DEF Compacted, process, turn
<1>3. PostCompact \in Events /\ CompactFailed \in Events /\ "ok" \in Replies
  BY DEF Events, Replies
<1>4. ASSUME Answer(c, "ok"), chain' = [chain EXCEPT ![<<c, "turn">>] = NoChain, ![<<c, "post">>] = post]
      PROVE  PromptsInv'
  <2>1. PICK none : none = NoChain
    OBVIOUS
  <2>2. ChainOk(none) /\ ChainOk(post)
    BY <1>1, <1>3, <2>1, NoChainOk, StartOk DEF PromptsInv
  <2>3. /\ chain' = [o \in Commands \X Slots |-> chain'[o]]
        /\ \A o \in Commands \X Slots : chain'[o] = chain[o] \/ chain'[o] = none \/ chain'[o] = post
    <3>1. chain = [o \in Commands \X Slots |-> chain[o]]
      BY DEF PromptsInv, ChainInv
    <3> QED
      BY <1>4, <2>1, <3>1
  <2>4. ChainInv'
    <3>1. \A o \in Commands \X Slots : chain'[o] = chain[o] \/ ChainOk(chain'[o])
      BY <2>2, <2>3
    <3> QED
      BY <1>2, <2>3, <3>1, ChainsStep DEF PromptsInv
  <2> QED
    BY <1>2, <1>3, <1>4, <2>4, CompactEnds
<1> QED
  BY <1>2, <1>3, <1>4, CompactGoes

LEMMA CompactionFailedStep ==
  ASSUME PromptsInv, NEW c \in Commands, CompactionFailed(c)
  PROVE  PromptsInv'
<1>1. /\ pc[c] = "failing" /\ Answer(c, "error") /\ "error" \in Replies /\ EndHooks(c)
      /\ UNCHANGED <<setup, log, lastHookEnv, hookEnv, rendered, environ, base, tool>>
  BY DEF CompactionFailed, FailCall, Replies, process, turn
<1>2. ChainInv'
  BY <1>1, HooksEnd DEF PromptsInv
<1> QED
  BY <1>1, <1>2, CompactEnds

LEMMA PostCompactStep ==
  ASSUME PromptsInv, NEW c \in Commands, PostCompactDone(c)
  PROVE  PromptsInv'
<1>1. PICK none, slot : none = NoChain /\ slot = "post"
  OBVIOUS
<1>2. UNCHANGED <<setup, call, log, process, turn>> /\ chain' = [chain EXCEPT ![<<c, slot>>] = none]
  BY <1>1 DEF PostCompactDone
<1>3. ChainOk(none) /\ slot \in Slots
  BY <1>1, NoChainOk DEF Slots
<1>4. ChainInv'
  BY <1>2, <1>3, ChainStep DEF PromptsInv
<1> QED
  BY <1>2, <1>4, OnlyAChain

-----------------------------------------------------------------------------
(* The theorems. *)

\* The invariant: a message is in the session, with its text or its image, from its
\* append on; the hook variables of a message are in one place until they are rendered;
\* a chain has run the first of its scripts in their order, and holds what they gave.
THEOREM PromptsInvariance == PromptsSpec => []PromptsInv
<1>1. PromptsInit => PromptsInv
  <2>1. PromptsInit => TypeInv /\ StageInv /\ LogInv /\ EnvInv /\ ToolInv /\ ChainInv
    BY InitCalls, InitEnv, InitTool, ChainInit
  <2> QED
    BY <2>1 DEF PromptsInv
<1>2. PromptsInv /\ [PromptsNext]_promptVars => PromptsInv'
  <2> SUFFICES ASSUME PromptsInv, [PromptsNext]_promptVars PROVE PromptsInv'
    OBVIOUS
  <2>1. CASE UNCHANGED promptVars
    <3>1. UNCHANGED <<setup, call, log, chain, process, turn>>
      BY <2>1 DEF promptVars
    <3>2. ChainInv'
      BY <3>1, ChainStays DEF PromptsInv
    <3> QED
      BY <3>1, <3>2, OnlyAChain
  <2>2. ASSUME NEW c \in Commands, Work(c) PROVE PromptsInv'
    <3>1. CASE AcquireSessionLock(c) \/ GiveUp(c)
      BY <3>1, LockStep, GiveUpStep
    <3>2. CASE AddUserTurn(c) \/ AddAndGenerate(c) \/ AddMedia(c)
      BY <3>2, AddStep, AddAndGenerateStep, MediaStep
    <3>3. CASE LoadDotEnv(c) \/ LoadRuntimeConfig(c) \/ LoadFolderAgent(c)
      BY <3>3, LoadDotEnvStep, LoadRuntimeStep, LoadFolderStep
    <3>4. CASE CallTool(c) \/ PrepareTool(c) \/ RunTool(c) \/ EndTurn(c) \/ FinishTurn(c)
      BY <3>4, CallToolStep, PrepareToolStep, RunToolStep, EndTurnStep, FinishTurnStep
    <3>5. CASE StartCompact(c) \/ Compacted(c) \/ CompactionFailed(c) \/ PostCompactDone(c)
      BY <3>5, StartCompactStep, CompactedStep, CompactionFailedStep, PostCompactStep
    <3> QED
      BY <2>2, <3>1, <3>2, <3>3, <3>4, <3>5 DEF Work
  <2>3. ASSUME NEW c \in Commands, Ask(c) \/ Interrupt(c) PROVE PromptsInv'
    BY <2>3, AskStep, InterruptStep
  <2>4. ASSUME NEW c \in Commands, NEW slot \in Slots, Script(c, slot) PROVE PromptsInv'
    BY <2>4, ScriptStep
  <2> QED
    BY <2>1, <2>2, <2>3, <2>4 DEF PromptsNext
<1> QED
  BY <1>1, <1>2, PTL DEF PromptsSpec

\* What a call was told is what the session holds, however the calls, the scripts and the
\* cancellations interleave, and whatever is sent and attached.  (AddUserTurn,
\* AddUserTurnAndGenerate, AddMediaTurn, sanitizeContentForPersistWithSeq, popLastHookEnv.)
THEOREM AnswersAreTrue == PromptsSpec => []AnswersMatchTheLog
<1>1. PromptsInv => AnswersMatchTheLog
  <2> SUFFICES ASSUME PromptsInv PROVE AnswersMatchTheLog
    OBVIOUS
  <2>1. ASSUME NEW c \in Commands, NEW i \in DOMAIN reply[c]
        PROVE  LET held == \E t \in log : t.by = <<c, i>> /\ \E j \in DOMAIN t.parts :
                             t.parts[j].kind = (IF Op(c) = "media" THEN "blob" ELSE "text")
               IN  /\ reply[c][i] = "ok" /\ Op(c) \notin {"generate", "compact"} => held
                   /\ reply[c][i] # "ok" /\ Op(c) \in {"add", "media"} => ~held
    <3>1. Told(c, i)
      BY DEF PromptsInv, LogInv
    <3> QED
      BY <3>1 DEF Told, Holds, Kind
  <2>2. /\ \A t \in log : t.parts # <<>> /\ Size(t.parts) <= TurnCap
        /\ \A r \in rendered : \E t \in log : t.by = r.env.by /\ t.set = r.env.set
        /\ \A r, q \in rendered : r.env.by = q.env.by => r = q
    BY DEF PromptsInv, LogInv, EnvInv, Logged
  <2> QED
    BY <2>1, <2>2 DEF AnswersMatchTheLog
<1> QED
  BY <1>1, PromptsInvariance, PTL

\* The scripts of a chain run in order, each once, until one claims the call of a tool;
\* a tool runs unclaimed, never with another agent's .env in place of its own, and never
\* with a variable of the harness that the model or a hook has set.
\* (DiscoverHooks, RunHookChain, executeTool, childEnv, LoadAgentDotEnv.)
THEOREM HooksStayInPlace == PromptsSpec => []HooksKeepTheirPlace
<1>1. PromptsInv => HooksKeepTheirPlace
  <2> SUFFICES ASSUME PromptsInv PROVE HooksKeepTheirPlace
    OBVIOUS
  <2>1. ASSUME NEW o \in Commands \X Slots, chain[o].event # "none" PROVE InPlace(chain[o])
    <3>1. PICK ch : ch = chain[o]
      OBVIOUS
    <3>2. ChainOk(ch) /\ ch.event # "none" /\ ChainInv
      BY <2>1, <3>1 DEF PromptsInv, ChainInv
    <3>3. InPlace(ch)
      BY <3>2, OkInPlace
    <3> QED
      BY <3>1, <3>3
  <2>2. \A c \in Commands : InBounds(c, tool[c])
    BY DEF PromptsInv, ToolInv
  <2> QED
    BY <2>1, <2>2 DEF HooksKeepTheirPlace, InBounds
<1> QED
  BY <1>1, PromptsInvariance, PTL
=============================================================================
