----------------------------- MODULE TurnStream -----------------------------
(***************************************************************************)
(* One streaming turn: GenerateTurnStream and AddAndGenerateTurnStream     *)
(* (sdk.go), the sink of tool events (tool_events.go, adk_agent.go) and    *)
(* the in-process stream to the client (inprocess_stream.go, dispatch.go). *)
(*                                                                         *)
(* A generator goroutine puts chunks and warnings on two channels.  Tools  *)
(* record their events in a sink that signals through a third.  The        *)
(* handler selects between them and is the only sender on the stream.      *)
(***************************************************************************)
EXTENDS Naturals, Sequences, FiniteSets

CONSTANTS
  Tools,           \* the tool calls of the turn
  Signatures,      \* names with canonical arguments
  Sig,             \* the signature of each call
  ItemCap,         \* capacity of the channel of chunks
  WarningCap,      \* capacity of the channel of warnings
  StreamCap,       \* capacity of the stream to the client
  MaxChunks,       \* bound: chunks of the turn
  MaxWarnings      \* bound: warnings of the turn

ASSUME TurnStreamAssumption ==
  /\ Sig \in [Tools -> Signatures]
  /\ {ItemCap, WarningCap, StreamCap} \subseteq Nat \ {0}
  /\ {MaxChunks, MaxWarnings} \subseteq Nat

VARIABLES
  ctx,             \* the context of the client's call: is it done
  gen,             \* the generator goroutine
  outcome,         \* how the turn ended
  items,           \* channel: chunks, each with the events recorded before it, and an error
  chunks, warned,  \* chunks and warnings produced
  warnings,        \* how many are on the channel
  tool,            \* the state of each tool call
  pendingBySig,    \* announced and not yet paired, by signature
  paired,          \* ghost: which call an outcome was given to
  recorded,        \* events recorded, in FIFO order
  drained,         \* of those, taken from the sink
  atEnd,           \* ghost: recorded when the generator had ended
  notify,          \* the token of the sink
  pc,              \* the handler
  held,            \* the chunk the handler has taken
  sentEvents, sentChunks, sentWarnings,
  ret,             \* what the handler returned
  buffer,          \* responses on the stream, and
  closed,          \* whether it is closed
  client           \* what Recv told the client

genVars == <<gen, outcome, items, chunks, warned, warnings, atEnd>>
toolVars == <<tool, pendingBySig, paired, recorded>>
sentVars == <<sentEvents, sentChunks, sentWarnings>>
handlerVars == <<drained, pc, held, sentVars, ret>>
streamVars == <<buffer, closed, client>>
vars == <<ctx, genVars, toolVars, notify, handlerVars, streamVars>>

Error == [chunk |-> FALSE, mark |-> 0]
Chunk(mark) == [chunk |-> TRUE, mark |-> mark]

TypeOK ==
  /\ ctx \in BOOLEAN
  /\ gen \in {"run", "end", "closed"}
  /\ outcome \in {"none", "complete", "error", "stopped"}
  /\ items \in Seq([chunk : BOOLEAN, mark : Nat]) /\ Len(items) <= ItemCap
  /\ chunks \in 0 .. MaxChunks /\ warned \in 0 .. MaxWarnings
  /\ warnings \in 0 .. WarningCap
  /\ tool \in [Tools -> {"idle", "running", "reported", "done"}]
  /\ pendingBySig \in [Signatures -> Seq(Tools)]
  /\ paired \in [Tools -> Tools \cup {"none"}]
  /\ recorded \in Nat /\ atEnd \in 0 .. recorded /\ drained \in 0 .. recorded
  /\ notify \in BOOLEAN
  /\ pc \in {"select", "events", "warning", "text", "drain", "late", "flush", "done"}
  /\ held \in [chunk : BOOLEAN, mark : Nat]
  /\ sentEvents \in 0 .. drained
  /\ sentChunks \in 0 .. chunks /\ sentWarnings \in 0 .. warned
  /\ ret \in {"none", "ok", "error", "cancelled"}
  /\ buffer \in 0 .. StreamCap /\ closed \in BOOLEAN
  /\ client \in {"recv", "eof", "error"}

Init ==
  /\ ctx = FALSE
  /\ gen = "run" /\ outcome = "none" /\ items = <<>> /\ chunks = 0 /\ warned = 0
  /\ warnings = 0 /\ atEnd = 0
  /\ tool = [t \in Tools |-> "idle"] /\ pendingBySig = [s \in Signatures |-> <<>>]
  /\ paired = [t \in Tools |-> "none"]
  /\ recorded = 0 /\ drained = 0 /\ notify = FALSE
  /\ pc = "select" /\ held = Error /\ sentEvents = 0 /\ sentChunks = 0 /\ sentWarnings = 0
  /\ ret = "none" /\ buffer = 0 /\ closed = FALSE /\ client = "recv"

\* the handler's context: the client's, cancelled as well when the handler returns
CtxDone == ctx \/ pc = "done"

-----------------------------------------------------------------------------
(* Tools.  They run under the generator, or on when a watchdog has let it go. *)

Record == recorded' = recorded + 1

\* visibilityBefore: announce and signal, and wait for the outcome under the signature
Announce(t) ==
  /\ tool[t] = "idle" /\ gen = "run"
  /\ tool' = [tool EXCEPT ![t] = "running"]
  /\ pendingBySig' = [pendingBySig EXCEPT ![Sig[t]] = Append(@, t)]
  /\ Record /\ notify' = TRUE
  /\ UNCHANGED <<ctx, genVars, paired, handlerVars, streamVars>>

\* Mutant: the signal is given up when the handler is busy.
Signal_WhenSelecting(t) ==
  /\ tool[t] = "reported"
  /\ notify' = (notify \/ pc = "select")
  /\ tool' = [tool EXCEPT ![t] = "done"]
  /\ UNCHANGED <<ctx, genVars, pendingBySig, paired, recorded, handlerVars, streamVars>>

\* record signals only behind its append; a token that is there already is enough
Signal(t) ==
  /\ tool[t] = "reported"
  /\ notify' = TRUE
  /\ tool' = [tool EXCEPT ![t] = "done"]
  /\ UNCHANGED <<ctx, genVars, pendingBySig, paired, recorded, handlerVars, streamVars>>

\* Mutant: one slot instead of a queue for each signature; the last call wins.
Paired_LastWins(t) == pendingBySig[Sig[t]][Len(pendingBySig[Sig[t]])]

Paired(t) == Head(pendingBySig[Sig[t]])

\* visibilityAfter: the outcome goes to the first call of that signature
Update(t) ==
  /\ tool[t] = "running"
  /\ tool' = [tool EXCEPT ![t] = "reported"]
  /\ paired' = [paired EXCEPT ![t] = Paired(t)]
  /\ pendingBySig' = [pendingBySig EXCEPT ![Sig[t]] = Tail(@)]
  /\ Record
  /\ UNCHANGED <<ctx, genVars, notify, handlerVars, streamVars>>

Tool == \E t \in Tools : Announce(t) \/ Signal(t) \/ Update(t)

-----------------------------------------------------------------------------
(* The generator goroutine. *)

YieldChunk ==
  /\ gen = "run" /\ chunks < MaxChunks /\ Len(items) < ItemCap
  /\ items' = Append(items, Chunk(recorded))
  /\ chunks' = chunks + 1
  /\ UNCHANGED <<ctx, gen, outcome, warned, warnings, atEnd, toolVars, notify,
                 handlerVars, streamVars>>

\* without room it waits for the handler or the end of the context
Warn ==
  /\ gen = "run" /\ warned < MaxWarnings /\ warnings < WarningCap
  /\ warned' = warned + 1 /\ warnings' = warnings + 1
  /\ UNCHANGED <<ctx, gen, outcome, items, chunks, atEnd, toolVars, notify,
                 handlerVars, streamVars>>

CompleteTurn ==
  /\ gen = "run"
  /\ gen' = "end" /\ outcome' = "complete"
  /\ UNCHANGED <<ctx, items, chunks, warned, warnings, atEnd, toolVars, notify,
                 handlerVars, streamVars>>

\* an error of the turn, or a panic that was recovered, is the last item
FailTurn ==
  /\ gen = "run" /\ Len(items) < ItemCap
  /\ gen' = "end" /\ outcome' = "error"
  /\ items' = Append(items, Error)
  /\ UNCHANGED <<ctx, chunks, warned, warnings, atEnd, toolVars, notify,
                 handlerVars, streamVars>>

\* Mutant: the generator waits for room whatever becomes of its context.
GiveUp_OnlyWithRoom ==
  /\ gen = "run" /\ CtxDone /\ Len(items) < ItemCap
  /\ gen' = "end" /\ outcome' = "stopped"
  /\ UNCHANGED <<ctx, items, chunks, warned, warnings, atEnd, toolVars, notify,
                 handlerVars, streamVars>>

\* the context ended: nobody waits for room any more, and the turn is cut off
GiveUp ==
  /\ gen = "run" /\ CtxDone
  /\ gen' = "end" /\ outcome' = "stopped"
  /\ UNCHANGED <<ctx, items, chunks, warned, warnings, atEnd, toolVars, notify,
                 handlerVars, streamVars>>

(* The deferred close.  AddAndGenerateTurnStream closes the warnings before the
   items, the other handler does not: the select skips the empty warning that a
   closed channel yields, and behind the last item both mean that none is left. *)
Close ==
  /\ gen = "end" /\ gen' = "closed"
  /\ atEnd' = recorded
  /\ UNCHANGED <<ctx, outcome, items, chunks, warned, warnings, toolVars, notify,
                 handlerVars, streamVars>>

Generator ==
  \/ YieldChunk \/ Warn \/ CompleteTurn \/ FailTurn \/ GiveUp \/ Close

-----------------------------------------------------------------------------
(* The handler. *)

handlerFrame == <<ctx, gen, outcome, chunks, warned, atEnd, toolVars, client>>

Return(what) ==
  /\ pc' = "done" /\ ret' = what /\ held' = Error
  /\ UNCHANGED <<notify, items, warnings, drained, sentVars, buffer, closed>>

SeeCancel ==
  /\ pc = "select" /\ ctx
  /\ Return("cancelled")
  /\ UNCHANGED handlerFrame

\* sink.Notify, then sink.Drain
Wake ==
  /\ pc = "select" /\ notify
  /\ notify' = FALSE /\ drained' = recorded
  /\ pc' = "events"
  /\ UNCHANGED <<handlerFrame, items, warnings, held, sentVars, ret, buffer, closed>>

TakeWarning ==
  /\ pc \in {"select", "drain"} /\ warnings > 0
  /\ warnings' = warnings - 1
  /\ pc' = IF pc = "select" THEN "warning" ELSE "late"
  /\ UNCHANGED <<handlerFrame, notify, items, drained, held, sentVars, ret, buffer, closed>>

\* Mutant: the chunk is sent without draining first.
TakeChunk_NoDrain ==
  /\ pc = "select" /\ items # <<>> /\ Head(items).chunk
  /\ items' = Tail(items) /\ held' = Head(items)
  /\ drained' = drained
  /\ pc' = "events"
  /\ UNCHANGED <<handlerFrame, notify, warnings, sentVars, ret, buffer, closed>>

\* the sink is drained before the text is sent
TakeChunk ==
  /\ pc = "select" /\ items # <<>> /\ Head(items).chunk
  /\ items' = Tail(items) /\ held' = Head(items)
  /\ drained' = recorded
  /\ pc' = "events"
  /\ UNCHANGED <<handlerFrame, notify, warnings, sentVars, ret, buffer, closed>>

\* an error ends the call at once
TakeError ==
  /\ pc = "select" /\ items # <<>> /\ ~Head(items).chunk
  /\ Return("error")
  /\ UNCHANGED handlerFrame

SeeEnd ==
  /\ pc = "select" /\ items = <<>> /\ gen = "closed"
  /\ pc' = "drain"
  /\ UNCHANGED <<handlerFrame, notify, items, warnings, drained, held, sentVars, ret,
                 buffer, closed>>

\* Mutant: the handler returns with the last warning, whatever is in the sink.
LastDrain_WarningsOnly ==
  /\ pc = "drain" /\ warnings = 0
  /\ drained' = drained /\ pc' = "flush"
  /\ UNCHANGED <<handlerFrame, notify, items, warnings, held, sentVars, ret, buffer, closed>>

\* no warning left, or their channel closed: drain the sink a last time
LastDrain ==
  /\ pc = "drain" /\ warnings = 0
  /\ drained' = recorded /\ pc' = "flush"
  /\ UNCHANGED <<handlerFrame, notify, items, warnings, held, sentVars, ret, buffer, closed>>

\* Send waits for room or for the end of the client's context
Sending ==
  \/ pc \in {"events", "flush"} /\ sentEvents < drained
  \/ pc \in {"warning", "late", "text"}

Send ==
  /\ Sending /\ buffer < StreamCap
  /\ buffer' = buffer + 1
  /\ CASE pc \in {"events", "flush"} ->
            sentEvents' = sentEvents + 1 /\ UNCHANGED <<pc, sentChunks, sentWarnings>>
       [] pc = "text" ->
            sentChunks' = sentChunks + 1 /\ pc' = "select" /\ UNCHANGED <<sentEvents, sentWarnings>>
       [] OTHER ->
            /\ sentWarnings' = sentWarnings + 1
            /\ pc' = IF pc = "late" THEN "drain" ELSE "select"
            /\ UNCHANGED <<sentEvents, sentChunks>>
  /\ held' = IF pc = "text" THEN Error ELSE held
  /\ UNCHANGED <<handlerFrame, notify, items, warnings, drained, ret, closed>>

SendFails ==
  /\ Sending /\ ctx
  /\ Return("cancelled")
  /\ UNCHANGED handlerFrame

EventsSent ==
  /\ pc \in {"events", "flush"} /\ sentEvents = drained
  /\ \/ pc = "flush" /\ Return("ok")
     \/ /\ pc = "events" /\ pc' = IF held.chunk THEN "text" ELSE "select"
        /\ UNCHANGED <<notify, items, warnings, drained, held, sentVars, ret, buffer, closed>>
  /\ UNCHANGED handlerFrame

\* the goroutine of the local client: the result first, then the stream is closed
CloseStream ==
  /\ pc = "done" /\ ~closed
  /\ closed' = TRUE
  /\ UNCHANGED <<ctx, genVars, toolVars, notify, handlerVars, buffer, client>>

Handler ==
  \/ SeeCancel \/ Wake \/ TakeWarning \/ TakeChunk \/ TakeError \/ SeeEnd \/ LastDrain
  \/ Send \/ SendFails \/ EventsSent \/ CloseStream

-----------------------------------------------------------------------------
(* The client. *)

Recv ==
  /\ client = "recv"
  /\ \/ buffer > 0 /\ buffer' = buffer - 1 /\ UNCHANGED client
     \/ /\ buffer = 0 /\ closed
        /\ client' = IF ret = "ok" THEN "eof" ELSE "error"
        /\ UNCHANGED buffer
  /\ UNCHANGED <<ctx, genVars, toolVars, notify, handlerVars, closed>>

Cancel ==
  /\ ~ctx /\ client = "recv"
  /\ ctx' = TRUE
  /\ UNCHANGED <<genVars, toolVars, notify, handlerVars, streamVars>>

Next == Tool \/ Generator \/ Handler \/ Recv \/ Cancel

(* The handler takes a ready case, the client reads, a goroutine that may give
   up or close does, and a record is followed by its signal.  Nothing is assumed
   of models and tools: a tool may run for ever. *)
Fairness ==
  /\ WF_vars(Handler) /\ WF_vars(Recv) /\ WF_vars(GiveUp) /\ WF_vars(Close)
  /\ \A t \in Tools : WF_vars(Signal(t))

Spec == Init /\ [][Next]_vars /\ Fairness

-----------------------------------------------------------------------------
(* Properties. *)

(* "Any events recorded before this chunk ship ahead of it" (sdk.go:835): text
   is sent only when the events that were recorded before it was produced are. *)
ShipsAhead == [][sentChunks' # sentChunks => sentEvents >= held.mark]_vars

(* A call that ends well has delivered every chunk and warning of its turn, and
   every event recorded until its generator ended. *)
CleanEnd ==
  ret = "ok" =>
    /\ sentChunks = chunks /\ sentWarnings = warned
    /\ sentEvents >= atEnd

(* An outcome is attributed to a call of the same signature that was announced
   and has no outcome yet (adk_agent.go:459-467). *)
PairsBySignature ==
  /\ \A t \in Tools : paired[t] # "none" => Sig[paired[t]] = Sig[t] /\ tool[paired[t]] # "idle"
  /\ \A t, u \in Tools : t # u /\ paired[t] # "none" => paired[t] # paired[u]

(* The client learns of the end of its call: of an error as an error, and of a
   turn that was completed as the end of the stream, unless it cancelled. *)
ToldTheEnd ==
  /\ client = "eof" => outcome \in {"complete", "stopped"}
  /\ client = "error" => outcome = "error" \/ ctx

(* Push delivery: an event is sent while its tool still runs; nothing but the
   end of the call can get in between. *)
EventsArePushed ==
  (sentEvents < recorded) ~> (sentEvents = recorded \/ ret # "none")

(* A call whose turn has ended, or which was cancelled, ends, and so do its
   goroutines. *)
CallEnds == (ctx \/ gen # "run") ~> (client # "recv" /\ gen = "closed")

(* The end of a call is what happened to its turn: nothing recorded is left out
   of a good end, and the client sees an error or the end of the stream as it
   was (sdk.go:744-849, inprocess_stream.go:83-128). *)
EndIsTold == TypeOK /\ CleanEnd /\ ToldTheEnd
=============================================================================
