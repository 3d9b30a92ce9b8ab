------------------------ MODULE StreamAndPad_proofs ------------------------
(***************************************************************************)
(* Safety of a streaming turn, for any tool calls, signatures, channel      *)
(* capacities and numbers of chunks and warnings; then safety of the        *)
(* scratchpad its tools use, for any processes, slugs, texts, cap and       *)
(* number of creations.                                                    *)
(*                                                                         *)
(* What the end of the call says is true because nothing is lost on the    *)
(* way: until the call fails, every chunk and warning is on a channel, in   *)
(* the handler's hands, or sent (CountInv), and the handler gets to its     *)
(* last drain only when the channel of chunks was closed and empty.         *)
(*                                                                         *)
(* What a reader of the scratchpad gets is right because an entry, once    *)
(* written, is only removed, and an operation that works in steps keeps in  *)
(* hand what it found (PadInv, Rest).                                       *)
(***************************************************************************)
EXTENDS TurnStream, Scratchpad, FiniteSetTheorems, SequenceTheorems, TLAPS

One(condition) == IF condition THEN 1 ELSE 0

(* An error is the last item, and stays on its channel. *)
ItemInv ==
  /\ gen = "run" <=> outcome = "none"
  /\ outcome = "error" => items # <<>>
  /\ \A i \in 1 .. Len(items) :
       items[i].chunk <=> ~(outcome = "error" /\ i = Len(items))

(* What the handler has, and what its end means. *)
HandlerInv ==
  /\ pc = "done" <=> ret # "none"
  /\ held.chunk => pc \in {"events", "text"}
  /\ pc = "text" => held.chunk
  /\ ret = "ok" \/ pc \in {"drain", "late", "flush"} => items = <<>> /\ gen = "closed"
  /\ ret = "ok" \/ pc = "flush" => warnings = 0 /\ drained >= atEnd
  /\ ret = "ok" => sentEvents = drained
  /\ ret = "error" => outcome = "error"
  /\ ret = "cancelled" => ctx

(* Nothing is lost while the call has not failed. *)
CountInv ==
  ret \in {"none", "ok"} =>
    /\ sentChunks + One(held.chunk) + Len(items) = chunks + One(outcome = "error")
    /\ sentWarnings + One(pc \in {"warning", "late"}) + warnings = warned

(* The events recorded before a chunk are drained when the handler takes it. *)
MarkInv ==
  /\ \A i \in 1 .. Len(items) : items[i].mark <= recorded
  /\ held.mark <= drained
  /\ pc = "text" => held.mark <= sentEvents

ClientInv ==
  /\ closed => ret # "none"
  /\ client # "recv" => closed
  /\ client = "eof" => ret = "ok"
  /\ client = "error" => ret \in {"error", "cancelled"}

(* The calls that wait for their outcome. *)
Running(s) == {t \in Tools : tool[t] = "running" /\ Sig[t] = s}

(* The queue of a signature is as long as there are calls running under it, and
   what it has was announced and not yet given away. *)
QueueOf(s) ==
  /\ IsFiniteSet(Running(s)) /\ Cardinality(Running(s)) = Len(pendingBySig[s])
  /\ \A i \in 1 .. Len(pendingBySig[s]) :
       LET t == pendingBySig[s][i] IN
       /\ Sig[t] = s /\ tool[t] # "idle"
       /\ \A u \in Tools : paired[u] # "none" => paired[u] # t
       /\ \A j \in 1 .. Len(pendingBySig[s]) : i # j => pendingBySig[s][j] # t

QueueInv == \A s \in Signatures : QueueOf(s)

IInv ==
  TypeOK /\ ItemInv /\ HandlerInv /\ CountInv /\ MarkInv /\ ClientInv /\ QueueInv
  /\ PairsBySignature

-----------------------------------------------------------------------------
(* Everything but the pairing of tool calls. *)
TurnInv == TypeOK /\ ItemInv /\ HandlerInv /\ CountInv /\ MarkInv /\ ClientInv

(* The types of the variables that count. *)
Sizes ==
  /\ recorded \in Nat /\ drained \in Nat /\ atEnd \in Nat /\ drained <= recorded
  /\ chunks \in Nat /\ warned \in Nat /\ warnings \in Nat
  /\ sentEvents \in Nat /\ sentChunks \in Nat /\ sentWarnings \in Nat /\ buffer \in Nat
  /\ sentEvents <= drained
  /\ items \in Seq([chunk : BOOLEAN, mark : Nat]) /\ Len(items) \in Nat
  /\ held.mark \in Nat /\ held.chunk \in BOOLEAN

LEMMA Numbers == IInv => Sizes
  BY TurnStreamAssumption DEF IInv, TypeOK, Sizes

(* TypeOK in two parts: what is counted, and the rest. *)
Counts ==
  /\ recorded \in Nat /\ atEnd \in 0 .. recorded /\ drained \in 0 .. recorded
  /\ chunks \in 0 .. MaxChunks /\ warned \in 0 .. MaxWarnings
  /\ warnings \in 0 .. WarningCap /\ buffer \in 0 .. StreamCap
  /\ sentEvents \in 0 .. drained
  /\ sentChunks \in 0 .. chunks /\ sentWarnings \in 0 .. warned

Domains ==
  /\ ctx \in BOOLEAN
  /\ gen \in {"run", "end", "closed"}
  /\ outcome \in {"none", "complete", "error", "stopped"}
  /\ items \in Seq([chunk : BOOLEAN, mark : Nat]) /\ Len(items) <= ItemCap
  /\ tool \in [Tools -> {"idle", "running", "reported", "done"}]
  /\ pendingBySig \in [Signatures -> Seq(Tools)]
  /\ paired \in [Tools -> Tools \cup {"none"}]
  /\ notify \in BOOLEAN
  /\ pc \in {"select", "events", "warning", "text", "drain", "late", "flush", "done"}
  /\ held \in [chunk : BOOLEAN, mark : Nat]
  /\ ret \in {"none", "ok", "error", "cancelled"}
  /\ closed \in BOOLEAN
  /\ client \in {"recv", "eof", "error"}

LEMMA TypeParts == /\ TypeOK <=> Counts /\ Domains
                   /\ TypeOK' <=> Counts' /\ Domains'
  BY DEF TypeOK, Counts, Domains

LEMMA GeneratorStep == IInv /\ Generator => TurnInv'
<1> SUFFICES ASSUME IInv, Generator PROVE TurnInv'
  OBVIOUS
<1> Sizes
  BY Numbers
<1> USE TurnStreamAssumption DEF Sizes
<1>1. CASE YieldChunk
  <2>0. Len(items') = Len(items) + 1
    BY <1>1 DEF YieldChunk
  <2>1. /\ items' \in Seq([chunk : BOOLEAN, mark : Nat]) /\ Len(items') = Len(items) + 1
        /\ \A i \in 1 .. Len(items) : items'[i] = items[i]
        /\ items'[Len(items) + 1] = Chunk(recorded)
    BY <1>1 DEF YieldChunk, IInv, Chunk
  <2>2. TypeOK'
    <3>1. Counts'
      BY <1>1, <2>1 DEF YieldChunk, Chunk, toolVars, handlerVars, sentVars, streamVars, IInv, TypeOK, Counts
    <3>2. Domains'
      BY <1>1, <2>1 DEF YieldChunk, Chunk, toolVars, handlerVars, sentVars, streamVars, IInv, TypeOK, Domains
    <3> QED
      BY <3>1, <3>2, TypeParts
  <2>3. ItemInv'
    BY <1>1, <2>1 DEF YieldChunk, Chunk, toolVars, handlerVars, sentVars, streamVars, IInv, ItemInv, TypeOK
  <2>4. HandlerInv' /\ ClientInv'
    BY <1>1, <2>1 DEF YieldChunk, Chunk, toolVars, handlerVars, sentVars, streamVars, IInv, HandlerInv, ClientInv, TypeOK
  <2>5. CountInv'
    BY <1>1, <2>0 DEF YieldChunk, Chunk, toolVars, handlerVars, sentVars, streamVars, IInv, CountInv, HandlerInv, ItemInv, One
  <2>6. MarkInv'
    <3>1. /\ recorded' = recorded /\ drained' = drained /\ held' = held /\ pc' = pc
          /\ sentEvents' = sentEvents
      BY <1>1 DEF YieldChunk, toolVars, handlerVars, sentVars
    <3>2. recorded \in Nat /\ Len(items) \in Nat
      BY Numbers DEF Sizes
    <3>3. items'[Len(items) + 1].mark = recorded
      BY <2>1 DEF Chunk
    <3>4. ASSUME NEW i \in 1 .. Len(items')
          PROVE  items'[i].mark <= recorded
      <4>1. CASE i \in 1 .. Len(items)
        BY <2>1, <4>1 DEF IInv, MarkInv
      <4>2. CASE i = Len(items) + 1
        BY <3>2, <3>3, <4>2
      <4> QED
        BY <2>1, <3>2, <4>1, <4>2
    <3> QED
      BY <3>1, <3>4 DEF IInv, MarkInv
  <2> QED
    BY <2>2, <2>3, <2>4, <2>5, <2>6 DEF TurnInv
<1>2. CASE Warn
  BY <1>2 DEF Warn, IInv, TurnInv, TypeOK, ItemInv, HandlerInv, CountInv, MarkInv,
              ClientInv, One, toolVars, handlerVars, sentVars, streamVars
<1>3. CASE CompleteTurn
  BY <1>3 DEF CompleteTurn, IInv, TurnInv, TypeOK, ItemInv, HandlerInv, CountInv, MarkInv,
              ClientInv, One, toolVars, handlerVars, sentVars, streamVars
<1>4. CASE FailTurn
  <2>0. Len(items') = Len(items) + 1
    BY <1>4 DEF FailTurn
  <2>1. /\ items' \in Seq([chunk : BOOLEAN, mark : Nat]) /\ Len(items') = Len(items) + 1
        /\ \A i \in 1 .. Len(items) : items'[i] = items[i]
        /\ items'[Len(items) + 1] = Error
    BY <1>4 DEF FailTurn, IInv, Error
  <2>2. TypeOK'
    <3>1. Counts'
      BY <1>4, <2>1 DEF FailTurn, toolVars, handlerVars, sentVars, streamVars, Error, IInv, TypeOK, Counts
    <3>2. Domains'
      BY <1>4, <2>1 DEF FailTurn, toolVars, handlerVars, sentVars, streamVars, Error, IInv, TypeOK, Domains
    <3> QED
      BY <3>1, <3>2, TypeParts
  <2>3. ItemInv'
    <3>1. gen = "run" /\ gen' = "end" /\ outcome' = "error"
      BY <1>4 DEF FailTurn
    <3>2. Len(items) \in Nat /\ items' # <<>> /\ items'[Len(items) + 1].chunk = FALSE
      BY <2>1, Numbers DEF Sizes, Error
    <3>3. \A i \in 1 .. Len(items) : items[i].chunk
      BY <3>1 DEF IInv, ItemInv
    <3>4. ASSUME NEW i \in 1 .. Len(items')
          PROVE  items'[i].chunk <=> i # Len(items')
      <4>1. CASE i \in 1 .. Len(items)
        BY <2>1, <3>2, <3>3, <4>1
      <4>2. CASE i = Len(items) + 1
        BY <2>1, <3>2, <4>2
      <4> QED
        BY <2>1, <3>2, <4>1, <4>2
    <3> QED
      BY <3>1, <3>2, <3>4 DEF ItemInv
  <2>4. HandlerInv' /\ ClientInv'
    BY <1>4, <2>1 DEF FailTurn, toolVars, handlerVars, sentVars, streamVars, IInv, HandlerInv, ClientInv, TypeOK, Error
  <2>5. CountInv'
    BY <1>4, <2>0 DEF FailTurn, toolVars, handlerVars, sentVars, streamVars, IInv, CountInv, HandlerInv, ItemInv, One, Error
  <2>6. MarkInv'
    BY <1>4, <2>1 DEF FailTurn, toolVars, handlerVars, sentVars, streamVars, IInv, MarkInv, TypeOK, HandlerInv, Error
  <2> QED
    BY <2>2, <2>3, <2>4, <2>5, <2>6 DEF TurnInv
<1>5. CASE GiveUp
  BY <1>5 DEF GiveUp, IInv, TurnInv, TypeOK, ItemInv, HandlerInv, CountInv, MarkInv,
              ClientInv, One, toolVars, handlerVars, sentVars, streamVars
<1>6. CASE Close
  BY <1>6 DEF Close, IInv, TurnInv, TypeOK, ItemInv, HandlerInv, CountInv, MarkInv,
              ClientInv, One, toolVars, handlerVars, sentVars, streamVars
<1> QED
  BY <1>1, <1>2, <1>3, <1>4, <1>5, <1>6 DEF Generator

LEMMA HandlerStep == IInv /\ Handler => TurnInv'
<1> SUFFICES ASSUME IInv, Handler PROVE TurnInv'
  OBVIOUS
<1> Sizes
  BY Numbers
<1> USE TurnStreamAssumption DEF Sizes
<1>1. CASE SeeCancel
  BY <1>1 DEF SeeCancel, Return, handlerFrame, IInv, TurnInv, TypeOK, ItemInv, HandlerInv,
              CountInv, MarkInv, ClientInv, One, Error, toolVars, sentVars
<1>2. CASE Wake
  <2>1. TypeOK'
    <3>1. Counts'
      BY <1>2 DEF Wake, handlerFrame, toolVars, sentVars, IInv, TypeOK, Counts
    <3>2. Domains'
      BY <1>2 DEF Wake, handlerFrame, toolVars, sentVars, IInv, TypeOK, Domains
    <3> QED
      BY <3>1, <3>2, TypeParts
  <2>2. ItemInv'
    BY <1>2 DEF Wake, handlerFrame, toolVars, sentVars, IInv, ItemInv, TypeOK
  <2>3. HandlerInv' /\ ClientInv'
    BY <1>2 DEF Wake, handlerFrame, toolVars, sentVars, IInv, HandlerInv, ClientInv, TypeOK
  <2>4. CountInv'
    BY <1>2 DEF Wake, handlerFrame, toolVars, sentVars, IInv, CountInv, HandlerInv, ItemInv, One
  <2>5. MarkInv'
    BY <1>2 DEF Wake, handlerFrame, toolVars, sentVars, IInv, MarkInv, TypeOK, HandlerInv
  <2> QED
    BY <2>1, <2>2, <2>3, <2>4, <2>5 DEF TurnInv
<1>3. CASE TakeWarning
  <2>1. TypeOK'
    BY <1>3 DEF TakeWarning, handlerFrame, IInv, TypeOK, toolVars, sentVars
  <2>2. ItemInv' /\ MarkInv' /\ ClientInv'
    BY <1>3 DEF TakeWarning, handlerFrame, IInv, ItemInv, MarkInv, ClientInv, toolVars, sentVars
  <2>3. HandlerInv'
    BY <1>3 DEF TakeWarning, handlerFrame, IInv, HandlerInv, sentVars
  <2>4. CountInv'
    BY <1>3, Numbers DEF TakeWarning, handlerFrame, IInv, CountInv, One, Sizes, sentVars
  <2> QED
    BY <2>1, <2>2, <2>3, <2>4 DEF TurnInv
<1>4. CASE TakeChunk
  <2>0. Len(items') = Len(items) - 1
    BY <1>4 DEF TakeChunk
  <2>1. /\ items' \in Seq([chunk : BOOLEAN, mark : Nat]) /\ Len(items') = Len(items) - 1
        /\ \A i \in 1 .. Len(items') : items'[i] = items[i + 1]
        /\ held' = items[1] /\ 1 \in 1 .. Len(items)
    BY <1>4 DEF TakeChunk, IInv
  <2>9. held' \in [chunk : BOOLEAN, mark : Nat] /\ held'.chunk = TRUE /\ items[1].mark \in Nat
    <3>1. items[1] \in [chunk : BOOLEAN, mark : Nat] /\ items[1] = Head(items)
      <4>1. items \in Seq([chunk : BOOLEAN, mark : Nat]) /\ 1 \in 1 .. Len(items)
        BY <2>1
      <4>2. items[1] \in [chunk : BOOLEAN, mark : Nat]
        BY <4>1, ElementOfSeq
      <4>3. items[1] = Head(items)
        BY <1>4, <2>1 DEF TakeChunk
      <4> QED
        BY <4>2, <4>3
    <3>2. Head(items).chunk
      BY <1>4 DEF TakeChunk
    <3>3. items[1].chunk
      BY <3>1, <3>2
    <3> QED
      BY <2>1, <3>1, <3>3
  <2>2. TypeOK'
    <3>1. Counts'
      BY <1>4, <2>1 DEF TakeChunk, handlerFrame, toolVars, sentVars, IInv, TypeOK, Counts
    <3>2. Domains'
      BY <1>4, <2>1, <2>9 DEF TakeChunk, handlerFrame, toolVars, sentVars, IInv, TypeOK, Domains
    <3> QED
      BY <3>1, <3>2, TypeParts
  <2>3. ItemInv'
    <3>1. gen' = gen /\ outcome' = outcome
      BY <1>4 DEF TakeChunk, handlerFrame
    <3>2. items[1].chunk
      BY <1>4, <2>1 DEF TakeChunk
    <3>3. outcome = "error" => Len(items) > 1
      BY <2>1, <3>2 DEF IInv, ItemInv
    <3>4. ASSUME NEW i \in 1 .. Len(items')
          PROVE  items'[i].chunk <=> ~(outcome = "error" /\ i = Len(items'))
      <4>1. i + 1 \in 1 .. Len(items) /\ (i + 1 = Len(items) <=> i = Len(items'))
        BY <2>1
      <4> QED
        BY <2>1, <4>1 DEF IInv, ItemInv
    <3>5. outcome = "error" => items' # <<>>
      BY <2>0, <3>3
    <3> QED
      BY <3>1, <3>4, <3>5 DEF IInv, ItemInv
  <2>4. HandlerInv' /\ ClientInv'
    BY <1>4, <2>1 DEF TakeChunk, handlerFrame, toolVars, sentVars, IInv, HandlerInv, ClientInv, TypeOK
  <2>5. CountInv'
    <3>1. One(held.chunk) = 0 /\ One(held'.chunk) = 1
      BY <1>4, <2>9 DEF TakeChunk, IInv, HandlerInv, One
    <3>2. pc' \notin {"warning", "late"} /\ pc \notin {"warning", "late"}
          /\ UNCHANGED <<ret, sentChunks, sentWarnings, chunks, warned, warnings, outcome>>
      BY <1>4 DEF TakeChunk, handlerFrame, sentVars
    <3>3. One(outcome = "error") \in Nat
      BY DEF One
    <3>4. One(pc' \in {"warning", "late"}) = One(pc \in {"warning", "late"})
      BY <3>2
    <3> QED
      BY <2>0, <3>1, <3>2, <3>3, <3>4 DEF IInv, CountInv
  <2>6. MarkInv'
    BY <1>4, <2>1 DEF TakeChunk, handlerFrame, toolVars, sentVars, IInv, MarkInv, TypeOK, HandlerInv
  <2> QED
    BY <2>2, <2>3, <2>4, <2>5, <2>6 DEF TurnInv
<1>5. CASE TakeError
  <2>1. items[1].chunk = FALSE /\ 1 \in 1 .. Len(items)
    BY <1>5 DEF TakeError, IInv
  <2>2. outcome = "error" /\ ret = "none"
    BY <1>5, <2>1 DEF TakeError, IInv, ItemInv, HandlerInv
  <2>3. TypeOK'
    BY <1>5 DEF TakeError, Return, handlerFrame, IInv, TypeOK, Error, toolVars, sentVars
  <2>4. ItemInv'
    BY <1>5 DEF TakeError, Return, handlerFrame, IInv, ItemInv
  <2>5. HandlerInv' /\ ClientInv'
    BY <1>5, <2>2 DEF TakeError, Return, handlerFrame, IInv, HandlerInv, ClientInv, Error, sentVars
  <2>6. CountInv' /\ MarkInv'
    BY <1>5, <2>2, Numbers DEF TakeError, Return, handlerFrame, IInv, CountInv, MarkInv, Error, Sizes,
              toolVars, sentVars
  <2> QED
    BY <2>3, <2>4, <2>5, <2>6 DEF TurnInv
<1>6. CASE SeeEnd
  BY <1>6 DEF SeeEnd, handlerFrame, IInv, TurnInv, TypeOK, ItemInv, HandlerInv,
              CountInv, MarkInv, ClientInv, One, toolVars, sentVars
<1>7. CASE LastDrain
  BY <1>7 DEF LastDrain, handlerFrame, IInv, TurnInv, TypeOK, ItemInv, HandlerInv,
              CountInv, MarkInv, ClientInv, One, toolVars, sentVars
<1>8. CASE Send
  <2>1. ret = "none"
    BY <1>8 DEF Send, Sending, IInv, HandlerInv
  <2>2. CASE pc \in {"events", "flush"}
    <3>0. sentEvents' = sentEvents + 1 /\ sentEvents < drained /\ buffer' = buffer + 1
          /\ buffer < StreamCap
          /\ UNCHANGED <<recorded, atEnd, drained, chunks, warned, warnings, sentChunks, sentWarnings>>
      BY <1>8, <2>2 DEF Send, Sending, handlerFrame, toolVars
    <3>1. TypeOK'
      <4>1. Counts'
        BY <3>0 DEF IInv, TypeOK, Counts
      <4>2. Domains'
        BY <1>8, <2>1, <2>2 DEF Send, Sending, handlerFrame, toolVars, sentVars, IInv, TypeOK, Domains
      <4> QED
        BY <4>1, <4>2, TypeParts
    <3>2. ItemInv'
      BY <1>8, <2>1, <2>2 DEF Send, Sending, handlerFrame, toolVars, sentVars, IInv, ItemInv, TypeOK
    <3>3. HandlerInv' /\ ClientInv'
      BY <1>8, <2>1, <2>2 DEF Send, Sending, handlerFrame, toolVars, sentVars, IInv, HandlerInv, ClientInv, TypeOK
    <3>4. CountInv'
      BY <1>8, <2>1, <2>2 DEF Send, Sending, handlerFrame, toolVars, sentVars, IInv, CountInv, HandlerInv, ItemInv, One
    <3>5. MarkInv'
      BY <1>8, <2>1, <2>2 DEF Send, Sending, handlerFrame, toolVars, sentVars, IInv, MarkInv, TypeOK, HandlerInv
    <3> QED
      BY <3>1, <3>2, <3>3, <3>4, <3>5 DEF TurnInv
  <2>3. CASE pc = "text"
    <3>a. sentChunks + 1 <= chunks
      BY <2>1, <2>3 DEF IInv, HandlerInv, CountInv, ItemInv, One
    <3>b. /\ sentChunks' = sentChunks + 1 /\ buffer' = buffer + 1 /\ buffer < StreamCap
          /\ held' = Error /\ pc' = "select"
          /\ UNCHANGED <<recorded, atEnd, drained, chunks, warned, warnings, sentEvents, sentWarnings,
                         items, outcome, ret>>
      BY <1>8, <2>3 DEF Send, Sending, handlerFrame, toolVars
    <3>1. TypeOK'
      <4>1. Counts'
        BY <3>a, <3>b DEF IInv, TypeOK, Counts
      <4>2. Domains'
        BY <1>8, <2>1, <2>3 DEF Send, Sending, handlerFrame, toolVars, sentVars, Error, IInv, TypeOK, Domains
      <4> QED
        BY <4>1, <4>2, TypeParts
    <3>2. ItemInv'
      BY <1>8, <2>1, <2>3 DEF Send, Sending, handlerFrame, toolVars, sentVars, IInv, ItemInv, TypeOK, Error
    <3>3. HandlerInv' /\ ClientInv'
      BY <1>8, <2>1, <2>3 DEF Send, Sending, handlerFrame, toolVars, sentVars, IInv, HandlerInv, ClientInv, TypeOK, Error
    <3>4. CountInv'
      BY <1>8, <2>1, <2>3 DEF Send, Sending, handlerFrame, toolVars, sentVars, IInv, CountInv, HandlerInv, ItemInv, One, Error
    <3>5. MarkInv'
      BY <1>8, <2>1, <2>3 DEF Send, Sending, handlerFrame, toolVars, sentVars, IInv, MarkInv, TypeOK, HandlerInv, Error
    <3> QED
      BY <3>1, <3>2, <3>3, <3>4, <3>5 DEF TurnInv
  <2>4. CASE pc \in {"warning", "late"}
    <3> sentWarnings + 1 <= warned
      BY <2>1, <2>4 DEF IInv, CountInv, One
    <3>0. sentWarnings' = sentWarnings + 1 /\ buffer' = buffer + 1 /\ buffer < StreamCap
          /\ pc' \in {"drain", "select"} /\ held' = held
          /\ UNCHANGED <<recorded, atEnd, drained, chunks, warned, warnings, sentChunks, sentEvents,
                         items, outcome, ret>>
      BY <1>8, <2>4 DEF Send, Sending, handlerFrame, toolVars
    <3>1. TypeOK'
      <4>1. Counts'
        BY <3>0 DEF IInv, TypeOK, Counts
      <4>2. Domains'
        BY <1>8, <2>1, <2>4 DEF Send, Sending, handlerFrame, toolVars, sentVars, IInv, TypeOK, Domains
      <4> QED
        BY <4>1, <4>2, TypeParts
    <3>2. ItemInv'
      BY <1>8, <2>1, <2>4 DEF Send, Sending, handlerFrame, toolVars, sentVars, IInv, ItemInv, TypeOK
    <3>3. HandlerInv' /\ ClientInv'
      BY <1>8, <2>1, <2>4 DEF Send, Sending, handlerFrame, toolVars, sentVars, IInv, HandlerInv, ClientInv, TypeOK
    <3>4. CountInv'
      BY <2>1, <2>4, <3>0 DEF IInv, CountInv, One
    <3>5. MarkInv'
      BY <1>8, <2>1, <2>4 DEF Send, Sending, handlerFrame, toolVars, sentVars, IInv, MarkInv, TypeOK, HandlerInv
    <3> QED
      BY <3>1, <3>2, <3>3, <3>4, <3>5 DEF TurnInv
  <2> QED
    BY <1>8, <2>2, <2>3, <2>4 DEF Send, Sending
<1>9. CASE SendFails
  BY <1>9 DEF SendFails, Sending, Return, handlerFrame, IInv, TurnInv, TypeOK, ItemInv,
              HandlerInv, CountInv, MarkInv, ClientInv, One, Error, toolVars, sentVars
<1>10. CASE EventsSent
  <2>1. CASE pc = "flush" /\ Return("ok")
    <3>1. TypeOK'
      <4>1. Counts'
        BY <1>10, <2>1 DEF EventsSent, Return, handlerFrame, toolVars, sentVars, Error, IInv, TypeOK, Counts
      <4>2. Domains'
        BY <1>10, <2>1 DEF EventsSent, Return, handlerFrame, toolVars, sentVars, Error, IInv, TypeOK, Domains
      <4> QED
        BY <4>1, <4>2, TypeParts
    <3>2. ItemInv'
      BY <1>10, <2>1 DEF EventsSent, Return, handlerFrame, toolVars, sentVars, IInv, ItemInv, TypeOK, Error
    <3>3. HandlerInv' /\ ClientInv'
      BY <1>10, <2>1 DEF EventsSent, Return, handlerFrame, toolVars, sentVars, IInv, HandlerInv, ClientInv, TypeOK, Error
    <3>4. CountInv'
      BY <1>10, <2>1 DEF EventsSent, Return, handlerFrame, toolVars, sentVars, IInv, CountInv, HandlerInv, ItemInv, One, Error
    <3>5. MarkInv'
      BY <1>10, <2>1 DEF EventsSent, Return, handlerFrame, toolVars, sentVars, IInv, MarkInv, TypeOK, HandlerInv, Error
    <3> QED
      BY <3>1, <3>2, <3>3, <3>4, <3>5 DEF TurnInv
  <2>2. CASE pc = "events"
    <3>1. TypeOK'
      <4>1. Counts'
        BY <1>10, <2>2 DEF EventsSent, handlerFrame, toolVars, sentVars, IInv, TypeOK, Counts
      <4>2. Domains'
        BY <1>10, <2>2 DEF EventsSent, handlerFrame, toolVars, sentVars, IInv, TypeOK, Domains
      <4> QED
        BY <4>1, <4>2, TypeParts
    <3>2. ItemInv'
      BY <1>10, <2>2 DEF EventsSent, handlerFrame, toolVars, sentVars, IInv, ItemInv, TypeOK
    <3>3. HandlerInv' /\ ClientInv'
      BY <1>10, <2>2 DEF EventsSent, handlerFrame, toolVars, sentVars, IInv, HandlerInv, ClientInv, TypeOK
    <3>4. CountInv'
      BY <1>10, <2>2 DEF EventsSent, handlerFrame, toolVars, sentVars, IInv, CountInv, HandlerInv, ItemInv, One
    <3>5. MarkInv'
      BY <1>10, <2>2 DEF EventsSent, handlerFrame, toolVars, sentVars, IInv, MarkInv, TypeOK, HandlerInv
    <3> QED
      BY <3>1, <3>2, <3>3, <3>4, <3>5 DEF TurnInv
  <2> QED
    BY <1>10, <2>1, <2>2 DEF EventsSent
<1>11. CASE CloseStream
  BY <1>11 DEF CloseStream, genVars, handlerVars, IInv, TurnInv, TypeOK, ItemInv,
              HandlerInv, CountInv, MarkInv, ClientInv, One, toolVars, sentVars
<1> QED
  BY <1>1, <1>2, <1>3, <1>4, <1>5, <1>6, <1>7, <1>8, <1>9, <1>10, <1>11 DEF Handler


LEMMA OtherStep == IInv /\ (Tool \/ Recv \/ Cancel \/ UNCHANGED vars) =>
                     ItemInv' /\ HandlerInv' /\ CountInv' /\ MarkInv' /\ ClientInv'
<1> SUFFICES ASSUME IInv, Tool \/ Recv \/ Cancel \/ UNCHANGED vars
             PROVE  ItemInv' /\ HandlerInv' /\ CountInv' /\ MarkInv' /\ ClientInv'
  OBVIOUS
<1> Sizes
  BY Numbers
<1> USE DEF Sizes
<1>1. CASE Tool
  <2>1. UNCHANGED <<ctx, genVars, handlerVars, streamVars>> /\ recorded' \in Nat
        /\ recorded <= recorded'
    BY <1>1 DEF Tool, Announce, Signal, Update, Record, toolVars
  <2>2. ItemInv' /\ HandlerInv' /\ CountInv' /\ ClientInv'
    BY <2>1 DEF IInv, ItemInv, HandlerInv, CountInv, ClientInv, genVars, handlerVars,
                sentVars, streamVars
  <2>3. ASSUME NEW i \in 1 .. Len(items) PROVE items'[i].mark <= recorded'
    <3>1. items[i].mark \in Nat
      <4>1. items[i] \in [chunk : BOOLEAN, mark : Nat]
        BY ElementOfSeq
      <4> QED
        BY <4>1
    <3>2. items[i].mark <= recorded
      BY DEF IInv, MarkInv
    <3> QED
      BY <2>1, <3>1, <3>2 DEF genVars
  <2>4. MarkInv'
    BY <2>1, <2>3 DEF IInv, MarkInv, genVars, handlerVars, sentVars
  <2> QED
    BY <2>2, <2>4
<1>2. CASE Recv
  BY <1>2 DEF Recv, IInv, ItemInv, HandlerInv, CountInv, MarkInv, ClientInv, TypeOK, genVars,
              handlerVars, sentVars, toolVars
<1>3. CASE Cancel
  BY <1>3 DEF Cancel, IInv, ItemInv, HandlerInv, CountInv, MarkInv, ClientInv, TypeOK, genVars,
              handlerVars, sentVars, streamVars, toolVars
<1>4. CASE UNCHANGED vars
  BY <1>4 DEF vars, IInv, ItemInv, HandlerInv, CountInv, MarkInv, ClientInv, genVars,
              handlerVars, sentVars, streamVars, toolVars
<1> QED
  BY <1>1, <1>2, <1>3, <1>4

(* A call that is running has an announcement in the queue of its signature. *)
LEMMA QueueNotEmpty == ASSUME IInv, NEW t \in Tools, tool[t] = "running"
                       PROVE  Len(pendingBySig[Sig[t]]) \in Nat /\ Len(pendingBySig[Sig[t]]) > 0
<1>1. Sig[t] \in Signatures /\ t \in Running(Sig[t])
  BY TurnStreamAssumption DEF Running
<1>2. pendingBySig[Sig[t]] \in Seq(Tools)
  BY <1>1 DEF IInv, TypeOK
<1>3. IsFiniteSet(Running(Sig[t])) /\ Cardinality(Running(Sig[t])) = Len(pendingBySig[Sig[t]])
  BY <1>1 DEF IInv, QueueInv, QueueOf
<1>4. Cardinality(Running(Sig[t])) # 0
  BY <1>1, <1>3, FS_EmptySet
<1> QED
  BY <1>2, <1>3, <1>4

LEMMA AnnounceStep == ASSUME IInv, NEW t \in Tools, Announce(t)
                      PROVE  TypeOK' /\ QueueInv' /\ PairsBySignature'
<1> DEFINE s == Sig[t]
           old == pendingBySig[s]
<1>1. /\ tool[t] = "idle" /\ tool' = [tool EXCEPT ![t] = "running"]
      /\ pendingBySig' = [pendingBySig EXCEPT ![s] = Append(old, t)]
      /\ recorded' = recorded + 1 /\ notify' = TRUE
      /\ UNCHANGED <<ctx, genVars, paired, handlerVars, streamVars>>
  BY DEF Announce, Record
<1>2. /\ s \in Signatures /\ old \in Seq(Tools)
      /\ tool \in [Tools -> {"idle", "running", "reported", "done"}]
      /\ pendingBySig \in [Signatures -> Seq(Tools)] /\ paired \in [Tools -> Tools \cup {"none"}]
  BY TurnStreamAssumption DEF IInv, TypeOK
<1>3. TypeOK'
  <2>1. Counts'
    BY <1>1, Numbers DEF Sizes, IInv, TypeOK, Counts, genVars, handlerVars, sentVars, streamVars
  <2>2. tool' \in [Tools -> {"idle", "running", "reported", "done"}]
        /\ pendingBySig' \in [Signatures -> Seq(Tools)]
    BY <1>1, <1>2
  <2>3. Domains'
    BY <1>1, <2>2 DEF IInv, TypeOK, Domains, genVars, handlerVars, sentVars, streamVars
  <2> QED
    BY <2>1, <2>3, TypeParts
<1>4. PairsBySignature'
  BY <1>1, <1>2 DEF IInv, PairsBySignature
<1>5. /\ pendingBySig'[s] = Append(old, t) /\ Len(pendingBySig'[s]) = Len(old) + 1
      /\ \A i \in 1 .. Len(old) : pendingBySig'[s][i] = old[i]
      /\ pendingBySig'[s][Len(old) + 1] = t /\ Len(old) \in Nat
  BY <1>1, <1>2
<1>6. /\ IsFiniteSet(Running(s)) /\ Cardinality(Running(s)) = Len(old)
      /\ \A i \in 1 .. Len(old) :
           /\ Sig[old[i]] = s /\ tool[old[i]] # "idle"
           /\ \A u \in Tools : paired[u] # "none" => paired[u] # old[i]
           /\ \A j \in 1 .. Len(old) : i # j => old[j] # old[i]
  BY <1>2 DEF IInv, QueueInv, QueueOf
<1>7. Running(s)' = Running(s) \cup {t} /\ t \notin Running(s)
  BY <1>1, <1>2 DEF Running
<1>8. IsFiniteSet(Running(s)') /\ Cardinality(Running(s)') = Len(pendingBySig'[s])
  <2>1. PICK before : before = Running(s)
    OBVIOUS
  <2>2. /\ IsFiniteSet(before \cup {t})
        /\ Cardinality(before \cup {t}) = Cardinality(before) + 1
    BY <1>6, <1>7, <2>1, FS_AddElement
  <2> QED
    BY <1>5, <1>6, <1>7, <2>1, <2>2
<1>9. ASSUME NEW i \in 1 .. Len(pendingBySig'[s])
      PROVE  LET x == pendingBySig'[s][i] IN
             /\ Sig[x] = s /\ tool'[x] # "idle"
             /\ \A u \in Tools : paired'[u] # "none" => paired'[u] # x
             /\ \A j \in 1 .. Len(pendingBySig'[s]) : i # j => pendingBySig'[s][j] # x
  <2>1. \A k \in 1 .. Len(old) : old[k] \in Tools /\ old[k] # t
    BY <1>1, <1>2, <1>6
  <2>2. \A u \in Tools : paired[u] # "none" => paired[u] # t
    BY <1>1 DEF IInv, PairsBySignature
  <2>3. CASE i = Len(old) + 1
    BY <1>1, <1>2, <1>5, <2>1, <2>2, <2>3
  <2>4. CASE i \in 1 .. Len(old)
    BY <1>1, <1>2, <1>5, <1>6, <2>1, <2>4
  <2> QED
    BY <1>5, <2>3, <2>4
<1>10. ASSUME NEW r \in Signatures \ {s}
       PROVE  /\ pendingBySig'[r] = pendingBySig[r] /\ Running(r)' = Running(r)
              /\ \A i \in 1 .. Len(pendingBySig[r]) :
                   tool[pendingBySig[r][i]] # "idle" => tool'[pendingBySig[r][i]] # "idle"
  BY <1>1, <1>2 DEF Running
<1>11. QueueOf(s)'
  BY <1>8, <1>9 DEF QueueOf
<1>12. ASSUME NEW r \in Signatures \ {s} PROVE QueueOf(r)'
  BY <1>1, <1>10 DEF IInv, QueueInv, QueueOf
<1>13. QueueInv'
  BY <1>11, <1>12 DEF QueueInv
<1> QED
  BY <1>3, <1>4, <1>13

LEMMA SignalStep == ASSUME IInv, NEW t \in Tools, Signal(t)
                    PROVE  TypeOK' /\ QueueInv' /\ PairsBySignature'
<1>1. /\ tool[t] = "reported" /\ tool' = [tool EXCEPT ![t] = "done"] /\ notify' = TRUE
      /\ UNCHANGED <<ctx, genVars, pendingBySig, paired, recorded, handlerVars, streamVars>>
  BY DEF Signal
<1>2. tool \in [Tools -> {"idle", "running", "reported", "done"}]
  BY DEF IInv, TypeOK
<1>3. TypeOK'
  BY <1>1, <1>2 DEF IInv, TypeOK, genVars, handlerVars, sentVars, streamVars
<1>4. PairsBySignature'
  BY <1>1, <1>2 DEF IInv, PairsBySignature
<1>5. \A x \in DOMAIN tool : tool'[x] # "idle" <=> tool[x] # "idle"
  BY <1>1, <1>2
<1>6. \A r \in Signatures : Running(r)' = Running(r)
  BY <1>1, <1>2 DEF Running
<1>7. \A r \in Signatures : \A i \in 1 .. Len(pendingBySig[r]) : pendingBySig[r][i] \in DOMAIN tool
  BY <1>2 DEF IInv, TypeOK
<1>8. QueueInv'
  BY <1>1, <1>5, <1>6, <1>7 DEF IInv, QueueInv, QueueOf
<1> QED
  BY <1>3, <1>4, <1>8

LEMMA UpdateStep == ASSUME IInv, NEW t \in Tools, Update(t)
                    PROVE  TypeOK' /\ QueueInv' /\ PairsBySignature'
<1> DEFINE s == Sig[t]
           old == pendingBySig[s]
<1>1. /\ tool[t] = "running" /\ tool' = [tool EXCEPT ![t] = "reported"]
      /\ paired' = [paired EXCEPT ![t] = Head(old)]
      /\ pendingBySig' = [pendingBySig EXCEPT ![s] = Tail(old)]
      /\ recorded' = recorded + 1
      /\ UNCHANGED <<ctx, genVars, notify, handlerVars, streamVars>>
  BY DEF Update, Record, Paired
<1>2. /\ s \in Signatures /\ old \in Seq(Tools)
      /\ tool \in [Tools -> {"idle", "running", "reported", "done"}]
      /\ pendingBySig \in [Signatures -> Seq(Tools)] /\ paired \in [Tools -> Tools \cup {"none"}]
  BY TurnStreamAssumption DEF IInv, TypeOK
<1>3. Len(old) \in Nat /\ Len(old) > 0 /\ 1 \in 1 .. Len(old) /\ old # <<>>
  BY <1>1, <1>2, QueueNotEmpty
<1>4. /\ Head(old) = old[1] /\ old[1] \in Tools /\ Tail(old) \in Seq(Tools)
      /\ Len(Tail(old)) = Len(old) - 1
      /\ \A i \in 1 .. Len(Tail(old)) : Tail(old)[i] = old[i + 1] /\ i + 1 \in 1 .. Len(old)
  BY <1>2, <1>3
<1>5. /\ IsFiniteSet(Running(s)) /\ Cardinality(Running(s)) = Len(old)
      /\ \A i \in 1 .. Len(old) :
           /\ Sig[old[i]] = s /\ tool[old[i]] # "idle"
           /\ \A u \in Tools : paired[u] # "none" => paired[u] # old[i]
           /\ \A j \in 1 .. Len(old) : i # j => old[j] # old[i]
  BY <1>2 DEF IInv, QueueInv, QueueOf
<1>6. \A x \in DOMAIN tool : tool[x] # "idle" => tool'[x] # "idle"
  BY <1>1, <1>2
<1>7. TypeOK'
  <2>1. Counts'
    BY <1>1, Numbers DEF Sizes, IInv, TypeOK, Counts, genVars, handlerVars, sentVars, streamVars
  <2>2. tool' \in [Tools -> {"idle", "running", "reported", "done"}]
        /\ pendingBySig' \in [Signatures -> Seq(Tools)]
        /\ paired' \in [Tools -> Tools \cup {"none"}]
    BY <1>1, <1>2, <1>4
  <2>3. Domains'
    BY <1>1, <2>2 DEF IInv, TypeOK, Domains, genVars, handlerVars, sentVars, streamVars
  <2> QED
    BY <2>1, <2>3, TypeParts
<1>8. PairsBySignature'
  <2>1. ASSUME NEW u \in Tools, paired'[u] # "none"
        PROVE  Sig[paired'[u]] = Sig[u] /\ tool'[paired'[u]] # "idle"
    <3>1. CASE u = t
      BY <1>1, <1>2, <1>3, <1>4, <1>5, <1>6, <3>1
    <3>2. CASE u # t
      <4>1. paired'[u] = paired[u] /\ paired[u] \in Tools
        BY <1>1, <1>2, <2>1, <3>2
      <4> QED
        BY <1>2, <1>6, <2>1, <4>1 DEF IInv, PairsBySignature
    <3> QED
      BY <3>1, <3>2
  <2>2. ASSUME NEW u \in Tools, NEW v \in Tools, u # v, paired'[u] # "none"
        PROVE  paired'[u] # paired'[v]
    <3>1. CASE u # t /\ v # t
      BY <1>1, <1>2, <2>2, <3>1 DEF IInv, PairsBySignature
    <3>2. CASE u = t
      BY <1>1, <1>2, <1>3, <1>4, <1>5, <2>2, <3>2
    <3>3. CASE v = t
      BY <1>1, <1>2, <1>3, <1>4, <1>5, <2>2, <3>3
    <3> QED
      BY <3>1, <3>2, <3>3
  <2> QED
    BY <2>1, <2>2 DEF PairsBySignature
<1>9. Running(s)' = Running(s) \ {t} /\ t \in Running(s)
  BY <1>1, <1>2 DEF Running
<1>10. IsFiniteSet(Running(s)') /\ Cardinality(Running(s)') = Len(Tail(old))
  BY <1>4, <1>5, <1>9, FS_RemoveElement
<1>11. pendingBySig'[s] = Tail(old)
  BY <1>1, <1>2
<1>12. ASSUME NEW i \in 1 .. Len(Tail(old))
       PROVE  LET x == Tail(old)[i] IN
              /\ Sig[x] = s /\ tool'[x] # "idle"
              /\ \A u \in Tools : paired'[u] # "none" => paired'[u] # x
              /\ \A j \in 1 .. Len(Tail(old)) : i # j => Tail(old)[j] # x
  <2>1. Tail(old)[i] = old[i + 1] /\ i + 1 \in 1 .. Len(old) /\ old[i + 1] \in Tools /\ i + 1 # 1
    BY <1>2, <1>4
  <2>2. Sig[old[i + 1]] = s /\ tool'[old[i + 1]] # "idle"
    BY <1>2, <1>5, <1>6, <2>1
  <2>3. \A u \in Tools : paired'[u] # "none" => paired'[u] # old[i + 1]
    BY <1>1, <1>2, <1>3, <1>4, <1>5, <2>1
  <2>4. \A j \in 1 .. Len(Tail(old)) : i # j => Tail(old)[j] # old[i + 1]
    <3>1. ASSUME NEW j \in 1 .. Len(Tail(old)), i # j PROVE Tail(old)[j] # old[i + 1]
      <4>1. Tail(old)[j] = old[j + 1] /\ j + 1 \in 1 .. Len(old) /\ i + 1 # j + 1
        BY <1>4, <3>1
      <4> QED
        BY <1>5, <2>1, <4>1
    <3> QED
      BY <3>1
  <2> QED
    BY <2>1, <2>2, <2>3, <2>4
<1>13. ASSUME NEW r \in Signatures \ {s}
       PROVE  /\ pendingBySig'[r] = pendingBySig[r] /\ Running(r)' = Running(r)
              /\ \A i \in 1 .. Len(pendingBySig[r]) :
                   LET x == pendingBySig[r][i] IN
                   /\ tool'[x] # "idle" /\ x # old[1]
                   /\ \A u \in Tools : paired'[u] # "none" => paired'[u] # x
  <2>1. pendingBySig'[r] = pendingBySig[r] /\ Running(r)' = Running(r)
    BY <1>1, <1>2 DEF Running
  <2>2. ASSUME NEW i \in 1 .. Len(pendingBySig[r])
        PROVE  LET x == pendingBySig[r][i] IN
               /\ tool'[x] # "idle" /\ x # old[1]
               /\ \A u \in Tools : paired'[u] # "none" => paired'[u] # x
    <3> DEFINE x == pendingBySig[r][i]
    <3>1. /\ Sig[x] = r /\ tool[x] # "idle" /\ x \in Tools
          /\ \A u \in Tools : paired[u] # "none" => paired[u] # x
      BY <1>2 DEF IInv, QueueInv, QueueOf
    <3>2. x # old[1]
      BY <1>3, <1>5, <3>1
    <3>3. tool'[x] # "idle"
      BY <1>2, <1>6, <3>1
    <3>4. \A u \in Tools : paired'[u] # "none" => paired'[u] # x
      BY <1>1, <1>2, <1>4, <3>1, <3>2
    <3> QED
      BY <3>2, <3>3, <3>4
  <2> QED
    BY <2>1, <2>2
<1>14. QueueOf(s)'
  BY <1>10, <1>11, <1>12 DEF QueueOf
<1>15. ASSUME NEW r \in Signatures \ {s} PROVE QueueOf(r)'
  BY <1>13 DEF IInv, QueueInv, QueueOf
<1>16. QueueInv'
  BY <1>14, <1>15 DEF QueueInv
<1> QED
  BY <1>7, <1>8, <1>16


LEMMA StepIInv == IInv /\ [Next]_vars => IInv'
<1> SUFFICES ASSUME IInv, [Next]_vars PROVE IInv'
  OBVIOUS
<1>1. ASSUME UNCHANGED toolVars PROVE QueueInv' /\ PairsBySignature'
  <2>1. tool' = tool /\ pendingBySig' = pendingBySig /\ paired' = paired
    BY <1>1 DEF toolVars
  <2>2. PairsBySignature'
    BY <2>1 DEF IInv, PairsBySignature
  <2>3. ASSUME NEW s \in Signatures PROVE QueueOf(s)'
    <3>1. Running(s)' = Running(s)
      BY <2>1 DEF Running
    <3> QED
      BY <2>1, <3>1 DEF IInv, QueueInv, QueueOf
  <2> QED
    BY <2>2, <2>3 DEF QueueInv
<1>2. CASE Tool
  <2>1. TypeOK' /\ QueueInv' /\ PairsBySignature'
    BY <1>2, AnnounceStep, SignalStep, UpdateStep DEF Tool
  <2> QED
    BY <1>2, <2>1, OtherStep DEF IInv
<1>3. CASE Generator
  <2>1. UNCHANGED toolVars
    BY <1>3 DEF Generator, YieldChunk, Warn, CompleteTurn, FailTurn, GiveUp, Close
  <2> QED
    BY <1>1, <1>3, <2>1, GeneratorStep DEF IInv, TurnInv
<1>4. CASE Handler
  <2>1. UNCHANGED toolVars
    BY <1>4 DEF Handler, SeeCancel, Wake, TakeWarning, TakeChunk, TakeError, SeeEnd, LastDrain,
                Send, SendFails, EventsSent, CloseStream, handlerFrame
  <2> QED
    BY <1>1, <1>4, <2>1, HandlerStep DEF IInv, TurnInv
<1>5. CASE Recv
  <2>1. UNCHANGED toolVars
    BY <1>5 DEF Recv
  <2>2. TypeOK'
    <3>1. Counts'
      <4>1. buffer' \in 0 .. StreamCap
        <5>1. StreamCap \in Nat /\ buffer \in 0 .. StreamCap
          BY TurnStreamAssumption DEF IInv, TypeOK
        <5> QED
          BY <1>5, <5>1 DEF Recv
      <4>2. UNCHANGED <<recorded, atEnd, drained, chunks, warned, warnings, sentEvents,
                        sentChunks, sentWarnings>>
        BY <1>5 DEF Recv, genVars, toolVars, handlerVars, sentVars
      <4> QED
        BY <4>1, <4>2 DEF IInv, TypeOK, Counts
    <3>2. Domains'
      BY <1>5 DEF Recv, IInv, TypeOK, Domains, genVars, toolVars, handlerVars, sentVars
    <3> QED
      BY <3>1, <3>2, TypeParts
  <2> QED
    BY <1>1, <1>5, <2>1, <2>2, OtherStep DEF IInv
<1>6. CASE Cancel \/ UNCHANGED vars
  <2>1. UNCHANGED toolVars
    BY <1>6 DEF Cancel, vars
  <2>2. UNCHANGED <<genVars, toolVars, notify, handlerVars, streamVars>> /\ ctx' \in BOOLEAN
    <3>1. CASE Cancel
      BY <3>1 DEF Cancel
    <3>2. CASE UNCHANGED vars
      BY <3>2 DEF vars, IInv, TypeOK
    <3> QED
      BY <1>6, <3>1, <3>2
  <2>3. Counts' /\ Domains'
    <3>1. Counts'
      BY <2>2 DEF IInv, TypeOK, Counts, genVars, toolVars, handlerVars, sentVars, streamVars
    <3>2. Domains'
      BY <2>2 DEF IInv, TypeOK, Domains, genVars, toolVars, handlerVars, sentVars, streamVars
    <3> QED
      BY <3>1, <3>2
  <2> QED
    BY <1>1, <1>6, <2>1, <2>3, OtherStep, TypeParts DEF IInv
<1> QED
  BY <1>2, <1>3, <1>4, <1>5, <1>6 DEF Next

LEMMA InitIInv == Init => IInv
<1> SUFFICES ASSUME Init PROVE IInv
  OBVIOUS
<1>1. items = <<>> /\ Len(items) = 0 /\ 1 .. 0 = {}
  BY DEF Init
<1>2. TypeOK
  <2>0. /\ ItemCap \in Nat /\ WarningCap \in Nat /\ StreamCap \in Nat
        /\ MaxChunks \in Nat /\ MaxWarnings \in Nat
    BY TurnStreamAssumption
  <2>1. Counts
    BY <2>0 DEF Init, Counts
  <2>2. Domains
    <3>1. items \in Seq([chunk : BOOLEAN, mark : Nat]) /\ Len(items) <= ItemCap
      BY <1>1, <2>0
    <3>2. held \in [chunk : BOOLEAN, mark : Nat]
      BY DEF Init, Error
    <3>3. /\ tool \in [Tools -> {"idle", "running", "reported", "done"}]
          /\ pendingBySig \in [Signatures -> Seq(Tools)]
          /\ paired \in [Tools -> Tools \cup {"none"}]
      BY DEF Init
    <3> QED
      BY <3>1, <3>2, <3>3 DEF Init, Domains
  <2> QED
    BY <2>1, <2>2, TypeParts
<1>3. ItemInv /\ HandlerInv /\ CountInv /\ MarkInv /\ ClientInv
  BY <1>1 DEF Init, ItemInv, HandlerInv, CountInv, MarkInv, ClientInv, One, Error
<1>4. ASSUME NEW s \in Signatures PROVE QueueOf(s)
  <2>1. Running(s) = {} /\ pendingBySig[s] = <<>>
    BY DEF Init, Running
  <2> QED
    BY <2>1, FS_EmptySet DEF QueueOf
<1>5. PairsBySignature
  BY DEF Init, PairsBySignature
<1> QED
  BY <1>2, <1>3, <1>4, <1>5 DEF IInv, QueueInv

(* Every reachable state satisfies the inductive invariant. *)
THEOREM Invariance == Spec => []IInv
<1> QED
  BY InitIInv, StepIInv, PTL DEF Spec

(* What the client is told of the end of its call is what happened to the turn. *)
THEOREM EndsAreTold == Spec => []EndIsTold
<1>1. IInv => EndIsTold
  <2> SUFFICES ASSUME IInv PROVE CleanEnd /\ ToldTheEnd
    BY DEF IInv, EndIsTold
  <2> Sizes
    BY Numbers
  <2>1. CleanEnd
    BY DEF IInv, CleanEnd, HandlerInv, CountInv, ItemInv, One, Sizes
  <2>2. ToldTheEnd
    BY DEF IInv, TypeOK, ToldTheEnd, HandlerInv, ClientInv, ItemInv
  <2> QED
    BY <2>1, <2>2
<1> QED
  BY <1>1, Invariance, PTL

(* An outcome goes to one call of its signature, announced and without an outcome. *)
THEOREM OutcomesArePaired == Spec => []PairsBySignature
<1>1. IInv => PairsBySignature
  BY DEF IInv
<1> QED
  BY <1>1, Invariance, PTL

(* A chunk is sent only behind the events recorded before it was produced. *)
THEOREM EventsShipAhead == Spec => ShipsAhead
<1>1. IInv /\ [Next]_vars => (sentChunks' # sentChunks => sentEvents >= held.mark)
  <2> SUFFICES ASSUME IInv, [Next]_vars, sentChunks' # sentChunks
               PROVE  sentEvents >= held.mark
    OBVIOUS
  <2>1. Send /\ pc = "text"
    BY DEF Next, vars, Tool, Announce, Signal, Update, Generator, YieldChunk, Warn, CompleteTurn,
           FailTurn, GiveUp, Close, Handler, SeeCancel, Wake, TakeWarning, TakeChunk, TakeError,
           SeeEnd, LastDrain, Send, SendFails, EventsSent, CloseStream, Return, Recv, Cancel,
           handlerVars, sentVars
  <2> QED
    BY <2>1, Numbers DEF IInv, MarkInv, Sizes
<1> QED
  BY <1>1, Invariance, PTL DEF Spec, ShipsAhead

-----------------------------------------------------------------------------
(* The scratchpad: its invariant. *)

Writers == {"write", "evict", "remove"}

(* The fields of the operations that change some of theirs. *)
Shape(r) ==
  /\ r.op \in {"input", "expand", "splice"} =>
       r = [op |-> r.op, id |-> r.id, into |-> r.into, text |-> r.text]
  /\ r.op = "list" => r = [op |-> "list", left |-> r.left, seen |-> r.seen, there |-> r.there]
  /\ r.op \in {"write", "evict"} => r = [op |-> r.op, n |-> r.n, more |-> r.more]
  /\ r.op = "remove" => r = [op |-> "remove", n |-> r.n, more |-> r.more, victims |-> r.victims]
  /\ r.op = "delete" => r = [op |-> "delete", ns |-> r.ns]

(* What an operation has in hand is a text, a slug or creations. *)
InHand(r) ==
  /\ Shape(r)
  /\ r.op \in {"input", "expand", "splice", "pick", "open"} => r.text \in Text
  /\ r.op \in {"expand", "splice", "input"} => Contains(r.text, Ref)
  /\ r.op \in {"pick", "open"} => r.binary \in BOOLEAN
  /\ r.op = "open" => r.id \in Ids
  /\ r.op \in Writers => r.n \in 1 .. made /\ r.n \notin returned
  /\ r.op = "remove" => r.victims \subseteq 1 .. made
  /\ r.op = "delete" => r.ns \subseteq 1 .. made

ProcInv ==
  /\ proc = [p \in Procs |-> proc[p]]
  /\ \A p \in Procs : InHand(proc[p])

(* One file of a creation, that is as old as its last write. *)
DirInv ==
  /\ IsFiniteSet(dir)
  /\ \A f \in dir : f.n \in 1 .. made /\ f.id = slug[f.n] /\ f.time = stamp[f.n]
  /\ \A f, g \in dir : f.n = g.n => f = g

(* No two creations write at the same time. *)
ClockInv ==
  /\ \A n \in Creations : opened[n] <= stamp[n] /\ stamp[n] <= clock
  /\ \A m, n \in 1 .. made :
       stamp[m] \in {opened[n], stamp[n]} \/ opened[m] \in {opened[n], stamp[n]} => m = n

(* A creation has one creator. *)
CreatorInv ==
  /\ \A p, q \in Procs :
       proc[p].op \in Writers /\ proc[q].op \in Writers /\ proc[p].n = proc[q].n => p = q
  /\ \A p \in Procs : proc[p].op = "write" => stamp[proc[p].n] = opened[proc[p].n]

(* What is left of the directory without some entries and those being written. *)
Writing == {proc[p].n : p \in {q \in Procs : proc[q].op = "write"}}
Without(ns) == {f \in dir : f.n \notin ns /\ f.n \notin Writing}

(* If the directory is too full, somebody will look or has the victims in hand. *)
TrimInv ==
  \/ untrimmed
  \/ \E p \in Procs : proc[p].op = "evict"
  \/ Cardinality(Without({})) <= Cap
  \/ \E p \in Procs : proc[p].op = "remove" /\ Cardinality(Without(proc[p].victims)) <= Cap

PadInv == PadTypeOK /\ ProcInv /\ DirInv /\ ClockInv /\ CreatorInv /\ TrimInv /\ OldestGo

-----------------------------------------------------------------------------
(* With slugs that are never used twice, a slug is a creation. *)

Used == {slug[n] : n \in 1 .. made}

KeptInv ==
  /\ \A n \in 1 .. made : n \in gone \/ \E f \in dir : f.n = n
  /\ \A f \in dir : f.n \in returned => f.full
  /\ \A p \in Procs : proc[p].op \in {"evict", "remove"} =>
       \A f \in dir : f.n = proc[p].n => f.full

SlugInv ==
  /\ \A m, n \in 1 .. made : slug[m] = slug[n] => m = n
  /\ \A p \in Procs : proc[p].op = "open" => proc[p].id \notin Used
  /\ \A p, q \in Procs :
       proc[p].op = "open" /\ proc[q].op = "open" /\ proc[p].id = proc[q].id => p = q

(* The line a search has found is where it was found. *)
Located(r) ==
  \E n \in 1 .. made :
    /\ slug[n] = r.id /\ r.num = 1
    /\ r.skip + 1 \in 1 .. Len(body[n]) /\ body[n][r.skip + 1] = r.line
    /\ \A f \in dir : f.n = n => f.full

ReaderHas(r) ==
  r.op = "read" =>
    /\ r.id \in Used /\ r.skip \in Nat /\ r.num \in Nat
    /\ r.id \in Known \/ (r.skip = 0 /\ r.num = Whole /\ r.line = None)
    /\ r.line # None => Located(r)
    /\ r.then # None => r.then \in Known /\ r.parts = <<>>
    /\ r.parts = <<>> \/ (r.parts = <<r.parts[1]>> /\ Stored(r.parts[1]))

AnswerHas(r) ==
  /\ r.op \in {"input", "stream", "expand", "splice"} => r.id \in Known
  /\ r.op \in {"got", "run"} => \A i \in DOMAIN r.parts : Stored(r.parts[i])

(* A list under way: what was there is still to come, was seen, or is gone. *)
Seen(s) ==
  /\ s.n \in 1 .. made /\ s.id = slug[s.n] /\ s.time \in Nat
  /\ s.time \in {opened[s.n], stamp[s.n]}

ListHas(r) ==
  r.op = "list" =>
    /\ IsFiniteSet(r.seen) /\ r.left \subseteq 1 .. made /\ r.there \subseteq returned
    /\ \A s \in r.seen : s.n \notin r.left /\ Seen(s)
    /\ \A s \in r.seen : s.n \in r.there => s.time = stamp[s.n]
    /\ \A s, t \in r.seen : s.n = t.n => s = t
    /\ \A n \in r.there : n \in gone \/ n \in r.left \/ \E s \in r.seen : s.n = n

ListedHas(r) ==
  r.op = "listed" =>
    /\ r.there \subseteq returned
    /\ \A i \in DOMAIN r.items : r.items[i].n \in 1 .. made /\ r.items[i].id = slug[r.items[i].n]
    /\ \A n \in r.there : n \in gone \/ \E i \in DOMAIN r.items : r.items[i].n = n
    /\ \A i, j \in DOMAIN r.items :
         r.items[i].n \in r.there /\ r.items[j].n \in r.there =>
           (i < j <=> stamp[r.items[i].n] < stamp[r.items[j].n])

Has(r) == ReaderHas(r) /\ AnswerHas(r) /\ ListHas(r) /\ ListedHas(r)

Rest == KeptInv /\ SlugInv /\ \A p \in Procs : Has(proc[p])

ReadInv == PadInv /\ Rest

-----------------------------------------------------------------------------
(* Lemmas about sets and sequences. *)

(* A finite set whose members have different times has an order by time. *)
LEMMA OldestFirstIs ==
  ASSUME NEW files, IsFiniteSet(files),
         \A f \in files : f.time \in Nat,
         \A f, g \in files : f.time = g.time => f = g
  PROVE  LET s == OldestFirst(files)
             n == Cardinality(files)
         IN  /\ n \in Nat
             /\ s \in [1 .. n -> files]
             /\ \A i, j \in 1 .. n : i < j => s[i].time < s[j].time
             /\ \A f \in files : \E i \in 1 .. n : s[i] = f
<1> DEFINE n == Cardinality(files)
           upTo(f) == {g \in files : g.time <= f.time}
           rank == [f \in files |-> Cardinality(upTo(f))]
           Sorted(s) == \A i, j \in 1 .. n : i < j => s[i].time < s[j].time
<1>1. n \in Nat
  BY FS_CardinalityType
<1>2. ASSUME NEW f \in files
      PROVE  IsFiniteSet(upTo(f)) /\ rank[f] \in 1 .. n /\ rank[f] = Cardinality(upTo(f))
  <2>1. IsFiniteSet(upTo(f)) /\ Cardinality(upTo(f)) \in Nat /\ Cardinality(upTo(f)) <= n
    BY FS_Subset, FS_CardinalityType
  <2>2. upTo(f) # {}
    BY DEF upTo
  <2>3. Cardinality(upTo(f)) # 0
    BY <2>1, <2>2, FS_EmptySet
  <2> QED
    BY <2>1, <2>3, <1>1
<1>3. ASSUME NEW f \in files, NEW g \in files, f.time < g.time PROVE rank[f] < rank[g]
  <2>1. upTo(f) \subseteq upTo(g) /\ g \in upTo(g) /\ g \notin upTo(f)
    BY <1>3
  <2>2. Cardinality(upTo(f)) <= Cardinality(upTo(g)) /\ Cardinality(upTo(g)) # Cardinality(upTo(f))
    BY <2>1, <1>2, FS_Subset
  <2> QED
    BY <2>2, <1>2
<1> HIDE DEF upTo
<1>4. rank \in Injection(files, 1 .. n)
  <2>1. rank \in [files -> 1 .. n]
    BY <1>2
  <2>2. ASSUME NEW f \in files, NEW g \in files, rank[f] = rank[g] PROVE f = g
    <3>1. ~ (rank[f] < rank[g]) /\ ~ (rank[g] < rank[f])
      BY <1>2, <2>2
    <3>2. ~ (f.time < g.time) /\ ~ (g.time < f.time)
      BY <1>3, <3>1
    <3> QED
      BY <3>2
  <2> QED
    BY <2>1, <2>2 DEF Injection, IsInjective
<1> HIDE DEF rank
<1>5. rank \in Surjection(files, 1 .. n)
  <2>1. IsFiniteSet(1 .. n) /\ Cardinality(1 .. n) = n
    BY <1>1, FS_Interval
  <2> QED
    BY <1>4, <2>1, FS_Injection
<1> DEFINE t == [i \in 1 .. n |-> CHOOSE f \in files : rank[f] = i]
<1>6. ASSUME NEW i \in 1 .. n PROVE t[i] \in files /\ rank[t[i]] = i
  BY <1>5 DEF Surjection
<1>7. t \in [1 .. n -> files] /\ Sorted(t)
  <2>1. ASSUME NEW i \in 1 .. n, NEW j \in 1 .. n, i < j PROVE t[i].time < t[j].time
    <3>1. t[i] \in files /\ t[j] \in files /\ rank[t[i]] = i /\ rank[t[j]] = j
      BY <1>6
    <3>2. t[i] # t[j] /\ ~ (rank[t[j]] < rank[t[i]])
      BY <2>1, <3>1, <1>1
    <3>3. t[i].time # t[j].time /\ ~ (t[j].time < t[i].time)
      BY <3>1, <3>2, <1>3
    <3> QED
      BY <3>1, <3>3
  <2> QED
    BY <1>6, <2>1
<1> DEFINE s == OldestFirst(files)
<1>8. s \in [1 .. n -> files] /\ Sorted(s)
  <2>1. s = CHOOSE u \in [1 .. n -> files] : Sorted(u)
    BY DEF OldestFirst
  <2> QED
    BY <1>7, <2>1
<1> HIDE DEF s
<1>9. ASSUME NEW f \in files PROVE \E i \in 1 .. n : s[i] = f
  <2>1. s \in Injection(1 .. n, files)
    <3>1. ASSUME NEW i \in 1 .. n, NEW j \in 1 .. n, s[i] = s[j] PROVE i = j
      <4>1. s[i].time \in Nat /\ s[i].time = s[j].time
        BY <3>1, <1>8
      <4>2. ~ (i < j) /\ ~ (j < i)
        BY <4>1, <1>8
      <4> QED
        BY <4>2, <1>1
    <3> QED
      BY <3>1, <1>8 DEF Injection, IsInjective
  <2>2. IsFiniteSet(1 .. n) /\ Cardinality(1 .. n) = n
    BY <1>1, FS_Interval
  <2>3. s \in Surjection(1 .. n, files)
    BY <2>1, <2>2, FS_Injection
  <2> QED
    BY <2>3 DEF Surjection
<1> QED
  BY <1>1, <1>8, <1>9 DEF s

(* The first k of a sequence without repetitions are k members. *)
First(s, k) == {s[i] : i \in 1 .. k}

LEMMA FirstOnes ==
  ASSUME NEW S, NEW n \in Nat, NEW s \in [1 .. n -> S], NEW k \in 0 .. n,
         \A i, j \in 1 .. n : s[i] = s[j] => i = j
  PROVE  /\ Range(SubSeq(s, 1, k)) = First(s, k)
         /\ IsFiniteSet(First(s, k)) /\ Cardinality(First(s, k)) = k
<1>0. PICK K : K = First(s, k)
  OBVIOUS
<1>1. \A i \in 1 .. k : s[i] \in S
  OBVIOUS
<1> DEFINE u == SubSeq(s, 1, k)
<1>2. u \in Seq(S) /\ Len(u) = k /\ \A i \in 1 .. k : u[i] = s[i]
  BY <1>1, SubSeqProperties
<1> HIDE DEF u
<1>3. Range(u) = K
  <2>1. DOMAIN u = 1 .. k
    BY <1>2
  <2> QED
    BY <1>0, <1>2, <2>1 DEF Range, First
<1> DEFINE b == [i \in 1 .. k |-> s[i]]
<1>4. b \in Bijection(1 .. k, K)
  BY <1>0 DEF Bijection, Injection, Surjection, IsInjective, First
<1>5. ExistsBijection(1 .. k, K)
  BY <1>4 DEF ExistsBijection
<1>6. IsFiniteSet(K) /\ Cardinality(K) = k
  BY <1>5, FS_CountingElements, FS_NatBijection
<1> QED
  BY <1>0, <1>3, <1>6 DEF u

(* What a page has of the lines. *)
LEMMA PageIs ==
  ASSUME NEW S, NEW lines \in Seq(S), NEW skip \in Nat, NEW num \in Nat
  PROVE  LET page == Page(lines, skip, num)
         IN  /\ page \in Seq(S) /\ Len(page) \in Nat
             /\ \A i \in 1 .. Len(page) : skip + i \in 1 .. Len(lines) /\ page[i] = lines[skip + i]
             /\ Len(page) = num \/ skip + Len(page) >= Len(lines)
             /\ num >= 1 /\ skip < Len(lines) => Len(page) >= 1
             /\ Len(page) <= num
<1> DEFINE m == IF skip + num < Len(lines) THEN skip + num ELSE Len(lines)
           page == SubSeq(lines, skip + 1, m)
<1>1. Len(lines) \in Nat /\ m \in Nat /\ m <= Len(lines)
  OBVIOUS
<1>2. \A i \in skip + 1 .. m : lines[i] \in S
  BY <1>1
<1> HIDE DEF m
<1>3. /\ page \in Seq(S)
      /\ Len(page) = IF skip + 1 <= m THEN m - (skip + 1) + 1 ELSE 0
      /\ \A i \in 1 .. m - (skip + 1) + 1 : page[i] = lines[skip + 1 + i - 1]
  BY <1>1, <1>2, SubSeqProperties
<1> HIDE DEF page
<1>4. Len(page) \in Nat /\ Len(page) <= num /\ (Len(page) = num \/ skip + Len(page) >= Len(lines))
      /\ (num >= 1 /\ skip < Len(lines) => Len(page) >= 1)
  BY <1>1, <1>3 DEF m
<1>5. ASSUME NEW i \in 1 .. Len(page)
      PROVE  skip + i \in 1 .. Len(lines) /\ page[i] = lines[skip + i]
  <2>1. i \in Nat /\ skip + 1 <= m /\ i <= m - skip
    BY <1>1, <1>3
  <2>2. i \in 1 .. m - (skip + 1) + 1 /\ skip + 1 + i - 1 = skip + i
    BY <2>1, <1>1
  <2> QED
    BY <2>1, <2>2, <1>1, <1>3
<1> QED
  BY <1>3, <1>4, <1>5 DEF Page, page, m

LEMMA OneLine ==
  ASSUME NEW S, NEW lines \in Seq(S), NEW skip \in Nat, skip + 1 \in 1 .. Len(lines)
  PROVE  Page(lines, skip, 1) = <<lines[skip + 1]>>
<1>1. PICK num, page : num = 1 /\ page = Page(lines, skip, num)
  OBVIOUS
<1>2. num \in Nat /\ num >= 1 /\ skip < Len(lines) /\ Len(lines) \in Nat
  BY <1>1
<1>3. /\ page \in Seq(S) /\ Len(page) \in Nat
      /\ \A i \in 1 .. Len(page) : skip + i \in 1 .. Len(lines) /\ page[i] = lines[skip + i]
      /\ Len(page) >= 1 /\ Len(page) <= num
  <2>1. /\ Page(lines, skip, num) \in Seq(S) /\ Len(Page(lines, skip, num)) \in Nat
        /\ \A i \in 1 .. Len(Page(lines, skip, num)) :
             skip + i \in 1 .. Len(lines) /\ Page(lines, skip, num)[i] = lines[skip + i]
        /\ num >= 1 /\ skip < Len(lines) => Len(Page(lines, skip, num)) >= 1
        /\ Len(Page(lines, skip, num)) <= num
    BY <1>2, PageIs
  <2> QED
    BY <1>1, <1>2, <2>1
<1>4. Len(page) = 1 /\ page[1] = lines[skip + 1]
  <2>1. Len(page) = 1
    <3>1. Len(page) \in Nat /\ Len(page) >= 1 /\ Len(page) <= num
      BY <1>3
    <3>2. num = 1 /\ num \in Nat
      BY <1>1, <1>2
    <3>3. PICK len : len = Len(page) /\ len \in Nat /\ len >= 1 /\ len <= num
      BY <3>1
    <3>4. len = 1
      BY <3>2, <3>3
    <3> QED
      BY <3>3, <3>4
  <2>2. 1 \in 1 .. Len(page)
    BY <2>1
  <2> QED
    BY <1>3, <2>1, <2>2
<1>5. page = <<lines[skip + 1]>>
  BY <1>3, <1>4
<1> QED
  BY <1>1, <1>5

(* A text with its macro replaced is a text. *)
LEMMA SplicedIsText ==
  ASSUME NEW text \in Text, Contains(text, Ref), NEW lines \in Text
  PROVE  Spliced(text, lines) \in Text
<1> DEFINE i == CHOOSE j \in DOMAIN text : text[j] = Ref
           S == Lines \cup {Ref}
<1>1. i \in 1 .. Len(text) /\ Len(text) \in Nat
  BY DEF Contains, Text
<1> HIDE DEF i, S
<1>2. text \in Seq(S) /\ lines \in Seq(S)
  BY DEF Text, S
<1>3. SubSeq(text, 1, i - 1) \in Seq(S)
  <2>1. \A k \in 1 .. i - 1 : text[k] \in S
    BY <1>1, <1>2
  <2> QED
    BY <1>1, <2>1, SubSeqProperties
<1>4. SubSeq(text, i + 1, Len(text)) \in Seq(S)
  <2>1. \A k \in i + 1 .. Len(text) : text[k] \in S
    BY <1>1, <1>2
  <2> QED
    BY <1>1, <2>1, SubSeqProperties
<1>5. SubSeq(text, 1, i - 1) \o lines \in Seq(S)
  BY <1>2, <1>3, ConcatProperties
<1>6. SubSeq(text, 1, i - 1) \o lines \o SubSeq(text, i + 1, Len(text)) \in Seq(S)
  BY <1>4, <1>5, ConcatProperties
<1> QED
  BY <1>6 DEF Spliced, i, S, Text

-----------------------------------------------------------------------------
(* Steps of one process. *)

Others(p) == \A q \in Procs \ {p} : proc'[q] = proc[q]

LEMMA ConstantsAre ==
  /\ Cap \in Nat /\ Cap >= 1 /\ MaxCreates \in Nat /\ MaxRead \in Nat /\ Whole \in Nat
  /\ MaxRead < Whole
<1>1. Cap \in Nat \ {0} /\ MaxCreates \in Nat /\ MaxRead \in Nat
  BY ScratchpadAssumption
<1>2. MaxRead < Whole
  BY ScratchpadAssumption
<1> QED
  BY <1>1, <1>2 DEF Whole

LEMMA BecomeIs ==
  ASSUME ProcInv, NEW p \in Procs, NEW x, Become(p, x)
  PROVE  proc'[p] = x /\ Others(p) /\ proc' = [q \in Procs |-> proc'[q]]
  BY DEF ProcInv, Become, Others

LEMMA ProcsAre ==
  ASSUME ProcInv, NEW p \in Procs, NEW x, Become(p, x), InHand(x)',
         \A q \in Procs \ {p} : InHand(proc[q])'
  PROVE  ProcInv'
<1>1. proc'[p] = x /\ Others(p) /\ proc' = [q \in Procs |-> proc'[q]]
  BY BecomeIs
<1> QED
  BY <1>1 DEF ProcInv, Others, InHand

LEMMA PadInvInit == PadInit => PadInv
<1> SUFFICES ASSUME PadInit PROVE PadInv
  OBVIOUS
<1>1. PadTypeOK
  <2>1. body \in [Creations -> Text]
    <3>1. <<>> \in Text
      BY DEF Text
    <3> QED
      BY <3>1 DEF PadInit
  <2>2. made \in 0 .. MaxCreates /\ clock \in Nat /\ untrimmed \in BOOLEAN
    <3>1. untrimmed \in BOOLEAN
      BY DEF PadInit
    <3>2. made = 0 /\ clock = 0
      BY DEF PadInit
    <3>3. made \in 0 .. MaxCreates /\ clock \in Nat
      BY <3>2, ConstantsAre
    <3> QED
      BY <3>1, <3>3
  <2>3. opened \in [Creations -> Nat] /\ stamp \in [Creations -> Nat]
        /\ slug \in [Creations -> Ids \cup {None}]
    BY DEF PadInit
  <2>4. \A p \in Procs : proc[p].op = "idle"
    BY DEF PadInit, Idle
  <2>5. dir = {} /\ returned = {} /\ gone = {}
    BY DEF PadInit
  <2> QED
    BY <2>1, <2>2, <2>3, <2>4, <2>5 DEF PadTypeOK
<1>2. ProcInv
  BY DEF PadInit, ProcInv, InHand, Shape, Idle, Writers
<1>3. DirInv
  BY FS_EmptySet DEF PadInit, DirInv
<1>4. ClockInv /\ CreatorInv /\ OldestGo
  BY DEF PadInit, ClockInv, CreatorInv, OldestGo, Idle, Writers, Creations
<1>5. TrimInv
  <2>1. Without({}) = {}
    BY DEF PadInit, Without
  <2> QED
    BY <2>1, FS_EmptySet, ConstantsAre DEF TrimInv
<1> QED
  BY <1>1, <1>2, <1>3, <1>4, <1>5 DEF PadInv

LEMMA Fewer ==
  ASSUME NEW S, IsFiniteSet(S), NEW T \in SUBSET S, Cardinality(S) <= Cap
  PROVE  Cardinality(T) <= Cap
  BY FS_Subset, FS_CardinalityType, ConstantsAre

LEMMA WithoutIsFinite == ASSUME DirInv, NEW v PROVE IsFiniteSet(Without(v))
  BY FS_Subset DEF DirInv, Without

(* A step that leaves nothing more in the directory and is not the end of the
   work on it. *)
LEMMA TrimStep ==
  ASSUME PadInv, NEW p \in Procs, Others(p), untrimmed' = untrimmed,
         proc[p].op # "evict", proc[p].op = "remove" => proc[p].victims = {},
         {f \in dir' : f.n \notin Writing'} \subseteq {f \in dir : f.n \notin Writing}
  PROVE  TrimInv'
<1>1. ASSUME NEW v PROVE {f \in dir' : f.n \notin v /\ f.n \notin Writing'} \subseteq Without(v)
  BY DEF Without
<1>2. CASE untrimmed
  BY <1>2 DEF TrimInv
<1>3. CASE \E q \in Procs : proc[q].op = "evict"
  BY <1>3 DEF TrimInv, Others
<1>4. CASE Cardinality(Without({})) <= Cap
  <2>1. Cardinality({f \in dir' : f.n \notin {} /\ f.n \notin Writing'}) <= Cap
    BY <1>1, <1>4, Fewer, WithoutIsFinite DEF PadInv
  <2> QED
    BY <2>1 DEF TrimInv, Without
<1>5. ASSUME NEW q \in Procs, proc[q].op = "remove", Cardinality(Without(proc[q].victims)) <= Cap
      PROVE  TrimInv'
  <2>1. CASE q = p
    BY <2>1, <1>4, <1>5
  <2>2. CASE q # p
    <3>1. proc'[q] = proc[q]
      BY <2>2 DEF Others
    <3> DEFINE v == proc[q].victims
    <3>2. Cardinality({f \in dir' : f.n \notin v /\ f.n \notin Writing'}) <= Cap
      BY <1>1, <1>5, Fewer, WithoutIsFinite DEF PadInv
    <3>3. Cardinality({f \in dir' : f.n \notin proc'[q].victims /\ f.n \notin Writing'}) <= Cap
      BY <3>1, <3>2
    <3> QED
      BY <3>1, <3>3, <1>5 DEF TrimInv, Without
  <2> QED
    BY <2>1, <2>2
<1> QED
  BY <1>2, <1>3, <1>4, <1>5 DEF PadInv, TrimInv

(* The entries that are younger than a victim become more. *)
LEMMA YoungerStay ==
  ASSUME PadInv, \A m \in Creations : stamp[m] <= stamp'[m] /\ stamp'[m] \in Nat,
         NEW n \in 1 .. made, opened'[n] = opened[n],
         Cardinality({m \in Creations : stamp[m] > opened[n]}) >= Cap
  PROVE  Cardinality({m \in Creations : stamp'[m] > opened'[n]}) >= Cap
<1> DEFINE S == {m \in Creations : stamp[m] > opened[n]}
           T == {m \in Creations : stamp'[m] > opened'[n]}
<1>1. S \subseteq T
  <2>1. n \in Creations
    BY ConstantsAre DEF PadInv, PadTypeOK, Creations
  <2>2. \A m \in Creations : stamp[m] \in Nat /\ opened[n] \in Nat
    BY <2>1 DEF PadInv, PadTypeOK
  <2> QED
    BY <2>2
<1>2. IsFiniteSet(T)
  <2>1. IsFiniteSet(Creations)
    BY FS_Interval, ConstantsAre DEF Creations
  <2> QED
    BY <2>1, FS_Subset
<1>3. IsFiniteSet(S) /\ Cardinality(S) <= Cardinality(T)
  BY <1>1, <1>2, FS_Subset
<1>4. Cardinality(S) \in Nat /\ Cardinality(T) \in Nat
  BY <1>2, <1>3, FS_CardinalityType
<1> QED
  BY <1>3, <1>4, ConstantsAre

LEMMA OldestStep ==
  ASSUME PadInv, NEW p \in Procs, Others(p),
         \A m \in Creations : stamp[m] <= stamp'[m] /\ stamp'[m] \in Nat,
         \A n \in 1 .. made : opened'[n] = opened[n],
         proc'[p].op = "remove" => proc[p].op = "remove" /\ proc'[p].victims \subseteq proc[p].victims
  PROVE  OldestGo'
<1> SUFFICES ASSUME NEW q \in Procs, proc'[q].op = "remove", NEW n \in proc'[q].victims
             PROVE  Cardinality({m \in Creations : stamp'[m] > opened'[n]}) >= Cap
  BY DEF OldestGo
<1>1. proc[q].op = "remove" /\ n \in proc[q].victims
  BY DEF Others
<1>2. n \in 1 .. made
  BY <1>1 DEF PadInv, ProcInv, InHand
<1>3. Cardinality({m \in Creations : stamp[m] > opened[n]}) >= Cap
  BY <1>1 DEF PadInv, OldestGo
<1> QED
  BY <1>2, <1>3, YoungerStay

Stays == UNCHANGED <<dir, clock, made, body, ghosts>>

Ops == {"idle", "input", "stream", "expand", "splice", "run", "pick", "open",
        "write", "evict", "remove", "read", "got", "list", "listed", "delete"}

(* A step that leaves everything but what its process has in hand. *)
LEMMA QuietStep ==
  ASSUME PadInv, NEW p \in Procs, NEW x, Become(p, x), Stays,
         proc[p].op \notin Writers, x.op \in Ops \ Writers, InHand(x)
  PROVE  PadInv'
<1>1. proc'[p] = x /\ Others(p)
  BY BecomeIs DEF PadInv
<1>2. /\ dir' = dir /\ clock' = clock /\ made' = made /\ body' = body /\ opened' = opened
      /\ stamp' = stamp /\ slug' = slug /\ returned' = returned /\ gone' = gone
      /\ untrimmed' = untrimmed
  BY DEF Stays, ghosts
<1>3. PadTypeOK'
  BY <1>1, <1>2 DEF PadInv, PadTypeOK, Others, Ops
<1>4. ProcInv'
  <2>1. \A q \in Procs \ {p} : InHand(proc[q])'
    BY <1>1, <1>2 DEF PadInv, ProcInv, InHand, Others
  <2>2. InHand(x)'
    BY <1>2 DEF InHand
  <2> QED
    BY <2>1, <2>2, ProcsAre DEF PadInv
<1>5. DirInv' /\ ClockInv'
  BY <1>2 DEF PadInv, DirInv, ClockInv
<1>6. CreatorInv'
  BY <1>1, <1>2 DEF PadInv, CreatorInv, Others, Writers
<1>7. TrimInv'
  <2>1. Writing' = Writing
    BY <1>1 DEF Writing, Others, Writers
  <2> QED
    BY <1>1, <1>2, <2>1, TrimStep DEF Writers
<1>8. OldestGo'
  <2>1. \A m \in Creations : stamp[m] \in Nat
    BY DEF PadInv, PadTypeOK
  <2> QED
    BY <1>1, <1>2, <2>1, OldestStep DEF Writers
<1> QED
  BY <1>3, <1>4, <1>5, <1>6, <1>7, <1>8 DEF PadInv

-----------------------------------------------------------------------------
(* The operations that change no file. *)

Light == {"idle", "stream", "run", "read", "got", "listed"}

LEMMA LightStep ==
  ASSUME PadInv, NEW p \in Procs, NEW x, Become(p, x), Stays,
         proc[p].op \notin Writers, x.op \in Light
  PROVE  PadInv'
<1>1. InHand(x) /\ x.op \in Ops \ Writers
  BY DEF InHand, Shape, Light, Writers, Ops
<1> QED
  BY <1>1, QuietStep

LEMMA FilesAre ==
  ASSUME PadInv, NEW f \in dir
  PROVE  f.n \in 1 .. made /\ f.n \in Creations /\ body[f.n] \in Text /\ Content(f) \in Text
<1>1. f.n \in 1 .. made /\ f.n \in Creations
  BY ConstantsAre DEF PadInv, DirInv, PadTypeOK, Creations
<1>2. body[f.n] \in Text
  BY <1>1 DEF PadInv, PadTypeOK
<1>3. <<>> \in Text
  BY DEF Text
<1> QED
  BY <1>1, <1>2, <1>3 DEF Content

LEMMA StoreIsInHand ==
  ASSUME NEW text \in Text, NEW binary \in BOOLEAN, NEW more
  PROVE  /\ InHand(Store(text, binary)) /\ Store(text, binary).op = "pick"
         /\ InHand([Store(text, binary) EXCEPT !.more = more])
         /\ [Store(text, binary) EXCEPT !.more = more].op = "pick"
  BY DEF InHand, Shape, Store, Writers

LEMMA StartReadStep ==
  ASSUME PadInv, NEW p \in Procs, StartRead(p) PROVE PadInv'
<1>1. proc[p].op \notin Writers /\ Stays
  BY DEF StartRead, MayRead, Idle, Writers, Stays
<1>2. PICK id, at : Become(p, Reading(id, at[1], at[2], None))
  BY DEF StartRead
<1>3. Reading(id, at[1], at[2], None).op \in Light
  BY DEF Reading, Light
<1> QED
  BY <1>1, <1>2, <1>3, LightStep

LEMMA StartSearchStep ==
  ASSUME PadInv, NEW p \in Procs, StartSearch(p) PROVE PadInv'
<1>1. proc[p].op \notin Writers /\ Stays
  BY DEF StartSearch, MayRead, Idle, Writers, Stays
<1>2. PICK id, line, skip : Become(p, Reading(id, skip, 1, line))
  BY DEF StartSearch
<1>3. Reading(id, skip, 1, line).op \in Light
  BY DEF Reading, Light
<1> QED
  BY <1>1, <1>2, <1>3, LightStep

LEMMA StartDiffStep ==
  ASSUME PadInv, NEW p \in Procs, StartDiff(p) PROVE PadInv'
<1>1. proc[p].op \notin Writers /\ Stays
  BY DEF StartDiff, MayRead, Idle, Writers, Stays
<1>2. PICK before, after : Become(p, [Reading(before, 0, Whole, None) EXCEPT !.then = after])
  BY DEF StartDiff
<1>3. [Reading(before, 0, Whole, None) EXCEPT !.then = after].op \in Light
  BY DEF Reading, Light
<1> QED
  BY <1>1, <1>2, <1>3, LightStep

LEMMA ReadStep ==
  ASSUME PadInv, NEW p \in Procs, Read(p) PROVE PadInv'
<1>1. proc[p].op \notin Writers /\ Stays
  BY DEF Read, Writers, Stays
<1>2. PICK x : Become(p, x) /\ x.op \in Light
  <2>1. \/ Become(p, Idle)
        \/ \E parts : Become(p, [op |-> "got", parts |-> parts])
        \/ \E id, parts : Become(p, [Reading(id, 0, Whole, None) EXCEPT !.parts = parts])
    BY DEF Read
  <2>2. /\ Idle.op \in Light
        /\ \A parts : [op |-> "got", parts |-> parts].op \in Light
        /\ \A id, parts : [Reading(id, 0, Whole, None) EXCEPT !.parts = parts].op \in Light
    BY DEF Idle, Reading, Light
  <2> QED
    BY <2>1, <2>2
<1> QED
  BY <1>1, <1>2, LightStep

LEMMA ListingStep ==
  ASSUME PadInv, NEW p \in Procs,
         Got(p) \/ StartList(p) \/ ListEntry(p) \/ ListScratchpads(p) \/ ReadListed(p)
  PROVE  PadInv'
<1>1. CASE Got(p)
  BY <1>1, LightStep DEF Got, Idle, Light, Writers, Stays
<1>2. CASE StartList(p)
  <2> DEFINE x == [op |-> "list", left |-> {f.n : f \in dir}, seen |-> {}, there |-> returned \ gone]
  <2>1. Become(p, x) /\ proc[p].op \notin Writers /\ Stays
    BY <1>2 DEF StartList, MayRead, Idle, Writers, Stays
  <2>2. x.op \in Ops \ Writers /\ InHand(x)
    BY DEF Ops, Writers, InHand, Shape
  <2> QED
    BY <2>1, <2>2, QuietStep
<1>3. CASE ListEntry(p)
  <2>1. proc[p].op = "list" /\ proc[p].op \notin Writers /\ Stays
    BY <1>3 DEF ListEntry, Writers, Stays
  <2>2. PICK left, seen, t :
          Become(p, [op |-> "list", left |-> left, seen |-> seen, there |-> t])
    BY <1>3 DEF ListEntry
  <2> DEFINE x == [op |-> "list", left |-> left, seen |-> seen, there |-> t]
  <2>3. x.op \in Ops \ Writers /\ InHand(x)
    BY DEF Ops, Writers, InHand, Shape
  <2> QED
    BY <2>1, <2>2, <2>3, QuietStep
<1>4. CASE ListScratchpads(p)
  <2> DEFINE x == [op |-> "listed", items |-> OldestFirst(proc[p].seen), there |-> proc[p].there]
  <2>1. Become(p, x) /\ x.op \in Light /\ proc[p].op \notin Writers /\ Stays
    BY <1>4 DEF ListScratchpads, Light, Writers, Stays
  <2> QED
    BY <2>1, LightStep
<1>5. CASE ReadListed(p)
  <2>1. proc[p].op \notin Writers /\ Stays
    BY <1>5 DEF ReadListed, Writers, Stays
  <2>2. PICK x : Become(p, x) /\ x.op \in Light
    <3>1. Become(p, Idle) \/ \E id : Become(p, Reading(id, 0, Whole, None))
      BY <1>5 DEF ReadListed
    <3>2. Idle.op \in Light /\ \A id : Reading(id, 0, Whole, None).op \in Light
      BY DEF Idle, Reading, Light
    <3> QED
      BY <3>1, <3>2
  <2> QED
    BY <2>1, <2>2, LightStep
<1> QED
  BY <1>1, <1>2, <1>3, <1>4, <1>5

LEMMA TextsAre == \A text \in Texts \cup {<<Ref>>} : text \in Text
<1>1. Texts \subseteq Text
  BY ScratchpadAssumption
<1>2. <<Ref>> \in Text
  BY DEF Text
<1> QED
  BY <1>1, <1>2

LEMMA OutputsAre == \A out \in Outputs : out.text \in Text /\ out.binary \in BOOLEAN
<1>1. Outputs \subseteq [text : Text, binary : BOOLEAN]
  BY ScratchpadAssumption
<1> QED
  BY <1>1

LEMMA StartToolStep ==
  ASSUME PadInv, NEW p \in Procs, StartTool(p) PROVE PadInv'
<1>1. proc[p].op \notin Writers /\ Stays
  BY DEF StartTool, MayRead, Idle, Writers, Stays
<1>2. PICK id \in Known, into \in {"args", "stdin"}, text \in Texts \cup {<<Ref>>} :
        Contains(text, Ref) /\ Become(p, [op |-> "input", id |-> id, into |-> into, text |-> text])
  BY DEF StartTool
<1> DEFINE x == [op |-> "input", id |-> id, into |-> into, text |-> text]
<1>3. x.op \in Ops \ Writers /\ InHand(x)
  BY <1>2, TextsAre DEF Ops, Writers, InHand, Shape
<1> QED
  BY <1>1, <1>2, <1>3, QuietStep

LEMMA CheckStep ==
  ASSUME PadInv, NEW p \in Procs, CheckArgs(p) \/ CheckStdin(p) PROVE PadInv'
<1>1. proc[p].op = "input" /\ Stays
  BY DEF CheckArgs, CheckStdin, Stays
<1>2. proc[p].op \notin Writers
  BY <1>1 DEF Writers
<1>3. \/ Become(p, Idle)
      \/ \E id : Become(p, [op |-> "stream", id |-> id])
      \/ Become(p, [proc[p] EXCEPT !.op = "expand"])
  BY DEF CheckArgs, CheckStdin
<1>4. CASE Become(p, Idle)
  BY <1>1, <1>2, <1>4, LightStep DEF Idle, Light
<1>5. CASE \E id : Become(p, [op |-> "stream", id |-> id])
  BY <1>1, <1>2, <1>5, LightStep DEF Light
<1>6. CASE Become(p, [proc[p] EXCEPT !.op = "expand"])
  <2>1. PICK id, into, text : proc[p] = [op |-> "input", id |-> id, into |-> into, text |-> text]
    BY <1>1 DEF PadInv, ProcInv, InHand, Shape
  <2>2. text \in Text /\ Contains(text, Ref)
    BY <1>1, <2>1 DEF PadInv, ProcInv, InHand
  <2> DEFINE x == [op |-> "expand", id |-> id, into |-> into, text |-> text]
  <2>3. Become(p, x)
    BY <1>6, <2>1
  <2>4. x.op \in Ops \ Writers /\ InHand(x)
    BY <2>2 DEF Ops, Writers, InHand, Shape
  <2> QED
    BY <1>1, <1>2, <2>3, <2>4, QuietStep
<1> QED
  BY <1>3, <1>4, <1>5, <1>6

LEMMA StreamInputStep ==
  ASSUME PadInv, NEW p \in Procs, StreamInput(p) PROVE PadInv'
<1>1. proc[p].op \notin Writers /\ Stays
  BY DEF StreamInput, Writers, Stays
<1>2. PICK x : Become(p, x) /\ x.op \in Light
  <2>1. Become(p, Idle) \/ \E parts : Become(p, [op |-> "run", parts |-> parts])
    BY DEF StreamInput
  <2>2. Idle.op \in Light /\ \A parts : [op |-> "run", parts |-> parts].op \in Light
    BY DEF Idle, Light
  <2> QED
    BY <2>1, <2>2
<1> QED
  BY <1>1, <1>2, LightStep

LEMMA RunToolStep ==
  ASSUME PadInv, NEW p \in Procs, RunTool(p) PROVE PadInv'
<1>1. proc[p].op \notin Writers /\ Stays
  BY DEF RunTool, Writers, Stays
<1>2. CASE Become(p, Idle)
  BY <1>1, <1>2, LightStep DEF Idle, Light
<1>3. ASSUME NEW out \in Outputs, NEW more \in BOOLEAN,
             Become(p, [Store(out.text, out.binary) EXCEPT !.more = more])
      PROVE  PadInv'
  <2> DEFINE x == [Store(out.text, out.binary) EXCEPT !.more = more]
  <2>1. InHand(x) /\ x.op = "pick"
    BY OutputsAre, StoreIsInHand
  <2>2. x.op \in Ops \ Writers
    BY <2>1 DEF Ops, Writers
  <2> QED
    BY <1>1, <1>3, <2>1, <2>2, QuietStep
<1> QED
  BY <1>2, <1>3 DEF RunTool

LEMMA StoreStep ==
  ASSUME PadInv, NEW p \in Procs, Stays, proc[p].op \notin Writers,
         NEW text \in Text, NEW binary \in BOOLEAN, Become(p, Store(text, binary))
  PROVE  PadInv'
<1>1. InHand(Store(text, binary)) /\ Store(text, binary).op = "pick"
  BY StoreIsInHand
<1>2. Store(text, binary).op \in Ops \ Writers
  BY <1>1 DEF Ops, Writers
<1> QED
  BY <1>1, <1>2, QuietStep

LEMMA StartCreateStep ==
  ASSUME PadInv, NEW p \in Procs, StartCreate(p) PROVE PadInv'
<1>1. proc[p].op \notin Writers /\ Stays
  BY DEF StartCreate, Idle, Writers, Stays
<1>2. PICK text \in Texts :
        IF Contains(text, Ref)
        THEN \E id \in Known : Become(p, [op |-> "expand", text |-> text, id |-> id, into |-> "entry"])
        ELSE \E binary \in BOOLEAN : Become(p, Store(text, binary))
  BY DEF StartCreate
<1>3. text \in Text
  BY TextsAre
<1>4. CASE Contains(text, Ref)
  <2>1. PICK id : Become(p, [op |-> "expand", text |-> text, id |-> id, into |-> "entry"])
    BY <1>2, <1>4
  <2> DEFINE x == [op |-> "expand", text |-> text, id |-> id, into |-> "entry"]
  <2>2. x.op \in Ops \ Writers /\ InHand(x)
    BY <1>3, <1>4 DEF Ops, Writers, InHand, Shape
  <2> QED
    BY <1>1, <2>1, <2>2, QuietStep
<1>5. CASE ~Contains(text, Ref)
  BY <1>1, <1>2, <1>3, <1>5, StoreStep
<1> QED
  BY <1>4, <1>5

LEMMA UseStep ==
  ASSUME PadInv, NEW p \in Procs, Stays, proc[p].op \notin Writers,
         NEW text \in Text, NEW part, Use(p, text, part)
  PROVE  PadInv'
<1>1. CASE Become(p, Store(text, FALSE))
  BY <1>1, StoreStep
<1>2. CASE Become(p, Idle)
  BY <1>2, LightStep DEF Idle, Light
<1>3. CASE Become(p, [op |-> "run", parts |-> <<part>>])
  BY <1>3, LightStep DEF Light
<1> QED
  BY <1>1, <1>2, <1>3 DEF Use

LEMMA ExpandFindStep ==
  ASSUME PadInv, NEW p \in Procs, ExpandFind(p) PROVE PadInv'
<1>1. proc[p].op = "expand" /\ Stays
  BY DEF ExpandFind, Stays
<1>2. proc[p].op \notin Writers
  BY <1>1 DEF Writers
<1>3. PICK id, into, text : proc[p] = [op |-> "expand", id |-> id, into |-> into, text |-> text]
  BY <1>1 DEF PadInv, ProcInv, InHand, Shape
<1>4. text \in Text /\ Contains(text, Ref) /\ proc[p].text = text
  BY <1>1, <1>3 DEF PadInv, ProcInv, InHand
<1>5. \/ \E part : Use(p, proc[p].text, part)
      \/ Become(p, Idle)
      \/ Become(p, [proc[p] EXCEPT !.op = "splice"])
  BY DEF ExpandFind
<1>6. CASE \E part : Use(p, proc[p].text, part)
  BY <1>1, <1>2, <1>4, <1>6, UseStep
<1>7. CASE Become(p, Idle)
  BY <1>1, <1>2, <1>7, LightStep DEF Idle, Light
<1>8. CASE Become(p, [proc[p] EXCEPT !.op = "splice"])
  <2> DEFINE x == [op |-> "splice", id |-> id, into |-> into, text |-> text]
  <2>1. Become(p, x)
    BY <1>3, <1>8
  <2>2. x.op \in Ops \ Writers /\ InHand(x)
    BY <1>4 DEF Ops, Writers, InHand, Shape
  <2> QED
    BY <1>1, <1>2, <2>1, <2>2, QuietStep
<1> QED
  BY <1>5, <1>6, <1>7, <1>8

LEMMA ExpandReadStep ==
  ASSUME PadInv, NEW p \in Procs, ExpandRead(p) PROVE PadInv'
<1>1. proc[p].op = "splice" /\ Stays /\ proc[p].op \notin Writers
  BY DEF ExpandRead, Writers, Stays
<1>2. proc[p].text \in Text /\ Contains(proc[p].text, Ref)
  BY <1>1 DEF PadInv, ProcInv, InHand
<1>3. CASE Become(p, Idle)
  BY <1>1, <1>3, LightStep DEF Idle, Light
<1>4. ASSUME NEW f \in dir, NEW part, Use(p, Spliced(proc[p].text, Page(Content(f), 0, 2)), part)
      PROVE  PadInv'
  <2>1. Page(Content(f), 0, 2) \in Text
    BY FilesAre, PageIs DEF Text
  <2>2. Spliced(proc[p].text, Page(Content(f), 0, 2)) \in Text
    BY <1>2, <2>1, SplicedIsText
  <2> QED
    BY <1>1, <1>4, <2>2, UseStep
<1> QED
  BY <1>3, <1>4 DEF ExpandRead, Find, Matches

LEMMA PickStep ==
  ASSUME PadInv, NEW p \in Procs, Pick(p) PROVE PadInv'
<1>1. proc[p].op = "pick" /\ Stays /\ proc[p].op \notin Writers
  BY DEF Pick, Writers, Stays
<1>2. PICK id \in Ids :
        Become(p, [op |-> "open", text |-> proc[p].text, binary |-> proc[p].binary,
                   more |-> proc[p].more, id |-> id])
  BY DEF Pick
<1>3. proc[p].text \in Text /\ proc[p].binary \in BOOLEAN
  BY <1>1 DEF PadInv, ProcInv, InHand
<1> DEFINE x == [op |-> "open", text |-> proc[p].text, binary |-> proc[p].binary,
                 more |-> proc[p].more, id |-> id]
<1>4. x.op \in Ops \ Writers /\ InHand(x)
  BY <1>3 DEF Ops, Writers, InHand, Shape
<1> QED
  BY <1>1, <1>2, <1>4, QuietStep

LEMMA StartDeleteStep ==
  ASSUME PadInv, NEW p \in Procs, StartDelete(p) PROVE PadInv'
<1>1. proc[p].op \notin Writers /\ Stays
  BY DEF StartDelete, Idle, Writers, Stays
<1>2. PICK id \in Known : Become(p, [op |-> "delete", ns |-> {f.n : f \in Matches(id)}])
  BY DEF StartDelete
<1> DEFINE x == [op |-> "delete", ns |-> {f.n : f \in Matches(id)}]
<1>3. {f.n : f \in Matches(id)} \subseteq 1 .. made
  BY DEF PadInv, DirInv, Matches
<1>4. x.op \in Ops \ Writers /\ InHand(x)
  BY <1>3 DEF Ops, Writers, InHand, Shape
<1> QED
  BY <1>1, <1>2, <1>4, QuietStep

-----------------------------------------------------------------------------
(* Creating. *)

LEMMA OpenStep ==
  ASSUME PadInv, NEW p \in Procs, Open(p) PROVE PadInv'
<1> DEFINE n == made + 1
           f == [id |-> proc[p].id, n |-> n, binary |-> proc[p].binary, time |-> clock + 1,
                 full |-> FALSE]
           x == [op |-> "write", n |-> n, more |-> proc[p].more]
<1>1. /\ proc[p].op = "open" /\ made < MaxCreates
      /\ made' = n /\ clock' = clock + 1 /\ dir' = dir \cup {f}
      /\ body' = [body EXCEPT ![n] = proc[p].text]
      /\ opened' = [opened EXCEPT ![n] = clock + 1]
      /\ stamp' = [stamp EXCEPT ![n] = clock + 1]
      /\ slug' = [slug EXCEPT ![n] = proc[p].id]
      /\ Become(p, x)
      /\ returned' = returned /\ gone' = gone /\ untrimmed' = untrimmed
  BY DEF Open
<1>2. /\ made \in Nat /\ clock \in Nat /\ MaxCreates \in Nat /\ n \in Creations
      /\ 1 .. made \subseteq Creations /\ n \notin 1 .. made /\ n \in 1 .. n /\ n \in Nat
      /\ 1 .. n = (1 .. made) \cup {n} /\ n \in 0 .. MaxCreates
  BY <1>1, ConstantsAre DEF PadInv, PadTypeOK, Creations
<1>3. proc[p].id \in Ids /\ proc[p].binary \in BOOLEAN /\ proc[p].text \in Text
  BY <1>1 DEF PadInv, ProcInv, InHand
<1>4. /\ f.id = proc[p].id /\ f.n = n /\ f.time = clock + 1 /\ f.binary = proc[p].binary
      /\ f.full = FALSE
  OBVIOUS
<1>5. f \in [id : Ids, n : Creations, binary : BOOLEAN, time : Nat, full : BOOLEAN]
  <2>1. FALSE \in BOOLEAN
    OBVIOUS
  <2> QED
    BY <1>2, <1>3, <2>1
<1>6. proc'[p] = x /\ Others(p) /\ x.op = "write" /\ x.n = n
  BY <1>1, BecomeIs DEF PadInv
<1> HIDE DEF n, f, x
<1>7. /\ opened' \in [Creations -> Nat] /\ stamp' \in [Creations -> Nat]
      /\ opened'[n] = clock + 1 /\ stamp'[n] = clock + 1
      /\ \A m \in Creations \ {n} : opened'[m] = opened[m] /\ stamp'[m] = stamp[m]
      /\ \A m \in Creations : opened[m] \in Nat /\ stamp[m] \in Nat
  BY <1>1, <1>2 DEF PadInv, PadTypeOK
<1>8. /\ slug' \in [Creations -> Ids \cup {None}] /\ slug'[n] = proc[p].id
      /\ \A m \in Creations \ {n} : slug'[m] = slug[m]
  BY <1>1, <1>2, <1>3 DEF PadInv, PadTypeOK
<1>9. PadTypeOK'
  <2>1. dir' \subseteq [id : Ids, n : Creations, binary : BOOLEAN, time : Nat, full : BOOLEAN]
    BY <1>1, <1>5 DEF PadInv, PadTypeOK
  <2>2. clock' \in Nat /\ made' \in 0 .. MaxCreates
    BY <1>1, <1>2
  <2>3. body' \in [Creations -> Text]
    BY <1>1, <1>3 DEF PadInv, PadTypeOK
  <2>4. returned' \subseteq 1 .. made' /\ gone' \subseteq 1 .. made'
    BY <1>1, <1>2 DEF PadInv, PadTypeOK
  <2>5. untrimmed' \in BOOLEAN
    BY <1>1 DEF PadInv, PadTypeOK
  <2>6. \A q \in Procs : proc'[q].op \in Ops
    BY <1>6 DEF PadInv, PadTypeOK, Others, Ops
  <2> QED
    BY <1>7, <1>8, <2>1, <2>2, <2>3, <2>4, <2>5, <2>6 DEF PadTypeOK, Ops, Creations
<1>10. ProcInv'
  <2>1. \A q \in Procs \ {p} : InHand(proc[q])'
    BY <1>1, <1>2, <1>6 DEF PadInv, ProcInv, InHand, Others
  <2>2. PICK y : y = x
    OBVIOUS
  <2>3. InHand(y)'
    <3>1. n \in 1 .. made' /\ n \notin returned'
      BY <1>1, <1>2 DEF PadInv, PadTypeOK
    <3>2. y.op = "write" /\ y.n = n /\ Shape(y)
      BY <2>2 DEF x, Shape
    <3> QED
      BY <3>1, <3>2 DEF InHand, Writers
  <2> QED
    BY <1>1, <2>1, <2>2, <2>3, ProcsAre DEF PadInv
<1>11. DirInv'
  <2>1. IsFiniteSet(dir')
    BY <1>1, FS_AddElement DEF PadInv, DirInv
  <2>2. \A g \in dir : g.n \in 1 .. made /\ g.n # n /\ g.n \in Creations
    BY <1>2 DEF PadInv, DirInv
  <2>3. \A g \in dir' : g.n \in 1 .. made' /\ g.id = slug'[g.n] /\ g.time = stamp'[g.n]
    BY <1>1, <1>2, <1>4, <1>7, <1>8, <2>2 DEF PadInv, DirInv
  <2>4. \A g, h \in dir' : g.n = h.n => g = h
    BY <1>1, <1>4, <2>2 DEF PadInv, DirInv
  <2> QED
    BY <2>1, <2>3, <2>4 DEF DirInv
<1>12. ClockInv'
  <2>1. \A m \in Creations : opened[m] <= clock /\ stamp[m] <= clock
    BY <1>2, <1>7 DEF PadInv, ClockInv
  <2>2. \A m \in Creations : opened'[m] <= stamp'[m] /\ stamp'[m] <= clock'
    BY <1>1, <1>2, <1>7, <2>1 DEF PadInv, ClockInv
  <2>3. \A m \in 1 .. made : opened'[m] < clock + 1 /\ stamp'[m] < clock + 1
    BY <1>2, <1>7, <2>1
  <2>4. \A m \in 1 .. made : opened'[m] = opened[m] /\ stamp'[m] = stamp[m]
    BY <1>2, <1>7
  <2>5. ASSUME NEW i \in 1 .. n, NEW j \in 1 .. n,
               stamp'[i] \in {opened'[j], stamp'[j]} \/ opened'[i] \in {opened'[j], stamp'[j]}
        PROVE  i = j
    <3>1. CASE i \in 1 .. made /\ j \in 1 .. made
      BY <2>4, <2>5, <3>1 DEF PadInv, ClockInv
    <3>2. CASE i = n \/ j = n
      <4>1. ~ (i = n /\ j \in 1 .. made) /\ ~ (j = n /\ i \in 1 .. made)
        BY <1>7, <2>3, <2>5, <1>2
      <4> QED
        BY <1>2, <3>2, <4>1
    <3> QED
      BY <1>2, <3>1, <3>2
  <2> QED
    BY <1>1, <2>2, <2>5 DEF ClockInv
<1>13. CreatorInv'
  <2>1. \A q \in Procs \ {p} : proc'[q].op \in Writers => proc'[q].n \in 1 .. made /\ proc'[q].n # n
    BY <1>2, <1>6 DEF PadInv, ProcInv, InHand, Others
  <2>2. \A q, r \in Procs :
          proc'[q].op \in Writers /\ proc'[r].op \in Writers /\ proc'[q].n = proc'[r].n => q = r
    BY <1>6, <2>1 DEF PadInv, CreatorInv, Others
  <2>3. \A q \in Procs : proc'[q].op = "write" => stamp'[proc'[q].n] = opened'[proc'[q].n]
    BY <1>2, <1>6, <1>7, <2>1 DEF PadInv, CreatorInv, Others, Writers
  <2> QED
    BY <2>2, <2>3 DEF CreatorInv
<1>14. TrimInv'
  <2>1. Writing \subseteq Writing' /\ n \in Writing'
    <3>1. n \in Writing'
      BY <1>6 DEF Writing
    <3>2. \A q \in Procs : proc[q].op = "write" => proc'[q] = proc[q]
      BY <1>1, <1>6 DEF Others
    <3> QED
      BY <3>1, <3>2 DEF Writing
  <2>2. {g \in dir' : g.n \notin Writing'} \subseteq {g \in dir : g.n \notin Writing}
    BY <1>1, <1>4, <2>1
  <2> QED
    BY <1>1, <1>6, <2>2, TrimStep
<1>15. OldestGo'
  <2>1. \A m \in Creations : stamp[m] <= stamp'[m] /\ stamp'[m] \in Nat
    BY <1>2, <1>7 DEF PadInv, ClockInv
  <2>2. \A m \in 1 .. made : opened'[m] = opened[m]
    BY <1>2, <1>7
  <2> QED
    BY <1>6, <2>1, <2>2, OldestStep
<1> QED
  BY <1>9, <1>10, <1>11, <1>12, <1>13, <1>14, <1>15 DEF PadInv

LEMMA WriteStep ==
  ASSUME PadInv, NEW p \in Procs, Write(p) PROVE PadInv'
<1>1. proc[p].op = "write"
  BY DEF Write
<1>2. PICK n, more : proc[p] = [op |-> "write", n |-> n, more |-> more]
  BY <1>1 DEF PadInv, ProcInv, InHand, Shape
<1>3. n \in 1 .. made /\ n \notin returned /\ n \in Creations /\ clock \in Nat
  BY <1>1, <1>2, ConstantsAre DEF PadInv, ProcInv, InHand, Writers, PadTypeOK, Creations
<1>4. PICK x : x = [op |-> "evict", n |-> n, more |-> more]
  OBVIOUS
<1>5. x.op = "evict" /\ x.n = n /\ Shape(x)
  BY <1>4 DEF Shape
<1> DEFINE Full(f) == [id |-> f.id, n |-> f.n, binary |-> f.binary, time |-> clock + 1, full |-> TRUE]
<1>6. /\ clock' = clock + 1
      /\ dir' = {IF f.n = n THEN Full(f) ELSE f : f \in dir}
      /\ stamp' = [stamp EXCEPT ![n] = clock + 1]
      /\ made' = made /\ body' = body /\ opened' = opened /\ slug' = slug
      /\ returned' = returned /\ gone' = gone /\ untrimmed' = untrimmed
  BY <1>2 DEF Write
<1>7. Become(p, x)
  <2>1. [proc[p] EXCEPT !.op = "evict"] = x
    BY <1>2, <1>4
  <2> QED
    BY <2>1 DEF Write
<1>8. proc'[p] = x /\ Others(p)
  BY <1>7, BecomeIs DEF PadInv
<1> DEFINE File == [id : Ids, n : Creations, binary : BOOLEAN, time : Nat, full : BOOLEAN]
<1>9. ASSUME NEW f \in dir
      PROVE  /\ Full(f) \in File /\ Full(f).n = f.n /\ Full(f).id = f.id /\ Full(f).time = clock + 1
             /\ Full(f).binary = f.binary /\ Full(f).full = TRUE /\ f \in File
  <2>1. f \in File
    BY DEF PadInv, PadTypeOK
  <2>2. f.id \in Ids /\ f.n \in Creations
    BY <2>1
  <2>3. f.binary \in BOOLEAN
    BY <2>1
  <2>4. clock + 1 \in Nat
    BY <1>3
  <2>5. TRUE \in BOOLEAN
    OBVIOUS
  <2> QED
    BY <2>1, <2>2, <2>3, <2>4, <2>5
<1> HIDE DEF Full
<1>10. /\ stamp' \in [Creations -> Nat] /\ stamp'[n] = clock + 1
       /\ \A m \in Creations \ {n} : stamp'[m] = stamp[m]
       /\ \A m \in Creations : opened[m] \in Nat /\ stamp[m] \in Nat
  BY <1>3, <1>6 DEF PadInv, PadTypeOK
<1>11. PadTypeOK'
  <2>1. dir' \subseteq File
    BY <1>6, <1>9
  <2>2. \A q \in Procs : proc'[q].op \in Ops
    BY <1>5, <1>8 DEF PadInv, PadTypeOK, Others, Ops
  <2>3. clock' \in Nat
    BY <1>3, <1>6
  <2>4. made' \in 0 .. MaxCreates /\ body' \in [Creations -> Text] /\ opened' \in [Creations -> Nat]
        /\ slug' \in [Creations -> Ids \cup {None}] /\ returned' \subseteq 1 .. made'
        /\ gone' \subseteq 1 .. made'
    BY <1>6 DEF PadInv, PadTypeOK
  <2>5. untrimmed' \in BOOLEAN
    BY <1>6 DEF PadInv, PadTypeOK
  <2> QED
    BY <1>10, <2>1, <2>2, <2>3, <2>4, <2>5 DEF PadTypeOK, Ops
<1>12. ProcInv'
  <2>1. \A q \in Procs \ {p} : InHand(proc[q])'
    BY <1>6, <1>8 DEF PadInv, ProcInv, InHand, Others
  <2>2. InHand(x)'
    BY <1>3, <1>5, <1>6 DEF InHand, Writers
  <2> QED
    BY <1>7, <2>1, <2>2, ProcsAre DEF PadInv
<1>13. DirInv'
  <2>1. IsFiniteSet(dir')
    <3> DEFINE image == [f \in dir |-> IF f.n = n THEN Full(f) ELSE f]
    <3>1. image \in Surjection(dir, dir')
      BY <1>6 DEF Surjection
    <3> QED
      BY <3>1, FS_Surjection DEF PadInv, DirInv
  <2>2. ASSUME NEW g \in dir'
        PROVE  \E f \in dir : g.n = f.n /\ g.id = f.id /\ g = IF f.n = n THEN Full(f) ELSE f
    BY <1>6, <1>9
  <2>3. \A g \in dir' : g.n \in 1 .. made' /\ g.id = slug'[g.n]
    BY <1>6, <2>2 DEF PadInv, DirInv
  <2>4. ASSUME NEW g \in dir' PROVE g.time = stamp'[g.n]
    <3>1. PICK f \in dir : g.n = f.n /\ g = IF f.n = n THEN Full(f) ELSE f
      BY <2>2
    <3>2. f.n \in Creations /\ f.time = stamp[f.n]
      BY FilesAre DEF PadInv, DirInv
    <3> QED
      BY <1>9, <1>10, <3>1, <3>2
  <2>5. \A g, h \in dir' : g.n = h.n => g = h
    BY <2>2 DEF PadInv, DirInv
  <2> QED
    BY <2>1, <2>3, <2>4, <2>5 DEF DirInv
<1>14. ClockInv'
  <2>1. \A m \in Creations : opened[m] <= clock /\ stamp[m] <= clock
    BY <1>3, <1>10 DEF PadInv, ClockInv
  <2>2. \A m \in Creations : opened[m] <= stamp'[m] /\ stamp'[m] <= clock'
    BY <1>3, <1>6, <1>10, <2>1 DEF PadInv, ClockInv
  <2>3. ASSUME NEW i \in 1 .. made, NEW j \in 1 .. made,
               stamp'[i] \in {opened[j], stamp'[j]} \/ opened[i] \in {opened[j], stamp'[j]}
        PROVE  i = j
    <3>1. i \in Creations /\ j \in Creations
      BY ConstantsAre DEF PadInv, PadTypeOK, Creations
    <3>2. opened[i] # clock + 1 /\ opened[j] # clock + 1 /\ stamp[i] # clock + 1 /\ stamp[j] # clock + 1
      BY <1>3, <1>10, <2>1, <3>1
    <3>3. CASE i # n /\ j # n
      BY <1>10, <2>3, <3>1, <3>3 DEF PadInv, ClockInv
    <3>4. CASE i = n /\ j # n
      BY <1>10, <2>3, <3>1, <3>2, <3>4 DEF PadInv, ClockInv
    <3>5. CASE i # n /\ j = n
      BY <1>10, <2>3, <3>1, <3>2, <3>5 DEF PadInv, ClockInv
    <3> QED
      BY <3>3, <3>4, <3>5
  <2> QED
    BY <1>6, <2>2, <2>3 DEF ClockInv
<1>15. CreatorInv'
  <2>1. \A q, r \in Procs :
          proc'[q].op \in Writers /\ proc'[r].op \in Writers /\ proc'[q].n = proc'[r].n => q = r
    BY <1>2, <1>5, <1>8 DEF PadInv, CreatorInv, Others, Writers
  <2>2. ASSUME NEW q \in Procs, proc'[q].op = "write" PROVE stamp'[proc'[q].n] = opened'[proc'[q].n]
    <3>1. proc'[q] = proc[q] /\ q # p
      BY <1>5, <1>8, <2>2 DEF Others
    <3>2. proc[q].n # n /\ proc[q].n \in Creations
      BY <1>2, <2>2, <3>1, ConstantsAre
         DEF PadInv, CreatorInv, ProcInv, InHand, Writers, PadTypeOK, Creations
    <3> QED
      BY <1>6, <1>10, <2>2, <3>1, <3>2 DEF PadInv, CreatorInv
  <2> QED
    BY <2>1, <2>2 DEF CreatorInv
<1>16. TrimInv'
  BY <1>5, <1>8 DEF TrimInv
<1>17. OldestGo'
  <2>1. \A m \in Creations : stamp[m] <= stamp'[m] /\ stamp'[m] \in Nat
    BY <1>3, <1>10 DEF PadInv, ClockInv
  <2> QED
    BY <1>5, <1>6, <1>8, <2>1, OldestStep
<1> QED
  BY <1>11, <1>12, <1>13, <1>14, <1>15, <1>16, <1>17 DEF PadInv

(* A step that takes files away. *)
LEMMA ShrinkStep ==
  ASSUME PadInv, NEW p \in Procs, NEW x, Become(p, x), InHand(x), x.op \in Ops \ {"write", "evict"},
         x.op = "remove" => /\ proc[p].op = "remove" /\ x.n = proc[p].n
                            /\ x.victims \subseteq proc[p].victims,
         dir' \subseteq dir, gone' \subseteq 1 .. made,
         UNCHANGED <<clock, made, body, opened, stamp, slug, returned, untrimmed>>
  PROVE  PadTypeOK' /\ ProcInv' /\ DirInv' /\ ClockInv' /\ CreatorInv' /\ OldestGo'
<1>1. proc'[p] = x /\ Others(p)
  BY BecomeIs DEF PadInv
<1>2. /\ clock' = clock /\ made' = made /\ body' = body /\ opened' = opened
      /\ stamp' = stamp /\ slug' = slug /\ returned' = returned /\ untrimmed' = untrimmed
  OBVIOUS
<1>3. PadTypeOK'
  <2>1. \A q \in Procs : proc'[q].op \in Ops
    BY <1>1 DEF PadInv, PadTypeOK, Others, Ops
  <2> QED
    BY <1>2, <2>1 DEF PadInv, PadTypeOK, Ops
<1>4. ProcInv'
  <2>1. \A q \in Procs \ {p} : InHand(proc[q])'
    BY <1>1, <1>2 DEF PadInv, ProcInv, InHand, Others
  <2>2. InHand(x)'
    BY <1>2 DEF InHand
  <2> QED
    BY <2>1, <2>2, ProcsAre DEF PadInv
<1>5. DirInv'
  BY <1>2, FS_Subset DEF PadInv, DirInv
<1>6. ClockInv'
  BY <1>2 DEF PadInv, ClockInv
<1>7. CreatorInv'
  BY <1>1, <1>2 DEF PadInv, CreatorInv, Others, Writers
<1>8. OldestGo'
  <2>1. \A m \in Creations : stamp[m] \in Nat
    BY DEF PadInv, PadTypeOK
  <2> QED
    BY <1>1, <1>2, <2>1, OldestStep
<1> QED
  BY <1>3, <1>4, <1>5, <1>6, <1>7, <1>8

LEMMA WriteFailsStep ==
  ASSUME PadInv, NEW p \in Procs, WriteFails(p) PROVE PadInv'
<1>1. /\ proc[p].op = "write" /\ dir' = {f \in dir : f.n # proc[p].n}
      /\ gone' = gone \cup {proc[p].n} /\ Become(p, Idle)
      /\ UNCHANGED <<clock, made, body, opened, stamp, slug, returned, untrimmed>>
  BY DEF WriteFails
<1>2. gone' \subseteq 1 .. made /\ dir' \subseteq dir
  BY <1>1 DEF PadInv, PadTypeOK, ProcInv, InHand, Writers
<1>3. InHand(Idle) /\ Idle.op \in Ops \ {"write", "evict"} /\ Idle.op # "remove"
  BY DEF InHand, Shape, Idle, Ops, Writers
<1>4. PadTypeOK' /\ ProcInv' /\ DirInv' /\ ClockInv' /\ CreatorInv' /\ OldestGo'
  BY <1>1, <1>2, <1>3, ShrinkStep
<1>5. TrimInv'
  <2>1. Others(p) /\ untrimmed' = untrimmed
    BY <1>1, BecomeIs DEF PadInv
  <2>2. {f \in dir' : f.n \notin Writing'} \subseteq {f \in dir : f.n \notin Writing}
    <3>1. ASSUME NEW q \in Procs, proc[q].op = "write", proc[q].n # proc[p].n
          PROVE  proc[q].n \in Writing'
      BY <2>1, <3>1 DEF Others, Writing
    <3>2. \A m \in Writing : m \in Writing' \/ m = proc[p].n
      BY <3>1 DEF Writing
    <3> QED
      BY <1>1, <3>2
  <2> QED
    BY <1>1, <2>1, <2>2, TrimStep
<1> QED
  BY <1>4, <1>5 DEF PadInv

LEMMA DeleteStep ==
  ASSUME PadInv, NEW p \in Procs, Delete(p) PROVE PadInv'
<1>1. PICK n \in proc[p].ns :
        IF \E f \in dir : f.n = n
        THEN /\ dir' = {f \in dir : f.n # n}
             /\ gone' = gone \cup {n}
             /\ Become(p, IF proc[p].ns = {n} THEN Idle ELSE [proc[p] EXCEPT !.ns = @ \ {n}])
        ELSE Become(p, Idle) /\ UNCHANGED <<dir, gone>>
  BY DEF Delete
<1>2. proc[p].op = "delete"
      /\ UNCHANGED <<clock, made, body, opened, stamp, slug, returned, untrimmed>>
  BY DEF Delete
<1>3. PICK ns : proc[p] = [op |-> "delete", ns |-> ns] /\ ns \subseteq 1 .. made
  BY <1>2 DEF PadInv, ProcInv, InHand, Shape
<1>4. PICK x : Become(p, x) /\ InHand(x) /\ x.op \in {"idle", "delete"}
  <2>1. Idle.op = "idle" /\ InHand(Idle)
    BY DEF InHand, Shape, Idle, Writers
  <2> DEFINE y == [op |-> "delete", ns |-> ns \ {n}]
  <2>2. y.op = "delete" /\ InHand(y) /\ [proc[p] EXCEPT !.ns = @ \ {n}] = y
    BY <1>3 DEF InHand, Shape, Writers
  <2>3. Become(p, Idle) \/ Become(p, y)
    BY <1>1, <2>2
  <2> QED
    BY <2>1, <2>2, <2>3
<1>5. x.op \in Ops \ {"write", "evict"} /\ x.op # "remove"
  BY <1>4 DEF Ops
<1>6. gone' \subseteq 1 .. made /\ dir' \subseteq dir
  BY <1>1, <1>3 DEF PadInv, PadTypeOK
<1>7. PadTypeOK' /\ ProcInv' /\ DirInv' /\ ClockInv' /\ CreatorInv' /\ OldestGo'
  BY <1>2, <1>4, <1>5, <1>6, ShrinkStep
<1>8. TrimInv'
  <2>1. proc'[p] = x /\ Others(p) /\ untrimmed' = untrimmed
    BY <1>2, <1>4, BecomeIs DEF PadInv
  <2>2. Writing' = Writing
    BY <1>2, <1>5, <2>1 DEF Others, Writing
  <2>3. {f \in dir' : f.n \notin Writing'} \subseteq {f \in dir : f.n \notin Writing}
    BY <1>6, <2>2
  <2> QED
    BY <1>2, <2>1, <2>3, TrimStep
<1> QED
  BY <1>7, <1>8 DEF PadInv

-----------------------------------------------------------------------------
(* Evicting. *)

LEMMA RemoveVictimStep ==
  ASSUME PadInv, NEW p \in Procs, RemoveVictim(p) PROVE PadInv'
<1>1. PICK n \in proc[p].victims :
        /\ dir' = {f \in dir : f.n # n}
        /\ gone' = gone \cup {n}
        /\ Become(p, [proc[p] EXCEPT !.victims = @ \ {n}])
  BY DEF RemoveVictim
<1>2. proc[p].op = "remove"
      /\ UNCHANGED <<clock, made, body, opened, stamp, slug, returned, untrimmed>>
  BY DEF RemoveVictim
<1>3. PICK m, more, victims :
        proc[p] = [op |-> "remove", n |-> m, more |-> more, victims |-> victims]
  BY <1>2 DEF PadInv, ProcInv, InHand, Shape
<1>4. victims \subseteq 1 .. made /\ m \in 1 .. made /\ m \notin returned /\ n \in victims
  BY <1>1, <1>2, <1>3 DEF PadInv, ProcInv, InHand, Writers
<1>5. PICK x : x = [op |-> "remove", n |-> m, more |-> more, victims |-> victims \ {n}]
  OBVIOUS
<1>6. x.op = "remove" /\ x.n = m /\ x.victims = victims \ {n} /\ Shape(x)
  BY <1>5 DEF Shape
<1>7. Become(p, x) /\ InHand(x)
  <2>1. [proc[p] EXCEPT !.victims = @ \ {n}] = x
    BY <1>3, <1>5
  <2> QED
    BY <1>1, <1>4, <1>6, <2>1 DEF InHand, Writers
<1>8. gone' \subseteq 1 .. made /\ dir' \subseteq dir
  BY <1>1, <1>4 DEF PadInv, PadTypeOK
<1>9. x.op \in Ops \ {"write", "evict"} /\ x.n = proc[p].n /\ x.victims \subseteq proc[p].victims
  BY <1>3, <1>6 DEF Ops
<1>10. PadTypeOK' /\ ProcInv' /\ DirInv' /\ ClockInv' /\ CreatorInv' /\ OldestGo'
  BY <1>2, <1>7, <1>8, <1>9, ShrinkStep
<1>11. TrimInv'
  <2>1. proc'[p] = x /\ Others(p) /\ untrimmed' = untrimmed
    BY <1>2, <1>7, BecomeIs DEF PadInv
  <2>2. Writing' = Writing
    BY <1>2, <1>6, <2>1 DEF Others, Writing
  <2>3. {f \in dir' : f.n \notin x.victims /\ f.n \notin Writing'}
          = {f \in dir : f.n \notin victims /\ f.n \notin Writing}
    BY <1>1, <1>4, <1>6, <2>2
  <2>4. ASSUME NEW v
        PROVE  {f \in dir' : f.n \notin v /\ f.n \notin Writing'} \subseteq Without(v)
    BY <1>1, <2>2 DEF Without
  <2>5. CASE untrimmed
    BY <2>1, <2>5 DEF TrimInv
  <2>6. CASE \E q \in Procs : proc[q].op = "evict"
    BY <1>2, <2>1, <2>6 DEF TrimInv, Others
  <2>7. CASE Cardinality(Without({})) <= Cap
    <3>1. Cardinality({f \in dir' : f.n \notin {} /\ f.n \notin Writing'}) <= Cap
      BY <2>4, <2>7, Fewer, WithoutIsFinite DEF PadInv
    <3> QED
      BY <3>1 DEF TrimInv, Without
  <2>8. ASSUME NEW q \in Procs, proc[q].op = "remove", Cardinality(Without(proc[q].victims)) <= Cap
        PROVE  TrimInv'
    <3>1. CASE q = p
      <4>1. proc[p].victims = victims
        BY <1>3
      <4>2. Cardinality({f \in dir' : f.n \notin x.victims /\ f.n \notin Writing'}) <= Cap
        BY <2>3, <2>8, <3>1, <4>1 DEF Without
      <4>3. Cardinality({f \in dir' : f.n \notin proc'[p].victims /\ f.n \notin Writing'}) <= Cap
        BY <2>1, <4>2
      <4> QED
        BY <1>6, <2>1, <4>3 DEF TrimInv, Without
    <3>2. CASE q # p
      <4>1. proc'[q] = proc[q]
        BY <2>1, <3>2 DEF Others
      <4> DEFINE v == proc[q].victims
      <4>2. Cardinality({f \in dir' : f.n \notin v /\ f.n \notin Writing'}) <= Cap
        BY <2>4, <2>8, Fewer, WithoutIsFinite DEF PadInv
      <4>3. Cardinality({f \in dir' : f.n \notin proc'[q].victims /\ f.n \notin Writing'}) <= Cap
        BY <4>1, <4>2
      <4> QED
        BY <4>1, <4>3, <2>8 DEF TrimInv, Without
    <3> QED
      BY <3>1, <3>2
  <2> QED
    BY <2>5, <2>6, <2>7, <2>8 DEF PadInv, TrimInv
<1> QED
  BY <1>10, <1>11 DEF PadInv

LEMMA ReturnEntryStep ==
  ASSUME PadInv, NEW p \in Procs, ReturnEntry(p) PROVE PadInv'
<1>1. /\ proc[p].op = "remove" /\ proc[p].victims = {} /\ returned' = returned \cup {proc[p].n}
      /\ UNCHANGED <<dir, clock, made, body, opened, stamp, slug, gone, untrimmed>>
  BY DEF ReturnEntry
<1>2. PICK err \in Outputs :
        Become(p, IF proc[p].more /\ made < MaxCreates THEN Store(err.text, err.binary) ELSE Idle)
  BY DEF ReturnEntry
<1>3. PICK x : Become(p, x) /\ InHand(x) /\ x.op \in {"idle", "pick"}
  <2>1. Idle.op = "idle" /\ InHand(Idle)
    BY DEF InHand, Shape, Idle, Writers
  <2>2. InHand(Store(err.text, err.binary)) /\ Store(err.text, err.binary).op = "pick"
    BY OutputsAre, StoreIsInHand
  <2>3. Become(p, Idle) \/ Become(p, Store(err.text, err.binary))
    BY <1>2
  <2> QED
    BY <2>1, <2>2, <2>3
<1>4. proc'[p] = x /\ Others(p)
  BY <1>3, BecomeIs DEF PadInv
<1>5. /\ dir' = dir /\ clock' = clock /\ made' = made /\ body' = body /\ opened' = opened
      /\ stamp' = stamp /\ slug' = slug /\ gone' = gone /\ untrimmed' = untrimmed
  BY <1>1
<1>6. proc[p].n \in 1 .. made
  BY <1>1 DEF PadInv, ProcInv, InHand, Writers
<1>7. PadTypeOK'
  <2>1. \A q \in Procs : proc'[q].op \in Ops
    BY <1>3, <1>4 DEF PadInv, PadTypeOK, Others, Ops
  <2> QED
    BY <1>1, <1>5, <1>6, <2>1 DEF PadInv, PadTypeOK, Ops
<1>8. ProcInv'
  <2>1. ASSUME NEW q \in Procs \ {p} PROVE InHand(proc[q])'
    <3>1. proc'[q] = proc[q] /\ InHand(proc[q])
      BY <1>4 DEF PadInv, ProcInv, Others
    <3>2. proc[q].op \in Writers => proc[q].n # proc[p].n
      BY <1>1 DEF PadInv, CreatorInv, Writers
    <3> QED
      BY <1>1, <1>5, <3>1, <3>2 DEF InHand
  <2>2. InHand(x)'
    BY <1>3, <1>5 DEF InHand, Writers
  <2> QED
    BY <1>3, <2>1, <2>2, ProcsAre DEF PadInv
<1>9. DirInv' /\ ClockInv'
  BY <1>5 DEF PadInv, DirInv, ClockInv
<1>10. CreatorInv'
  BY <1>3, <1>4, <1>5 DEF PadInv, CreatorInv, Others, Writers
<1>11. TrimInv'
  <2>1. Writing' = Writing
    BY <1>1, <1>3, <1>4 DEF Others, Writing
  <2> QED
    BY <1>1, <1>4, <1>5, <2>1, TrimStep
<1>12. OldestGo'
  <2>1. \A m \in Creations : stamp[m] \in Nat
    BY DEF PadInv, PadTypeOK
  <2> QED
    BY <1>3, <1>4, <1>5, <2>1, OldestStep
<1> QED
  BY <1>7, <1>8, <1>9, <1>10, <1>11, <1>12 DEF PadInv

LEMMA CrashStep ==
  ASSUME PadInv, NEW p \in Procs, Crash(p) PROVE PadInv'
<1>1. /\ untrimmed' = TRUE /\ Become(p, Idle)
      /\ UNCHANGED <<dir, clock, made, body, opened, stamp, slug, returned, gone>>
  BY DEF Crash
<1>2. proc'[p] = Idle /\ Others(p) /\ Idle.op = "idle"
  BY <1>1, BecomeIs DEF PadInv, Idle
<1>3. /\ dir' = dir /\ clock' = clock /\ made' = made /\ body' = body /\ opened' = opened
      /\ stamp' = stamp /\ slug' = slug /\ gone' = gone /\ returned' = returned
  BY <1>1
<1>4. PadTypeOK'
  <2>1. untrimmed' \in BOOLEAN
    BY <1>1
  <2>2. \A q \in Procs : proc'[q].op \in Ops
    BY <1>2 DEF PadInv, PadTypeOK, Others, Ops
  <2>3. /\ dir' \subseteq [id : Ids, n : Creations, binary : BOOLEAN, time : Nat, full : BOOLEAN]
        /\ clock' \in Nat /\ made' \in 0 .. MaxCreates /\ body' \in [Creations -> Text]
        /\ opened' \in [Creations -> Nat] /\ stamp' \in [Creations -> Nat]
        /\ slug' \in [Creations -> Ids \cup {None}] /\ returned' \subseteq 1 .. made'
        /\ gone' \subseteq 1 .. made'
    BY <1>3 DEF PadInv, PadTypeOK
  <2> QED
    BY <2>1, <2>2, <2>3 DEF PadTypeOK, Ops
<1>5. ProcInv'
  <2>1. \A q \in Procs \ {p} : InHand(proc[q])'
    BY <1>2, <1>3 DEF PadInv, ProcInv, InHand, Others
  <2>2. InHand(Idle)'
    BY DEF InHand, Shape, Idle, Writers
  <2> QED
    BY <1>1, <2>1, <2>2, ProcsAre DEF PadInv
<1>6. DirInv' /\ ClockInv'
  BY <1>3 DEF PadInv, DirInv, ClockInv
<1>7. CreatorInv'
  BY <1>2, <1>3 DEF PadInv, CreatorInv, Others, Writers
<1>8. TrimInv'
  BY <1>1 DEF TrimInv
<1>9. OldestGo'
  <2>1. \A m \in Creations : stamp[m] \in Nat
    BY DEF PadInv, PadTypeOK
  <2> QED
    BY <1>2, <1>3, <2>1, OldestStep
<1> QED
  BY <1>4, <1>5, <1>6, <1>7, <1>8, <1>9 DEF PadInv

(* What eviction takes: the directory without it is within the cap, and as many
   as the cap were written later than any of it was opened. *)
LEMMA VictimsAre ==
  ASSUME PadInv
  PROVE  /\ Victims \subseteq 1 .. made
         /\ Cardinality({f \in dir : f.n \notin Victims}) <= Cap
         /\ \A n \in Victims : Cardinality({m \in Creations : stamp[m] > opened[n]}) >= Cap
<1>0. PICK s, c, k : s = OldestFirst(dir) /\ c = Cardinality(dir) /\ k = Excess
  OBVIOUS
<1>01. PICK K : K = First(s, k)
  OBVIOUS
<1>1. IsFiniteSet(dir) /\ \A f \in dir : f.time \in Nat /\ f.n \in Creations
  BY FilesAre DEF PadInv, DirInv, PadTypeOK
<1>2. ASSUME NEW f \in dir, NEW g \in dir, f.time = g.time PROVE f = g
  <2>1. f.n \in 1 .. made /\ g.n \in 1 .. made /\ stamp[f.n] = stamp[g.n]
    BY <1>2 DEF PadInv, DirInv
  <2>2. f.n = g.n
    BY <2>1 DEF PadInv, ClockInv
  <2> QED
    BY <2>2 DEF PadInv, DirInv
<1>3. /\ c \in Nat /\ s \in [1 .. c -> dir]
      /\ \A i, j \in 1 .. c : i < j => s[i].time < s[j].time
      /\ \A f \in dir : \E i \in 1 .. c : s[i] = f
  BY <1>0, <1>1, <1>2, OldestFirstIs
<1>4. k \in 0 .. c /\ (k = 0 \/ k = c - Cap) /\ c - k <= Cap
  BY <1>0, <1>3, ConstantsAre DEF Excess
<1>5. \A i, j \in 1 .. c : s[i] = s[j] => i = j
  <2> SUFFICES ASSUME NEW i \in 1 .. c, NEW j \in 1 .. c, s[i] = s[j] PROVE i = j
    OBVIOUS
  <2>1. s[i].time \in Nat /\ s[i].time = s[j].time
    BY <1>1, <1>3
  <2>2. ~ (i < j) /\ ~ (j < i)
    BY <1>3, <2>1
  <2> QED
    BY <1>3, <2>2
<1>6. Range(SubSeq(s, 1, k)) = K /\ IsFiniteSet(K) /\ Cardinality(K) = k
  <2>1. c \in Nat /\ s \in [1 .. c -> dir] /\ k \in 0 .. c
    BY <1>3, <1>4
  <2> QED
    BY <1>01, <1>5, <2>1, FirstOnes
<1>7. Victims = {f.n : f \in K}
  BY <1>0, <1>6 DEF Victims
<1>8. K \subseteq dir
  BY <1>01, <1>3, <1>4 DEF First
<1>9. Victims \subseteq 1 .. made
  BY <1>7, <1>8 DEF PadInv, DirInv
<1>10. Cardinality({f \in dir : f.n \notin Victims}) <= Cap
  <2>1. {f \in dir : f.n \notin Victims} \subseteq dir \ K
    BY <1>7
  <2>2. IsFiniteSet(dir \ K) /\ Cardinality(dir \ K) = c - k
    <3>1. dir \cap K = K
      BY <1>8
    <3>2. IsFiniteSet(dir \ K) /\ Cardinality(dir \ K) = Cardinality(dir) - Cardinality(dir \cap K)
      BY <1>1, FS_Difference
    <3> QED
      BY <1>0, <1>6, <3>1, <3>2
  <2> QED
    BY <1>4, <2>1, <2>2, Fewer
<1>11. ASSUME NEW n \in Victims PROVE Cardinality({m \in Creations : stamp[m] > opened[n]}) >= Cap
  <2>1. PICK i \in 1 .. k : n = s[i].n
    BY <1>01, <1>7 DEF First
  <2>2. i \in 1 .. c /\ k = c - Cap /\ k < c
    BY <1>3, <1>4, ConstantsAre
  <2> DEFINE T == {m \in Creations : stamp[m] > opened[n]}
             late == [j \in k + 1 .. c |-> s[j].n]
  <2>3. n \in Creations /\ opened[n] \in Nat /\ opened[n] <= s[i].time /\ s[i].time \in Nat
    <3>1. s[i] \in dir
      BY <1>3, <2>2
    <3>2. n \in Creations /\ s[i].time = stamp[n]
      BY <1>1, <2>1, <3>1 DEF PadInv, DirInv
    <3> QED
      BY <1>1, <3>1, <3>2 DEF PadInv, ClockInv, PadTypeOK
  <2>4. ASSUME NEW j \in k + 1 .. c PROVE s[j].n \in T
    <3>1. j \in 1 .. c /\ i < j /\ s[j] \in dir
      BY <1>3, <1>4, <2>1
    <3>2. s[i].time < s[j].time
      BY <1>3, <2>2, <3>1
    <3>3. s[j].n \in Creations /\ stamp[s[j].n] = s[j].time /\ s[j].time \in Nat
      BY <1>1, <3>1 DEF PadInv, DirInv
    <3> QED
      BY <2>3, <3>2, <3>3
  <2>5. late \in Injection(k + 1 .. c, T)
    <3>1. ASSUME NEW j \in k + 1 .. c, NEW l \in k + 1 .. c, s[j].n = s[l].n PROVE j = l
      <4>1. j \in 1 .. c /\ l \in 1 .. c
        BY <1>3, <1>4
      <4>2. s[j] = s[l]
        BY <1>3, <3>1, <4>1 DEF PadInv, DirInv
      <4> QED
        BY <1>5, <4>1, <4>2
    <3> HIDE DEF T
    <3> QED
      BY <2>4, <3>1 DEF Injection, IsInjective
  <2>6. IsFiniteSet(T)
    <3>1. IsFiniteSet(Creations)
      BY FS_Interval, ConstantsAre DEF Creations
    <3> QED
      BY <3>1, FS_Subset
  <2>7. Cardinality(k + 1 .. c) = Cap
    BY <1>3, <1>4, <2>2, FS_Interval, ConstantsAre
  <2>8. Cardinality(k + 1 .. c) <= Cardinality(T) /\ Cardinality(T) \in Nat
    BY <2>5, <2>6, FS_Injection, FS_CardinalityType
  <2> QED
    BY <2>7, <2>8, ConstantsAre
<1> QED
  BY <1>9, <1>10, <1>11

LEMMA ListStep ==
  ASSUME PadInv, NEW p \in Procs, List(p) PROVE PadInv'
<1>1. /\ proc[p].op = "evict" /\ untrimmed' = FALSE
      /\ UNCHANGED <<dir, clock, made, body, opened, stamp, slug, returned, gone>>
  BY DEF List
<1>2. PICK victims : victims = Victims
  OBVIOUS
<1>3. PICK x : x = [op |-> "remove", n |-> proc[p].n, more |-> proc[p].more, victims |-> victims]
  OBVIOUS
<1>4. Become(p, x)
  BY <1>2, <1>3 DEF List
<1>5. x.op = "remove" /\ x.n = proc[p].n /\ x.victims = victims /\ Shape(x)
  BY <1>3 DEF Shape
<1>6. proc'[p] = x /\ Others(p)
  BY <1>4, BecomeIs DEF PadInv
<1>7. /\ dir' = dir /\ clock' = clock /\ made' = made /\ body' = body /\ opened' = opened
      /\ stamp' = stamp /\ slug' = slug /\ gone' = gone /\ returned' = returned
  BY <1>1
<1>8. PadTypeOK'
  <2>1. untrimmed' \in BOOLEAN
    BY <1>1
  <2>2. \A q \in Procs : proc'[q].op \in Ops
    BY <1>5, <1>6 DEF PadInv, PadTypeOK, Others, Ops
  <2>3. /\ dir' \subseteq [id : Ids, n : Creations, binary : BOOLEAN, time : Nat, full : BOOLEAN]
        /\ clock' \in Nat /\ made' \in 0 .. MaxCreates /\ body' \in [Creations -> Text]
        /\ opened' \in [Creations -> Nat] /\ stamp' \in [Creations -> Nat]
        /\ slug' \in [Creations -> Ids \cup {None}] /\ returned' \subseteq 1 .. made'
        /\ gone' \subseteq 1 .. made'
    BY <1>7 DEF PadInv, PadTypeOK
  <2> QED
    BY <2>1, <2>2, <2>3 DEF PadTypeOK, Ops
<1>9. ProcInv'
  <2>1. \A q \in Procs \ {p} : InHand(proc[q])'
    BY <1>6, <1>7 DEF PadInv, ProcInv, InHand, Others
  <2>2. proc[p].n \in 1 .. made /\ proc[p].n \notin returned /\ victims \subseteq 1 .. made
    BY <1>1, <1>2, VictimsAre DEF PadInv, ProcInv, InHand, Writers
  <2>3. InHand(x)'
    BY <1>5, <1>7, <2>2 DEF InHand, Writers
  <2> QED
    BY <1>4, <2>1, <2>3, ProcsAre DEF PadInv
<1>10. DirInv' /\ ClockInv'
  BY <1>7 DEF PadInv, DirInv, ClockInv
<1>11. CreatorInv'
  BY <1>1, <1>5, <1>6, <1>7 DEF PadInv, CreatorInv, Others, Writers
<1>12. TrimInv'
  <2>1. {f \in dir' : f.n \notin victims /\ f.n \notin Writing'} \subseteq {f \in dir : f.n \notin victims}
    BY <1>7
  <2>2. IsFiniteSet({f \in dir : f.n \notin victims})
    BY FS_Subset DEF PadInv, DirInv
  <2>3. Cardinality({f \in dir : f.n \notin victims}) <= Cap
    BY <1>2, VictimsAre
  <2>4. Cardinality({f \in dir' : f.n \notin victims /\ f.n \notin Writing'}) <= Cap
    BY <2>1, <2>2, <2>3, Fewer
  <2>5. Cardinality({f \in dir' : f.n \notin proc'[p].victims /\ f.n \notin Writing'}) <= Cap
    BY <1>5, <1>6, <2>4
  <2> QED
    BY <1>5, <1>6, <2>5 DEF TrimInv, Without
<1>13. OldestGo'
  <2> SUFFICES ASSUME NEW q \in Procs, proc'[q].op = "remove", NEW n \in proc'[q].victims
               PROVE  Cardinality({m \in Creations : stamp[m] > opened[n]}) >= Cap
    BY <1>7 DEF OldestGo
  <2>1. CASE q = p
    BY <1>2, <1>5, <1>6, <2>1, VictimsAre
  <2>2. CASE q # p
    BY <1>6, <2>2 DEF PadInv, OldestGo, Others
  <2> QED
    BY <2>1, <2>2
<1> QED
  BY <1>8, <1>9, <1>10, <1>11, <1>12, <1>13 DEF PadInv

-----------------------------------------------------------------------------
(* Every step. *)

LEMMA PadInvStep == PadInv /\ [PadNext]_padVars => PadInv'
<1> SUFFICES ASSUME PadInv, [PadNext]_padVars PROVE PadInv'
  OBVIOUS
<1>1. CASE UNCHANGED padVars
  <2>1. /\ dir' = dir /\ clock' = clock /\ made' = made /\ body' = body /\ opened' = opened
        /\ stamp' = stamp /\ slug' = slug /\ gone' = gone /\ returned' = returned
        /\ untrimmed' = untrimmed /\ proc' = proc
    BY <1>1 DEF padVars
  <2>2. PadTypeOK' /\ DirInv' /\ ClockInv' /\ OldestGo'
    BY <2>1 DEF PadInv, PadTypeOK, DirInv, ClockInv, OldestGo
  <2>3. ProcInv' /\ CreatorInv'
    BY <2>1 DEF PadInv, ProcInv, InHand, CreatorInv
  <2>4. TrimInv'
    BY <2>1 DEF PadInv, TrimInv, Without, Writing
  <2> QED
    BY <2>2, <2>3, <2>4 DEF PadInv
<1>2. ASSUME NEW p \in Procs, Step(p) PROVE PadInv'
  <2>1. CASE StartRead(p) \/ StartSearch(p) \/ StartDiff(p) \/ Read(p)
    BY <2>1, StartReadStep, StartSearchStep, StartDiffStep, ReadStep
  <2>2. CASE Got(p) \/ StartList(p) \/ ListEntry(p) \/ ListScratchpads(p) \/ ReadListed(p)
    BY <2>2, ListingStep
  <2>3. CASE StartTool(p) \/ CheckArgs(p) \/ CheckStdin(p) \/ StreamInput(p) \/ RunTool(p)
    BY <2>3, StartToolStep, CheckStep, StreamInputStep, RunToolStep
  <2>4. CASE StartCreate(p) \/ ExpandFind(p) \/ ExpandRead(p) \/ Pick(p) \/ StartDelete(p)
    BY <2>4, StartCreateStep, ExpandFindStep, ExpandReadStep, PickStep, StartDeleteStep
  <2>5. CASE Open(p) \/ Write(p) \/ WriteFails(p) \/ Delete(p) \/ Crash(p)
    BY <2>5, OpenStep, WriteStep, WriteFailsStep, DeleteStep, CrashStep
  <2>6. CASE List(p) \/ RemoveVictim(p) \/ ReturnEntry(p)
    BY <2>6, ListStep, RemoveVictimStep, ReturnEntryStep
  <2> QED
    BY <1>2, <2>1, <2>2, <2>3, <2>4, <2>5, <2>6 DEF Step
<1> QED
  BY <1>1, <1>2 DEF PadNext

(* Every reachable state of the scratchpad satisfies its inductive invariant. *)
THEOREM PadInvariance == PadSpec => []PadInv
<1>1. PadInit => PadInv
  BY PadInvInit
<1>2. PadInv /\ [PadNext]_padVars => PadInv'
  BY PadInvStep
<1> QED
  BY <1>1, <1>2, PTL DEF PadSpec

LEMMA InvariantCap == PadInv => CapHolds
<1> SUFFICES ASSUME PadInv, \A p \in Procs : proc[p].op \notin Creating, ~untrimmed
             PROVE  Cardinality(dir) <= Cap
  BY DEF CapHolds
<1>1. Writing = {} /\ \A p \in Procs : proc[p].op \notin {"evict", "remove"}
  BY DEF Creating, Writing
<1>2. Without({}) = dir
  BY <1>1 DEF Without
<1> QED
  BY <1>1, <1>2 DEF PadInv, TrimInv

(* Eviction keeps the directory within its cap whenever nobody is in the middle of
   a creation and no creator died since it was last listed, and it takes an entry
   only when as many as the cap were opened or written later, whoever creates,
   reads, deletes or dies at the time (scratchpad.go:180-217). *)
THEOREM EvictionIsSound == PadSpec => []EvictionSound
<1>1. PadInv => EvictionSound
  BY InvariantCap DEF PadInv, EvictionSound
<1> QED
  BY <1>1, PadInvariance, PTL

-----------------------------------------------------------------------------
(* Reading. *)

(* What a step leaves of what creations are. *)
Grows ==
  /\ 1 .. made \subseteq 1 .. made'
  /\ \A n \in 1 .. made : body'[n] = body[n] /\ slug'[n] = slug[n] /\ opened'[n] = opened[n]
  /\ \A n \in 1 .. made : stamp'[n] = stamp[n] \/ stamp[n] = opened[n]
  /\ \A n \in returned : stamp'[n] = stamp[n]
  /\ returned \subseteq returned' /\ gone \subseteq gone'
  /\ \A f \in dir' : f.n \in 1 .. made => \E g \in dir : g.n = f.n /\ (g.full => f.full)

LEMMA StoredStays ==
  ASSUME Grows, NEW part, Stored(part) PROVE Stored(part)'
<1>1. PICK n \in 1 .. made :
        /\ slug[n] = part.id
        /\ IF ~part.found THEN n \in gone
           ELSE IF part.early THEN part.page = <<>> \/ part.page = body[n]
           ELSE /\ \A i \in DOMAIN part.page : part.page[i] = body[n][part.skip + i]
                /\ Len(part.page) = part.num \/ part.skip + Len(part.page) >= Len(body[n])
                /\ part.line # None => part.page = <<part.line>>
  BY DEF Stored
<1>2. n \in 1 .. made' /\ slug'[n] = slug[n] /\ body'[n] = body[n] /\ gone \subseteq gone'
  BY DEF Grows
<1>3. /\ slug'[n] = part.id
      /\ IF ~part.found THEN n \in gone'
         ELSE IF part.early THEN part.page = <<>> \/ part.page = body'[n]
         ELSE /\ \A i \in DOMAIN part.page : part.page[i] = body'[n][part.skip + i]
              /\ Len(part.page) = part.num \/ part.skip + Len(part.page) >= Len(body'[n])
              /\ part.line # None => part.page = <<part.line>>
  BY <1>1, <1>2
<1> QED
  BY <1>2, <1>3 DEF Stored

LEMMA KnownStays ==
  ASSUME PadInv, Grows
  PROVE  /\ \A id : id \in Known => id \in {slug'[n] : n \in returned'}
         /\ \A id : id \in Used => id \in {slug'[n] : n \in 1 .. made'}
         /\ Known \subseteq Used
<1>1. returned \subseteq 1 .. made
  BY DEF PadInv, PadTypeOK
<1> QED
  BY <1>1 DEF Grows, Known, Used

LEMMA LocatedStays ==
  ASSUME Grows, NEW r, Located(r) PROVE Located(r)'
<1>1. PICK n \in 1 .. made :
        /\ slug[n] = r.id /\ r.num = 1
        /\ r.skip + 1 \in 1 .. Len(body[n]) /\ body[n][r.skip + 1] = r.line
        /\ \A f \in dir : f.n = n => f.full
  BY DEF Located
<1>2. n \in 1 .. made' /\ slug'[n] = slug[n] /\ body'[n] = body[n]
  BY DEF Grows
<1>3. \A f \in dir' : f.n = n => f.full
  BY <1>1 DEF Grows
<1> QED
  BY <1>1, <1>2, <1>3 DEF Located

LEMMA ReaderStays ==
  ASSUME PadInv, Grows, NEW r, ReaderHas(r) PROVE ReaderHas(r)'
<1> SUFFICES ASSUME r.op = "read"
             PROVE  /\ r.id \in Used' /\ r.skip \in Nat /\ r.num \in Nat
                    /\ r.id \in Known' \/ (r.skip = 0 /\ r.num = Whole /\ r.line = None)
                    /\ r.line # None => Located(r)'
                    /\ r.then # None => r.then \in Known' /\ r.parts = <<>>
                    /\ r.parts = <<>> \/ (r.parts = <<r.parts[1]>> /\ Stored(r.parts[1])')
  BY DEF ReaderHas
<1>1. /\ r.id \in Used /\ r.skip \in Nat /\ r.num \in Nat
      /\ r.id \in Known \/ (r.skip = 0 /\ r.num = Whole /\ r.line = None)
      /\ r.line # None => Located(r)
      /\ r.then # None => r.then \in Known /\ r.parts = <<>>
      /\ r.parts = <<>> \/ (r.parts = <<r.parts[1]>> /\ Stored(r.parts[1]))
  BY DEF ReaderHas
<1>2. \A id : (id \in Known => id \in Known') /\ (id \in Used => id \in Used')
  BY KnownStays DEF Known, Used
<1>3. r.line # None => Located(r)'
  BY <1>1, LocatedStays
<1>4. Stored(r.parts[1]) => Stored(r.parts[1])'
  BY StoredStays
<1> QED
  BY <1>1, <1>2, <1>3, <1>4

LEMMA AnswerStays ==
  ASSUME PadInv, Grows, NEW r, AnswerHas(r) PROVE AnswerHas(r)'
<1>1. r.op \in {"input", "stream", "expand", "splice"} => r.id \in Known'
  BY KnownStays DEF AnswerHas, Known
<1>2. ASSUME r.op \in {"got", "run"}, NEW i \in DOMAIN r.parts PROVE Stored(r.parts[i])'
  <2>1. Stored(r.parts[i])
    BY <1>2 DEF AnswerHas
  <2> QED
    BY <2>1, StoredStays
<1> QED
  BY <1>1, <1>2 DEF AnswerHas

LEMMA ListStays ==
  ASSUME PadInv, Grows, NEW r, ListHas(r) PROVE ListHas(r)'
<1> SUFFICES ASSUME r.op = "list"
             PROVE  /\ IsFiniteSet(r.seen) /\ r.left \subseteq 1 .. made' /\ r.there \subseteq returned'
                    /\ \A s \in r.seen : s.n \notin r.left /\ Seen(s)'
                    /\ \A s \in r.seen : s.n \in r.there => s.time = stamp'[s.n]
                    /\ \A s, t \in r.seen : s.n = t.n => s = t
                    /\ \A n \in r.there : n \in gone' \/ n \in r.left \/ \E s \in r.seen : s.n = n
  BY DEF ListHas
<1>1. /\ IsFiniteSet(r.seen) /\ r.left \subseteq 1 .. made /\ r.there \subseteq returned
      /\ \A s \in r.seen : s.n \notin r.left /\ Seen(s)
      /\ \A s \in r.seen : s.n \in r.there => s.time = stamp[s.n]
      /\ \A s, t \in r.seen : s.n = t.n => s = t
      /\ \A n \in r.there : n \in gone \/ n \in r.left \/ \E s \in r.seen : s.n = n
  BY DEF ListHas
<1>2. ASSUME NEW s \in r.seen PROVE Seen(s)'
  <2>1. /\ s.n \in 1 .. made /\ s.id = slug[s.n] /\ s.time \in Nat
        /\ s.time \in {opened[s.n], stamp[s.n]}
    BY <1>1 DEF Seen
  <2>2. /\ s.n \in 1 .. made' /\ slug'[s.n] = slug[s.n] /\ opened'[s.n] = opened[s.n]
        /\ stamp'[s.n] = stamp[s.n] \/ stamp[s.n] = opened[s.n]
    BY <2>1 DEF Grows
  <2> QED
    BY <2>1, <2>2 DEF Seen
<1>3. \A s \in r.seen : s.n \in r.there => s.time = stamp'[s.n]
  BY <1>1 DEF Grows
<1>4. r.left \subseteq 1 .. made' /\ r.there \subseteq returned' /\ gone \subseteq gone'
  BY <1>1 DEF Grows
<1> QED
  BY <1>1, <1>2, <1>3, <1>4

LEMMA ListedStays ==
  ASSUME PadInv, Grows, NEW r, ListedHas(r) PROVE ListedHas(r)'
<1> SUFFICES ASSUME r.op = "listed"
             PROVE  /\ r.there \subseteq returned'
                    /\ \A i \in DOMAIN r.items :
                         r.items[i].n \in 1 .. made' /\ r.items[i].id = slug'[r.items[i].n]
                    /\ \A n \in r.there : n \in gone' \/ \E i \in DOMAIN r.items : r.items[i].n = n
                    /\ \A i, j \in DOMAIN r.items :
                         r.items[i].n \in r.there /\ r.items[j].n \in r.there =>
                           (i < j <=> stamp'[r.items[i].n] < stamp'[r.items[j].n])
  BY DEF ListedHas
<1>1. /\ r.there \subseteq returned
      /\ \A i \in DOMAIN r.items : r.items[i].n \in 1 .. made /\ r.items[i].id = slug[r.items[i].n]
      /\ \A n \in r.there : n \in gone \/ \E i \in DOMAIN r.items : r.items[i].n = n
      /\ \A i, j \in DOMAIN r.items :
           r.items[i].n \in r.there /\ r.items[j].n \in r.there =>
             (i < j <=> stamp[r.items[i].n] < stamp[r.items[j].n])
  BY DEF ListedHas
<1>2. r.there \subseteq returned' /\ gone \subseteq gone' /\ \A n \in r.there : stamp'[n] = stamp[n]
  BY <1>1 DEF Grows
<1>3. ASSUME NEW i \in DOMAIN r.items
      PROVE  r.items[i].n \in 1 .. made' /\ r.items[i].id = slug'[r.items[i].n]
  BY <1>1 DEF Grows
<1> QED
  BY <1>1, <1>2, <1>3

LEMMA HasStays ==
  ASSUME PadInv, Grows, NEW q, proc'[q] = proc[q], Has(proc[q]) PROVE Has(proc[q])'
<1>1. PICK r : r = proc[q] /\ r = proc'[q]
  OBVIOUS
<1>2. ReaderHas(r) /\ AnswerHas(r) /\ ListHas(r) /\ ListedHas(r)
  BY <1>1 DEF Has
<1>3. ReaderHas(r)' /\ AnswerHas(r)' /\ ListHas(r)' /\ ListedHas(r)'
  BY <1>2, ReaderStays, AnswerStays, ListStays, ListedStays
<1> QED
  BY <1>1, <1>3 DEF Has

LEMMA AllHave ==
  ASSUME ReadInv, NEW p \in Procs, NEW x, Become(p, x), Grows, Has(x)'
  PROVE  \A q \in Procs : Has(proc[q])'
<1>1. proc'[p] = x /\ Others(p)
  BY BecomeIs DEF ReadInv, PadInv
<1>2. Has(proc[p])'
  BY <1>1 DEF Has, ReaderHas, AnswerHas, ListHas, ListedHas
<1>3. ASSUME NEW q \in Procs \ {p} PROVE Has(proc[q])'
  BY <1>1, HasStays DEF ReadInv, Rest, Others
<1> QED
  BY <1>2, <1>3

LEMMA StaysGrows == ASSUME PadInv, Stays PROVE Grows
  BY DEF Stays, ghosts, Grows

(* Operations that neither read nor list. *)
Unread == {"idle", "pick", "open", "write", "evict", "remove", "delete"}

LEMMA UnreadHas ==
  ASSUME NEW x, x.op \in Unread PROVE Has(x) /\ Has(x)'
  BY DEF Unread, Has, ReaderHas, AnswerHas, ListHas, ListedHas

LEMMA QuietReadStep ==
  ASSUME ReadInv, NEW p \in Procs, NEW x, Become(p, x), Stays,
         proc[p].op \notin Writers, x.op \in Ops \ Writers, x.op # "open", Has(x)
  PROVE  Rest'
<1>1. proc'[p] = x /\ Others(p)
  BY BecomeIs DEF ReadInv, PadInv
<1>2. dir' = dir /\ made' = made /\ slug' = slug /\ returned' = returned /\ gone' = gone
  BY DEF Stays, ghosts
<1>3. Grows
  BY StaysGrows DEF ReadInv
<1>4. Has(x)'
  BY <1>3, ReaderStays, AnswerStays, ListStays, ListedStays DEF ReadInv, Rest, Has
<1>5. KeptInv'
  BY <1>1, <1>2 DEF ReadInv, Rest, KeptInv, Others, Writers
<1>6. SlugInv'
  BY <1>1, <1>2 DEF ReadInv, Rest, SlugInv, Others, Used
<1> QED
  BY <1>3, <1>4, <1>5, <1>6, AllHave DEF Rest

(* What a file of a known slug holds. *)
LEMMA KnownFile ==
  ASSUME ReadInv, NEW id \in Known, NEW f \in Find(id)
  PROVE  /\ f \in dir /\ f.id = id /\ f.n \in 1 .. made /\ slug[f.n] = id /\ f.full
         /\ body[f.n] \in Text /\ Content(f) = body[f.n]
<1>1. f \in dir /\ f.id = id /\ f.n \in 1 .. made /\ slug[f.n] = id /\ body[f.n] \in Text
  BY FilesAre DEF Find, Matches, ReadInv, PadInv, DirInv
<1>2. PICK n \in returned : slug[n] = id
  BY DEF Known
<1>3. n \in 1 .. made
  BY DEF ReadInv, PadInv, PadTypeOK
<1>4. n = f.n
  BY <1>1, <1>2, <1>3 DEF ReadInv, Rest, SlugInv
<1>5. f.full
  BY <1>1, <1>2, <1>4 DEF ReadInv, Rest, KeptInv
<1> QED
  BY <1>1, <1>5 DEF Content

(* A slug of a creation that nobody finds is one whose file was removed. *)
LEMMA MissingIsStored ==
  ASSUME ReadInv, NEW id \in Used, Find(id) = {}
  PROVE  Stored(Missing(id))
<1>1. PICK n \in 1 .. made : slug[n] = id
  BY DEF Used
<1>2. \A f \in dir : f.n # n
  BY <1>1 DEF Find, Matches, ReadInv, PadInv, DirInv
<1>3. n \in gone
  BY <1>2 DEF ReadInv, Rest, KeptInv
<1>4. Missing(id).id = id /\ Missing(id).found = FALSE
  BY DEF Missing
<1> QED
  BY <1>1, <1>3, <1>4 DEF Stored

LEMMA PartIs ==
  ASSUME NEW id, NEW skip, NEW num, NEW line, NEW page
  PROVE  LET part == Part(id, skip, num, line, page)
         IN  /\ part.id = id /\ part.skip = skip /\ part.num = num /\ part.line = line
             /\ part.page = page /\ part.found = TRUE /\ (part.early <=> id \notin Known)
  BY DEF Part

(* A page of an entry whose slug is known. *)
LEMMA PartIsStored ==
  ASSUME ReadInv, NEW id \in Known, NEW f \in Find(id), NEW skip \in Nat, NEW num \in Nat,
         NEW line, NEW page, page = Page(Content(f), skip, num),
         line # None => page = <<line>>
  PROVE  Stored(Part(id, skip, num, line, page))
<1>0. PICK part : part = Part(id, skip, num, line, page)
  OBVIOUS
<1>1. /\ part.id = id /\ part.skip = skip /\ part.num = num /\ part.line = line
      /\ part.page = page /\ part.found = TRUE
  BY <1>0 DEF Part
<1>01. part.early <=> id \notin Known
  BY <1>0, PartIs, Zenon
<1>2. f.n \in 1 .. made /\ slug[f.n] = id /\ body[f.n] \in Text /\ Content(f) = body[f.n]
  BY KnownFile
<1>3. /\ page \in Seq(Lines \cup {Ref}) /\ Len(page) \in Nat
      /\ \A i \in 1 .. Len(page) : page[i] = body[f.n][skip + i]
      /\ Len(page) = num \/ skip + Len(page) >= Len(body[f.n])
  <2>1. PICK lines, S : lines = body[f.n] /\ S = Lines \cup {Ref}
    OBVIOUS
  <2>2. lines \in Seq(S) /\ page = Page(lines, skip, num)
    BY <1>2, <2>1 DEF Text
  <2>3. /\ page \in Seq(S) /\ Len(page) \in Nat
        /\ \A i \in 1 .. Len(page) : page[i] = lines[skip + i]
        /\ Len(page) = num \/ skip + Len(page) >= Len(lines)
    <3>1. /\ Page(lines, skip, num) \in Seq(S) /\ Len(Page(lines, skip, num)) \in Nat
          /\ \A i \in 1 .. Len(Page(lines, skip, num)) :
               skip + i \in 1 .. Len(lines) /\ Page(lines, skip, num)[i] = lines[skip + i]
          /\ \/ Len(Page(lines, skip, num)) = num
             \/ skip + Len(Page(lines, skip, num)) >= Len(lines)
      BY <2>2, PageIs
    <3> QED
      BY <2>2, <3>1
  <2> QED
    BY <2>1, <2>3
<1>4. DOMAIN page = 1 .. Len(page)
  BY <1>3
<1>5. /\ ~ (~part.found) /\ ~part.early
      /\ \A i \in DOMAIN page : page[i] = body[f.n][skip + i]
  BY <1>1, <1>01, <1>3, <1>4
<1>6. /\ slug[f.n] = part.id
      /\ IF ~part.found THEN f.n \in gone
         ELSE IF part.early THEN part.page = <<>> \/ part.page = body[f.n]
         ELSE /\ \A i \in DOMAIN part.page : part.page[i] = body[f.n][part.skip + i]
              /\ Len(part.page) = part.num \/ part.skip + Len(part.page) >= Len(body[f.n])
              /\ part.line # None => part.page = <<part.line>>
  BY <1>1, <1>2, <1>3, <1>5
<1>7. Stored(part)
  BY <1>2, <1>6 DEF Stored
<1> QED
  BY <1>0, <1>7

(* Where a reading starts. *)
LEMMA ReadingHas ==
  ASSUME ReadInv, NEW id \in Used, NEW skip \in Nat, NEW num \in Nat, NEW line,
         id \in Known \/ (skip = 0 /\ num = Whole /\ line = None),
         line # None => Located(Reading(id, skip, num, line))
  PROVE  Has(Reading(id, skip, num, line)) /\ Reading(id, skip, num, line).op = "read"
<1>1. PICK r : r = Reading(id, skip, num, line)
  OBVIOUS
<1>2. /\ r.op = "read" /\ r.id = id /\ r.skip = skip /\ r.num = num /\ r.line = line
      /\ r.then = None /\ r.parts = <<>>
  BY <1>1 DEF Reading
<1>3. ReaderHas(r)
  BY <1>1, <1>2 DEF ReaderHas
<1>4. AnswerHas(r) /\ ListHas(r) /\ ListedHas(r)
  BY <1>2 DEF AnswerHas, ListHas, ListedHas
<1> QED
  BY <1>1, <1>2, <1>3, <1>4 DEF Has

LEMMA ReadIsQuiet == "read" \in Ops \ Writers /\ "read" # "open"
  BY DEF Ops, Writers

LEMMA StartReadReads ==
  ASSUME ReadInv, NEW p \in Procs, StartRead(p) PROVE Rest'
<1>1. proc[p].op \notin Writers /\ Stays
  BY DEF StartRead, MayRead, Idle, Writers, Stays
<1>2. PICK id \in Known, at \in {<<0, Whole>>, <<1, 1>>} : Become(p, Reading(id, at[1], at[2], None))
  BY DEF StartRead
<1>3. at[1] \in Nat /\ at[2] \in Nat /\ id \in Used
  BY KnownStays, StaysGrows, <1>1, ConstantsAre DEF ReadInv
<1>4. PICK x : x = Reading(id, at[1], at[2], None)
  OBVIOUS
<1>5. Has(x) /\ x.op = "read"
  BY <1>3, <1>4, ReadingHas
<1> QED
  BY <1>1, <1>2, <1>4, <1>5, ReadIsQuiet, QuietReadStep

LEMMA StartSearchReads ==
  ASSUME ReadInv, NEW p \in Procs, StartSearch(p) PROVE Rest'
<1>1. proc[p].op \notin Writers /\ Stays
  BY DEF StartSearch, MayRead, Idle, Writers, Stays
<1>01. PICK id \in Known, line \in Lines :
         \E f \in Find(id) : \E hit \in Search(Content(f), line) :
           Become(p, Reading(id, hit.skip, 1, line))
  BY DEF StartSearch
<1>02. PICK f \in Find(id) : \E hit \in Search(Content(f), line) :
         Become(p, Reading(id, hit.skip, 1, line))
  BY <1>01
<1>2. PICK i \in DOMAIN Content(f) :
        Content(f)[i] = line /\ Become(p, Reading(id, i - 1, 1, line))
  BY <1>02 DEF Search
<1>3. /\ f \in dir /\ f.n \in 1 .. made /\ slug[f.n] = id /\ f.full
      /\ body[f.n] \in Text /\ Content(f) = body[f.n]
  BY KnownFile
<1>4. i \in 1 .. Len(body[f.n]) /\ i - 1 \in Nat /\ (i - 1) + 1 = i /\ 1 \in Nat
  BY <1>2, <1>3 DEF Text
<1>5. PICK x, skip : x = Reading(id, skip, 1, line) /\ skip = i - 1
  OBVIOUS
<1>6. x.id = id /\ x.num = 1 /\ x.skip = skip /\ x.line = line
  BY <1>5 DEF Reading
<1>7. Located(x)
  <2>1. \A g \in dir : g.n = f.n => g.full
    BY <1>3 DEF ReadInv, PadInv, DirInv
  <2>2. PICK n : n = f.n
    OBVIOUS
  <2>3. /\ n \in 1 .. made /\ slug[n] = x.id /\ x.num = 1
        /\ \A g \in dir : g.n = n => g.full
    BY <1>3, <1>6, <2>1, <2>2
  <2>4. x.skip + 1 = i
    BY <1>4, <1>5, <1>6
  <2>5. x.skip + 1 \in 1 .. Len(body[n]) /\ body[n][x.skip + 1] = x.line
    BY <1>2, <1>3, <1>4, <1>6, <2>2, <2>4
  <2> QED
    BY <2>3, <2>5 DEF Located
<1>8. id \in Used
  BY KnownStays, StaysGrows, <1>1 DEF ReadInv
<1>9. Has(x) /\ x.op = "read"
  BY <1>4, <1>5, <1>7, <1>8, ReadingHas
<1>10. Become(p, x)
  BY <1>2, <1>5
<1> QED
  BY <1>1, <1>9, <1>10, ReadIsQuiet, QuietReadStep

LEMMA StartDiffReads ==
  ASSUME ReadInv, NEW p \in Procs, StartDiff(p) PROVE Rest'
<1>1. proc[p].op \notin Writers /\ Stays
  BY DEF StartDiff, MayRead, Idle, Writers, Stays
<1>2. PICK before \in Known, after \in Known :
        Become(p, [Reading(before, 0, Whole, None) EXCEPT !.then = after])
  BY DEF StartDiff
<1>3. PICK x : x = [Reading(before, 0, Whole, None) EXCEPT !.then = after]
  OBVIOUS
<1>4. /\ x.op = "read" /\ x.id = before /\ x.skip = 0 /\ x.num = Whole /\ x.line = None
      /\ x.then = after /\ x.parts = <<>>
  BY <1>3 DEF Reading
<1>5. before \in Used
  BY KnownStays, StaysGrows, <1>1 DEF ReadInv
<1>6. ReaderHas(x)
  BY <1>4, <1>5, ConstantsAre DEF ReaderHas
<1>7. Has(x)
  BY <1>4, <1>6 DEF Has, AnswerHas, ListHas, ListedHas
<1> QED
  BY <1>1, <1>2, <1>3, <1>4, <1>7, ReadIsQuiet, QuietReadStep

LEMMA AppendTwo == ASSUME NEW a, NEW b PROVE Append(<<a>>, b) = <<a, b>>
<1> DEFINE S == {a, b}
<1>1. <<a>> \in Seq(S) /\ Len(<<a>>) = 1 /\ <<a>>[1] = a
  OBVIOUS
<1>2. b \in S
  OBVIOUS
<1> HIDE DEF S
<1>3. PICK t : t = Append(<<a>>, b)
  OBVIOUS
<1>4. t \in Seq(S) /\ Len(t) = 2 /\ t[1] = a /\ t[2] = b
  BY <1>1, <1>2, <1>3, AppendProperties
<1>5. t = <<a, b>>
  BY <1>4
<1> QED
  BY <1>3, <1>5

LEMMA AnswerReads ==
  ASSUME ReadInv, NEW p \in Procs, Stays, proc[p].op = "read", NEW part, Stored(part),
         IF proc[p].then = None \/ ~part.found
         THEN Become(p, [op |-> "got", parts |-> Append(proc[p].parts, part)])
         ELSE Become(p, [Reading(proc[p].then, 0, Whole, None) EXCEPT
                           !.parts = Append(proc[p].parts, part)])
  PROVE  Rest'
<1>1. PICK r : r = proc[p]
  OBVIOUS
<1>2. r.op = "read" /\ r.op \notin Writers
  BY <1>1 DEF Writers
<1>3. ReaderHas(r)
  BY <1>1 DEF ReadInv, Rest, Has, ReaderHas
<1>4. /\ r.then # None => r.then \in Known /\ r.parts = <<>>
      /\ r.parts = <<>> \/ (r.parts = <<r.parts[1]>> /\ Stored(r.parts[1]))
  BY <1>2, <1>3 DEF ReaderHas
<1>5. PICK parts : parts = Append(r.parts, part)
  OBVIOUS
<1>6. /\ \A i \in DOMAIN parts : Stored(parts[i])
      /\ r.then # None => parts = <<part>> /\ parts[1] = part
  <2>1. CASE r.parts = <<>>
    <3>1. parts = <<part>>
      BY <1>5, <2>1
    <3> QED
      BY <3>1
  <2>2. CASE r.parts # <<>>
    <3>1. PICK first : r.parts = <<first>> /\ Stored(first)
      BY <1>4, <2>2
    <3>2. parts = <<first, part>>
      <4>1. Append(<<first>>, part) = <<first, part>>
        BY AppendTwo
      <4> QED
        BY <1>5, <3>1, <4>1
    <3>3. r.then = None
      BY <1>4, <2>2
    <3>4. \A i \in DOMAIN parts : parts[i] = first \/ parts[i] = part
      BY <3>2
    <3> QED
      BY <3>1, <3>3, <3>4
  <2> QED
    BY <2>1, <2>2
<1>7. CASE r.then = None \/ ~part.found
  <2>1. PICK x : x = [op |-> "got", parts |-> parts]
    OBVIOUS
  <2>2. x.op = "got" /\ x.parts = parts
    BY <2>1
  <2>3. Has(x)
    BY <1>6, <2>2 DEF Has, ReaderHas, AnswerHas, ListHas, ListedHas
  <2>4. x.op \in Ops \ Writers /\ x.op # "open"
    BY <2>2 DEF Ops, Writers
  <2>5. Become(p, x)
    BY <1>1, <1>5, <1>7, <2>1
  <2> QED
    BY <1>1, <1>2, <2>3, <2>4, <2>5, QuietReadStep
<1>8. CASE ~ (r.then = None \/ ~part.found)
  <2>1. PICK x : x = [Reading(r.then, 0, Whole, None) EXCEPT !.parts = parts]
    OBVIOUS
  <2>2. /\ x.op = "read" /\ x.id = r.then /\ x.skip = 0 /\ x.num = Whole /\ x.line = None
        /\ x.then = None /\ x.parts = parts
    BY <2>1 DEF Reading
  <2>3. x.id \in Known /\ x.id \in Used
    BY <1>4, <1>8, <2>2, KnownStays, StaysGrows DEF ReadInv
  <2>4. x.parts = <<x.parts[1]>> /\ Stored(x.parts[1])
    BY <1>6, <1>8, <2>2
  <2>5. ReaderHas(x)
    BY <2>2, <2>3, <2>4, ConstantsAre DEF ReaderHas
  <2>6. Has(x)
    BY <2>2, <2>5 DEF Has, AnswerHas, ListHas, ListedHas
  <2>7. Become(p, x)
    BY <1>1, <1>5, <1>8, <2>1
  <2> QED
    BY <1>1, <1>2, <2>2, <2>6, <2>7, ReadIsQuiet, QuietReadStep
<1> QED
  BY <1>7, <1>8

LEMMA IdleReads ==
  ASSUME ReadInv, NEW p \in Procs, Stays, proc[p].op \notin Writers, Become(p, Idle)
  PROVE  Rest'
<1>1. Idle.op \in Ops \ Writers /\ Idle.op # "open" /\ Idle.op \in Unread
  BY DEF Idle, Ops, Writers, Unread
<1> QED
  BY <1>1, UnreadHas, QuietReadStep

(* Who reads an entry before its slug is out reads all of it. *)
LEMMA EarlyIsStored ==
  ASSUME ReadInv, NEW id, id \notin Known, NEW f \in Find(id), NEW page,
         page = Page(Content(f), 0, Whole), Len(page) <= MaxRead
  PROVE  Stored(Part(id, 0, Whole, None, page))
<1>1. PICK part : part = Part(id, 0, Whole, None, page)
  OBVIOUS
<1>2. part.id = id /\ part.page = page /\ part.found = TRUE
  BY <1>1 DEF Part
<1>3. part.early
  BY <1>1, PartIs, Zenon
<1>4. f.n \in 1 .. made /\ slug[f.n] = id /\ Content(f) \in Text /\ body[f.n] \in Text
  BY FilesAre DEF Find, Matches, ReadInv, PadInv, DirInv
<1>5. page = Content(f)
  <2>1. PICK lines, S : lines = Content(f) /\ S = Lines \cup {Ref}
    OBVIOUS
  <2>2. lines \in Seq(S) /\ page = Page(lines, 0, Whole)
    BY <1>4, <2>1 DEF Text
  <2>3. 0 \in Nat /\ Whole \in Nat /\ MaxRead \in Nat /\ MaxRead < Whole
    BY ConstantsAre
  <2>a. PICK skip, num : skip = 0 /\ num = Whole
    OBVIOUS
  <2>b. lines \in Seq(S) /\ skip \in Nat /\ num \in Nat /\ page = Page(lines, skip, num)
    BY <2>2, <2>3, <2>a
  <2>4. /\ page \in Seq(S) /\ Len(page) \in Nat
        /\ \A i \in 1 .. Len(page) : skip + i \in 1 .. Len(lines) /\ page[i] = lines[skip + i]
        /\ Len(page) = num \/ skip + Len(page) >= Len(lines)
    <3>1. PICK it : it = Page(lines, skip, num)
      OBVIOUS
    <3>2. /\ it \in Seq(S) /\ Len(it) \in Nat
          /\ \A i \in 1 .. Len(it) : skip + i \in 1 .. Len(lines) /\ it[i] = lines[skip + i]
          /\ Len(it) = num \/ skip + Len(it) >= Len(lines)
      BY <2>b, <3>1, PageIs
    <3> QED
      BY <2>b, <3>1, <3>2
  <2>5. /\ page \in Seq(S) /\ Len(page) \in Nat /\ Len(lines) \in Nat
        /\ \A i \in 1 .. Len(page) : i \in 1 .. Len(lines) /\ page[i] = lines[i]
        /\ Len(page) >= Len(lines)
    BY <2>2, <2>3, <2>a, <2>4
  <2>6. Len(page) = Len(lines)
    BY <2>5
  <2> QED
    BY <2>1, <2>2, <2>5, <2>6
<1>6. part.page = <<>> \/ part.page = body[f.n]
  BY <1>2, <1>5 DEF Content
<1>7. /\ slug[f.n] = part.id
      /\ IF ~part.found THEN f.n \in gone
         ELSE IF part.early THEN part.page = <<>> \/ part.page = body[f.n]
         ELSE /\ \A i \in DOMAIN part.page : part.page[i] = body[f.n][part.skip + i]
              /\ Len(part.page) = part.num \/ part.skip + Len(part.page) >= Len(body[f.n])
              /\ part.line # None => part.page = <<part.line>>
  BY <1>2, <1>3, <1>4, <1>6
<1>8. Stored(part)
  BY <1>4, <1>7 DEF Stored
<1> QED
  BY <1>1, <1>8

LEMMA ReadReads ==
  ASSUME ReadInv, NEW p \in Procs, Read(p) PROVE Rest'
<1>1. proc[p].op = "read" /\ Stays /\ proc[p].op \notin Writers
  BY DEF Read, Writers, Stays
<1>2. PICK r : r = proc[p]
  OBVIOUS
<1>3. ReaderHas(r) /\ r.op = "read"
  BY <1>1, <1>2 DEF ReadInv, Rest, Has, ReaderHas
<1>4. /\ r.id \in Used /\ r.skip \in Nat /\ r.num \in Nat
      /\ r.id \in Known \/ (r.skip = 0 /\ r.num = Whole /\ r.line = None)
      /\ r.line # None => Located(r)
  BY <1>3 DEF ReaderHas
<1>5. CASE Become(p, Idle)
  BY <1>1, <1>5, IdleReads
<1>6. CASE /\ Find(r.id) = {}
           /\ IF r.then = None \/ ~Missing(r.id).found
              THEN Become(p, [op |-> "got", parts |-> Append(r.parts, Missing(r.id))])
              ELSE Become(p, [Reading(r.then, 0, Whole, None) EXCEPT
                                !.parts = Append(r.parts, Missing(r.id))])
  BY <1>1, <1>2, <1>4, <1>6, MissingIsStored, AnswerReads
<1>7. ASSUME NEW f \in Find(r.id), NEW page, page = Page(Content(f), r.skip, r.num),
             Len(page) <= MaxRead, NEW part, part = Part(r.id, r.skip, r.num, r.line, page),
             IF r.then = None \/ ~part.found
             THEN Become(p, [op |-> "got", parts |-> Append(r.parts, part)])
             ELSE Become(p, [Reading(r.then, 0, Whole, None) EXCEPT
                               !.parts = Append(r.parts, part)])
      PROVE  Rest'
  <2>1. CASE r.id \in Known
    <3>1. ASSUME r.line # None PROVE page = <<r.line>>
      <4>1. PICK n \in 1 .. made :
              /\ slug[n] = r.id /\ r.num = 1
              /\ r.skip + 1 \in 1 .. Len(body[n]) /\ body[n][r.skip + 1] = r.line
        BY <1>4, <3>1 DEF Located
      <4>2. f.n \in 1 .. made /\ slug[f.n] = r.id /\ body[f.n] \in Text /\ Content(f) = body[f.n]
        BY <2>1, KnownFile
      <4>3. n = f.n
        BY <4>1, <4>2 DEF ReadInv, Rest, SlugInv
      <4>4. PICK lines, S : lines = body[n] /\ S = Lines \cup {Ref}
        OBVIOUS
      <4>5. lines \in Seq(S) /\ page = Page(lines, r.skip, 1) /\ 1 \in Nat
        BY <1>7, <4>1, <4>2, <4>3, <4>4 DEF Text
      <4>6. r.skip + 1 \in 1 .. Len(lines) /\ lines[r.skip + 1] = r.line
        BY <4>1, <4>4
      <4>7. Page(lines, r.skip, 1) = <<lines[r.skip + 1]>>
        BY <1>4, <4>5, <4>6, OneLine
      <4> QED
        BY <4>5, <4>6, <4>7
    <3>2. Stored(part)
      BY <1>4, <1>7, <2>1, <3>1, PartIsStored
    <3> QED
      BY <1>1, <1>2, <1>7, <3>2, AnswerReads
  <2>2. CASE r.id \notin Known
    <3>1. r.skip = 0 /\ r.num = Whole /\ r.line = None
      BY <1>4, <2>2
    <3>2. Stored(part)
      BY <1>7, <2>2, <3>1, EarlyIsStored
    <3> QED
      BY <1>1, <1>2, <1>7, <3>2, AnswerReads
  <2> QED
    BY <2>1, <2>2
<1> QED
  <2>1. \/ /\ Find(r.id) = {}
           /\ IF r.then = None \/ ~Missing(r.id).found
              THEN Become(p, [op |-> "got", parts |-> Append(r.parts, Missing(r.id))])
              ELSE Become(p, [Reading(r.then, 0, Whole, None) EXCEPT
                                !.parts = Append(r.parts, Missing(r.id))])
        \/ \E f \in Find(r.id) : \E page, part :
             /\ page = Page(Content(f), r.skip, r.num)
             /\ part = Part(r.id, r.skip, r.num, r.line, page)
             /\ IF f.binary \/ Len(page) > MaxRead
                THEN Become(p, Idle)
                ELSE IF r.then = None \/ ~part.found
                THEN Become(p, [op |-> "got", parts |-> Append(r.parts, part)])
                ELSE Become(p, [Reading(r.then, 0, Whole, None) EXCEPT
                                  !.parts = Append(r.parts, part)])
    BY <1>2 DEF Read
  <2>2. ASSUME NEW f \in Find(r.id), NEW page, NEW part,
               page = Page(Content(f), r.skip, r.num),
               part = Part(r.id, r.skip, r.num, r.line, page),
               IF f.binary \/ Len(page) > MaxRead
               THEN Become(p, Idle)
               ELSE IF r.then = None \/ ~part.found
               THEN Become(p, [op |-> "got", parts |-> Append(r.parts, part)])
               ELSE Become(p, [Reading(r.then, 0, Whole, None) EXCEPT
                                 !.parts = Append(r.parts, part)])
        PROVE  Rest'
    <3>1. CASE f.binary \/ Len(page) > MaxRead
      BY <1>5, <2>2, <3>1
    <3>2. CASE ~ (f.binary \/ Len(page) > MaxRead)
      <4>1. Len(page) <= MaxRead
        <5>1. PICK lines, S, skip, num : lines = Content(f) /\ S = Lines \cup {Ref} /\ skip = r.skip /\ num = r.num
          OBVIOUS
        <5>2. f \in dir
          BY DEF Find, Matches
        <5>3. lines \in Seq(S) /\ skip \in Nat /\ num \in Nat /\ page = Page(lines, skip, num)
          BY <1>4, <2>2, <5>1, <5>2, FilesAre DEF Text, ReadInv
        <5>4. Len(page) \in Nat
          BY <5>3, PageIs
        <5> QED
          BY <3>2, <5>4, ConstantsAre
      <4> QED
        BY <1>7, <2>2, <3>2, <4>1
    <3> QED
      BY <3>1, <3>2
  <2> QED
    BY <1>6, <2>1, <2>2

LEMMA StartListReads ==
  ASSUME ReadInv, NEW p \in Procs, StartList(p) PROVE Rest'
<1>1. proc[p].op \notin Writers /\ Stays
  BY DEF StartList, MayRead, Idle, Writers, Stays
<1>2. PICK x : x = [op |-> "list", left |-> {f.n : f \in dir}, seen |-> {}, there |-> returned \ gone]
  OBVIOUS
<1>3. Become(p, x)
  BY <1>2 DEF StartList
<1>4. x.op = "list" /\ x.left = {f.n : f \in dir} /\ x.seen = {} /\ x.there = returned \ gone
  BY <1>2
<1>5. x.left \subseteq 1 .. made
  BY <1>4 DEF ReadInv, PadInv, DirInv
<1>6. ASSUME NEW n \in x.there PROVE n \in x.left
  <2>1. n \in 1 .. made /\ n \notin gone
    BY <1>4 DEF ReadInv, PadInv, PadTypeOK
  <2>2. PICK f \in dir : f.n = n
    BY <2>1 DEF ReadInv, Rest, KeptInv
  <2> QED
    BY <1>4, <2>2
<1>7. IsFiniteSet(x.seen) /\ x.there \subseteq returned
  BY <1>4, FS_EmptySet
<1>8. ListHas(x)
  BY <1>4, <1>5, <1>6, <1>7 DEF ListHas
<1>9. Has(x)
  BY <1>4, <1>8 DEF Has, ReaderHas, AnswerHas, ListedHas
<1>10. x.op \in Ops \ Writers /\ x.op # "open"
  BY <1>4 DEF Ops, Writers
<1> QED
  BY <1>1, <1>3, <1>9, <1>10, QuietReadStep

LEMMA ListEntryReads ==
  ASSUME ReadInv, NEW p \in Procs, ListEntry(p) PROVE Rest'
<1>1. proc[p].op = "list" /\ proc[p].op \notin Writers /\ Stays
  BY DEF ListEntry, Writers, Stays
<1>2. PICK l, v, t : l = proc[p].left /\ v = proc[p].seen /\ t = proc[p].there
  OBVIOUS
<1>3. /\ IsFiniteSet(v) /\ l \subseteq 1 .. made /\ t \subseteq returned
      /\ \A s \in v : s.n \notin l /\ Seen(s)
      /\ \A s \in v : s.n \in t => s.time = stamp[s.n]
      /\ \A s, u \in v : s.n = u.n => s = u
      /\ \A n \in t : n \in gone \/ n \in l \/ \E s \in v : s.n = n
  BY <1>1, <1>2 DEF ReadInv, Rest, Has, ListHas
<1>4. PICK n \in l :
        Become(p, [op |-> "list", left |-> l \ {n}, there |-> t,
                   seen |-> v \cup {[n |-> f.n, id |-> f.id, time |-> f.time] :
                                      f \in {g \in dir : g.n = n}}])
  BY <1>2 DEF ListEntry
<1>5. PICK now : now = {[n |-> f.n, id |-> f.id, time |-> f.time] : f \in {g \in dir : g.n = n}}
  OBVIOUS
<1>6. PICK x : x = [op |-> "list", left |-> l \ {n}, there |-> t, seen |-> v \cup now]
  OBVIOUS
<1>7. x.op = "list" /\ x.left = l \ {n} /\ x.there = t /\ x.seen = v \cup now
  BY <1>6
<1>8. /\ \A s \in now : s.n = n /\ Seen(s) /\ s.time = stamp[n]
      /\ \A s, u \in now : s = u
      /\ n \in gone \/ \E s \in now : s.n = n
      /\ IsFiniteSet(now)
  <2>1. CASE \A f \in dir : f.n # n
    <3>1. now = {}
      BY <1>5, <2>1
    <3>2. n \in gone
      BY <1>3, <2>1 DEF ReadInv, Rest, KeptInv
    <3> QED
      BY <3>1, <3>2, FS_EmptySet
  <2>2. ASSUME NEW f \in dir, f.n = n
        PROVE  /\ \A s \in now : s.n = n /\ Seen(s) /\ s.time = stamp[n]
               /\ \A s, u \in now : s = u
               /\ \E s \in now : s.n = n
               /\ IsFiniteSet(now)
    <3>1. {g \in dir : g.n = n} = {f}
      BY <2>2 DEF ReadInv, PadInv, DirInv
    <3>2. PICK s : s = [n |-> f.n, id |-> f.id, time |-> f.time]
      OBVIOUS
    <3>3. now = {s}
      BY <1>5, <3>1, <3>2
    <3>4. s.n = n /\ s.id = f.id /\ s.time = f.time
      BY <2>2, <3>2
    <3>5. f.n \in 1 .. made /\ f.id = slug[n] /\ f.time = stamp[n] /\ f.time \in Nat
      BY <2>2 DEF ReadInv, PadInv, DirInv, PadTypeOK
    <3>6. Seen(s)
      BY <2>2, <3>4, <3>5 DEF Seen
    <3>7. IsFiniteSet(now)
      BY <3>3, FS_Singleton
    <3> QED
      BY <3>3, <3>4, <3>5, <3>6, <3>7
  <2> QED
    BY <2>1, <2>2
<1>9. IsFiniteSet(x.seen)
  <2>1. IsFiniteSet(v) /\ IsFiniteSet(now)
    BY <1>3, <1>8
  <2>2. IsFiniteSet(v \cup now)
    BY <2>1, FS_Union
  <2> QED
    BY <1>7, <2>2
<1>10. /\ x.left \subseteq 1 .. made /\ x.there \subseteq returned
       /\ \A s \in x.seen : s.n \notin x.left /\ Seen(s)
       /\ \A s \in x.seen : s.n \in x.there => s.time = stamp[s.n]
  BY <1>3, <1>7, <1>8
<1>11. \A s, u \in x.seen : s.n = u.n => s = u
  BY <1>3, <1>7, <1>8
<1>12. \A m \in x.there : m \in gone \/ m \in x.left \/ \E s \in x.seen : s.n = m
  BY <1>3, <1>7, <1>8
<1>13. ListHas(x)
  BY <1>7, <1>9, <1>10, <1>11, <1>12 DEF ListHas
<1>14. Has(x)
  BY <1>7, <1>13 DEF Has, ReaderHas, AnswerHas, ListedHas
<1>15. x.op \in Ops \ Writers /\ x.op # "open"
  BY <1>7 DEF Ops, Writers
<1> QED
  BY <1>1, <1>4, <1>5, <1>6, <1>14, <1>15, QuietReadStep

LEMMA ListScratchpadsReads ==
  ASSUME ReadInv, NEW p \in Procs, ListScratchpads(p) PROVE Rest'
<1>1. proc[p].op = "list" /\ proc[p].left = {} /\ proc[p].op \notin Writers /\ Stays
  BY DEF ListScratchpads, Writers, Stays
<1>2. PICK v, t : v = proc[p].seen /\ t = proc[p].there
  OBVIOUS
<1>3. /\ IsFiniteSet(v) /\ t \subseteq returned
      /\ \A s \in v : Seen(s)
      /\ \A s \in v : s.n \in t => s.time = stamp[s.n]
      /\ \A s, u \in v : s.n = u.n => s = u
      /\ \A n \in t : n \in gone \/ \E s \in v : s.n = n
  BY <1>1, <1>2 DEF ReadInv, Rest, Has, ListHas
<1>4. ASSUME NEW s \in v, NEW u \in v, s.time = u.time PROVE s = u
  <2>1. /\ s.n \in 1 .. made /\ s.time \in {opened[s.n], stamp[s.n]}
        /\ u.n \in 1 .. made /\ u.time \in {opened[u.n], stamp[u.n]}
    BY <1>3 DEF Seen
  <2>2. s.n = u.n
    BY <1>4, <2>1 DEF ReadInv, PadInv, ClockInv
  <2> QED
    BY <1>3, <2>2
<1>5. \A s \in v : s.time \in Nat /\ s.n \in 1 .. made /\ s.id = slug[s.n]
  BY <1>3 DEF Seen
<1>6. PICK those, c : those = OldestFirst(v) /\ c = Cardinality(v)
  OBVIOUS
<1>7. /\ c \in Nat /\ those \in [1 .. c -> v]
      /\ \A i, j \in 1 .. c : i < j => those[i].time < those[j].time
      /\ \A s \in v : \E i \in 1 .. c : those[i] = s
  BY <1>3, <1>4, <1>5, <1>6, OldestFirstIs
<1>8. PICK x : x = [op |-> "listed", items |-> those, there |-> t]
  OBVIOUS
<1>9. Become(p, x)
  BY <1>2, <1>6, <1>8 DEF ListScratchpads
<1>10. x.op = "listed" /\ x.items = those /\ x.there = t /\ DOMAIN those = 1 .. c
  BY <1>7, <1>8
<1>11. \A i \in 1 .. c : those[i] \in v /\ those[i].n \in 1 .. made /\ those[i].id = slug[those[i].n]
                         /\ those[i].time \in Nat
  BY <1>5, <1>7
<1>12. \A n \in t : n \in gone \/ \E i \in 1 .. c : those[i].n = n
  BY <1>3, <1>7
<1>13. ASSUME NEW i \in 1 .. c, NEW j \in 1 .. c, those[i].n \in t, those[j].n \in t
       PROVE  i < j <=> stamp[those[i].n] < stamp[those[j].n]
  <2>1. those[i].time = stamp[those[i].n] /\ those[j].time = stamp[those[j].n]
    BY <1>3, <1>11, <1>13
  <2>2. /\ i < j => those[i].time < those[j].time
        /\ j < i => those[j].time < those[i].time
        /\ i = j => those[i].time = those[j].time
    BY <1>7
  <2>3. those[i].time \in Nat /\ those[j].time \in Nat /\ i \in Nat /\ j \in Nat
    BY <1>7, <1>11
  <2> QED
    BY <2>1, <2>2, <2>3
<1>14. ListedHas(x)
  BY <1>3, <1>10, <1>11, <1>12, <1>13 DEF ListedHas
<1>15. Has(x)
  BY <1>10, <1>14 DEF Has, ReaderHas, AnswerHas, ListHas
<1>16. x.op \in Ops \ Writers /\ x.op # "open"
  BY <1>10 DEF Ops, Writers
<1> QED
  BY <1>1, <1>9, <1>15, <1>16, QuietReadStep

LEMMA ReadListedReads ==
  ASSUME ReadInv, NEW p \in Procs, ReadListed(p) PROVE Rest'
<1>1. proc[p].op = "listed" /\ proc[p].op \notin Writers /\ Stays
  BY DEF ReadListed, Writers, Stays
<1>2. CASE Become(p, Idle)
  BY <1>1, <1>2, IdleReads
<1>3. ASSUME NEW i \in DOMAIN proc[p].items,
             Become(p, Reading(proc[p].items[i].id, 0, Whole, None))
      PROVE  Rest'
  <2>1. PICK id, x : id = proc[p].items[i].id /\ x = Reading(id, 0, Whole, None)
    OBVIOUS
  <2>2. id \in Used
    BY <1>1, <2>1 DEF ReadInv, Rest, Has, ListedHas, Used
  <2>3. Has(x) /\ x.op = "read"
    BY <2>1, <2>2, ReadingHas, ConstantsAre
  <2> QED
    BY <1>1, <1>3, <2>1, <2>3, ReadIsQuiet, QuietReadStep
<1> QED
  BY <1>2, <1>3 DEF ReadListed

LEMMA InputReads ==
  ASSUME ReadInv, NEW p \in Procs, NEW x, Become(p, x), Stays, proc[p].op \notin Writers,
         x.op \in {"input", "stream", "expand", "splice"}, x.id \in Known
  PROVE  Rest'
<1>1. Has(x)
  BY DEF Has, ReaderHas, AnswerHas, ListHas, ListedHas
<1>2. x.op \in Ops \ Writers /\ x.op # "open"
  BY DEF Ops, Writers
<1> QED
  BY <1>1, <1>2, QuietReadStep

LEMMA RunReads ==
  ASSUME ReadInv, NEW p \in Procs, Stays, proc[p].op \notin Writers,
         NEW part, Stored(part), Become(p, [op |-> "run", parts |-> <<part>>])
  PROVE  Rest'
<1>1. PICK x : x = [op |-> "run", parts |-> <<part>>]
  OBVIOUS
<1>2. x.op = "run" /\ \A i \in DOMAIN x.parts : x.parts[i] = part
  BY <1>1
<1>3. Has(x)
  BY <1>2 DEF Has, ReaderHas, AnswerHas, ListHas, ListedHas
<1>4. x.op \in Ops \ Writers /\ x.op # "open"
  BY <1>2 DEF Ops, Writers
<1> QED
  BY <1>1, <1>3, <1>4, QuietReadStep

LEMMA StoreReads ==
  ASSUME ReadInv, NEW p \in Procs, Stays, proc[p].op \notin Writers,
         NEW x, Become(p, x), x.op = "pick"
  PROVE  Rest'
<1>1. x.op \in Ops \ Writers /\ x.op # "open" /\ x.op \in Unread
  BY DEF Ops, Writers, Unread
<1> QED
  BY <1>1, UnreadHas, QuietReadStep

LEMMA UseReads ==
  ASSUME ReadInv, NEW p \in Procs, Stays, proc[p].op \notin Writers,
         NEW text, NEW part, Stored(part), Use(p, text, part)
  PROVE  Rest'
<1>1. CASE Become(p, Store(text, FALSE))
  BY <1>1, StoreReads DEF Store
<1>2. CASE Become(p, Idle)
  BY <1>2, IdleReads
<1>3. CASE Become(p, [op |-> "run", parts |-> <<part>>])
  BY <1>3, RunReads
<1> QED
  BY <1>1, <1>2, <1>3 DEF Use

LEMMA ToolReads ==
  ASSUME ReadInv, NEW p \in Procs,
         StartTool(p) \/ CheckArgs(p) \/ CheckStdin(p) \/ StreamInput(p) \/ RunTool(p)
  PROVE  Rest'
<1>1. CASE StartTool(p)
  <2>1. proc[p].op \notin Writers /\ Stays
    BY <1>1 DEF StartTool, MayRead, Idle, Writers, Stays
  <2>2. PICK id \in Known : \E into, text :
          Become(p, [op |-> "input", id |-> id, into |-> into, text |-> text])
    BY <1>1 DEF StartTool
  <2>3. PICK x : Become(p, x) /\ x.op = "input" /\ x.id = id
    BY <2>2
  <2> QED
    BY <2>1, <2>3, InputReads
<1>2. CASE CheckArgs(p) \/ CheckStdin(p)
  <2>1. proc[p].op = "input" /\ proc[p].op \notin Writers /\ Stays
    BY <1>2 DEF CheckArgs, CheckStdin, Writers, Stays
  <2>2. PICK id, into, text : proc[p] = [op |-> "input", id |-> id, into |-> into, text |-> text]
    BY <2>1 DEF ReadInv, PadInv, ProcInv, InHand, Shape
  <2>3. id \in Known
    <3>1. proc[p].id \in Known
      BY <2>1 DEF ReadInv, Rest, Has, AnswerHas
    <3> QED
      BY <2>2, <3>1
  <2>4. \/ Become(p, Idle)
        \/ Become(p, [op |-> "stream", id |-> proc[p].id])
        \/ Become(p, [proc[p] EXCEPT !.op = "expand"])
    BY <1>2 DEF CheckArgs, CheckStdin
  <2>5. CASE Become(p, Idle)
    BY <2>1, <2>5, IdleReads
  <2>6. CASE Become(p, [op |-> "stream", id |-> proc[p].id])
    <3>1. PICK x : x = [op |-> "stream", id |-> id]
      OBVIOUS
    <3>2. Become(p, x) /\ x.op = "stream" /\ x.id = id
      BY <2>2, <2>6, <3>1
    <3> QED
      BY <2>1, <2>3, <3>2, InputReads
  <2>7. CASE Become(p, [proc[p] EXCEPT !.op = "expand"])
    <3>1. PICK x : x = [op |-> "expand", id |-> id, into |-> into, text |-> text]
      OBVIOUS
    <3>2. Become(p, x)
      BY <2>2, <2>7, <3>1
    <3>3. x.op = "expand" /\ x.id = id
      BY <3>1
    <3> QED
      BY <2>1, <2>3, <3>2, <3>3, InputReads
  <2> QED
    BY <2>4, <2>5, <2>6, <2>7
<1>3. CASE StreamInput(p)
  <2>1. proc[p].op = "stream" /\ proc[p].op \notin Writers /\ Stays
    BY <1>3 DEF StreamInput, Writers, Stays
  <2>2. PICK id : id = proc[p].id /\ id \in Known
    BY <2>1 DEF ReadInv, Rest, Has, AnswerHas
  <2>3. CASE Become(p, Idle)
    BY <2>1, <2>3, IdleReads
  <2>4. ASSUME NEW f \in Find(id),
               Become(p, [op |-> "run", parts |-> <<Part(id, 0, Whole, None, Content(f))>>])
        PROVE  Rest'
    <3>1. PICK part : part = Part(id, 0, Whole, None, Content(f))
      OBVIOUS
    <3>2. /\ part.id = id /\ part.skip = 0 /\ part.page = Content(f) /\ part.found = TRUE
          /\ part.line = None
      BY <3>1 DEF Part
    <3>3. ~part.early
      BY <2>2, <3>1, PartIs, Zenon
    <3>4. f.n \in 1 .. made /\ slug[f.n] = id /\ body[f.n] \in Text /\ Content(f) = body[f.n]
      BY <2>2, KnownFile
    <3>5. /\ \A i \in DOMAIN body[f.n] : 0 + i = i
          /\ Len(body[f.n]) \in Nat
      BY <3>4 DEF Text
    <3>6. /\ slug[f.n] = part.id
          /\ IF ~part.found THEN f.n \in gone
             ELSE IF part.early THEN part.page = <<>> \/ part.page = body[f.n]
             ELSE /\ \A i \in DOMAIN part.page : part.page[i] = body[f.n][part.skip + i]
                  /\ Len(part.page) = part.num \/ part.skip + Len(part.page) >= Len(body[f.n])
                  /\ part.line # None => part.page = <<part.line>>
      BY <3>2, <3>3, <3>4, <3>5
    <3>7. Stored(part)
      BY <3>4, <3>6 DEF Stored
    <3> QED
      BY <2>1, <2>4, <3>1, <3>7, RunReads
  <2> QED
    BY <1>3, <2>2, <2>3, <2>4 DEF StreamInput
<1>4. CASE RunTool(p)
  <2>1. proc[p].op \notin Writers /\ Stays
    BY <1>4 DEF RunTool, Writers, Stays
  <2>2. CASE Become(p, Idle)
    BY <2>1, <2>2, IdleReads
  <2>3. ASSUME NEW out \in Outputs, NEW more \in BOOLEAN,
               Become(p, [Store(out.text, out.binary) EXCEPT !.more = more])
        PROVE  Rest'
    <3>1. PICK x : x = [Store(out.text, out.binary) EXCEPT !.more = more]
      OBVIOUS
    <3>2. x.op = "pick"
      BY <3>1, OutputsAre, StoreIsInHand
    <3> QED
      BY <2>1, <2>3, <3>1, <3>2, StoreReads
  <2> QED
    BY <1>4, <2>2, <2>3 DEF RunTool
<1> QED
  BY <1>1, <1>2, <1>3, <1>4

LEMMA StartCreateReads ==
  ASSUME ReadInv, NEW p \in Procs, StartCreate(p) PROVE Rest'
<1>1. proc[p].op \notin Writers /\ Stays
  BY DEF StartCreate, Idle, Writers, Stays
<1>2. PICK text \in Texts :
        IF Contains(text, Ref)
        THEN \E id \in Known : Become(p, [op |-> "expand", text |-> text, id |-> id, into |-> "entry"])
        ELSE \E binary \in BOOLEAN : Become(p, Store(text, binary))
  BY DEF StartCreate
<1>3. CASE Contains(text, Ref)
  <2>1. PICK id \in Known : Become(p, [op |-> "expand", text |-> text, id |-> id, into |-> "entry"])
    BY <1>2, <1>3
  <2>2. PICK x : Become(p, x) /\ x.op = "expand" /\ x.id = id
    BY <2>1
  <2> QED
    BY <1>1, <2>2, InputReads
<1>4. CASE ~Contains(text, Ref)
  BY <1>1, <1>2, <1>4, StoreReads DEF Store
<1> QED
  BY <1>3, <1>4

LEMMA ExpandReads ==
  ASSUME ReadInv, NEW p \in Procs, ExpandFind(p) \/ ExpandRead(p) PROVE Rest'
<1>1. proc[p].op \in {"expand", "splice"} /\ proc[p].op \notin Writers /\ Stays
  BY DEF ExpandFind, ExpandRead, Writers, Stays
<1>2. PICK id : id = proc[p].id /\ id \in Known
  BY <1>1 DEF ReadInv, Rest, Has, AnswerHas
<1>3. id \in Used
  BY <1>1, <1>2, KnownStays, StaysGrows DEF ReadInv
<1>4. CASE Become(p, Idle)
  BY <1>1, <1>4, IdleReads
<1>5. CASE Find(id) = {} /\ Use(p, proc[p].text, Missing(id))
  <2>1. PICK text : text = proc[p].text
    OBVIOUS
  <2> QED
    BY <1>1, <1>3, <1>5, <2>1, MissingIsStored, UseReads
<1>6. CASE Become(p, [proc[p] EXCEPT !.op = "splice"]) /\ proc[p].op = "expand"
  <2>1. PICK slugOf, into, text : proc[p] = [op |-> "expand", id |-> slugOf, into |-> into, text |-> text]
    BY <1>6 DEF ReadInv, PadInv, ProcInv, InHand, Shape
  <2>2. PICK x : x = [op |-> "splice", id |-> slugOf, into |-> into, text |-> text]
    OBVIOUS
  <2>3. Become(p, x)
    BY <1>6, <2>1, <2>2
  <2>4. x.op = "splice" /\ x.id = id
    BY <1>2, <2>1, <2>2
  <2> QED
    BY <1>1, <1>2, <2>3, <2>4, InputReads
<1>7. ASSUME NEW f \in Find(id), NEW page, page = Page(Content(f), 0, 2),
             Use(p, Spliced(proc[p].text, page), Part(id, 0, 2, None, page))
      PROVE  Rest'
  <2>1. PICK num, text : num = 2 /\ num \in Nat /\ text = Spliced(proc[p].text, page)
    OBVIOUS
  <2>2. Stored(Part(id, 0, num, None, page))
    BY <1>2, <1>7, <2>1, PartIsStored
  <2> QED
    BY <1>1, <1>7, <2>1, <2>2, UseReads
<1>8. CASE ExpandFind(p)
  <2>1. /\ proc[p].op = "expand"
        /\ \/ Find(id) = {} /\ Use(p, proc[p].text, Missing(id))
           \/ Become(p, Idle)
           \/ Become(p, [proc[p] EXCEPT !.op = "splice"])
    BY <1>2, <1>8 DEF ExpandFind
  <2> QED
    BY <1>4, <1>5, <1>6, <2>1
<1>9. CASE ExpandRead(p)
  <2>1. \/ Become(p, Idle)
        \/ \E f \in Find(id) : \E page :
             /\ page = Page(Content(f), 0, 2)
             /\ Use(p, Spliced(proc[p].text, page), Part(id, 0, 2, None, page))
    BY <1>2, <1>9 DEF ExpandRead
  <2> QED
    BY <1>4, <1>7, <2>1
<1> QED
  BY <1>8, <1>9

LEMMA StartDeleteReads ==
  ASSUME ReadInv, NEW p \in Procs, StartDelete(p) PROVE Rest'
<1>1. proc[p].op \notin Writers /\ Stays
  BY DEF StartDelete, Idle, Writers, Stays
<1>2. PICK x : Become(p, x) /\ x.op = "delete"
  BY DEF StartDelete
<1>3. x.op \in Ops \ Writers /\ x.op # "open" /\ x.op \in Unread
  BY <1>2 DEF Ops, Writers, Unread
<1> QED
  BY <1>1, <1>2, <1>3, UnreadHas, QuietReadStep

(* A candidate is fresh. *)
LEMMA PickReads ==
  ASSUME ReadInv, FreshSlugs, NEW p \in Procs, Pick(p) PROVE Rest'
<1>1. proc[p].op \notin Writers /\ Stays
  BY DEF Pick, Writers, Stays
<1>2. PICK id \in Ids :
        /\ \A n \in 1 .. made : slug[n] # id
        /\ \A q \in Procs \ {p} : proc[q].op = "open" => proc[q].id # id
        /\ \E text, binary, more :
             Become(p, [op |-> "open", text |-> text, binary |-> binary, more |-> more, id |-> id])
  BY DEF Pick
<1>3. PICK x : Become(p, x) /\ x.op = "open" /\ x.id = id
  BY <1>2
<1>4. proc'[p] = x /\ Others(p)
  BY <1>3, BecomeIs DEF ReadInv, PadInv
<1>5. dir' = dir /\ made' = made /\ slug' = slug /\ returned' = returned /\ gone' = gone
  BY <1>1 DEF Stays, ghosts
<1>6. KeptInv'
  BY <1>3, <1>4, <1>5 DEF ReadInv, Rest, KeptInv, Others
<1>7. SlugInv'
  <2>1. id \notin Used
    BY <1>2 DEF Used
  <2>2. \A q \in Procs : proc'[q].op = "open" => proc'[q].id \notin Used'
    BY <1>3, <1>4, <1>5, <2>1 DEF ReadInv, Rest, SlugInv, Others, Used
  <2>3. \A q, r \in Procs :
          proc'[q].op = "open" /\ proc'[r].op = "open" /\ proc'[q].id = proc'[r].id => q = r
    BY <1>2, <1>3, <1>4 DEF ReadInv, Rest, SlugInv, Others
  <2> QED
    BY <1>5, <2>2, <2>3 DEF ReadInv, Rest, SlugInv
<1>8. Has(x)'
  BY <1>3, UnreadHas DEF Unread
<1> QED
  BY <1>1, <1>3, <1>6, <1>7, <1>8, StaysGrows, AllHave DEF ReadInv, Rest

LEMMA OpenReads ==
  ASSUME ReadInv, NEW p \in Procs, Open(p) PROVE Rest'
<1>1. PICK n, f, x :
        /\ n = made + 1
        /\ f = [id |-> proc[p].id, n |-> n, binary |-> proc[p].binary, time |-> clock + 1,
                full |-> FALSE]
        /\ x = [op |-> "write", n |-> n, more |-> proc[p].more]
  OBVIOUS
<1>2. /\ proc[p].op = "open" /\ made < MaxCreates
      /\ made' = n /\ dir' = dir \cup {f}
      /\ body' = [body EXCEPT ![n] = proc[p].text]
      /\ opened' = [opened EXCEPT ![n] = clock + 1]
      /\ stamp' = [stamp EXCEPT ![n] = clock + 1]
      /\ slug' = [slug EXCEPT ![n] = proc[p].id]
      /\ Become(p, x)
      /\ returned' = returned /\ gone' = gone
  BY <1>1 DEF Open
<1>3. /\ made \in Nat /\ n \in Creations /\ 1 .. made \subseteq Creations
      /\ n \notin 1 .. made /\ 1 .. n = (1 .. made) \cup {n} /\ returned \subseteq 1 .. made
  <2>1. made \in Nat /\ MaxCreates \in Nat /\ returned \subseteq 1 .. made
    BY ConstantsAre DEF ReadInv, PadInv, PadTypeOK
  <2>2. n = made + 1 /\ made < MaxCreates
    BY <1>1, <1>2
  <2> QED
    BY <2>1, <2>2 DEF Creations
<1>4. f.n = n /\ x.op = "write" /\ x.n = n
  BY <1>1
<1>5. \A m \in 1 .. made : /\ body'[m] = body[m] /\ slug'[m] = slug[m]
                           /\ opened'[m] = opened[m] /\ stamp'[m] = stamp[m]
  BY <1>2, <1>3 DEF ReadInv, PadInv, PadTypeOK
<1>6. slug'[n] = proc[p].id
  BY <1>2, <1>3 DEF ReadInv, PadInv, PadTypeOK
<1>7. \A g \in dir : g.n \in 1 .. made
  BY DEF ReadInv, PadInv, DirInv
<1>8. Grows
  <2>1. \A m \in returned : stamp'[m] = stamp[m]
    BY <1>3, <1>5
  <2>2. \A g \in dir' : g.n \in 1 .. made => g \in dir
    BY <1>2, <1>3, <1>4
  <2> QED
    BY <1>2, <1>3, <1>5, <2>1, <2>2 DEF Grows
<1>9. proc'[p] = x /\ Others(p)
  BY <1>2, BecomeIs DEF ReadInv, PadInv
<1>10. KeptInv'
  <2>1. \A m \in 1 .. made' : m \in gone' \/ \E g \in dir' : g.n = m
    BY <1>2, <1>3, <1>4 DEF ReadInv, Rest, KeptInv
  <2>2. \A g \in dir' : g.n \in returned' => g.full
    BY <1>2, <1>3, <1>4 DEF ReadInv, Rest, KeptInv
  <2>3. ASSUME NEW q \in Procs, proc'[q].op \in {"evict", "remove"}, NEW g \in dir', g.n = proc'[q].n
        PROVE  g.full
    <3>1. proc'[q] = proc[q]
      BY <1>4, <1>9, <2>3 DEF Others
    <3>2. proc[q].n \in 1 .. made
      BY <2>3, <3>1 DEF ReadInv, PadInv, ProcInv, InHand, Writers
    <3>3. g \in dir
      BY <1>2, <1>3, <1>4, <2>3, <3>1, <3>2
    <3> QED
      BY <2>3, <3>1, <3>3 DEF ReadInv, Rest, KeptInv
  <2> QED
    BY <2>1, <2>2, <2>3 DEF KeptInv
<1>11. SlugInv'
  <2>1. \A m \in 1 .. made : slug[m] # proc[p].id
    BY <1>2 DEF ReadInv, Rest, SlugInv, Used
  <2>2. \A l, m \in 1 .. made' : slug'[l] = slug'[m] => l = m
    BY <1>2, <1>3, <1>5, <1>6, <2>1 DEF ReadInv, Rest, SlugInv
  <2>3. ASSUME NEW q \in Procs, proc'[q].op = "open" PROVE proc'[q].id \notin Used'
    <3>1. proc'[q] = proc[q] /\ q # p
      BY <1>4, <1>9, <2>3 DEF Others
    <3>2. proc[q].id \notin Used /\ proc[q].id # proc[p].id
      BY <1>2, <2>3, <3>1 DEF ReadInv, Rest, SlugInv
    <3>3. \A m \in 1 .. made' : slug'[m] # proc[q].id
      BY <1>2, <1>3, <1>5, <1>6, <3>2 DEF Used
    <3> QED
      BY <3>1, <3>3 DEF Used
  <2>4. \A q, r \in Procs :
          proc'[q].op = "open" /\ proc'[r].op = "open" /\ proc'[q].id = proc'[r].id => q = r
    BY <1>4, <1>9 DEF ReadInv, Rest, SlugInv, Others
  <2> QED
    BY <2>2, <2>3, <2>4 DEF SlugInv
<1>12. Has(x)'
  BY <1>4, UnreadHas DEF Unread
<1> QED
  BY <1>2, <1>8, <1>10, <1>11, <1>12, AllHave DEF Rest

(* A step of somebody who has a file to write or to remove. *)
LEMMA WorkReads ==
  ASSUME ReadInv, NEW p \in Procs, NEW x, Become(p, x), x.op \in Unread \ {"open"},
         made' = made, slug' = slug, Grows, KeptInv'
  PROVE  Rest'
<1>1. proc'[p] = x /\ Others(p)
  BY BecomeIs DEF ReadInv, PadInv
<1>2. SlugInv'
  BY <1>1 DEF ReadInv, Rest, SlugInv, Others, Used
<1>3. Has(x)'
  BY UnreadHas
<1> QED
  BY <1>2, <1>3, AllHave DEF Rest

(* Nothing is taken out of the directory that is not gone then. *)
LEMMA ShrinkReads ==
  ASSUME ReadInv, NEW p \in Procs, NEW x, Become(p, x), x.op \in Unread \ {"open", "write", "evict"},
         x.op = "remove" => proc[p].op \in {"evict", "remove"} /\ x.n = proc[p].n,
         NEW ns, dir' = {f \in dir : f.n \notin ns}, gone' = gone \cup ns,
         made' = made, body' = body, opened' = opened, stamp' = stamp, slug' = slug,
         returned \subseteq returned',
         \A n \in returned' : n \in returned \/ (proc[p].op = "remove" /\ n = proc[p].n)
  PROVE  Rest'
<1>1. proc'[p] = x /\ Others(p)
  BY BecomeIs DEF ReadInv, PadInv
<1>2. Grows
  BY DEF Grows
<1>3. KeptInv'
  <2>1. \A n \in 1 .. made' : n \in gone' \/ \E f \in dir' : f.n = n
    BY DEF ReadInv, Rest, KeptInv
  <2>2. \A f \in dir' : f.n \in returned' => f.full
    BY DEF ReadInv, Rest, KeptInv
  <2>3. \A q \in Procs : proc'[q].op \in {"evict", "remove"} =>
          \A f \in dir' : f.n = proc'[q].n => f.full
    BY <1>1 DEF ReadInv, Rest, KeptInv, Others
  <2> QED
    BY <2>1, <2>2, <2>3 DEF KeptInv
<1>4. x.op \in Unread \ {"open"}
  OBVIOUS
<1> QED
  BY <1>2, <1>3, <1>4, WorkReads

LEMMA WriteReads ==
  ASSUME ReadInv, NEW p \in Procs, Write(p) PROVE Rest'
<1>1. proc[p].op = "write"
  BY DEF Write
<1>2. PICK n, more : proc[p] = [op |-> "write", n |-> n, more |-> more]
  BY <1>1 DEF ReadInv, PadInv, ProcInv, InHand, Shape
<1>3. n \in 1 .. made /\ n \notin returned /\ n \in Creations /\ stamp[n] = opened[n]
  BY <1>1, <1>2, ConstantsAre
     DEF ReadInv, PadInv, ProcInv, InHand, CreatorInv, Writers, PadTypeOK, Creations
<1>4. PICK x : x = [op |-> "evict", n |-> n, more |-> more]
  OBVIOUS
<1>5. x.op = "evict" /\ x.n = n /\ x.op \in Unread \ {"open"}
  BY <1>4 DEF Unread
<1> DEFINE Full(f) == [id |-> f.id, n |-> f.n, binary |-> f.binary, time |-> clock + 1, full |-> TRUE]
<1>6. /\ dir' = {IF f.n = n THEN Full(f) ELSE f : f \in dir}
      /\ stamp' = [stamp EXCEPT ![n] = clock + 1]
      /\ made' = made /\ body' = body /\ opened' = opened /\ slug' = slug
      /\ returned' = returned /\ gone' = gone
  BY <1>2 DEF Write
<1>7. Become(p, x)
  <2>1. [proc[p] EXCEPT !.op = "evict"] = x
    BY <1>2, <1>4
  <2> QED
    BY <2>1 DEF Write
<1>8. proc'[p] = x /\ Others(p)
  BY <1>7, BecomeIs DEF ReadInv, PadInv
<1>9. \A f \in dir : Full(f).n = f.n
  OBVIOUS
<1>10. \A f \in dir : Full(f).full = TRUE
  OBVIOUS
<1> HIDE DEF Full
<1>11. \A g \in dir' : \E f \in dir : g.n = f.n /\ (f.full => g.full) /\ (g.n = n => g.full)
  BY <1>6, <1>9, <1>10
<1>12. Grows
  <2>1. \A m \in Creations : m # n => stamp'[m] = stamp[m]
    BY <1>3, <1>6 DEF ReadInv, PadInv, PadTypeOK
  <2>2. returned \subseteq Creations /\ 1 .. made \subseteq Creations
    BY ConstantsAre DEF ReadInv, PadInv, PadTypeOK, Creations
  <2>3. \A m \in 1 .. made : stamp'[m] = stamp[m] \/ stamp[m] = opened[m]
    BY <1>3, <2>1, <2>2
  <2>4. \A m \in returned : stamp'[m] = stamp[m]
    BY <1>3, <2>1, <2>2
  <2>5. \A g \in dir' : g.n \in 1 .. made => \E f \in dir : f.n = g.n /\ (f.full => g.full)
    BY <1>11
  <2> QED
    BY <1>6, <2>3, <2>4, <2>5 DEF Grows
<1>13. KeptInv'
  <2>1. \A m \in 1 .. made' : m \in gone' \/ \E g \in dir' : g.n = m
    BY <1>6, <1>9 DEF ReadInv, Rest, KeptInv
  <2>2. \A g \in dir' : g.n \in returned' => g.full
    BY <1>6, <1>11 DEF ReadInv, Rest, KeptInv
  <2>3. \A q \in Procs : proc'[q].op \in {"evict", "remove"} =>
          \A g \in dir' : g.n = proc'[q].n => g.full
    BY <1>5, <1>8, <1>11 DEF ReadInv, Rest, KeptInv, Others
  <2> QED
    BY <2>1, <2>2, <2>3 DEF KeptInv
<1> QED
  BY <1>5, <1>6, <1>7, <1>12, <1>13, WorkReads

LEMMA WriteFailsReads ==
  ASSUME ReadInv, NEW p \in Procs, WriteFails(p) PROVE Rest'
<1>1. /\ proc[p].op = "write" /\ dir' = {f \in dir : f.n # proc[p].n}
      /\ gone' = gone \cup {proc[p].n} /\ Become(p, Idle)
      /\ made' = made /\ body' = body /\ opened' = opened /\ stamp' = stamp /\ slug' = slug
      /\ returned' = returned
  BY DEF WriteFails
<1>2. PICK ns : ns = {proc[p].n}
  OBVIOUS
<1>3. dir' = {f \in dir : f.n \notin ns} /\ gone' = gone \cup ns
  BY <1>1, <1>2
<1>4. Idle.op \in Unread \ {"open", "write", "evict"} /\ Idle.op # "remove"
  BY DEF Idle, Unread
<1> QED
  BY <1>1, <1>3, <1>4, ShrinkReads

LEMMA ListReads ==
  ASSUME ReadInv, NEW p \in Procs, List(p) PROVE Rest'
<1>1. /\ proc[p].op = "evict" /\ dir' = dir /\ gone' = gone
      /\ made' = made /\ body' = body /\ opened' = opened /\ stamp' = stamp /\ slug' = slug
      /\ returned' = returned
  BY DEF List
<1>2. PICK x : x = [op |-> "remove", n |-> proc[p].n, more |-> proc[p].more, victims |-> Victims]
  OBVIOUS
<1>3. Become(p, x)
  BY <1>2 DEF List
<1>4. x.op = "remove" /\ x.n = proc[p].n /\ x.op \in Unread \ {"open", "write", "evict"}
  BY <1>2 DEF Unread
<1>5. PICK ns : dir' = {f \in dir : f.n \notin ns} /\ gone' = gone \cup ns
  <2>1. dir' = {f \in dir : f.n \notin {}} /\ gone' = gone \cup {}
    BY <1>1
  <2> QED
    BY <2>1
<1> QED
  BY <1>1, <1>3, <1>4, <1>5, ShrinkReads

LEMMA RemoveVictimReads ==
  ASSUME ReadInv, NEW p \in Procs, RemoveVictim(p) PROVE Rest'
<1>1. PICK n \in proc[p].victims :
        /\ dir' = {f \in dir : f.n # n}
        /\ gone' = gone \cup {n}
        /\ Become(p, [proc[p] EXCEPT !.victims = @ \ {n}])
  BY DEF RemoveVictim
<1>2. /\ proc[p].op = "remove"
      /\ made' = made /\ body' = body /\ opened' = opened /\ stamp' = stamp /\ slug' = slug
      /\ returned' = returned
  BY DEF RemoveVictim
<1>3. PICK m, more, victims :
        proc[p] = [op |-> "remove", n |-> m, more |-> more, victims |-> victims]
  BY <1>2 DEF ReadInv, PadInv, ProcInv, InHand, Shape
<1>4. PICK x : x = [op |-> "remove", n |-> m, more |-> more, victims |-> victims \ {n}]
  OBVIOUS
<1>5. Become(p, x)
  <2>1. [proc[p] EXCEPT !.victims = @ \ {n}] = x
    BY <1>3, <1>4
  <2> QED
    BY <1>1, <2>1
<1>6. x.op = "remove" /\ x.n = proc[p].n /\ x.op \in Unread \ {"open", "write", "evict"}
  BY <1>3, <1>4 DEF Unread
<1>7. PICK ns : ns = {n} /\ dir' = {f \in dir : f.n \notin ns} /\ gone' = gone \cup ns
  BY <1>1
<1> QED
  BY <1>2, <1>5, <1>6, <1>7, ShrinkReads

LEMMA ReturnEntryReads ==
  ASSUME ReadInv, NEW p \in Procs, ReturnEntry(p) PROVE Rest'
<1>1. /\ proc[p].op = "remove" /\ returned' = returned \cup {proc[p].n} /\ dir' = dir /\ gone' = gone
      /\ made' = made /\ body' = body /\ opened' = opened /\ stamp' = stamp /\ slug' = slug
  BY DEF ReturnEntry
<1>2. PICK x : Become(p, x) /\ x.op \in {"idle", "pick"}
  <2>1. PICK err \in Outputs :
          Become(p, IF proc[p].more /\ made < MaxCreates THEN Store(err.text, err.binary) ELSE Idle)
    BY DEF ReturnEntry
  <2>2. Become(p, Store(err.text, err.binary)) \/ Become(p, Idle)
    BY <2>1
  <2> QED
    BY <2>2 DEF Store, Idle
<1>3. x.op \in Unread \ {"open", "write", "evict"} /\ x.op # "remove"
  BY <1>2 DEF Unread
<1>4. PICK ns : dir' = {f \in dir : f.n \notin ns} /\ gone' = gone \cup ns
  <2>1. dir' = {f \in dir : f.n \notin {}} /\ gone' = gone \cup {}
    BY <1>1
  <2> QED
    BY <2>1
<1> QED
  BY <1>1, <1>2, <1>3, <1>4, ShrinkReads

LEMMA DeleteReads ==
  ASSUME ReadInv, NEW p \in Procs, Delete(p) PROVE Rest'
<1>1. PICK n \in proc[p].ns :
        IF \E f \in dir : f.n = n
        THEN /\ dir' = {f \in dir : f.n # n}
             /\ gone' = gone \cup {n}
             /\ Become(p, IF proc[p].ns = {n} THEN Idle ELSE [proc[p] EXCEPT !.ns = @ \ {n}])
        ELSE Become(p, Idle) /\ UNCHANGED <<dir, gone>>
  BY DEF Delete
<1>2. /\ proc[p].op = "delete"
      /\ made' = made /\ body' = body /\ opened' = opened /\ stamp' = stamp /\ slug' = slug
      /\ returned' = returned
  BY DEF Delete
<1>3. PICK ns : proc[p] = [op |-> "delete", ns |-> ns]
  BY <1>2 DEF ReadInv, PadInv, ProcInv, InHand, Shape
<1>4. PICK x : Become(p, x) /\ x.op \in {"idle", "delete"}
  <2> DEFINE y == [op |-> "delete", ns |-> ns \ {n}]
  <2>1. y.op = "delete" /\ [proc[p] EXCEPT !.ns = @ \ {n}] = y
    BY <1>3
  <2>2. Become(p, Idle) \/ Become(p, y)
    BY <1>1, <2>1
  <2> QED
    BY <2>1, <2>2 DEF Idle
<1>5. x.op \in Unread \ {"open", "write", "evict"} /\ x.op # "remove"
  BY <1>4 DEF Unread
<1>6. PICK out : dir' = {f \in dir : f.n \notin out} /\ gone' = gone \cup out
  <2>1. CASE \E f \in dir : f.n = n
    <3>1. dir' = {f \in dir : f.n \notin {n}} /\ gone' = gone \cup {n}
      BY <1>1, <2>1
    <3> QED
      BY <3>1
  <2>2. CASE ~ \E f \in dir : f.n = n
    <3>1. dir' = {f \in dir : f.n \notin {}} /\ gone' = gone \cup {}
      BY <1>1, <2>2
    <3> QED
      BY <3>1
  <2> QED
    BY <2>1, <2>2
<1> QED
  BY <1>2, <1>4, <1>5, <1>6, ShrinkReads

LEMMA CrashReads ==
  ASSUME ReadInv, NEW p \in Procs, Crash(p) PROVE Rest'
<1>1. /\ Become(p, Idle) /\ dir' = dir /\ gone' = gone
      /\ made' = made /\ body' = body /\ opened' = opened /\ stamp' = stamp /\ slug' = slug
      /\ returned' = returned
  BY DEF Crash
<1>2. Idle.op \in Unread \ {"open", "write", "evict"} /\ Idle.op # "remove"
  BY DEF Idle, Unread
<1>3. PICK ns : dir' = {f \in dir : f.n \notin ns} /\ gone' = gone \cup ns
  <2>1. dir' = {f \in dir : f.n \notin {}} /\ gone' = gone \cup {}
    BY <1>1
  <2> QED
    BY <2>1
<1> QED
  BY <1>1, <1>2, <1>3, ShrinkReads

LEMMA InitReadInv == PadInit => ReadInv
<1> SUFFICES ASSUME PadInit PROVE ReadInv
  OBVIOUS
<1>1. PadInv
  BY PadInvInit
<1>2. made = 0 /\ 1 .. made = {} /\ dir = {} /\ \A p \in Procs : proc[p].op = "idle"
  BY DEF PadInit, Idle
<1>3. KeptInv /\ SlugInv
  BY <1>2 DEF KeptInv, SlugInv
<1>4. \A p \in Procs : Has(proc[p])
  BY <1>2 DEF Has, ReaderHas, AnswerHas, ListHas, ListedHas
<1> QED
  BY <1>1, <1>3, <1>4 DEF ReadInv, Rest

LEMMA StepReadInv == FreshSlugs /\ ReadInv /\ [PadNext]_padVars => ReadInv'
<1> SUFFICES ASSUME FreshSlugs, ReadInv, [PadNext]_padVars PROVE ReadInv'
  OBVIOUS
<1>1. PadInv'
  BY PadInvStep DEF ReadInv
<1>2. CASE UNCHANGED padVars
  <2>1. Stays /\ proc' = proc
    BY <1>2 DEF padVars, Stays, ghosts
  <2>2. Grows
    BY <2>1, StaysGrows DEF ReadInv
  <2>3. \A q \in Procs : Has(proc[q])'
    BY <2>1, <2>2, HasStays DEF ReadInv, Rest
  <2>4. KeptInv' /\ SlugInv'
    BY <2>1 DEF ReadInv, Rest, KeptInv, SlugInv, Used, Stays, ghosts
  <2> QED
    BY <1>1, <2>3, <2>4 DEF ReadInv, Rest
<1>3. ASSUME NEW p \in Procs, Step(p) PROVE Rest'
  <2>1. CASE StartRead(p) \/ StartSearch(p) \/ StartDiff(p) \/ Read(p)
    BY <2>1, StartReadReads, StartSearchReads, StartDiffReads, ReadReads
  <2>2. CASE Got(p)
    <3>1. Become(p, Idle) /\ Stays /\ proc[p].op \notin Writers
      BY <2>2 DEF Got, Stays, Writers
    <3> QED
      BY <3>1, IdleReads
  <2>3. CASE StartList(p) \/ ListEntry(p) \/ ListScratchpads(p) \/ ReadListed(p)
    BY <2>3, StartListReads, ListEntryReads, ListScratchpadsReads, ReadListedReads
  <2>4. CASE StartTool(p) \/ CheckArgs(p) \/ CheckStdin(p) \/ StreamInput(p) \/ RunTool(p)
    BY <2>4, ToolReads
  <2>5. CASE StartCreate(p) \/ ExpandFind(p) \/ ExpandRead(p) \/ Pick(p) \/ StartDelete(p)
    BY <2>5, StartCreateReads, ExpandReads, PickReads, StartDeleteReads
  <2>6. CASE Open(p) \/ Write(p) \/ WriteFails(p) \/ Delete(p) \/ Crash(p)
    BY <2>6, OpenReads, WriteReads, WriteFailsReads, DeleteReads, CrashReads
  <2>7. CASE List(p) \/ RemoveVictim(p) \/ ReturnEntry(p)
    BY <2>7, ListReads, RemoveVictimReads, ReturnEntryReads
  <2> QED
    BY <1>3, <2>1, <2>2, <2>3, <2>4, <2>5, <2>6, <2>7 DEF Step
<1> QED
  BY <1>1, <1>2, <1>3 DEF PadNext, ReadInv

LEMMA InvariantReads == ReadInv => ReadsWhatWasStored
<1> SUFFICES ASSUME ReadInv, NEW p \in Procs
             PROVE  /\ proc[p].op \in {"got", "run"} =>
                         \A i \in DOMAIN proc[p].parts : Stored(proc[p].parts[i])
                    /\ proc[p].op = "listed" =>
                         LET those == proc[p].items
                         IN  /\ proc[p].there \ gone \subseteq {those[i].n : i \in DOMAIN those}
                             /\ \A i, j \in DOMAIN those :
                                  {those[i].n, those[j].n} \subseteq proc[p].there =>
                                    (i < j <=> stamp[those[i].n] < stamp[those[j].n])
  BY DEF ReadsWhatWasStored
<1>1. PICK r : r = proc[p]
  OBVIOUS
<1>2. AnswerHas(r) /\ ListedHas(r)
  BY <1>1 DEF ReadInv, Rest, Has, AnswerHas, ListedHas
<1>3. r.op \in {"got", "run"} => \A i \in DOMAIN r.parts : Stored(r.parts[i])
  BY <1>2 DEF AnswerHas
<1>4. ASSUME r.op = "listed"
      PROVE  /\ r.there \ gone \subseteq {r.items[i].n : i \in DOMAIN r.items}
             /\ \A i, j \in DOMAIN r.items :
                  {r.items[i].n, r.items[j].n} \subseteq r.there =>
                    (i < j <=> stamp[r.items[i].n] < stamp[r.items[j].n])
  BY <1>2, <1>4 DEF ListedHas
<1> QED
  BY <1>1, <1>3, <1>4

(* If no slug is given twice, who holds the slug of an entry reads, searches, diffs
   or passes to a tool what its creation stored, or is told that it is gone when it
   is, and a list has, oldest first, every entry that was there all the time
   (scratchpad.go:220-460: GetScratchpad, SearchScratchpad, ListScratchpads). *)
THEOREM ReadersGetWhatWasStored ==
  ASSUME FreshSlugs PROVE PadSpec => []ReadsWhatWasStored
<1>1. PadInit => ReadInv
  BY InitReadInv
<1>2. ReadInv /\ [PadNext]_padVars => ReadInv'
  BY StepReadInv
<1>3. ReadInv => ReadsWhatWasStored
  BY InvariantReads
<1> QED
  BY <1>1, <1>2, <1>3, PTL DEF PadSpec
=============================================================================
