---------------------------- MODULE SessionWatch ----------------------------
(***************************************************************************)
(* A consumer of a session (pkg/agent/events.go).  It subscribes           *)
(* (SubscribeSession): a snapshot, then a loop that polls session.jsonl on *)
(* a ticker or when the broker of its process is notified.  Or it asks for *)
(* the events above its cursor, again and again (ReadSessionEvents).       *)
(*                                                                         *)
(* The log is written under the session lock by a handler of the same      *)
(* process ("local") or of a command of another one ("remote"), which      *)
(* shares the file and not the broker.  Sizes and offsets count two units  *)
(* for a line, its text and its newline, so an offset can fall behind the  *)
(* text of a line that was cut short.                                      *)
(***************************************************************************)
EXTENDS Naturals, Sequences, FiniteSets, SequencesExt, FiniteSetsExt

CONSTANTS Cursors,        \* the cursors a consumer subscribes with
          BatchSize,      \* maxSubscriberBuffer
          WakeCap,        \* capacity of the broker's channel
          History,        \* bound: lines the session starts with
          MaxTurns,       \* bound: seqs allocated
          MaxRewrites,    \* bound: renames over session.jsonl
          MaxFaults       \* bound: lines cut short and failed reads

ASSUME SessionWatchAssumption ==
  /\ Cursors \subseteq [mode : {"all", "since", "last", "live", "poll"}, n : Nat]
  /\ \A c \in Cursors : c.mode \in {"since", "last"} <=> c.n # 0
  /\ {BatchSize, WakeCap} \subseteq Nat \ {0}
  /\ {History, MaxTurns, MaxRewrites, MaxFaults} \subseteq Nat

VARIABLES
  lines,       \* the lines of session.jsonl
  terminated,  \* it ends with a newline
  inode,       \* which file it is; 0: there is none
  bump,        \* seqAllocBump of the subscriber's process
  writer,      \* who holds the session lock, how far it is, and its line
  wake,        \* tokens in the subscriber's channel
  spc,         \* where SubscribeSession is, or ReadSessionEvents
  cursor,      \* what it was asked for
  told,        \* the consumer was told that its cursor is invalid
  snap,        \* the events of the snapshot
  seen,        \* lastFileInfo
  fi,          \* the stat of the current poll
  offset,      \* lastOffset
  pending,     \* events read and not sent
  lastSeq,     \* lastEmittedSeq
  sent,        \* the events sent
  used,        \* how much of each bound is consumed
  owed,        \* ghost: lines written after the snapshot that are to be sent
  archived,    \* ghost: seqs archived before the snapshot, 0 for a whole log
  blind        \* ghost: a read missed what its stat announced

fileVars == <<lines, terminated, inode>>
writerVars == <<bump, writer>>
pollVars == <<seen, fi, offset, pending>>
outVars == <<cursor, told, snap, lastSeq, sent>>
ghosts == <<owed, archived, blind>>
vars == <<lines, terminated, inode, bump, writer, wake, spc, cursor, told, snap,
          seen, fi, offset, pending, lastSeq, sent, used, owed, archived, blind>>

-----------------------------------------------------------------------------
(* The log. *)

Line(seq, id, by) == [seq |-> seq, id |-> id, by |-> by, ok |-> TRUE]
Resting == [by |-> "none", stage |-> "none", seq |-> 0, id |-> 0]
NoFile == [inode |-> 0, size |-> 0]
NoCursor == [mode |-> "none", n |-> 0]

Stat ==
  [inode |-> inode,
   size |-> IF terminated THEN 2 * Len(lines) ELSE 2 * Len(lines) - 1]

(* The last stamped line holds the highest seq (tailMaxSeq). *)
TailSeq == Max({0} \cup {lines[i].seq : i \in {j \in DOMAIN lines : lines[j].ok}})

(* The members of S, in the order of s. *)
Kept(s, S) ==
  LET kept[k \in 0 .. Len(s)] ==
        IF k = 0 THEN <<>>
        ELSE IF s[k] \in S THEN Append(kept[k - 1], s[k]) ELSE kept[k - 1]
  IN kept[Len(s)]

Parsed == {l \in Range(lines) : l.ok}

(* ReadSessionEventsFromDisk: every line that parses, the last one without
   its newline too. *)
AllEvents == Kept(lines, Parsed)

(* readSessionEventsIncremental: the lines behind an offset that end with a
   newline.  At an odd offset the first of them is only a newline. *)
WholeLines == IF terminated THEN Len(lines) ELSE Len(lines) - 1
EventsFrom(off) ==
  Kept(SubSeq(lines, (off + 1) \div 2 + 1, WholeLines), Parsed)
OffsetFrom(off) == Max({off, 2 * WholeLines})

FirstSeq(events) == IF events = <<>> THEN 0 ELSE Head(events).seq
LastSeqOf(events) == IF events = <<>> THEN 0 ELSE Last(events).seq
Above(events, seq) == Kept(events, {l \in Range(events) : l.seq > seq})

Ids == 0 .. (MaxTurns + History)
Stats == [inode : 0 .. MaxRewrites + 1, size : 0 .. 2 * (MaxTurns + History)]

TypeOK ==
  /\ \A i \in DOMAIN lines : {lines[i].id, lines[i].seq} \subseteq Ids
  /\ terminated \in BOOLEAN
  /\ inode \in 0 .. MaxRewrites + 1
  /\ bump \in Ids
  /\ writer.by \in {"none", "local", "remote"}
  /\ writer.stage \in {"none", "write", "notify"}
  /\ wake \in 0 .. WakeCap
  /\ spc \in {"off", "polled", "registered", "snapshot", "latest", "loop", "reading"}
  /\ told \in BOOLEAN
  /\ {seen, fi} \subseteq Stats
  /\ offset \in 0 .. 2 * (MaxTurns + History)
  /\ lastSeq \in Ids
  /\ blind \in BOOLEAN

Init ==
  /\ \E n \in {0, History} :
       /\ lines = [i \in 1 .. n |-> Line(i, MaxTurns + i, "remote")]
       /\ inode = Min({n, 1})
  /\ terminated = TRUE
  /\ bump = 0 /\ writer = Resting
  /\ wake = 0 /\ spc = "off" /\ cursor = NoCursor /\ told = FALSE /\ snap = <<>>
  /\ seen = NoFile /\ fi = NoFile /\ offset = 0 /\ pending = <<>>
  /\ lastSeq = 0 /\ sent = <<>>
  /\ used = [turns |-> 0, rewrites |-> 0, faults |-> 0]
  /\ owed = {} /\ archived = {} /\ blind = FALSE

-----------------------------------------------------------------------------
(* The writers. *)

(* NextSeq under the session lock.  A command starts with an empty
   seqAllocBump. *)
Allocate(by) ==
  LET next == (IF by = "local" THEN Max({TailSeq, bump}) ELSE TailSeq) + 1 IN
  /\ writer = Resting /\ used.turns < MaxTurns
  /\ used' = [used EXCEPT !.turns = @ + 1]
  /\ writer' = [by |-> by, stage |-> "write", seq |-> next, id |-> used.turns + 1]
  /\ bump' = IF by = "local" THEN next ELSE bump
  /\ UNCHANGED <<fileVars, wake, spc, pollVars, outVars, ghosts>>

(* A seq that no line carries: a tool event took it, or the open failed. *)
Forgo ==
  /\ writer.stage = "write"
  /\ writer' = Resting
  /\ UNCHANGED <<fileVars, bump, wake, spc, pollVars, outVars, used, ghosts>>

(* A rename or an append is followed by NotifySessionActivity, which reaches
   subscribers of the writer's own process only. *)
Written ==
  writer' = IF writer.by = "local" THEN [writer EXCEPT !.stage = "notify"] ELSE Resting

(* Lines that a subscriber past its snapshot is to be sent: those above what
   it has sent or is about to send. *)
Due(l) ==
  /\ spc \in {"latest", "loop", "reading"}
  /\ l.seq > Max({lastSeq, LastSeqOf(snap), LastSeqOf(pending)})

Owing(new) == owed' = owed \cup {l \in new : Due(l)}

(* Mutant: the append does not notify. *)
WriteTurn_Silent ==
  LET line == Line(writer.seq, writer.id, writer.by) IN
  /\ writer.stage = "write"
  /\ lines' = Append(lines, line) /\ terminated' = TRUE /\ inode' = Max({inode, 1})
  /\ writer' = Resting
  /\ Owing({line})
  /\ UNCHANGED <<bump, wake, spc, pollVars, outVars, used, archived, blind>>

(* AppendSessionContentWithSeq heals the last line and writes its own. *)
WriteTurn ==
  LET line == Line(writer.seq, writer.id, writer.by) IN
  /\ writer.stage = "write"
  /\ lines' = Append(lines, line) /\ terminated' = TRUE /\ inode' = Max({inode, 1})
  /\ Written
  /\ Owing({line})
  /\ UNCHANGED <<bump, wake, spc, pollVars, outVars, used, archived, blind>>

(* The write is cut short: half a line, or all but the newline. *)
CutShort ==
  /\ writer.stage = "write" /\ used.faults < MaxFaults
  /\ used' = [used EXCEPT !.faults = @ + 1]
  /\ writer' = Resting
  /\ \E ok \in BOOLEAN :
       lines' = Append(lines, [Line(writer.seq, writer.id, writer.by) EXCEPT !.ok = ok])
  /\ terminated' = FALSE /\ inode' = Max({inode, 1})
  /\ UNCHANGED <<bump, wake, spc, pollVars, outVars, ghosts>>

Rename(new) ==
  /\ used.rewrites < MaxRewrites
  /\ used' = [used EXCEPT !.rewrites = @ + 1]
  /\ lines' = new /\ terminated' = TRUE /\ inode' = inode + 1
  /\ UNCHANGED <<bump, wake, spc, pollVars, outVars, blind>>

(* Compaction: the first n turns are archived, and a notice with a new seq is
   put behind the others, if there are any and it is not opted out of. *)
Compact ==
  LET turns == AllEvents
      notice == Line(writer.seq, writer.id, writer.by) IN
  /\ writer.stage = "write"
  /\ Written
  /\ \E n \in DOMAIN turns, noticed \in BOOLEAN :
       LET rest == SubSeq(turns, n + 1, Len(turns))
           new == IF noticed THEN Append(rest, notice) ELSE rest
           gone == {turns[i].seq : i \in 1 .. n} \cup (IF rest = <<>> THEN {0} ELSE {})
       IN  /\ noticed => rest # <<>>
           /\ Rename(new)
           /\ owed' = {l \in owed : l \in Range(rest)}
                      \cup {l \in {notice} : noticed /\ Due(l)}
           /\ archived' = IF spc \in {"off", "polled", "registered", "snapshot"}
                          THEN archived \cup gone ELSE archived

(* StripSignatures: the same turns in a new file. *)
Strip(by) ==
  /\ writer = Resting /\ inode # 0
  /\ Rename(AllEvents)
  /\ writer' = IF by = "local" THEN [Resting EXCEPT !.by = by, !.stage = "notify"] ELSE Resting
  /\ UNCHANGED <<owed, archived>>

(* Mutant: tokens are counted, not dropped. *)
Notify_Unbounded ==
  /\ writer.stage = "notify"
  /\ writer' = Resting
  /\ wake' = IF spc = "off" THEN 0 ELSE wake + 1
  /\ UNCHANGED <<fileVars, bump, spc, pollVars, outVars, used, ghosts>>

(* SessionBroker.notify never blocks. *)
Notify ==
  /\ writer.stage = "notify"
  /\ writer' = Resting
  /\ wake' = IF spc = "off" THEN 0 ELSE Min({wake + 1, WakeCap})
  /\ UNCHANGED <<fileVars, bump, spc, pollVars, outVars, used, ghosts>>

-----------------------------------------------------------------------------
(* SubscribeSession. *)

SubscribeSession(c) ==
  /\ spc = "off" /\ cursor = NoCursor /\ c.mode # "poll"
  /\ spc' = "registered"
  /\ cursor' = c
  /\ UNCHANGED <<fileVars, writerVars, wake, pollVars, told, snap, lastSeq, sent,
                 used, ghosts>>

StatFirst ==
  /\ spc = "registered" /\ spc' = "snapshot"
  /\ seen' = Stat /\ offset' = Stat.size
  /\ UNCHANGED <<fileVars, writerVars, wake, fi, pending, outVars, used, ghosts>>

ReadSnapshot ==
  /\ spc = "snapshot" /\ spc' = "latest"
  /\ snap' = AllEvents
  /\ UNCHANGED <<fileVars, writerVars, wake, pollVars, cursor, told, lastSeq, sent,
                 used, ghosts>>

(* CurrentSeq, read after the lines: allocated seqs count too. *)
LatestSeq == Max({LastSeqOf(snap), TailSeq, bump})

(* Mutant: only a cursor ahead of the log is reported. *)
Rewound_AheadOnly ==
  /\ cursor.mode = "since" /\ cursor.n > 0
  /\ LatestSeq < cursor.n

Rewound ==
  CASE cursor.mode = "since" /\ cursor.n > 0 ->
         cursor.n < FirstSeq(snap) \/ LatestSeq < cursor.n
    [] cursor.mode = "all" -> FirstSeq(snap) > 1
    [] OTHER -> FALSE

Replayed ==
  CASE cursor.mode = "live" -> <<>>
    [] cursor.mode = "since" /\ ~Rewound -> Above(snap, cursor.n)
    [] cursor.mode = "last" /\ cursor.n < Len(snap) ->
         SubSeq(snap, Len(snap) - cursor.n + 1, Len(snap))
    [] OTHER -> snap

(* Mutant: the file is stated once the replay is over. *)
Replay_StatsAgain ==
  /\ spc = "latest" /\ spc' = "loop"
  /\ told' = Rewound
  /\ sent' = Replayed
  /\ snap' = <<>>
  /\ lastSeq' = IF cursor.mode = "live" THEN LatestSeq ELSE LastSeqOf(Replayed)
  /\ seen' = Stat /\ offset' = Stat.size
  /\ owed' = {l \in owed : cursor.mode # "live" /\ l.seq > lastSeq'}
  /\ UNCHANGED <<fileVars, writerVars, wake, fi, pending, cursor, used, archived,
                 blind>>

Replay ==
  /\ spc = "latest" /\ spc' = "loop"
  /\ told' = Rewound
  /\ sent' = Replayed
  /\ snap' = <<>>
  /\ lastSeq' = IF cursor.mode = "live" THEN LatestSeq ELSE LastSeqOf(Replayed)
  /\ owed' = {l \in owed : cursor.mode # "live" /\ l.seq > lastSeq'}
  /\ UNCHANGED <<fileVars, writerVars, wake, pollVars, cursor, used, archived, blind>>

-----------------------------------------------------------------------------
(* The live loop. *)

(* The file is there and is not the one of the last poll, or has grown. *)
Changed == inode # 0 /\ seen # Stat

(* A token or the ticker wakes the loop, which stats the file. *)
Poll ==
  /\ spc = "loop" /\ pending = <<>>
  /\ fi' = IF Changed THEN Stat ELSE fi
  /\ spc' = IF Changed THEN "reading" ELSE "loop"
  /\ UNCHANGED <<fileVars, writerVars, seen, offset, pending, outVars, used, ghosts>>

Wake == wake > 0 /\ wake' = wake - 1 /\ Poll
Tick == UNCHANGED wake /\ Poll

Appended == seen.inode = fi.inode /\ seen.inode # 0 /\ fi.size >= offset

(* Mutant: an overlap is not filtered out. *)
Deliver_Unfiltered(events) ==
  /\ spc = "reading" /\ spc' = "loop"
  /\ seen' = fi /\ fi' = NoFile
  /\ pending' = events
  /\ UNCHANGED <<fileVars, writerVars, wake, outVars, owed, archived>>

Deliver(events) ==
  /\ spc = "reading" /\ spc' = "loop"
  /\ seen' = fi /\ fi' = NoFile
  /\ pending' = Above(events, lastSeq)
  /\ UNCHANGED <<fileVars, writerVars, wake, outVars, owed, archived>>

(* The path may name another file than the one that was stated. *)
ReadAppended ==
  /\ Appended
  /\ Deliver(EventsFrom(offset))
  /\ offset' = OffsetFrom(offset)
  /\ blind' = (blind \/ inode # fi.inode)
  /\ UNCHANGED used

ReadReplaced ==
  /\ ~Appended
  /\ Deliver(AllEvents)
  /\ offset' = fi.size
  /\ UNCHANGED <<used, blind>>

(* The incremental read fails and the full one does not ... *)
ReadAgain ==
  /\ Appended /\ used.faults < MaxFaults
  /\ Deliver(AllEvents)
  /\ offset' = fi.size
  /\ used' = [used EXCEPT !.faults = @ + 1]
  /\ UNCHANGED blind

(* ... or the full read fails: the stat is kept as if the file were read. *)
ReadFails ==
  /\ used.faults < MaxFaults
  /\ Deliver(<<>>)
  /\ used' = [used EXCEPT !.faults = @ + 1]
  /\ blind' = TRUE
  /\ UNCHANGED offset

(* Mutant: what does not fit the batch is dropped. *)
Emit_DropsRest ==
  LET n == Min({Len(pending), BatchSize}) IN
  /\ spc = "loop" /\ pending # <<>>
  /\ sent' = sent \o SubSeq(pending, 1, n)
  /\ pending' = <<>>
  /\ lastSeq' = Max({lastSeq} \cup {pending[i].seq : i \in 1 .. n})
  /\ UNCHANGED <<fileVars, writerVars, wake, spc, cursor, told, snap, seen, fi, offset,
                 used, ghosts>>

(* One batch.  While events are pending the loop neither waits nor stats. *)
Emit ==
  LET n == Min({Len(pending), BatchSize}) IN
  /\ spc = "loop" /\ pending # <<>>
  /\ sent' = sent \o SubSeq(pending, 1, n)
  /\ pending' = SubSeq(pending, n + 1, Len(pending))
  /\ lastSeq' = Max({lastSeq} \cup {pending[i].seq : i \in 1 .. n})
  /\ UNCHANGED <<fileVars, writerVars, wake, spc, cursor, told, snap, seen, fi, offset,
                 used, ghosts>>

-----------------------------------------------------------------------------
(* ReadSessionEvents, called by a consumer that keeps the seq of the last
   event it was given and asks from there on. *)

(* The lines are read ... *)
ReadSessionEvents ==
  /\ spc = "off" /\ spc' = "polled"
  /\ cursor' \in IF cursor = NoCursor THEN {c \in Cursors : c.mode = "poll"}
                                      ELSE {cursor} \cap [mode : {"poll"}, n : Nat]
  /\ snap' = AllEvents
  /\ UNCHANGED <<fileVars, writerVars, wake, pollVars, told, lastSeq, sent, used, ghosts>>

(* Mutant: from_seq takes any baseline for its own. *)
Behind_NeverByFrom(by) == by = "since" /\ cursor.n < FirstSeq(snap)

(* since_seq names the last event the consumer has, from_seq the next one it
   wants.  A consumer that has none names none. *)
Behind(by) ==
  IF by = "since" /\ cursor.n > 0 THEN cursor.n < FirstSeq(snap)
                                 ELSE cursor.n + 1 < FirstSeq(snap)
RolledBack == cursor.n > 0 /\ LatestSeq < cursor.n

(* ... and then CurrentSeq.  A consumer that is told of a rewind starts over
   with what it is given. *)
AnswerEvents(by) ==
  LET rewound == Behind(by) \/ RolledBack
      given == IF rewound THEN snap ELSE Above(snap, cursor.n) IN
  /\ spc = "polled" /\ spc' = "off"
  /\ told' = rewound
  /\ sent' = IF rewound THEN given ELSE sent \o given
  /\ cursor' = [cursor EXCEPT !.n = IF rewound \/ given # <<>> THEN LastSeqOf(given) ELSE @]
  /\ snap' = <<>>
  /\ archived' = IF rewound THEN archived \cap {0} ELSE archived
  /\ UNCHANGED <<fileVars, writerVars, wake, pollVars, lastSeq, used, owed, blind>>

-----------------------------------------------------------------------------
Read == ReadAppended \/ ReadReplaced \/ ReadAgain \/ ReadFails

Writing ==
  \/ \E by \in {"local", "remote"} : Allocate(by) \/ Strip(by)
  \/ Forgo \/ WriteTurn \/ CutShort \/ Compact \/ Notify

Watching ==
  \/ \E c \in Cursors : SubscribeSession(c)
  \/ StatFirst \/ ReadSnapshot \/ Replay \/ Wake \/ Tick \/ Read \/ Emit
  \/ ReadSessionEvents
  \/ \E by \in {"since", "from"} : AnswerEvents(by)

Next == Writing \/ Watching

Spec == Init /\ [][Next]_vars

(***************************************************************************)
(* Fairness: the subscription goes on.  Its ticker fires every 50ms and    *)
(* the consumer takes what is sent to it.  Nothing is asked of writers.    *)
(***************************************************************************)
FairSpec == Spec /\ WF_vars(StatFirst \/ ReadSnapshot \/ Replay \/ Tick \/ Read \/ Emit)

-----------------------------------------------------------------------------
(* Properties. *)

(***************************************************************************)
(* Events are sent in strictly increasing seq order, each once, across     *)
(* incremental reads, re-reads of replaced files, batches and restarts of  *)
(* the numbering (agent.proto:1158: strictly increasing order).            *)
(***************************************************************************)
InOrder == \A i, j \in DOMAIN sent : i < j => sent[i].seq < sent[j].seq

(***************************************************************************)
(* No gap: once an event is sent, every lower line that was written after  *)
(* the snapshot and not archived was sent before (events.go:437-440, "a    *)
(* missed update").  The exception is a poll that went blind: the file was *)
(* replaced between its stat and its open, or could not be read.           *)
(***************************************************************************)
NoGap == blind \/ \A l \in owed : l.seq <= lastSeq => l \in Range(sent)

(***************************************************************************)
(* No lost wakeup: while a subscriber waits, a line of its own process     *)
(* that it has not been sent left a token in its channel: registering      *)
(* before the snapshot and notifying after the write leave no window       *)
(* (events.go:425, 77-78).                                                 *)
(***************************************************************************)
NoLostWakeup ==
  spc = "loop" /\ pending = <<>> /\ writer.stage # "notify" /\ ~blind =>
    \A l \in owed : l.by = "local" /\ l.seq > lastSeq => wake > 0

(***************************************************************************)
(* A consumer that resumes behind a compaction is told: if it is not, no   *)
(* turn above its cursor was archived before the snapshot (events.go:463). *)
(* A log that was archived whole has no baseline to compare with.          *)
(***************************************************************************)
ToldOfRewind ==
  spc \in {"loop", "reading"} /\ cursor.mode = "since" /\ ~told /\ 0 \notin archived
    => \A s \in archived : s <= cursor.n

(***************************************************************************)
(* A consumer that asks again from the last event it was given has every   *)
(* event up to there, the archived ones too, or was told of a rewind since *)
(* (events.go:326-357), although its lines are read before the latest seq  *)
(* and compactions fall in between.  A log that was archived whole may     *)
(* start its numbers over, below the cursor, and is excepted.              *)
(***************************************************************************)
PollMissesNothing ==
  spc = "off" /\ cursor.mode = "poll" /\ 0 \notin archived =>
    \A s \in archived \cup {AllEvents[i].seq : i \in DOMAIN AllEvents} :
      s <= cursor.n => \E i \in DOMAIN sent : sent[i].seq = s

(***************************************************************************)
(* Every line owed is sent, or archived first, whatever the order of       *)
(* appends, rewrites, torn lines and notifications; a blind poll aside.    *)
(***************************************************************************)
Delivered ==
  \A i \in Ids :
    (\E l \in owed : l.id = i)
      ~> blind \/ \A l \in owed : l.id = i => l \in Range(sent)

(***************************************************************************)
(* What agent.proto:1193 says of since_seq: only events strictly above it  *)
(* are streamed, unless the consumer was told of a rewind.                 *)
(***************************************************************************)
CursorRespected ==
  cursor.mode = "since" /\ ~told => \A i \in DOMAIN sent : sent[i].seq > cursor.n

(***************************************************************************)
(* What a subscriber is sent is the session: in order, without a gap, with *)
(* no line of its own process asleep in a lost wakeup, and never resumed   *)
(* over a compaction in silence (events.go:425-491).                       *)
(***************************************************************************)
StreamFaithful ==
  /\ TypeOK /\ InOrder /\ NoGap /\ NoLostWakeup /\ ToldOfRewind
  /\ PollMissesNothing
=============================================================================
