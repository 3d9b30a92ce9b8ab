----------------------------- MODULE SessionLog -----------------------------
(***************************************************************************)
(* The session of one agent: session.jsonl with its sequence numbers       *)
(* (seq.go, session_store.go), its rewrite by compaction and by signature  *)
(* stripping (compaction.go, openai_model.go), and MEMORY.md.              *)
(*                                                                         *)
(* A worker is one handler goroutine together with the goroutine that runs *)
(* its turn's stream.  The handler takes the session lock (SessionMutex)   *)
(* around its work, but the walk over the runtime chain returns as soon as *)
(* the context of a level ends, without waiting for the stream goroutine   *)
(* (sdk.go:537-544): Abandon releases the lock while an operation of the   *)
(* stream is still under way, in the executions that have orphans.         *)
(***************************************************************************)
EXTENDS Naturals, Sequences, FiniteSets, SequencesExt, FiniteSetsExt

CONSTANTS Procs,          \* processes that use the agent directory
          Workers,        \* handlers with their stream goroutines
          ProcOf,         \* the process of each worker
          NoOne,          \* no worker
          Orphans,        \* bound: executions in which a stream outlives its handler
          OrphanRewrites, \* bound: rewrites in one of these, which has no fault
          LegacyRows,     \* bound: rows without a seq in the initial log
          MaxTurns,       \* bound: turns appended
          MaxRewrites,    \* bound: compactions and strips
          MaxToolEvents,  \* bound: sequence numbers taken by tool events
          MaxFaults       \* bound: crashes and failed writes

ASSUME SessionLogAssumption ==
  /\ ProcOf \in [Workers -> Procs]
  /\ NoOne \notin Workers
  /\ Orphans \in BOOLEAN
  /\ {LegacyRows, MaxTurns, MaxRewrites, MaxToolEvents, MaxFaults} \subseteq Nat
  /\ OrphanRewrites \in 0 .. MaxRewrites

VARIABLES
  owner,       \* the worker that holds the session lock
  hold,        \* for which call each worker took it
  log,         \* the lines of session.jsonl
  terminated,  \* session.jsonl ends with a newline
  inode,       \* how often a rename replaced session.jsonl
  memory,      \* the turns MEMORY.md tells of
  bump,        \* seqAllocBump[dir] of each process
  seqMu,       \* who holds seqMu in each process
  pc,          \* where each worker is
  op,          \* the operation it runs, with its local variables
  used,        \* how much of each bound is consumed, and whether streams may be orphans
  acked,       \* ghost: turns whose append reported success
  torn         \* ghost: an overwrite of MEMORY.md ended half-way

lockVars == <<owner, hold>>
fileVars == <<log, terminated, inode>>
seqVars == <<bump, seqMu>>
ghosts == <<acked, torn>>
vars == <<owner, hold, log, terminated, inode, memory, bump, seqMu, pc, op,
          used, acked, torn>>

Mutex == INSTANCE SessionMutex WITH Holders <- Workers

-----------------------------------------------------------------------------
(* Lines. *)

(* One line: the turn, its seq (0: written before seqs existed), and whether
   it parses.  The compaction notice is turn 0. *)
Line(id, seq) == [id |-> id, seq |-> seq, ok |-> TRUE]
Notice == 0

(* ReadPersistedTurns: lines that do not parse are skipped. *)
Parsed(lines) ==
  LET rows[n \in 0 .. Len(lines)] ==
        IF n = 0 THEN <<>>
        ELSE IF lines[n].ok THEN Append(rows[n - 1], lines[n]) ELSE rows[n - 1]
  IN  rows[Len(lines)]

IdsOf(lines) == {lines[i].id : i \in DOMAIN lines}

(* recoverMaxSeqFromLog: the highest stamp, but rows without one occupy
   1..N. *)
RecoverMaxSeq(lines) ==
  LET rows == Parsed(lines)
      unsequenced == Cardinality({i \in DOMAIN rows : rows[i].seq = 0})
  IN  Max({unsequenced} \cup {rows[i].seq : i \in DOMAIN rows})

(* Mutant: a damaged tail counts as an empty log. *)
TailMaxSeq_FailsOpen(lines) ==
  IF lines = <<>> THEN 0 ELSE IF Last(lines).ok THEN Last(lines).seq ELSE 0

(* tailMaxSeq: the last line decides, unless it is damaged or unstamped. *)
TailMaxSeq(lines) ==
  IF lines = <<>> THEN 0
  ELSE IF Last(lines).ok /\ Last(lines).seq > 0 THEN Last(lines).seq
  ELSE RecoverMaxSeq(lines)

(* Bytes written behind an unterminated line become part of that line. *)
AppendLine(line) ==
  IF terminated THEN Append(log, line)
  ELSE [log EXCEPT ![Len(log)].ok = FALSE]

-----------------------------------------------------------------------------
(* Operations. *)

NoOp == [kind |-> "none", id |-> 0, seq |-> 0, fd |-> 0, cut |-> 0,
         snap |-> <<>>, rest |-> <<>>, mem |-> {}]

(* "user": the handler appends the user's message itself.  "event": the
   stream appends a model or tool turn (AppendEvent).  "tool": a tool event
   takes a seq.  "compact", "strip": rewrites.  "read": CurrentSeq. *)
Kinds == {"none", "user", "event", "tool", "compact", "strip", "read"}

(* Operations the stream goroutine runs; the handler runs the others. *)
Streamed == {"event", "tool", "compact"}

Steps == {"idle", "turn", "check", "acquire", "seqMu", "seqCheck", "seqAcquire",
          "alloc", "open", "write", "claims", "claimsWrite", "memTruncate",
          "memWrite", "readBack", "pairUp", "rewrite", "readSeq"}

(* Sequence numbers the bounds allow: each is taken for a turn, a tool event or a
   notice, above the rows there were. *)
Seqs == 0 .. (LegacyRows + MaxTurns + MaxRewrites + MaxToolEvents)
Ids == 0 .. (LegacyRows + MaxTurns)
LineSet == [id : Ids, seq : Seqs, ok : BOOLEAN]

TypeOK ==
  /\ owner \in Workers \cup {NoOne}
  /\ hold \in [Workers -> {"none", "turn", "append", "seq"}]
  /\ \A i \in DOMAIN log : log[i] \in LineSet
  /\ terminated \in BOOLEAN
  /\ inode \in Nat
  /\ memory \subseteq Ids
  /\ bump \in [Procs -> Seqs]
  /\ seqMu \in [Procs -> Workers \cup {NoOne}]
  /\ pc \in [Workers -> Steps]
  /\ \A w \in Workers : op[w].kind \in Kinds /\ op[w].seq \in Seqs
  /\ acked \subseteq Ids
  /\ torn \in BOOLEAN

Init ==
  /\ owner = NoOne
  /\ hold = [w \in Workers |-> "none"]
  /\ \E n \in 0 .. LegacyRows, orphans \in {FALSE, Orphans} :
       /\ log = [i \in 1 .. n |-> Line(i, 0)]
       /\ acked = 1 .. n
       /\ used = [turns |-> n, tools |-> 0, orphans |-> orphans,
                   rewrites |-> IF orphans THEN MaxRewrites - OrphanRewrites ELSE 0,
                   faults |-> IF orphans THEN MaxFaults ELSE 0]
  /\ terminated = TRUE
  /\ inode = 0
  /\ memory = {}
  /\ bump = [p \in Procs |-> 0]
  /\ seqMu = [p \in Procs |-> NoOne]
  /\ pc = [w \in Workers |-> "idle"]
  /\ op = [w \in Workers |-> NoOp]
  /\ torn = FALSE

Goto(w, from, to) == pc[w] = from /\ pc' = [pc EXCEPT ![w] = to]

(* The call returns to the handler, if that is still in its turn. *)
Return(w, from) ==
  /\ Goto(w, from, IF hold[w] = "turn" THEN "turn" ELSE "idle")
  /\ op' = [op EXCEPT ![w] = NoOp]

(* Mutant: the lock a call took for itself is not given back. *)
ReleaseOwn_Leaks(w, call) ==
  UNCHANGED owner /\ hold' = [hold EXCEPT ![w] = IF @ = call THEN "none" ELSE @]

(* The deferred Release of a call that took the lock itself. *)
ReleaseOwn(w, call) ==
  IF hold[w] = call
  THEN Mutex!Release(w) /\ hold' = [hold EXCEPT ![w] = "none"]
  ELSE UNCHANGED lockVars

-----------------------------------------------------------------------------
(* Turns. *)

BeginTurn(w) ==
  /\ Goto(w, "idle", "turn")
  /\ Mutex!Acquire(w)
  /\ hold' = [hold EXCEPT ![w] = "turn"]
  /\ UNCHANGED <<fileVars, memory, seqVars, op, used, ghosts>>

EndTurn(w) ==
  /\ Goto(w, "turn", "idle")
  /\ Mutex!Release(w)
  /\ hold' = [hold EXCEPT ![w] = "none"]
  /\ UNCHANGED <<fileVars, memory, seqVars, op, used, ghosts>>

(* The watchdog fires or the caller goes away: the handler returns and its
   deferred Release runs; the stream goroutine is left to itself. *)
Abandon(w) ==
  /\ used.orphans /\ hold[w] = "turn" /\ op[w].kind \in Streamed
  /\ Mutex!Release(w)
  /\ hold' = [hold EXCEPT ![w] = "none"]
  /\ UNCHANGED <<fileVars, memory, seqVars, pc, op, used, ghosts>>

-----------------------------------------------------------------------------
(* AppendSessionContentGetSeq. *)

StartAppend(w) ==
  /\ used.turns < MaxTurns
  /\ Goto(w, "turn", "check")
  /\ used' = [used EXCEPT !.turns = @ + 1]
  /\ \E k \in {"user", "event"} :
       op' = [op EXCEPT ![w].kind = k, ![w].id = used.turns + 1]
  /\ UNCHANGED <<lockVars, fileVars, memory, seqVars, ghosts>>

(* IsSessionLockedByCurrentProcess: some goroutine here holds the lock. *)
CheckLocked(w) ==
  /\ Goto(w, "check", IF Mutex!HeldBy(ProcOf[w]) THEN "seqMu" ELSE "acquire")
  /\ UNCHANGED <<lockVars, fileVars, memory, seqVars, op, used, ghosts>>

AcquireForAppend(w) ==
  /\ Goto(w, "acquire", "seqMu")
  /\ Mutex!Acquire(w)
  /\ hold' = [hold EXCEPT ![w] = "append"]
  /\ UNCHANGED <<fileVars, memory, seqVars, op, used, ghosts>>

(* Mutant: no healing newline. *)
OpenLog_NoHealing(w) ==
  /\ Goto(w, "open", "write")
  /\ op' = [op EXCEPT ![w].fd = inode]
  /\ UNCHANGED <<lockVars, fileVars, memory, seqVars, used, ghosts>>

(* Mutant: the file is opened without O_APPEND and truncated. *)
OpenLog_Truncates(w) ==
  /\ Goto(w, "open", "write")
  /\ op' = [op EXCEPT ![w].fd = inode]
  /\ log' = <<>> /\ terminated' = TRUE
  /\ UNCHANGED <<lockVars, inode, memory, seqVars, used, ghosts>>

(* Open for append, and heal a missing final newline. *)
OpenLog(w) ==
  /\ Goto(w, "open", "write")
  /\ op' = [op EXCEPT ![w].fd = inode]
  /\ terminated' = TRUE
  /\ UNCHANGED <<lockVars, log, inode, memory, seqVars, used, ghosts>>

(* One write of the line and its newline.  A rename in between has unlinked
   the file this descriptor writes to. *)
WriteLine(w) ==
  LET line == Line(op[w].id, op[w].seq) IN
  /\ Return(w, "write")
  /\ IF op[w].fd = inode
     THEN log' = AppendLine(line)
     ELSE UNCHANGED log
  /\ terminated' = (terminated \/ op[w].fd = inode)
  /\ acked' = acked \cup {op[w].id}
  /\ ReleaseOwn(w, "append")
  /\ UNCHANGED <<inode, memory, seqVars, used, torn>>

(* What a write that is cut short leaves: nothing, a line that does not
   parse, or the line without its newline. *)
CutShort(w) ==
  LET line == Line(op[w].id, op[w].seq) IN
  IF op[w].fd # inode
  THEN UNCHANGED <<log, terminated>>
  ELSE \/ UNCHANGED <<log, terminated>>
       \/ /\ log' = AppendLine([line EXCEPT !.ok = FALSE])
          /\ terminated' = FALSE
       \/ log' = AppendLine(line) /\ terminated' = FALSE

(* The write fails (the disk is full): the append reports an error. *)
WriteFails(w) ==
  /\ used.faults < MaxFaults
  /\ CutShort(w)
  /\ Return(w, "write")
  /\ ReleaseOwn(w, "append")
  /\ used' = [used EXCEPT !.faults = @ + 1]
  /\ UNCHANGED <<inode, memory, seqVars, acked, torn>>

-----------------------------------------------------------------------------
(* NextSeq and CurrentSeq. *)

StartToolEvent(w) ==
  /\ used.tools < MaxToolEvents
  /\ Goto(w, "turn", "seqMu")
  /\ used' = [used EXCEPT !.tools = @ + 1]
  /\ op' = [op EXCEPT ![w].kind = "tool"]
  /\ UNCHANGED <<lockVars, fileVars, memory, seqVars, ghosts>>

LockSeqMu(w) ==
  /\ seqMu[ProcOf[w]] = NoOne
  /\ Goto(w, "seqMu", "seqCheck")
  /\ seqMu' = [seqMu EXCEPT ![ProcOf[w]] = w]
  /\ UNCHANGED <<lockVars, fileVars, memory, bump, op, used, ghosts>>

CheckLockedForSeq(w) ==
  /\ Goto(w, "seqCheck", IF Mutex!HeldBy(ProcOf[w]) THEN "alloc" ELSE "seqAcquire")
  /\ UNCHANGED <<lockVars, fileVars, memory, seqVars, op, used, ghosts>>

(* AcquireSessionLock, polled with seqMu held. *)
AcquireForSeq(w) ==
  /\ Goto(w, "seqAcquire", "alloc")
  /\ Mutex!Acquire(w)
  /\ hold' = [hold EXCEPT ![w] = "seq"]
  /\ UNCHANGED <<fileVars, memory, seqVars, op, used, ghosts>>

(* Mutant: the bump is added to the tail instead of compared with it. *)
HighestSeq_Adds(p) == TailMaxSeq(log) + bump[p]

(* What a process takes for the highest seq: the log's, or its own last
   allocation while that is not in the log yet. *)
HighestSeq(p) == Max({TailMaxSeq(log), bump[p]})

Allocate(w) ==
  LET next == HighestSeq(ProcOf[w]) + 1 IN
  /\ bump' = [bump EXCEPT ![ProcOf[w]] = next]
  /\ seqMu' = [seqMu EXCEPT ![ProcOf[w]] = NoOne]
  /\ ReleaseOwn(w, "seq")
  /\ IF op[w].kind = "tool" THEN Return(w, "alloc")
     ELSE /\ Goto(w, "alloc", IF op[w].kind = "compact" THEN "rewrite" ELSE "open")
          /\ op' = [op EXCEPT ![w].seq = next]
  /\ UNCHANGED <<fileVars, memory, used, ghosts>>

(* CurrentSeq, called by a subscription: no session lock, but seqMu. *)
StartRead(w) ==
  /\ Goto(w, "idle", "readSeq")
  /\ op' = [op EXCEPT ![w].kind = "read"]
  /\ UNCHANGED <<lockVars, fileVars, memory, seqVars, used, ghosts>>

ReadSeq(w) ==
  LET p == ProcOf[w] IN
  /\ seqMu[p] = NoOne
  /\ Return(w, "readSeq")
  /\ bump' = [bump EXCEPT ![p] = IF @ > TailMaxSeq(log) THEN @ ELSE 0]
  /\ UNCHANGED <<lockVars, fileVars, memory, seqMu, used, ghosts>>

-----------------------------------------------------------------------------
(* CheckAndCompactSessionWithFallback. *)

(* Turns and MEMORY.md are read, the boundary is chosen.  Which turns it
   archives depends on token estimates and roles: any prefix, all included.
   If the claims of MEMORY.md changed, they are written first. *)
StartCompact(w) ==
  LET turns == Parsed(log) IN
  /\ used.rewrites < MaxRewrites
  /\ \E step \in {"claims", "memTruncate"} : Goto(w, "turn", step)
  /\ used' = [used EXCEPT !.rewrites = @ + 1]
  /\ \E n \in DOMAIN turns :
       op' = [op EXCEPT ![w] = [NoOp EXCEPT !.kind = "compact", !.cut = n,
                                            !.snap = turns, !.mem = memory]]
  /\ UNCHANGED <<lockVars, fileVars, memory, seqVars, ghosts>>

(* WriteMemoryFile is os.WriteFile: truncate, then write. *)
TruncateMemory(w) ==
  /\ Goto(w, "claims", "claimsWrite") \/ Goto(w, "memTruncate", "memWrite")
  /\ memory' = {}
  /\ UNCHANGED <<lockVars, fileVars, seqVars, op, used, ghosts>>

(* The reconciled claims.  A failure is only a warning. *)
WriteClaims(w) ==
  /\ Goto(w, "claimsWrite", "memTruncate")
  /\ \/ memory' = op[w].mem /\ UNCHANGED used
     \/ /\ used.faults < MaxFaults
        /\ used' = [used EXCEPT !.faults = @ + 1]
        /\ UNCHANGED memory
  /\ UNCHANGED <<lockVars, fileVars, seqVars, op, ghosts>>

WriteMemory(w) ==
  /\ Goto(w, "memWrite", "readBack")
  /\ memory' = op[w].mem \cup IdsOf(SubSeq(op[w].snap, 1, op[w].cut))
  /\ UNCHANGED <<lockVars, fileVars, seqVars, op, used, ghosts>>

(* The turns of lines, each with the seq of the line at its index + offset. *)
Stamp(turns, lines, offset) ==
  [i \in DOMAIN turns |->
     Line(turns[i].id,
          IF i + offset \in DOMAIN lines THEN lines[i + offset].seq ELSE 0)]

(* Mutant: the surviving turns are paired with the first lines. *)
ReadBack_FromHead(w) ==
  LET remaining == SubSeq(op[w].snap, op[w].cut + 1, Len(op[w].snap)) IN
  /\ Goto(w, "readBack", "seqMu")
  /\ op' = [op EXCEPT ![w].rest = Stamp(remaining, Parsed(log), 0)]
  /\ UNCHANGED <<lockVars, fileVars, memory, seqVars, used, ghosts>>

(* The log is read again, only for the seqs of the surviving turns: they are
   taken to be the last lines. *)
ReadBack(w) ==
  LET existing == Parsed(log)
      remaining == SubSeq(op[w].snap, op[w].cut + 1, Len(op[w].snap))
      numCompacted == IF Len(existing) < Len(remaining) THEN 0
                      ELSE Len(existing) - Len(remaining)
  IN  /\ Goto(w, "readBack", "seqMu")
      /\ op' = [op EXCEPT ![w].rest = Stamp(remaining, existing, numCompacted)]
      /\ UNCHANGED <<lockVars, fileVars, memory, seqVars, used, ghosts>>

(* WritePersistedTurns: a temporary file is renamed over session.jsonl. *)
Rename(w, lines) ==
  /\ log' = lines
  /\ terminated' = TRUE
  /\ inode' = inode + 1

(* Mutant: the notice is put in front of the survivors. *)
RewriteCompacted_NoticeFirst(w) ==
  /\ op[w].kind = "compact"
  /\ Return(w, "rewrite")
  /\ Rename(w, <<Line(Notice, op[w].seq)>> \o op[w].rest)
  /\ UNCHANGED <<lockVars, memory, seqVars, used, ghosts>>

(* The survivors, then the notice unless it is opted out of or there is no
   survivor to attach it to. *)
RewriteCompacted(w) ==
  /\ op[w].kind = "compact"
  /\ Return(w, "rewrite")
  /\ \/ Rename(w, op[w].rest)
     \/ op[w].rest # <<>> /\ Rename(w, Append(op[w].rest, Line(Notice, op[w].seq)))
  /\ UNCHANGED <<lockVars, memory, seqVars, used, ghosts>>

(* StripSignatures and WriteSessionTurns: read the turns, read the log again
   for the seqs, rewrite. *)
StartStrip(w) ==
  /\ used.rewrites < MaxRewrites
  /\ Goto(w, "turn", "pairUp")
  /\ used' = [used EXCEPT !.rewrites = @ + 1]
  /\ op' = [op EXCEPT ![w] = [NoOp EXCEPT !.kind = "strip", !.snap = Parsed(log)]]
  /\ UNCHANGED <<lockVars, fileVars, memory, seqVars, ghosts>>

PairUp(w) ==
  /\ Goto(w, "pairUp", "rewrite")
  /\ op' = [op EXCEPT ![w].rest = Stamp(op[w].snap, Parsed(log), 0)]
  /\ UNCHANGED <<lockVars, fileVars, memory, seqVars, used, ghosts>>

RewriteStripped(w) ==
  /\ op[w].kind = "strip"
  /\ Return(w, "rewrite")
  /\ Rename(w, op[w].rest)
  /\ UNCHANGED <<lockVars, memory, seqVars, used, ghosts>>

(* The old MEMORY.md is neither in the file nor in the operation's hands. *)
Forgotten(w) == ~(op[w].mem \subseteq memory)

(* No backend returns a usable summary. *)
SummaryFails(w) ==
  /\ Return(w, "memTruncate")
  /\ torn' = (torn \/ Forgotten(w))
  /\ UNCHANGED <<lockVars, fileVars, memory, seqVars, used, acked>>

(* A write or a read of a rewrite fails: what is done stays done. *)
RewriteFails(w) ==
  /\ used.faults < MaxFaults
  /\ \E step \in {"memWrite", "readBack", "pairUp", "rewrite"} : Return(w, step)
  /\ used' = [used EXCEPT !.faults = @ + 1]
  /\ torn' = (torn \/ Forgotten(w))
  /\ UNCHANGED <<lockVars, fileVars, memory, seqVars, acked>>

-----------------------------------------------------------------------------
(* A process dies: its locks, its bump and its operations are gone. *)
Crash(p) ==
  LET mine == {w \in Workers : ProcOf[w] = p}
      writing == {w \in mine : pc[w] = "write"}
  IN  /\ used.faults < MaxFaults
      /\ used' = [used EXCEPT !.faults = @ + 1]
      /\ IF writing = {} THEN UNCHANGED <<log, terminated>>
         ELSE \E w \in writing : CutShort(w)
      /\ torn' = (torn \/ \E w \in mine : Forgotten(w))
      /\ owner' = IF owner \in mine THEN NoOne ELSE owner
      /\ hold' = [w \in Workers |-> IF w \in mine THEN "none" ELSE hold[w]]
      /\ bump' = [bump EXCEPT ![p] = 0]
      /\ seqMu' = [seqMu EXCEPT ![p] = NoOne]
      /\ pc' = [w \in Workers |-> IF w \in mine THEN "idle" ELSE pc[w]]
      /\ op' = [w \in Workers |-> IF w \in mine THEN NoOp ELSE op[w]]
      /\ UNCHANGED <<inode, memory, acked>>

-----------------------------------------------------------------------------
Appending(w) ==
  CheckLocked(w) \/ AcquireForAppend(w) \/ OpenLog(w) \/ WriteLine(w)

Sequencing(w) ==
  LockSeqMu(w) \/ CheckLockedForSeq(w) \/ AcquireForSeq(w) \/ Allocate(w)
  \/ ReadSeq(w)

Rewriting(w) ==
  TruncateMemory(w) \/ WriteClaims(w) \/ WriteMemory(w) \/ ReadBack(w) \/ RewriteCompacted(w)
  \/ PairUp(w) \/ RewriteStripped(w)

Starting(w) ==
  BeginTurn(w) \/ StartAppend(w) \/ StartToolEvent(w) \/ StartRead(w)
  \/ StartCompact(w) \/ StartStrip(w)

Next ==
  \/ \E w \in Workers :
       Starting(w) \/ Appending(w) \/ Sequencing(w) \/ Rewriting(w)
       \/ EndTurn(w) \/ Abandon(w) \/ WriteFails(w) \/ SummaryFails(w) \/ RewriteFails(w)
  \/ \E p \in Procs : Crash(p)

Spec == Init /\ [][Next]_vars

-----------------------------------------------------------------------------
(* Properties. *)

(* What MEMORY.md tells; a compaction that overwrites it has read it. *)
Summarised == memory \cup UNION {op[w].mem : w \in Workers}

Session == INSTANCE TurnLog WITH turns <- Parsed(log), remembered <- Summarised

(***************************************************************************)
(* The session implements TurnLog as long as no stream outlives the lock   *)
(* of its handler: through torn writes, healing newlines, renames,         *)
(* restarts and several processes, readable turns only ever enter at the   *)
(* tail with a higher seq, keep their seq across a rewrite, and leave from *)
(* the head after MEMORY.md covers them.                                   *)
(***************************************************************************)
TurnLogSpec ==
  /\ Session!Init
  /\ [][used.orphans \/ Session!Next]_<<Parsed(log), Summarised>>

(***************************************************************************)
(* A turn whose append reported success is in the log or in MEMORY.md,     *)
(* unless a process died or its write failed after it had truncated        *)
(* MEMORY.md, which is not replaced atomically (compaction.go:257).        *)
(***************************************************************************)
NothingLost == torn \/ acked \subseteq IdsOf(Parsed(log)) \cup Summarised

(***************************************************************************)
(* The number a process infers from the last line is at least every number *)
(* in the log (seq.go:111-117: the LAST line holds the highest seq, and a  *)
(* damaged tail can never reset the allocator).                            *)
(***************************************************************************)
TailHoldsMax == \A i \in DOMAIN log : log[i].ok => log[i].seq <= TailMaxSeq(log)

(***************************************************************************)
(* No two turns of the log carry the same sequence number                  *)
(* (session_store.go:253-261); subscribers order and resume by it.         *)
(***************************************************************************)
UniqueSeqs ==
  LET rows == Parsed(log) IN
  \A i, j \in DOMAIN rows :
    rows[i].seq = rows[j].seq /\ rows[i].seq > 0 => i = j

(***************************************************************************)
(* A worker at rest holds neither the session lock nor seqMu, whichever    *)
(* call took them and whether or not its handler left first: every path    *)
(* out of the append and of NextSeq gives back what it took.               *)
(***************************************************************************)
LocksReturned ==
  \A w \in Workers : pc[w] = "idle" => owner # w /\ seqMu[ProcOf[w]] # w

(***************************************************************************)
(* No path out of an append or of NextSeq keeps a lock that the next one   *)
(* needs, even when the handler has left first; and while handlers outlive *)
(* their streams, the log stays one from which a process that has just     *)
(* started can go on numbering: the last line tells the highest number and *)
(* no number is used twice (seq.go:111-117, 215-225,                       *)
(* session_store.go:253-279).                                              *)
(***************************************************************************)
LogSound ==
  /\ TypeOK
  /\ LocksReturned
  /\ used.orphans \/ (TailHoldsMax /\ UniqueSeqs)
=============================================================================
