----------------------------- MODULE Compaction -----------------------------
(***************************************************************************)
(* One pass of CheckAndCompactSessionWithFallback (compaction.go): which   *)
(* turns it archives, what kind of pass MEMORY.md calls for, the walk over *)
(* the runtime chain with its retries, and the two files it writes; the    *)
(* reconciliation of the claims in MEMORY.md (claims.go), done before a    *)
(* summary and whenever a turn reads the session; and an aside question    *)
(* (sdk.go asideInternal), which reads both files without the lock.        *)
(*                                                                         *)
(* The passes and the turns of one agent exclude each other (SessionLock), *)
(* so pc is one program counter; the aside runs beside them.  Texts are    *)
(* told apart only as the code's validation does: "short" is a refusal or  *)
(* fewer than minMajorOutputChars characters, "full" a real document,      *)
(* "synthetic" what BeforeModel answers in place of the model.             *)
(***************************************************************************)
EXTENDS Naturals, Sequences, FiniteSets

CONSTANTS Levels,        \* length of the runtime chain
          Retries,       \* maxCompactionOutputRetries
          MaxToolTurns,  \* model calls allowed after the first of a tracker
          Tight,         \* a second call of a tracker may exceed the budget
          MajorEvery,    \* major-compact-every, 0 when unset
          MemoryMax,     \* summaries that reach major-compact-memory-pct
          Claims,        \* claim lines MEMORY.md may hold
          MaxTurns,      \* bound: turns appended
          MaxPasses,     \* bound: passes started
          MaxDenied,     \* bound: tool calls denied in one run
          MaxFaults      \* bound: crashes, failed file operations, quota marks

ASSUME CompactionAssumption ==
  /\ Levels \in Nat \ {0}
  /\ Tight \in BOOLEAN
  /\ {Retries, MaxToolTurns, MajorEvery, MemoryMax, MaxTurns, MaxPasses,
      MaxDenied, MaxFaults} \subseteq Nat

VARIABLES
  log,      \* session.jsonl
  memory,   \* MEMORY.md
  closed,   \* claims whose authority says they are over
  failed,   \* backends marked failed-until-reset
  pc,       \* where the holder of the session lock is
  pass,     \* the pass under way
  aside,    \* the aside question
  used,     \* how much of each bound is consumed
  gone,     \* ghost: claims moved to the resolved ones and not told anew
  last,     \* ghost: the kind of the pass that wrote MEMORY.md last
  split,    \* ghost: calls a boundary cut off from their response
  hollow,   \* ghost: turns archived under a synthetic answer
  wrecked   \* ghost: a write of MEMORY.md ended half-way

files == <<log, memory>>
ghosts == <<gone, last, split, hollow, wrecked>>
vars == <<files, closed, failed, pc, pass, aside, used, ghosts>>

-----------------------------------------------------------------------------
(* session.jsonl *)

Turn(id, kind) == [id |-> id, kind |-> kind]
Notice == Turn(0, "notice")

(* What is appended between two passes: a message alone, or a whole turn, or
   a turn with a tool call that was cut short after the tool's response. *)
Exchanges == {<<"user">>, <<"user", "model">>, <<"user", "call", "response">>}

OfModel(turn) == turn.kind \in {"call", "model"}

(* CleanSessionTurns: the turns a model request made of these lines shows.  A
   call without its response and a response without its call are stripped. *)
Shown(turns) ==
  {turns[i].id : i \in
     {j \in DOMAIN turns :
        /\ turns[j].kind = "call" =>
             j < Len(turns) /\ turns[j + 1].kind = "response"
        /\ turns[j].kind = "response" => j > 1 /\ turns[j - 1].kind = "call"}}

IdsOf(turns) == {turns[i].id : i \in DOMAIN turns}

(* The boundary: the turns that reach the wanted share of the tokens, and on
   to the next turn of the model, or the end. *)
Boundary(turns, n) ==
  LET stops == {i \in n .. Len(turns) : OfModel(turns[i]) \/ i = Len(turns)}
  IN  CHOOSE i \in stops : \A j \in stops : i <= j

-----------------------------------------------------------------------------
(* MEMORY.md: the turns its text was made from, the managed frontmatter
   (compact-cycle, last-major-cycle), how many summaries it has grown to, its
   live and resolved claims, and how its whole text came about. *)

Empty == [covers |-> {}, cycle |-> 0, major |-> 0, size |-> 0,
          live |-> {}, resolved |-> {}, text |-> "none", by |-> "none"]

(* Mutant: compared with the coming cycle. *)
AfterMajor_Late(doc) == doc.major > 0 /\ doc.major = doc.cycle + 1

(* The cycling guard: the pass after a major one is minor. *)
AfterMajor(doc) == doc.major > 0 /\ doc.major = doc.cycle

(* memoryExceedsPct *)
Exceeds(doc) ==
  /\ doc # Empty
  /\ MemoryMax > 0
  /\ ~AfterMajor(doc)
  /\ doc.size >= MemoryMax

(* decideMemoryPass *)
IsMajor(doc) ==
  /\ doc # Empty
  /\ ~AfterMajor(doc)
  /\ \/ MajorEvery > 0 /\ (doc.cycle + 1) % MajorEvery = 0
     \/ Exceeds(doc)

Stale(doc) == doc.live \cap closed

(* ReconcileMemoryClaims: only claims proved stale move; what cannot be
   verified stays. *)
Reconciled(doc) == [doc EXCEPT !.live = @ \ Stale(doc),
                               !.resolved = @ \cup Stale(doc)]

(* Mutants: only emptiness counts, and not even that in a minor pass. *)
Valid_AnyText(text, major) == text # ""
Valid_EvenEmpty(text, major) == text = "" \/ ~major \/ text # "short"

(* validateCompactionOutput *)
Valid(text, major) == text # "" /\ (major => text # "short")

(* What the text of a pass was made from: a synthetic answer from nothing. *)
Sources(p, text) ==
  IF text = "synthetic" THEN {} ELSE p.doc.covers \cup Shown(p.cut)

(* The new MEMORY.md.  A major pass and a replacing one put the text in place
   of the document (applyMajorRewrite; the latter drops the frontmatter, and
   keeps of the claims what the model chose to), an appending one adds it to
   the ledger (applyMinorAppend). *)
Documents(p, text) ==
  LET kept == SUBSET (p.doc.live \cup p.doc.resolved)
      whole == [covers |-> Sources(p, text), cycle |-> 0, major |-> 0,
                size |-> 1, live |-> {}, resolved |-> {}, text |-> text,
                by |-> "replace"]
  IN  IF p.major
        THEN {[whole EXCEPT !.cycle = p.doc.cycle + 1,
                            !.major = p.doc.cycle + 1,
                            !.live = claims, !.by = "major"] : claims \in kept}
      ELSE IF p.append
        THEN {[p.doc EXCEPT !.covers = @ \cup Sources(p, text),
                            !.cycle = @ + 1, !.size = @ + 1]}
      ELSE {[whole EXCEPT !.live = claims] : claims \in kept}

-----------------------------------------------------------------------------
NoPass == [doc |-> Empty, new |-> Empty, cut |-> <<>>, rest |-> <<>>,
           major |-> FALSE, forced |-> FALSE, append |-> TRUE, level |-> 0,
           attempt |-> 0, calls |-> 0, denied |-> 0, text |-> ""]

NoAside == [pc |-> "idle", due |-> {}]

Init ==
  /\ log = <<>>
  /\ \E live \in SUBSET Claims :
       memory = IF live = {} THEN Empty
                ELSE [Empty EXCEPT !.live = live, !.size = 1]
  /\ closed = {}
  /\ failed = [level \in 1 .. Levels |-> FALSE]
  /\ pc = "idle"
  /\ pass = NoPass
  /\ aside = NoAside
  /\ used = [turns |-> 0, passes |-> 0, faults |-> 0]
  /\ gone = {}
  /\ last = "none"
  /\ split = {}
  /\ hollow = {}
  /\ wrecked = FALSE

Fault == used.faults < MaxFaults /\ used' = [used EXCEPT !.faults = @ + 1]

(* MEMORY.md is truncated, and not yet written again. *)
Torn == pc \in {"wakeTorn", "claimsTorn", "storeTorn"}

(* Calls cut off from their responses, and those responses (the next id):
   CleanSessionTurns hides both from every model from then on. *)
CutOff == split \cup {id + 1 : id \in split}

(* fail: the compact-failed hook runs and the lock's holder goes on. *)
Fail == pc' = "idle" /\ pass' = NoPass

-----------------------------------------------------------------------------
(* Between passes. *)

AppendTurns(exchange) ==
  /\ pc = "idle"
  /\ used.turns + Len(exchange) <= MaxTurns
  /\ log' = log \o [i \in DOMAIN exchange |->
                      Turn(used.turns + i, exchange[i])]
  /\ used' = [used EXCEPT !.turns = @ + Len(exchange)]
  /\ UNCHANGED <<memory, closed, failed, pc, pass, aside, ghosts>>

(* The card is closed, the branch or the worktree is gone. *)
CloseClaim ==
  /\ \E c \in Claims \ closed : closed' = closed \cup {c}
  /\ UNCHANGED <<log, memory, failed, pc, pass, aside, used, ghosts>>

(* The reset time of a marked backend passes. *)
QuotaResets ==
  /\ \E level \in 1 .. Levels :
       failed[level] /\ failed' = [failed EXCEPT ![level] = FALSE]
  /\ UNCHANGED <<log, memory, closed, pc, pass, aside, used, ghosts>>

(* FileSessionService.Get: a turn that reads the session reconciles. *)
Wake ==
  /\ pc = "idle"
  /\ Stale(memory) # {}
  /\ pc' = "wakeTorn"
  /\ pass' = [NoPass EXCEPT !.new = Reconciled(memory)]
  /\ memory' = Empty
  /\ UNCHANGED <<log, closed, failed, aside, used, ghosts>>

WakeWrite ==
  /\ pc = "wakeTorn"
  /\ memory' = pass.new
  /\ gone' = gone \cup pass.new.resolved
  /\ pc' = "idle" /\ pass' = NoPass
  /\ UNCHANGED <<log, closed, failed, aside, used, last, split, hollow, wrecked>>

-----------------------------------------------------------------------------
(* A pass. *)

(* The pass is worked out from both files.  Unless it is forced, a session
   that fits and a memory that does not exceed its share end it here. *)
StartPass(force, forceMajor, append, n) ==
  LET major == forceMajor \/ IsMajor(memory)
      b == Boundary(log, n)
  IN  /\ pc = "idle"
      /\ log # <<>>
      /\ used.passes < MaxPasses
      /\ force \/ Exceeds(memory)
      /\ used' = [used EXCEPT !.passes = @ + 1]
      /\ pass' = [NoPass EXCEPT !.doc = memory,
                                !.cut = SubSeq(log, 1, b),
                                !.rest = SubSeq(log, b + 1, Len(log)),
                                !.major = major,
                                !.forced = major /\ ~IsMajor(memory),
                                !.append = append \/ major]
      /\ split' = IF log[b].kind = "call" THEN split \cup {log[b].id} ELSE split
      /\ pc' = "claims"
      /\ UNCHANGED <<log, memory, closed, failed, aside, gone, last, hollow, wrecked>>

(* session.jsonl, COMPACT.md, MEMORY.md, the seed or the directive is bad. *)
GiveUp ==
  /\ pc \in {"idle", "claims", "level"} /\ log # <<>>
  /\ Fault /\ Fail
  /\ UNCHANGED <<log, memory, closed, failed, aside, ghosts>>

(* Claims are reconciled before the summary is asked for. *)
ReconcileClaims ==
  /\ pc = "claims"
  /\ IF Stale(pass.doc) = {}
       THEN /\ pc' = "level" /\ pass' = [pass EXCEPT !.level = 1]
            /\ UNCHANGED memory
       ELSE /\ pc' = "claimsTorn" /\ memory' = Empty
            /\ pass' = [pass EXCEPT !.new = Reconciled(pass.doc)]
  /\ UNCHANGED <<log, closed, failed, aside, used, ghosts>>

(* Mutant: the summary is still made from the document as it was read. *)
InHand_AsRead(p) == p.doc

InHand(p) == p.new

ClaimsWrite ==
  /\ pc = "claimsTorn"
  /\ memory' = pass.new
  /\ pass' = [pass EXCEPT !.doc = InHand(pass), !.level = 1]
  /\ gone' = gone \cup pass.new.resolved
  /\ pc' = "level"
  /\ UNCHANGED <<log, closed, failed, aside, used, last, split, hollow, wrecked>>

(* A failed write is a warning; the pass goes on with what it has read. *)
ClaimsWriteFails ==
  /\ pc = "claimsTorn"
  /\ Fault
  /\ wrecked' = TRUE
  /\ pass' = [pass EXCEPT !.level = 1]
  /\ pc' = "level"
  /\ UNCHANGED <<log, memory, closed, failed, aside, gone, last, split, hollow>>

(* Mutant: a level without a summary is loaded again. *)
NextLevel_Same ==
  IF pass.level < Levels THEN pc' = "level" /\ pass' = [pass EXCEPT !.text = ""]
                         ELSE Fail

(* The next level of the chain, or the end of the pass. *)
NextLevel ==
  IF pass.level < Levels
    THEN pc' = "level" /\ pass' = [pass EXCEPT !.level = @ + 1, !.text = ""]
    ELSE Fail

(* Its backend is skipped, cannot be loaded, or gets a tracker of its own and
   a fresh session. *)
SkipLevel ==
  /\ pc = "level"
  /\ \/ failed[pass.level] /\ UNCHANGED used
     \/ ~failed[pass.level] /\ Fault
  /\ NextLevel
  /\ UNCHANGED <<log, memory, closed, failed, aside, ghosts>>

LoadLevel ==
  /\ pc = "level"
  /\ ~failed[pass.level]
  /\ pc' = "ask"
  /\ pass' = [pass EXCEPT !.attempt = 0, !.calls = 0, !.denied = 0, !.text = ""]
  /\ UNCHANGED <<log, memory, closed, failed, aside, used, ghosts>>

(* ModelCalls of the tracker, counted up to the first call it refuses. *)
OneMore(calls) == IF calls > MaxToolTurns THEN calls ELSE calls + 1

Again(attempt) == attempt < Retries

(* A run has ended without an error, and text is its last non-empty text.
   Degenerate output is asked for again in a fresh session, with the same
   tracker. *)
RunEnds(text) ==
  IF Valid(text, pass.major)
    THEN /\ pc' = "store"
         /\ pass' = [pass EXCEPT !.text = text, !.level = 0, !.attempt = 0,
                                 !.calls = 0, !.denied = 0]
  ELSE IF Again(pass.attempt)
    THEN /\ pc' = "ask"
         /\ pass' = [pass EXCEPT !.attempt = @ + 1, !.calls = OneMore(@),
                                 !.denied = 0, !.text = ""]
  ELSE NextLevel

(* BeforeModel lets the call through only within the tool turns, and not at
   all past the context budget. *)
Refused == \/ pass.calls > 0 /\ Tight
           \/ pass.calls > MaxToolTurns

Synthetic ==
  /\ pc = "ask" /\ Refused
  /\ RunEnds("synthetic")
  /\ UNCHANGED <<log, memory, closed, failed, aside, used, ghosts>>

Reply(said) ==
  /\ pc = "ask" /\ (Tight \/ ~Refused)
  /\ RunEnds(IF said = "" THEN pass.text ELSE said)
  /\ UNCHANGED <<log, memory, closed, failed, aside, used, ghosts>>

(* The model calls a tool, which is denied, and is called again. *)
Denied(said) ==
  /\ pc = "ask" /\ (Tight \/ ~Refused)
  /\ pass.denied < MaxDenied
  /\ pass' = [pass EXCEPT !.calls = OneMore(@), !.denied = @ + 1,
                          !.text = IF said = "" THEN @ ELSE said]
  /\ UNCHANGED <<log, memory, closed, failed, pc, aside, used, ghosts>>

(* A qualifying error before any text descends; any other, and the end of the
   context, ends the pass.  A quota hint marks the backend. *)
Marks(level, hint) ==
  IF hint THEN Fault /\ failed' = [failed EXCEPT ![level] = TRUE]
          ELSE UNCHANGED <<failed, used>>

RunFails(qualifying, hint) ==
  /\ pc = "ask"
  /\ Marks(pass.level, hint)
  /\ IF qualifying /\ pass.text = "" /\ pass.level < Levels THEN NextLevel ELSE Fail
  /\ UNCHANGED <<log, memory, closed, aside, ghosts>>

(* WriteMemoryFile truncates the file and writes it. *)
Store ==
  /\ pc = "store"
  /\ IF pass.text = ""
       THEN pc' = "rewrite" /\ UNCHANGED <<memory, pass>>
       ELSE /\ pc' = "storeTorn" /\ memory' = Empty
            /\ \E doc \in Documents(pass, pass.text) :
                 pass' = [pass EXCEPT !.new = doc]
  /\ UNCHANGED <<log, closed, failed, aside, used, ghosts>>

StoreWrite ==
  /\ pc = "storeTorn"
  /\ memory' = pass.new
  /\ pc' = "rewrite"
  /\ gone' = IF pass.major \/ ~pass.append THEN gone \ pass.new.live ELSE gone
  /\ last' = IF pass.major THEN "major" ELSE "minor"
  /\ hollow' = IF pass.text = "synthetic"
                 THEN hollow \cup pass.doc.covers \cup Shown(pass.cut)
                 ELSE hollow
  /\ UNCHANGED <<log, closed, failed, pass, aside, used, split, wrecked>>

StoreFails ==
  /\ pc = "storeTorn"
  /\ Fault /\ Fail
  /\ wrecked' = TRUE
  /\ UNCHANGED <<log, memory, closed, failed, aside, gone, last, split, hollow>>

(* Only then is session.jsonl replaced, the notice at its tail. *)
Rewrite ==
  /\ pc = "rewrite"
  /\ log' = IF pass.rest = <<>> THEN <<>> ELSE pass.rest \o <<Notice>>
  /\ pc' = "idle" /\ pass' = NoPass
  /\ UNCHANGED <<memory, closed, failed, aside, used, ghosts>>

RewriteFails ==
  /\ pc = "rewrite"
  /\ Fault /\ Fail
  /\ UNCHANGED <<log, memory, closed, failed, aside, ghosts>>

(* The process dies; the kernel frees the lock. *)
Crash ==
  /\ pc # "idle"
  /\ Fault
  /\ wrecked' = (wrecked \/ Torn)
  /\ pc' = "idle" /\ pass' = NoPass
  /\ UNCHANGED <<log, memory, closed, failed, aside, gone, last, split, hollow>>

-----------------------------------------------------------------------------
(* The aside: no lock, the log first and MEMORY.md second. *)

AsideBegin ==
  /\ aside.pc = "idle" /\ log # <<>>
  /\ aside' = [aside EXCEPT !.pc = "first", !.due = 1 .. used.turns]
  /\ UNCHANGED <<files, closed, failed, pc, pass, used, ghosts>>

(* Mutant: MEMORY.md first. *)
ReadOrder_Memory == <<"memory", "log">>
ReadOrder == <<"log", "memory">>

(* What a read shows is no longer due; neither is what is lost anyway. *)
LeftDue(file) ==
  IF file = "log" THEN aside.due \ IdsOf(log)
  ELSE IF Torn \/ wrecked THEN {}
  ELSE aside.due \ (memory.covers \cup CutOff \cup hollow)

AsideFirst ==
  /\ aside.pc = "first"
  /\ aside' = [pc |-> "second", due |-> LeftDue(ReadOrder[1])]
  /\ UNCHANGED <<files, closed, failed, pc, pass, used, ghosts>>

AsideSecond ==
  /\ aside.pc = "second"
  /\ aside' = [pc |-> "asked", due |-> LeftDue(ReadOrder[2])]
  /\ UNCHANGED <<files, closed, failed, pc, pass, used, ghosts>>

-----------------------------------------------------------------------------
PassStep ==
  \/ ReconcileClaims \/ ClaimsWrite \/ SkipLevel \/ LoadLevel
  \/ Synthetic
  \/ \E said \in {"", "short", "full"} : Reply(said)
  \/ \E said \in {"", "short"} : Denied(said)
  \/ \E qualifying, hint \in BOOLEAN : RunFails(qualifying, hint)
  \/ Store \/ StoreWrite \/ Rewrite \/ WakeWrite

Next ==
  \/ \E exchange \in Exchanges : AppendTurns(exchange)
  \/ CloseClaim \/ QuotaResets \/ Wake
  \/ \E force, forceMajor, append \in BOOLEAN, n \in DOMAIN log :
       StartPass(force, forceMajor, append, n)
  \/ PassStep
  \/ GiveUp \/ ClaimsWriteFails \/ StoreFails \/ RewriteFails \/ Crash
  \/ AsideBegin \/ AsideFirst \/ AsideSecond

Spec == Init /\ [][Next]_vars

(* The holder of the lock runs as long as it can: every model call ends, by a
   reply, by an error or by its deadline. *)
FairSpec == Spec /\ WF_vars(PassStep)

-----------------------------------------------------------------------------
Kinds == {"user", "call", "response", "model", "notice"}
Steps == {"idle", "wakeTorn", "claims", "claimsTorn", "level", "ask", "store",
          "storeTorn", "rewrite"}
Ids == 0 .. MaxTurns
Docs == [covers : SUBSET Ids, cycle : 0 .. MaxPasses, major : 0 .. MaxPasses,
         size : 0 .. MaxPasses + 1, live : SUBSET Claims,
         resolved : SUBSET Claims,
         text : {"none", "short", "full", "synthetic"},
         by : {"none", "major", "replace"}]

TypeOK ==
  /\ \A i \in DOMAIN log : log[i] \in [id : Ids, kind : Kinds]
  /\ memory \in Docs
  /\ closed \subseteq Claims
  /\ failed \in [1 .. Levels -> BOOLEAN]
  /\ pc \in Steps
  /\ {pass.doc, pass.new} \subseteq Docs
  /\ pc \in {"level", "ask"} => pass.level \in 1 .. Levels
  /\ pass.attempt \in 0 .. Retries
  /\ aside.pc \in {"idle", "first", "second", "asked"}
  /\ gone \subseteq Claims
  /\ last \in {"none", "major", "minor"}
  /\ (split \cup hollow) \subseteq Ids
  /\ wrecked \in BOOLEAN

(* Every turn ever appended is in session.jsonl or went into the text of
   MEMORY.md, through every chain of passes, failures and crashes.  It can be
   lost in three ways only: a boundary parted a call from its response, a
   synthetic answer was taken for a summary, or a write of MEMORY.md ended
   half-way. *)
NothingForgotten ==
  \/ wrecked
  \/ Torn
  \/ 1 .. used.turns \subseteq IdsOf(log) \cup memory.covers \cup CutOff \cup hollow

(* A refusal or a fragment never stands in for the whole document, whatever
   was retried on whichever backend, unless the pass was a minor one that
   replaces (append-only: false), which is not checked for it
   (compaction.go:890, validateCompactionOutput). *)
WholeDocumentIsReal == memory.by = "major" => memory.text # "short"

(* Two major passes never follow each other unless the second one was asked
   for: the guard reads it off the file's frontmatter alone
   (memory_consolidation.go:125). *)
MajorsAlternate ==
  pc \in {"claims", "level", "ask", "store"} /\ pass.major /\ last = "major" =>
    pass.forced

(* A claim that was moved to the resolved ones comes back to life only by a
   text that takes the place of the whole document (compaction.go:703). *)
ResolvedStays == memory.live \cap gone = {}

(* The remaining session always starts with a fresh user turn
   (compaction.go:681-684). *)
FreshStart == log # <<>> => log[1].kind \in {"user", "notice"}

(* What an aside is shown leaves out nothing that was there when it began:
   what a pass archives meanwhile is in the memory it reads second.  Except
   through a half-written MEMORY.md, or what is forgotten anyway. *)
AsideMissesNothing == aside.pc = "asked" => aside.due = {}

(* Every pass ends, and the lock is given up, however the backends answer. *)
PassesEnd == pc # "idle" ~> pc = "idle"

(* Every document that replaces MEMORY.md whole comes from the model
   (compaction.go:56-84). *)
DocumentSound == TypeOK /\ WholeDocumentIsReal
=============================================================================
