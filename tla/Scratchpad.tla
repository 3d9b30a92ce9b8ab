----------------------------- MODULE Scratchpad -----------------------------
(***************************************************************************)
(* The scratchpad of one agent (scratchpad.go): a directory of entries that *)
(* commands, tools, hooks and other processes create, read, search, diff,  *)
(* list and delete, with no lock; that a tool's arguments and stdin are     *)
(* taken from and its output is stored in.  A creation looks for a free    *)
(* slug, creates a file, writes it and then evicts the oldest entries above *)
(* the cap.  Every one of these is a step of its own, and a process may die *)
(* between two.                                                             *)
(*                                                                         *)
(* A text is a sequence of lines.  A line may be a macro that refers to an *)
(* entry and is replaced by (a page of) its lines.                         *)
(***************************************************************************)
EXTENDS Naturals, Sequences, FiniteSets, SequencesExt

CONSTANTS
  Procs,           \* processes and tool goroutines that use the directory
  Ids,             \* slugs that slug.New may return
  Texts,           \* texts to store: sequences of lines, Ref among them
  Outputs,         \* what a tool may print: a text, binary or not
  Ref,             \* a line that is a macro
  Cap,             \* MaxScratchpadEntries
  FreshSlugs,      \* does slug.New never repeat itself
  MaxRead,         \* lines of the single-read limit, and of an expanded argument
  MaxCreates       \* bound: creations

Lines == UNION {Range(text) : text \in Texts} \ {Ref}
Text == Seq(Lines \cup {Ref})

Whole == 99  \* no num_lines: more than any read may have

ASSUME ScratchpadAssumption ==
  /\ Cap \in Nat \ {0} /\ MaxCreates \in Nat
  /\ MaxRead \in Nat /\ MaxRead < Whole
  /\ FreshSlugs \in BOOLEAN
  /\ Texts \subseteq Text
  /\ Outputs \subseteq [text : Text, binary : BOOLEAN]

Creations == 1 .. MaxCreates

VARIABLES
  dir,             \* files: [id, n, binary, time, full]
  clock,           \* the last modification time given
  made,            \* creations so far
  body,            \* ghost: the lines each creation stores
  opened, stamp,   \* ghost: when the file of a creation was opened, last written
  slug, returned,  \* ghost: the slug of each creation, and those that have returned theirs
  gone,            \* ghost: creations whose file was removed
  untrimmed,       \* ghost: a creator died and nobody has listed the directory since
  proc             \* the operation each process is in

padVars == <<dir, clock, made, body, opened, stamp, slug, returned, gone, untrimmed, proc>>

Idle == [op |-> "idle"]
None == "none"
ghosts == <<opened, stamp, slug, returned, gone, untrimmed>>

PadTypeOK ==
  /\ dir \subseteq [id : Ids, n : Creations, binary : BOOLEAN, time : Nat, full : BOOLEAN]
  /\ clock \in Nat /\ made \in 0 .. MaxCreates
  /\ body \in [Creations -> Text]
  /\ opened \in [Creations -> Nat] /\ stamp \in [Creations -> Nat]
  /\ slug \in [Creations -> Ids \cup {None}] /\ returned \subseteq 1 .. made
  /\ gone \subseteq 1 .. made
  /\ untrimmed \in BOOLEAN
  /\ \A p \in Procs :
       proc[p].op \in {"idle", "input", "stream", "expand", "splice", "run", "pick", "open",
                       "write", "evict", "remove", "read", "got", "list", "listed", "delete"}

PadInit ==
  /\ dir = {} /\ clock = 0 /\ made = 0
  /\ body = [n \in Creations |-> <<>>]
  /\ opened = [n \in Creations |-> 0] /\ stamp = [n \in Creations |-> 0]
  /\ slug = [n \in Creations |-> None] /\ returned = {} /\ gone = {} /\ untrimmed = FALSE
  /\ proc = [p \in Procs |-> Idle]

Become(p, state) == proc' = [proc EXCEPT ![p] = state]

-----------------------------------------------------------------------------
(* Reading. *)

Matches(id) == {f \in dir : f.id = id}

\* findScratchpadFile takes the first file of the slug that the glob returns
Find(id) == Matches(id)

\* Mutant: the page starts one line late.
Page_OffByOne(lines, skip, num) ==
  SubSeq(lines, skip + 2, (IF skip + num < Len(lines) THEN skip + num ELSE Len(lines)))

\* skip_lines and num_lines; a page behind the end is empty
Page(lines, skip, num) == SubSeq(lines, skip + 1, (IF skip + num < Len(lines) THEN skip + num
                                                   ELSE Len(lines)))

\* SearchScratchpad: the line number and the skip_lines to read the line with
Search(lines, line) == {[line |-> i, skip |-> i - 1] : i \in {j \in DOMAIN lines : lines[j] = line}}

Content(f) == IF f.full THEN body[f.n] ELSE <<>>

\* slugs a process can know: those that creations have returned
Known == {slug[n] : n \in returned}

\* what a reader gets of an entry; early: before its creation has returned
Part(id, skip, num, line, page) ==
  [id |-> id, skip |-> skip, num |-> num, line |-> line, page |-> page, found |-> TRUE,
   early |-> id \notin Known]
Missing(id) == [id |-> id, found |-> FALSE]

Reading(id, skip, num, line) ==
  [op |-> "read", id |-> id, skip |-> skip, num |-> num, line |-> line, then |-> None, parts |-> <<>>]

\* Bound: one reader at a time.  Readers change nothing for one another.
Reads == {"read", "got", "list", "listed", "input", "stream", "run"}
MayRead(p) == proc[p] = Idle /\ \A q \in Procs : proc[q].op \notin Reads

StartRead(p) ==
  /\ MayRead(p)
  /\ \E id \in Known, at \in {<<0, Whole>>, <<1, 1>>} : Become(p, Reading(id, at[1], at[2], None))
  /\ UNCHANGED <<dir, clock, made, body, ghosts>>

\* a reader that follows the skip_lines of a line the search has found
StartSearch(p) ==
  /\ MayRead(p)
  /\ \E id \in Known, line \in Lines :
       \E f \in Find(id) : \E hit \in Search(Content(f), line) :
         /\ ~f.binary
         /\ Become(p, Reading(id, hit.skip, 1, line))
  /\ UNCHANGED <<dir, clock, made, body, ghosts>>

\* diffScratchpadEntriesInDir reads one entry and then the other, whole
StartDiff(p) ==
  /\ MayRead(p)
  /\ \E before, after \in Known :
       /\ before # after
       /\ Become(p, [Reading(before, 0, Whole, None) EXCEPT !.then = after])
  /\ UNCHANGED <<dir, clock, made, body, ghosts>>

(* GetScratchpad finds the file, refuses a binary one, reads it and refuses too
   long an answer.  A file that has gone in between is an error too. *)
Read(p) ==
  LET r == proc[p]
      Answer(part) == IF r.then = None \/ ~part.found
                      THEN Become(p, [op |-> "got", parts |-> Append(r.parts, part)])
                      ELSE Become(p, [Reading(r.then, 0, Whole, None) EXCEPT
                                        !.parts = Append(r.parts, part)])
  IN
  /\ r.op = "read"
  /\ \/ Find(r.id) = {} /\ Answer(Missing(r.id))
     \/ \E f \in Find(r.id) :
          LET page == Page(Content(f), r.skip, r.num)
          IN  IF f.binary \/ Len(page) > MaxRead
              THEN Become(p, Idle)
              ELSE Answer(Part(r.id, r.skip, r.num, r.line, page))
  /\ UNCHANGED <<dir, clock, made, body, ghosts>>

Got(p) ==
  /\ proc[p].op = "got"
  /\ Become(p, Idle)
  /\ UNCHANGED <<dir, clock, made, body, ghosts>>

-----------------------------------------------------------------------------
(* Listing. *)

\* the modification times are distinct here
OldestFirst(files) ==
  CHOOSE s \in [1 .. Cardinality(files) -> files] :
    \A i, j \in 1 .. Cardinality(files) : i < j => s[i].time < s[j].time

\* the names first; there: ghost, the entries whose slugs are out and that are not gone
StartList(p) ==
  /\ MayRead(p)
  /\ Become(p, [op |-> "list", left |-> {f.n : f \in dir}, seen |-> {}, there |-> returned \ gone])
  /\ UNCHANGED <<dir, clock, made, body, ghosts>>

\* then each file's size and time; one that has vanished is skipped
ListEntry(p) ==
  /\ proc[p].op = "list"
  /\ \E n \in proc[p].left :
       Become(p, [op |-> "list", left |-> proc[p].left \ {n}, there |-> proc[p].there,
                  seen |-> proc[p].seen \cup {[n |-> f.n, id |-> f.id, time |-> f.time] :
                                                f \in {g \in dir : g.n = n}}])
  /\ UNCHANGED <<dir, clock, made, body, ghosts>>

ListScratchpads(p) ==
  /\ proc[p].op = "list" /\ proc[p].left = {}
  /\ Become(p, [op |-> "listed", items |-> OldestFirst(proc[p].seen), there |-> proc[p].there])
  /\ UNCHANGED <<dir, clock, made, body, ghosts>>

\* the list may name an entry that is still being written
ReadListed(p) ==
  /\ proc[p].op = "listed"
  /\ \/ Become(p, Idle)
     \/ \E i \in DOMAIN proc[p].items : Become(p, Reading(proc[p].items[i].id, 0, Whole, None))
  /\ UNCHANGED <<dir, clock, made, body, ghosts>>

-----------------------------------------------------------------------------
(* A tool call: its arguments and its stdin, and what it prints.  (Bound: a *)
(* macro in one of the two.)                                                *)

Store(text, binary) == [op |-> "pick", text |-> text, binary |-> binary, more |-> FALSE]

StartTool(p) ==
  /\ MayRead(p)
  /\ \E id \in Known, into \in {"args", "stdin"}, text \in Texts \cup {<<Ref>>} :
       /\ Contains(text, Ref)
       /\ Become(p, [op |-> "input", id |-> id, into |-> into, text |-> text])
  /\ UNCHANGED <<dir, clock, made, body, ghosts>>

\* a binary entry cannot be an argument
CheckArgs(p) ==
  /\ proc[p].op = "input" /\ proc[p].into = "args"
  /\ \/ (\E f \in Find(proc[p].id) : f.binary) /\ Become(p, Idle)
     \/ /\ Find(proc[p].id) = {} \/ \E f \in Find(proc[p].id) : ~f.binary
        /\ Become(p, [proc[p] EXCEPT !.op = "expand"])
  /\ UNCHANGED <<dir, clock, made, body, ghosts>>

\* nor be mixed with text; alone it is the stdin
CheckStdin(p) ==
  /\ proc[p].op = "input" /\ proc[p].into = "stdin"
  /\ \/ /\ \E f \in Find(proc[p].id) : f.binary
        /\ Become(p, IF proc[p].text = <<Ref>> THEN [op |-> "stream", id |-> proc[p].id] ELSE Idle)
     \/ /\ Find(proc[p].id) = {} \/ \E f \in Find(proc[p].id) : ~f.binary
        /\ Become(p, [proc[p] EXCEPT !.op = "expand"])
  /\ UNCHANGED <<dir, clock, made, body, ghosts>>

\* the entry is looked up again and opened; gone by then, it is an error
StreamInput(p) ==
  /\ proc[p].op = "stream"
  /\ \/ Find(proc[p].id) = {} /\ Become(p, Idle)
     \/ \E f \in Find(proc[p].id) :
          Become(p, [op |-> "run", parts |-> <<Part(proc[p].id, 0, Whole, None, Content(f))>>])
  /\ UNCHANGED <<dir, clock, made, body, ghosts>>

\* long or binary output becomes an entry as it is, stdout's before stderr's
RunTool(p) ==
  /\ proc[p].op = "run"
  /\ \/ Become(p, Idle)
     \/ /\ made < MaxCreates
        /\ \E out \in Outputs, more \in BOOLEAN :
             Become(p, [Store(out.text, out.binary) EXCEPT !.more = more])
  /\ UNCHANGED <<dir, clock, made, body, ghosts>>

-----------------------------------------------------------------------------
(* Creating. *)

(* CreateScratchpad expands macros, createScratchpadRaw and
   CreateBinaryScratchpad store what they get. *)
StartCreate(p) ==
  /\ proc[p] = Idle /\ made < MaxCreates
  /\ \E text \in Texts :
       IF Contains(text, Ref)
       THEN \E id \in Known : Become(p, [op |-> "expand", text |-> text, id |-> id, into |-> "entry"])
       ELSE \E binary \in BOOLEAN : Become(p, Store(text, binary))
  /\ UNCHANGED <<dir, clock, made, body, ghosts>>

Spliced(text, lines) ==
  LET i == CHOOSE j \in DOMAIN text : text[j] = Ref
  IN  SubSeq(text, 1, i - 1) \o lines \o SubSeq(text, i + 1, Len(text))

\* A text for an entry is stored, one for a tool is its input unless it is too long.
Use(p, text, part) ==
  CASE proc[p].into = "entry" -> Become(p, Store(text, FALSE))
    [] proc[p].into = "args" /\ Len(text) > MaxRead -> Become(p, Idle)
    [] OTHER -> Become(p, [op |-> "run", parts |-> <<part>>])

(* ExpandScratchpadMacros looks an entry up first: an unknown slug is left as it
   is, with a warning, and a binary entry is an error. *)
ExpandFind(p) ==
  /\ proc[p].op = "expand"
  /\ \/ Find(proc[p].id) = {} /\ Use(p, proc[p].text, Missing(proc[p].id))
     \/ \E f \in Find(proc[p].id) :
          IF f.binary THEN Become(p, Idle) ELSE Become(p, [proc[p] EXCEPT !.op = "splice"])
  /\ UNCHANGED <<dir, clock, made, body, ghosts>>

\* then it is looked up again and read: one that has gone is now an error
ExpandRead(p) ==
  /\ proc[p].op = "splice"
  /\ \/ Find(proc[p].id) = {} /\ Become(p, Idle)
     \/ \E f \in Find(proc[p].id) :
          LET page == Page(Content(f), 0, 2)
          IN  Use(p, Spliced(proc[p].text, page), Part(proc[p].id, 0, 2, None, page))
  /\ UNCHANGED <<dir, clock, made, body, ghosts>>

\* a candidate that has a file already is not tried
Pick(p) ==
  /\ proc[p].op = "pick"
  /\ \E id \in Ids :
       /\ Matches(id) = {}
       /\ FreshSlugs => /\ \A n \in 1 .. made : slug[n] # id
                        /\ \A q \in Procs \ {p} : proc[q].op = "open" => proc[q].id # id
       /\ Become(p, [op |-> "open", text |-> proc[p].text, binary |-> proc[p].binary,
                     more |-> proc[p].more, id |-> id])
  /\ UNCHANGED <<dir, clock, made, body, ghosts>>

(* O_CREATE|O_EXCL on a name that also holds the number of lines and the creator,
   which differ here: a file of the same slug does not stand in the way. *)
Open(p) ==
  /\ proc[p].op = "open" /\ made < MaxCreates
  /\ LET n == made + 1
         f == [id |-> proc[p].id, n |-> n, binary |-> proc[p].binary, time |-> clock + 1,
               full |-> FALSE]
     IN  /\ made' = n /\ clock' = clock + 1
         /\ dir' = dir \cup {f}
         /\ body' = [body EXCEPT ![n] = proc[p].text]
         /\ opened' = [opened EXCEPT ![n] = clock + 1]
         /\ stamp' = [stamp EXCEPT ![n] = clock + 1]
         /\ slug' = [slug EXCEPT ![n] = proc[p].id]
         /\ Become(p, [op |-> "write", n |-> n, more |-> proc[p].more])
  /\ UNCHANGED <<returned, gone, untrimmed>>

\* the file may have been removed: the write reaches an entry nobody can find
Write(p) ==
  /\ proc[p].op = "write"
  /\ clock' = clock + 1
  /\ dir' = {IF f.n = proc[p].n
             THEN [id |-> f.id, n |-> f.n, binary |-> f.binary, time |-> clock + 1, full |-> TRUE]
             ELSE f : f \in dir}
  /\ stamp' = [stamp EXCEPT ![proc[p].n] = clock + 1]
  /\ Become(p, [proc[p] EXCEPT !.op = "evict"])
  /\ UNCHANGED <<made, body, opened, slug, returned, gone, untrimmed>>

\* a write or a close that fails takes the file away again
WriteFails(p) ==
  /\ proc[p].op = "write"
  /\ dir' = {f \in dir : f.n # proc[p].n}
  /\ gone' = gone \cup {proc[p].n}
  /\ Become(p, Idle)
  /\ UNCHANGED <<clock, made, body, opened, stamp, slug, returned, untrimmed>>

-----------------------------------------------------------------------------
(* Evicting and deleting. *)

Excess == IF Cardinality(dir) > Cap THEN Cardinality(dir) - Cap ELSE 0

\* Mutant: the cap is exceeded by one before anything goes.
Victims_TooFew ==
  {f.n : f \in Range(SubSeq(OldestFirst(dir), 1, IF Excess > 1 THEN Excess - 1 ELSE 0))}

Victims == {f.n : f \in Range(SubSeq(OldestFirst(dir), 1, Excess))}

\* EvictOldestScratchpad reads the directory once, and removes what it found
List(p) ==
  /\ proc[p].op = "evict"
  /\ untrimmed' = FALSE
  /\ Become(p, [op |-> "remove", n |-> proc[p].n, more |-> proc[p].more, victims |-> Victims])
  /\ UNCHANGED <<dir, clock, made, body, opened, stamp, slug, returned, gone>>

\* a file that is gone already is none of its business
RemoveVictim(p) ==
  /\ proc[p].op = "remove"
  /\ \E n \in proc[p].victims :
       /\ dir' = {f \in dir : f.n # n}
       /\ gone' = gone \cup {n}
       /\ Become(p, [proc[p] EXCEPT !.victims = @ \ {n}])
  /\ UNCHANGED <<clock, made, body, opened, stamp, slug, returned, untrimmed>>

\* stderr comes after stdout
ReturnEntry(p) ==
  /\ proc[p].op = "remove" /\ proc[p].victims = {}
  /\ returned' = returned \cup {proc[p].n}
  /\ \E err \in Outputs :
       Become(p, IF proc[p].more /\ made < MaxCreates THEN Store(err.text, err.binary) ELSE Idle)
  /\ UNCHANGED <<dir, clock, made, body, opened, stamp, slug, gone, untrimmed>>

StartDelete(p) ==
  /\ proc[p] = Idle
  /\ \E id \in Known :
       /\ Matches(id) # {}
       /\ Become(p, [op |-> "delete", ns |-> {f.n : f \in Matches(id)}])
  /\ UNCHANGED <<dir, clock, made, body, ghosts>>

\* DeleteScratchpad removes what it found; the first that has gone is an error
Delete(p) ==
  /\ proc[p].op = "delete"
  /\ \E n \in proc[p].ns :
       IF \E f \in dir : f.n = n
       THEN /\ dir' = {f \in dir : f.n # n}
            /\ gone' = gone \cup {n}
            /\ Become(p, IF proc[p].ns = {n} THEN Idle ELSE [proc[p] EXCEPT !.ns = @ \ {n}])
       ELSE Become(p, Idle) /\ UNCHANGED <<dir, gone>>
  /\ UNCHANGED <<clock, made, body, opened, stamp, slug, returned, untrimmed>>

Creating == {"open", "write", "evict", "remove"}

Crash(p) ==
  /\ proc[p].op \in Creating
  /\ untrimmed' = TRUE
  /\ Become(p, Idle)
  /\ UNCHANGED <<dir, clock, made, body, opened, stamp, slug, returned, gone>>

Step(p) ==
  \/ StartRead(p) \/ StartSearch(p) \/ StartDiff(p) \/ Read(p) \/ Got(p)
  \/ StartList(p) \/ ListEntry(p) \/ ListScratchpads(p) \/ ReadListed(p)
  \/ StartTool(p) \/ CheckArgs(p) \/ CheckStdin(p) \/ StreamInput(p) \/ RunTool(p)
  \/ StartCreate(p) \/ ExpandFind(p) \/ ExpandRead(p) \/ Pick(p) \/ Open(p)
  \/ Write(p) \/ WriteFails(p)
  \/ List(p) \/ RemoveVictim(p) \/ ReturnEntry(p) \/ StartDelete(p) \/ Delete(p) \/ Crash(p)

PadNext == \E p \in Procs : Step(p)

PadSpec == PadInit /\ [][PadNext]_padVars

-----------------------------------------------------------------------------
(* Properties. *)

(* The directory is within the cap whenever nobody is in the middle of a
   creation, and at most a dead creator is in the way of that. *)
CapHolds ==
  (\A p \in Procs : proc[p].op \notin Creating) /\ ~untrimmed => Cardinality(dir) <= Cap

(* Eviction takes old entries only: as many as the cap allows were opened or
   written later than one that it takes (deletions and failures aside). *)
OldestGo ==
  \A p \in Procs : proc[p].op = "remove" =>
    \A n \in proc[p].victims :
      Cardinality({m \in Creations : stamp[m] > opened[n]}) >= Cap

Stored(part) ==
  \E n \in 1 .. made :
    /\ slug[n] = part.id
    /\ IF ~part.found THEN n \in gone
       ELSE IF part.early THEN part.page = <<>> \/ part.page = body[n]
       ELSE LET page == part.page
            IN  /\ \A i \in DOMAIN page : page[i] = body[n][part.skip + i]
                /\ Len(page) = part.num \/ part.skip + Len(page) >= Len(body[n])
                /\ part.line # None => page = <<part.line>>

(* Who holds a slug that a creation returned, reads, diffs, passes to a tool or
   expands what that creation stored, the page of it that was asked for and the
   line that the search has found, or is told that it is not there, which is true;
   only an entry taken from a list may be read before it is written.  A list has,
   oldest first, every entry that was there all the time, whatever is created and
   evicted meanwhile (scratchpad.go: GetScratchpad, SearchScratchpad,
   ListScratchpads; agent_folder.go: prepareToolArgs, prepareToolStdin). *)
ReadsWhatWasStored ==
  \A p \in Procs :
    /\ proc[p].op \in {"got", "run"} =>
         \A i \in DOMAIN proc[p].parts : Stored(proc[p].parts[i])
    /\ proc[p].op = "listed" =>
         LET items == proc[p].items
         IN  /\ proc[p].there \ gone \subseteq {items[i].n : i \in DOMAIN items}
             /\ \A i, j \in DOMAIN items :
                  {items[i].n, items[j].n} \subseteq proc[p].there =>
                    (i < j <=> stamp[items[i].n] < stamp[items[j].n])

(* Eviction keeps the directory within its cap and takes the oldest only,
   whoever else creates, reads or deletes at the time (scratchpad.go:180-217). *)
EvictionSound == PadTypeOK /\ CapHolds /\ OldestGo
=============================================================================
