----------------------------- MODULE MCPrompts -----------------------------
(* Two or three commands, of one server or of processes of their own, on two agents. *)
EXTENDS Prompts

Entry(number, name) == [runs |-> TRUE, number |-> number, name |-> name]

\* 9-last, 10-first and a file without a number, and one that is not executable
Two == {Entry(9, 2), Entry(10, 1), [runs |-> FALSE, number |-> 1, name |-> 3]}
One == {Entry(NoNumber, 1)}

DirOf(two, one) ==
  [e \in Events |-> IF e \in two THEN Two ELSE IF e \in one THEN One ELSE {}]

Asks(op, agent, served) == [op |-> op, agent |-> agent, served |-> served]
Setup(p, q, two, one) ==
  [plan |-> [c \in Commands |-> IF c = "c1" THEN p ELSE IF c = "c2" THEN q ELSE Asks("nothing", "a", TRUE)],
   dir |-> DirOf(two, one)]

MCSetups ==
  {[plan |-> [c \in Commands |-> Asks(IF c = "c1" THEN "add" ELSE "generate", "a", TRUE)],
    dir |-> DirOf({}, {Message})],
   Setup(Asks("add", "a", FALSE), Asks("generate", "a", FALSE), {Message}, {}),
   Setup(Asks("prompt", "a", TRUE), Asks("generate", "b", TRUE), {}, {Message, PreRun}),
   Setup(Asks("prompt", "a", TRUE), Asks("media", "b", TRUE), {PreRun}, {}),
   Setup(Asks("prompt", "a", FALSE), Asks("compact", "a", FALSE), {TurnCompleted}, {PostCompact}),
   Setup(Asks("repl", "a", FALSE), Asks("compact", "a", TRUE), {PostCompact},
         {PreCompact, CompactFailed}),
   Setup(Asks("repl", "a", FALSE), Asks("add", "a", FALSE), {Message}, {}),
   Setup(Asks("media", "a", TRUE), Asks("generate", "a", TRUE), {}, {TurnCompleted})}

Out(text, sets, drops, action) == [text |-> text, sets |-> sets, drops |-> drops, action |-> action]
MCOutputs == {Out(TRUE, {"EXTRA", "HOME"}, {}, "none"), Out(FALSE, {}, {"EXTRA"}, "short_circuit")}

MCDotEnv == [x \in {"a", "b"} |-> IF x = "a" THEN {"KEY"} ELSE {"KEY", "HOME"}]

\* A text too long for a part; a small image, and one too large for a line
MCMessages == {<<Part("text", 6)>>}
MCImages == {<<Part("blob", 5)>>, <<Part("blob", 7)>>}

\* Whatever a turn is made of, its line is within the cap, and what the report does
\* not call dropped is there: every part in its place.  (sanitizeContentForPersistWithSeq:
\* "no marshaled turn may exceed MaxPersistTurnBytes"; "a persist drop must never be silent".)
ASSUME PersistIsLoud ==
  \A parts \in BoundedSeq([kind : {"text", "blob", "call"}, size : 1 .. 9, whole : {TRUE}], 2) :
    LET p == Persisted(parts) IN
    /\ Size(p.parts) <= TurnCap
    /\ p.dropped = 0 => /\ Len(p.parts) = Len(parts)
                        /\ \A i \in DOMAIN parts : p.parts[i].kind = parts[i].kind
    /\ (\E i \in DOMAIN parts : parts[i].kind = "blob")
         /\ (~\E i \in DOMAIN p.parts : p.parts[i].kind = "blob") => p.dropped > 0
=============================================================================
