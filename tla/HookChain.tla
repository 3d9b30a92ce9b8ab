----------------------------- MODULE HookChain -----------------------------
(***************************************************************************)
(* The chain of hook scripts of one event: which scripts run, in which      *)
(* order, and what each of them may change.  A script that fails changes    *)
(* nothing and the chain goes on; only an event that honors an action lets  *)
(* a script claim the chain.                                               *)
(***************************************************************************)
EXTENDS Naturals, Sequences, FiniteSets, SequencesExt

CONSTANT NoNumber   \* the number of a file without a leading one: above every number

ASSUME NoNumberAssumption == NoNumber \in Nat

Message == "on-user-message"
PreRun == "pre-run-command"
EndOfTurn == "end-of-turn"
TurnCompleted == "turn-completed"
TurnFailed == "turn-failed"
PreCompact == "pre-compact"
PostCompact == "post-compact"
CompactFailed == "compact-failed"

-----------------------------------------------------------------------------
(* Discovery.  An entry of hooks/<event>/ has a name, a leading number or   *)
(* NoNumber, and is a regular executable file or not.                       *)

Numbered(e) == e.number # NoNumber

\* Mutant: by name alone, so that 10- runs before 9-.
Before_ByName(d, e) == d.name < e.name

Before(d, e) ==
  \/ Numbered(d) /\ ~Numbered(e)
  \/ Numbered(d) /\ Numbered(e) /\ d.number < e.number
  \/ d.number = e.number /\ d.name < e.name

DiscoverHooks(entries) ==
  LET hooks == {e \in entries : e.runs}
      places == 1 .. Cardinality(hooks)
  IN CHOOSE s \in [places -> hooks] : \A i, j \in places : i < j => Before(s[i], s[j])

-----------------------------------------------------------------------------
(* Actions. *)

AllowedActions(event) ==
  CASE event = PreRun -> {"short_circuit"}
    [] event = EndOfTurn -> {"continue"}
    [] OTHER -> {}

\* Mutant: a short circuit claims the chain of any event.
Honored_Anywhere(event, action) ==
  action \in AllowedActions(event) \cup {"short_circuit"}

Honored(event, action) == action \in AllowedActions(event)

-----------------------------------------------------------------------------
(* Running.  Of what a script prints, a chain keeps whether it replaces the *)
(* text, which variables it sets and drops, and its action.                 *)

Failed == [text |-> FALSE, sets |-> {}, drops |-> {}, action |-> "none"]

StartChain(event, text, entries) ==
  [event |-> event, todo |-> DiscoverHooks(entries), text |-> text, set |-> <<>>,
   actions |-> {}, ran |-> <<>>, script |-> "none", result |-> Failed, spent |-> FALSE]

NoChain == StartChain("none", <<>>, {})

MutatedEnv(set, hook, out) ==
  [v \in (DOMAIN set \ out.drops) \cup out.sets |->
     IF v \in out.sets THEN <<"hook", hook.name>> ELSE set[v]]

\* Mutant: the scripts after the one that claimed the chain still run.
Rest_RunsOn(ch, out) == Tail(ch.todo)

Rest(ch, out) ==
  IF Honored(ch.event, out.action) /\ out.action = "short_circuit" THEN <<>> ELSE Tail(ch.todo)

\* The chain once its first script has ended with what it printed
After(ch, out) ==
  LET hook == Head(ch.todo)
  IN [event |-> ch.event,
      todo |-> Rest(ch, out),
      text |-> IF out.text THEN <<"hook", hook.name>> ELSE ch.text,
      set |-> MutatedEnv(ch.set, hook, out),
      actions |-> IF Honored(ch.event, out.action) THEN ch.actions \cup {out.action} ELSE ch.actions,
      ran |-> Append(ch.ran, [hook |-> hook, out |-> out]),
      script |-> "none", result |-> Failed, spent |-> ch.spent]

Running(ch) == ch.script # "none"
Finished(ch) == ch.event # "none" /\ ch.todo = <<>> /\ ~Running(ch)
=============================================================================
