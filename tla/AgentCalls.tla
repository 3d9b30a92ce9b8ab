----------------------------- MODULE AgentCalls -----------------------------
(***************************************************************************)
(* Agents that call agents.  A call is one `wackypub agent` process: it     *)
(* checks the allowlist of the directory it runs in and the call chain it   *)
(* inherits, waits for the session lock of its agent, and runs a turn whose *)
(* commands may be `wackypub agent` again.  A command runs in the           *)
(* foreground, in a process group that a timeout kills, or is handed to     *)
(* wackyproc, which outlives the turn.  Each turn, and each command before  *)
(* it starts, is committed to the agent's git repository.                   *)
(*                                                                         *)
(* The session lock is the flock of SessionLock, which the death of its     *)
(* holder releases.                                                        *)
(***************************************************************************)
EXTENDS Naturals, Sequences, FiniteSets, SequencesExt

CONSTANTS
  Agents,          \* agent directories, each with its own repository
  Allowed,         \* WACKYPUB_ALLOWED_AGENTS of each agent
  Human,           \* the caller outside any agent directory
  MaxCalls,        \* bound: calls
  MaxTools         \* MaxToolTurns: commands in one turn

ASSUME AgentCallsAssumption ==
  /\ Allowed \in [Agents -> SUBSET Agents]
  /\ Human \notin Agents
  /\ MaxCalls \in Nat /\ MaxTools \in Nat

Calls == 1 .. MaxCalls
Callers == Agents \cup {Human}

NoRev == <<Human, 0>>
NoEnv == [caller |-> Human, chain |-> <<>>, trace |-> 0, rev |-> NoRev]

VARIABLES
  started,         \* calls started so far
  call,            \* the process of each call
  lock,            \* the call that holds each agent's session lock, 0 for none
  repo             \* the commits of each agent's repository

vars == <<started, call, lock, repo>>

Metas == [caller : Callers, chain : Seq(Agents), trace : 0 .. MaxCalls,
          rev : Callers \X Nat]

TypeOK ==
  /\ started \in 0 .. MaxCalls
  /\ call \in [1 .. started ->
       [agent : Agents, from : Callers, async : BOOLEAN, supervised : BOOLEAN,
        parent : 0 .. MaxCalls, foreground : BOOLEAN,
        env : Metas, meta : Metas, tools : 0 .. MaxTools, child : 0 .. MaxCalls,
        state : {"new", "waiting", "turn", "command", "done", "refused", "killed"}]]
  /\ lock \in [Agents -> 0 .. started]
  /\ repo \in [Agents -> Seq([meta : Metas, by : Calls, for : 0 .. MaxCalls])]

Init ==
  /\ started = 0 /\ call = <<>>
  /\ lock = [a \in Agents |-> 0]
  /\ repo = [a \in Agents |-> <<>>]

Ended(n) == call[n].state \in {"done", "refused", "killed"}
In(n, state) == n \in DOMAIN call /\ call[n].state = state

-----------------------------------------------------------------------------
(* Metadata and the environment. *)

\* Mutant: the chain restarts at each call.
Extended_OnlySelf(env, agent) == <<agent>>

Extended(env, agent) == Append(env.chain, agent)

CallerOf(env) == IF env.chain = <<>> THEN Human ELSE Last(env.chain)

HeadOf(agent) ==
  IF agent \in Agents /\ repo[agent] # <<>> THEN <<agent, Len(repo[agent])>> ELSE NoRev

\* With no AGENT2AGENT the metadata is made up on the spot, under a new trace id
ParseA2AMetadata(env, fresh) == IF env = NoEnv THEN [env EXCEPT !.trace = fresh] ELSE env

\* Mutant: the variables of the model and of the hooks win.
ChildMeta_LastWins(meta, overlay) == IF overlay THEN NoEnv ELSE meta

\* What the model or a hook sets for AGENT2AGENT is stripped
ChildMeta(meta, overlay) == meta

\* Mutant: the mark of the supervisor is inherited.
Supervised_Inherited(n, how) == how = "wackyproc" \/ call[n].supervised

\* WACKYPROC_SUPERVISED is stripped from commands: only wackyproc sets it
Supervised(n, how) == how = "wackyproc"

NewCall(agent, from, async, supervised, parent, foreground, env) ==
  [agent |-> agent, from |-> from, async |-> async, supervised |-> supervised,
   parent |-> parent, foreground |-> foreground, env |-> env, meta |-> NoEnv,
   tools |-> 0, child |-> 0, state |-> "new"]

-----------------------------------------------------------------------------
(* Commits. *)

\* commitWorkspaceEvent reads the environment again, and names its own HEAD
CommitMeta(n) ==
  LET env == ParseA2AMetadata(call[n].env, 0)
      head == HeadOf(call[n].agent)
  IN [env EXCEPT !.rev = IF head # NoRev THEN head ELSE @]

Commit(n, child) ==
  repo' = [repo EXCEPT ![call[n].agent] =
             Append(@, [meta |-> CommitMeta(n), by |-> n, for |-> child])]

\* Mutant: the command starts before its commit.
CommitDispatch_Late(n, child) == UNCHANGED repo

CommitDispatch(n, child) == Commit(n, child)

-----------------------------------------------------------------------------
(* The life of a call. *)

Launch(agent) ==
  /\ started < MaxCalls
  /\ started' = started + 1
  /\ call' = Append(call, NewCall(agent, Human, FALSE, FALSE, 0, FALSE, NoEnv))
  /\ UNCHANGED <<lock, repo>>

Authorized(n) == call[n].from \in Agents => call[n].agent \in Allowed[call[n].from]

\* Mutant: only the direct caller is refused.
Cyclic_OnlyCaller(n) == call[n].agent = CallerOf(call[n].env)

Cyclic(n) == call[n].agent \in Range(call[n].env.chain)

Refused(n) ==
  \/ call[n].async /\ ~call[n].supervised
  \/ ~Authorized(n)
  \/ ~call[n].async /\ Cyclic(n)

NewMeta(n) ==
  LET env == ParseA2AMetadata(call[n].env, n)
  IN [caller |-> CallerOf(env), chain |-> Extended(env, call[n].agent),
      trace |-> env.trace,
      rev |-> IF HeadOf(CallerOf(env)) # NoRev THEN HeadOf(CallerOf(env)) ELSE env.rev]

Validate(n) ==
  /\ In(n, "new")
  /\ call' = [call EXCEPT ![n] =
       IF Refused(n) THEN [@ EXCEPT !.state = "refused"]
       ELSE [@ EXCEPT !.state = "waiting", !.meta = NewMeta(n)]]
  /\ UNCHANGED <<started, lock, repo>>

Acquire(n) ==
  /\ In(n, "waiting") /\ lock[call[n].agent] = 0
  /\ lock' = [lock EXCEPT ![call[n].agent] = n]
  /\ call' = [call EXCEPT ![n].state = "turn"]
  /\ UNCHANGED <<started, repo>>

CanDispatch(n) == In(n, "turn") /\ call[n].tools < MaxTools

\* run_command: a commit, the hooks, and the command in a new process group
Dispatch(n, agent, async, how, overlay) ==
  /\ CanDispatch(n) /\ started < MaxCalls
  /\ LET m == started + 1
     IN /\ started' = m
        /\ call' = Append(
             [call EXCEPT ![n].tools = @ + 1,
                          ![n].state = IF how = "command" THEN "command" ELSE "turn",
                          ![n].child = IF how = "command" THEN m ELSE 0],
             NewCall(agent, call[n].agent, async, Supervised(n, how), n,
                     how = "command", ChildMeta(call[n].meta, overlay)))
        /\ CommitDispatch(n, m)
  /\ UNCHANGED lock

\* A pre-run-command hook answers instead of the command
ShortCircuit(n) ==
  /\ CanDispatch(n)
  /\ call' = [call EXCEPT ![n].tools = @ + 1]
  /\ Commit(n, 0)
  /\ UNCHANGED <<started, lock>>

Return(n) ==
  /\ In(n, "command") /\ Ended(call[n].child)
  /\ call' = [call EXCEPT ![n].state = "turn", ![n].child = 0]
  /\ UNCHANGED <<started, lock, repo>>

\* SIGKILL to the process group: the call dies and its lock is released, its own
\* commands are in groups of their own and live on
LocksWithout(m) == [a \in Agents |-> IF lock[a] = m THEN 0 ELSE lock[a]]

\* Mutant: a command has no timeout.
Timeout_Never(n) == FALSE /\ UNCHANGED vars

Timeout(n) ==
  /\ In(n, "command") /\ ~Ended(call[n].child)
  /\ call' = [call EXCEPT ![call[n].child].state = "killed",
                          ![n].state = "turn", ![n].child = 0]
  /\ lock' = LocksWithout(call[n].child)
  /\ UNCHANGED <<started, repo>>

\* The human stops a call: a wait for the lock is given up, a command is killed, and
\* the process ends
Interrupt(n) ==
  /\ n \in DOMAIN call /\ ~Ended(n) /\ call[n].from = Human
  /\ LET dead == {n} \cup (IF In(n, "command") /\ ~Ended(call[n].child)
                           THEN {call[n].child} ELSE {})
     IN /\ call' = [m \in DOMAIN call |->
                      IF m \in dead THEN [call[m] EXCEPT !.state = "killed"] ELSE call[m]]
        /\ lock' = [a \in Agents |-> IF lock[a] \in dead THEN 0 ELSE lock[a]]
  /\ UNCHANGED <<started, repo>>

\* The last turn is committed.  (agent add, which appends a user turn and generates
\* nothing, is a call that runs no command.)
Finish(n) ==
  /\ In(n, "turn")
  /\ Commit(n, 0)
  /\ call' = [call EXCEPT ![n].state = "done"]
  /\ lock' = LocksWithout(n)
  /\ UNCHANGED started

Idle ==
  /\ \A n \in DOMAIN call : Ended(n)
  /\ UNCHANGED vars

Next ==
  \/ \E a \in Agents : Launch(a)
  \/ \E n \in Calls :
       \/ Validate(n) \/ Acquire(n) \/ ShortCircuit(n)
       \/ \E a \in Agents, async, overlay \in BOOLEAN, how \in {"command", "wackyproc"} :
            Dispatch(n, a, async, how, overlay)
       \/ Return(n) \/ Timeout(n) \/ Interrupt(n) \/ Finish(n)
  \/ Idle

\* Every process goes on, flock is granted when it is free, and a command that does
\* not end runs into its timeout
Fairness ==
  \A n \in Calls : /\ WF_vars(Validate(n)) /\ WF_vars(Acquire(n)) /\ WF_vars(Return(n))
                   /\ WF_vars(Timeout(n)) /\ WF_vars(Finish(n))

Spec == Init /\ [][Next]_vars /\ Fairness

-----------------------------------------------------------------------------
(* Properties. *)

Validated(n) == call[n].state \notin {"new", "refused"} /\ call[n].meta # NoEnv

\* The agents from the human's first call down to n
lineage[n \in Nat] ==
  IF n \notin DOMAIN call THEN <<>> ELSE Append(lineage[call[n].parent], call[n].agent)

\* The chain a call works with is the chain of calls that led to it, whatever the
\* model and the hooks put in the environment (workspace.go:299, env_protection.go:68).
ChainIsLineage == \A n \in DOMAIN call : Validated(n) => call[n].meta.chain = lineage[n]

\* The calls n waits for, itself included
awaited[n \in Nat] == {n} \cup IF In(n, "command") THEN awaited[call[n].child] ELSE {}

\* No call waits for a session lock that is held by a call that waits for it
\* (workspace.go:286, the deadlock the call chain is there to prevent).
NoSelfDeadlock ==
  \A n \in DOMAIN call :
    In(n, "waiting") => n \notin awaited[lock[call[n].agent]]

\* The revision a call reports for its caller contains the commit made for the very
\* command that started it, and is that commit if the command is waited for.  A caller
\* that was killed has given up its lock: another call of its agent may have committed
\* before its command looked (agent_folder.go:304-313).
RevisionIsDispatch ==
  \A n \in DOMAIN call : Validated(n) /\ call[n].parent # 0 =>
    LET rev == call[n].meta.rev
    IN /\ rev[1] = call[n].from
       /\ \E k \in 1 .. rev[2] : repo[rev[1]][k].for = n
       /\ call[n].foreground /\ call[call[n].parent].state # "killed" =>
            repo[rev[1]][rev[2]].for = n

\* Every call ends: crossed calls of two chains, which wait for each other's locks,
\* are broken up by the timeouts (agent_folder.go:133).
CallsEnd == <>[](\A n \in DOMAIN call : Ended(n))

\* A commit names the agent whose command made the call as its caller (README.md:115).
CommitsNameTheCaller ==
  \A a \in Agents : \A i \in DOMAIN repo[a] :
    repo[a][i].meta.caller = call[repo[a][i].by].from

\* What a call reports of the command that made it is true (agent_folder.go:304-313).
DispatchSound == TypeOK /\ RevisionIsDispatch
=============================================================================
