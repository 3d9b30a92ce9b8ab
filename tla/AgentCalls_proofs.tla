-------------------------- MODULE AgentCalls_proofs --------------------------
(***************************************************************************)
(* Safety of calls between agents, for any agents, allowlists, and numbers *)
(* of calls and commands.                                                  *)
(*                                                                         *)
(* The two properties about chains of calls follow paths through the       *)
(* calls, upwards (lineage) and downwards (awaited).  IInv says of one hop *)
(* what they say of a path: the chain in the environment of a call is the  *)
(* path of its parent, and a call that waits for a command waits for a     *)
(* later one that it started.  Induction over the calls does the rest.     *)
(***************************************************************************)
EXTENDS AgentCalls, SequenceTheorems, WellFoundedInduction, TLAPS

(* The path down to a call. *)
Path(n) == Append(call[n].env.chain, call[n].agent)

(* s is the beginning of t. *)
Begins(s, t) == Len(s) <= Len(t) /\ \A i \in 1 .. Len(s) : t[i] = s[i]

Active(n) == call[n].state \in {"waiting", "turn", "command", "done"}
Holding(n) == call[n].state \in {"turn", "command"}

(* One hop: a call has the path of its parent in its environment. *)
HopInv ==
  \A n \in DOMAIN call :
    /\ call[n].parent < n
    /\ call[n].parent = 0 =>
         call[n].env = NoEnv /\ call[n].from = Human /\ ~call[n].foreground
    /\ call[n].parent # 0 =>
         /\ call[n].env.chain = Path(call[n].parent)
         /\ call[n].from = call[call[n].parent].agent
    /\ call[n].foreground => ~call[n].supervised

(* What a call knows about itself, and that it has passed the checks. *)
MetaInv ==
  \A n \in DOMAIN call :
    /\ call[n].meta # NoEnv => call[n].meta.chain = Path(n)
    /\ Active(n) => call[n].meta # NoEnv /\ ~Refused(n)
    /\ call[n].state \in {"new", "refused"} => call[n].meta = NoEnv

(* The session lock of an agent is held by a call in its turn. *)
LockInv ==
  /\ \A n \in DOMAIN call : Holding(n) => lock[call[n].agent] = n
  /\ \A a \in Agents : lock[a] # 0 => call[lock[a]].agent = a /\ Holding(lock[a])

(* A command that is waited for was started by the call that waits. *)
WaitInv ==
  \A n \in DOMAIN call : call[n].state = "command" =>
    /\ call[n].child \in DOMAIN call
    /\ call[call[n].child].parent = n /\ call[call[n].child].foreground

(* Until a command looks, its commit is the last one of its caller, unless the
   caller was killed. *)
CommitInv ==
  \A n \in DOMAIN call : call[n].parent # 0 =>
    LET by == call[n].from IN
    /\ \E k \in 1 .. Len(repo[by]) : repo[by][k].for = n
    /\ call[n].foreground /\ call[n].state = "new"
         /\ call[call[n].parent].state # "killed" =>
         /\ call[call[n].parent].state = "command" /\ call[call[n].parent].child = n
         /\ repo[by][Len(repo[by])].for = n

RevInv ==
  \A n \in DOMAIN call : Validated(n) /\ call[n].parent # 0 =>
    call[n].meta.rev[2] \in 1 .. Len(repo[call[n].from])

(* RevInv and RevisionIsDispatch, for one call. *)
RevGood(n) ==
  LET rev == call[n].meta.rev IN
  /\ rev[1] = call[n].from /\ rev[2] \in 1 .. Len(repo[call[n].from])
  /\ \E k \in 1 .. rev[2] : repo[call[n].from][k].for = n
  /\ call[n].foreground /\ call[call[n].parent].state # "killed" =>
       repo[call[n].from][rev[2]].for = n

IInv ==
  TypeOK /\ HopInv /\ MetaInv /\ LockInv /\ WaitInv /\ CommitInv /\ RevInv
  /\ RevisionIsDispatch
-----------------------------------------------------------------------------
(* The record of a call. *)
CallSet ==
  [agent : Agents, from : Callers, async : BOOLEAN, supervised : BOOLEAN,
   parent : 0 .. MaxCalls, foreground : BOOLEAN,
   env : Metas, meta : Metas, tools : 0 .. MaxTools, child : 0 .. MaxCalls,
   state : {"new", "waiting", "turn", "command", "done", "refused", "killed"}]

(* What a call was started with stays. *)
Kept(m) ==
  /\ call'[m].agent = call[m].agent /\ call'[m].from = call[m].from
  /\ call'[m].async = call[m].async /\ call'[m].supervised = call[m].supervised
  /\ call'[m].parent = call[m].parent /\ call'[m].foreground = call[m].foreground
  /\ call'[m].env = call[m].env

(* A step that starts no call and leaves what the calls were started with. *)
Local ==
  /\ started' = started /\ call' \in [1 .. started -> CallSet]
  /\ \A m \in DOMAIN call : Kept(m)

(* A step that adds commits and takes none away. *)
RepoGrows ==
  \A a \in Agents :
    /\ Len(repo'[a]) \in Nat /\ Len(repo[a]) <= Len(repo'[a])
    /\ \A k \in 1 .. Len(repo[a]) : repo'[a][k] = repo[a][k]

(* A step that lets no call pass its checks: commits are added, and nobody is left
   behind by a command that was just started. *)
Running ==
  /\ Local
  /\ \A m \in DOMAIN call :
       /\ call'[m].meta = call[m].meta
       /\ call'[m].state # call[m].state =>
            \/ call'[m].state = "killed"
            \/ call[m].state = "new" /\ call'[m].state = "refused"
            \/ Active(m) /\ call'[m].state \in {"turn", "done"}
       /\ call[m].state = "killed" => call'[m].state = "killed"
       /\ call[m].state = "command" =>
            \/ call'[m].state = "killed"
            \/ call'[m].state = "command" /\ call'[m].child = call[m].child
            \/ /\ call'[m].state # "command"
               /\ call'[call[m].child].state \in {"done", "refused", "killed"}
  /\ RepoGrows
  /\ \A m \in DOMAIN call :
       call[m].state = "command" => repo'[call[m].agent] = repo[call[m].agent]

LEMMA NoEnvType == NoEnv \in Metas
  BY AgentCallsAssumption DEF NoEnv, NoRev, Metas, Callers

LEMMA CallType == TypeOK =>
  /\ call \in Seq(CallSet) /\ Len(call) = started /\ DOMAIN call = 1 .. started
  /\ \A n \in DOMAIN call : call[n] \in CallSet
  /\ started \in Nat
<1> SUFFICES ASSUME TypeOK PROVE
      /\ call \in Seq(CallSet) /\ Len(call) = started /\ DOMAIN call = 1 .. started
      /\ \A n \in DOMAIN call : call[n] \in CallSet
      /\ started \in Nat
  OBVIOUS
<1>1. started \in Nat /\ call \in [1 .. started -> CallSet]
  BY AgentCallsAssumption DEF TypeOK, CallSet
<1> QED
  BY <1>1, IsASeq

LEMMA HeadOfType == TypeOK => \A a \in Callers : HeadOf(a) \in Callers \X Nat
<1> SUFFICES ASSUME TypeOK, NEW a \in Callers PROVE HeadOf(a) \in Callers \X Nat
  OBVIOUS
<1>1. CASE a \in Agents /\ repo[a] # <<>>
  <2>1. repo[a] \in Seq([meta : Metas, by : Calls, for : 0 .. MaxCalls])
    BY <1>1 DEF TypeOK
  <2> QED
    BY <1>1, <2>1 DEF HeadOf
<1>2. CASE ~(a \in Agents /\ repo[a] # <<>>)
  BY <1>2 DEF HeadOf, NoRev, Callers
<1> QED
  BY <1>1, <1>2

LEMMA CallerOfType == \A env \in Metas : CallerOf(env) \in Callers
  BY DEF CallerOf, Callers, Metas, Last

LEMMA CommitMetaType == ASSUME TypeOK, NEW n \in DOMAIN call PROVE CommitMeta(n) \in Metas
<1>1. call[n].env \in Metas /\ call[n].agent \in Callers
  BY CallType DEF CallSet, Callers
<1>2. ParseA2AMetadata(call[n].env, 0) \in Metas
  BY <1>1, AgentCallsAssumption DEF ParseA2AMetadata, Metas
<1> QED
  BY <1>1, <1>2, HeadOfType DEF CommitMeta, Metas

LEMMA NewMetaType == ASSUME TypeOK, NEW n \in DOMAIN call PROVE NewMeta(n) \in Metas
<1>1. call[n].env \in Metas /\ call[n].agent \in Agents /\ n \in 0 .. MaxCalls
  BY CallType, AgentCallsAssumption DEF CallSet, TypeOK
<1>2. ParseA2AMetadata(call[n].env, n) \in Metas
  BY <1>1 DEF ParseA2AMetadata, Metas
<1>3. CallerOf(ParseA2AMetadata(call[n].env, n)) \in Callers
  BY <1>2, CallerOfType
<1>4. Extended(ParseA2AMetadata(call[n].env, n), call[n].agent) \in Seq(Agents)
  BY <1>1, <1>2 DEF Extended, Metas
<1> QED
  BY <1>2, <1>3, <1>4, HeadOfType DEF NewMeta, Metas

LEMMA CommitType == ASSUME TypeOK, NEW n \in DOMAIN call, NEW k \in 0 .. MaxCalls, Commit(n, k)
                    PROVE
  /\ repo' \in [Agents -> Seq([meta : Metas, by : Calls, for : 0 .. MaxCalls])]
  /\ \A a \in Agents \ {call[n].agent} : repo'[a] = repo[a]
  /\ LET a == call[n].agent IN
       /\ Len(repo'[a]) = Len(repo[a]) + 1
       /\ \A i \in 1 .. Len(repo[a]) : repo'[a][i] = repo[a][i]
       /\ repo'[a][Len(repo'[a])].for = k
<1>1. n \in Calls /\ call[n].agent \in Agents
  BY CallType, AgentCallsAssumption DEF Calls, TypeOK, CallSet
<1>2. [meta |-> CommitMeta(n), by |-> n, for |-> k] \in [meta : Metas, by : Calls, for : 0 .. MaxCalls]
  BY <1>1, CommitMetaType
<1>3. repo[call[n].agent] \in Seq([meta : Metas, by : Calls, for : 0 .. MaxCalls])
  BY <1>1 DEF TypeOK
<1> DEFINE Commits == [meta : Metas, by : Calls, for : 0 .. MaxCalls]
           a == call[n].agent
           c == [meta |-> CommitMeta(n), by |-> n, for |-> k]
<1> HIDE DEF Commits, c
<1>4. repo' = [repo EXCEPT ![a] = Append(repo[a], c)]
  BY DEF Commit, c
<1>5. repo \in [Agents -> Seq(Commits)] /\ c \in Commits /\ c.for = k
  BY <1>2 DEF TypeOK, Commits, c
<1>6. repo' \in [Agents -> Seq(Commits)] /\ repo'[a] = Append(repo[a], c)
  BY <1>1, <1>4, <1>5
<1>7. \A b \in Agents \ {a} : repo'[b] = repo[b]
  BY <1>4, <1>5
<1>8. /\ Len(repo'[a]) = Len(repo[a]) + 1
      /\ \A i \in 1 .. Len(repo[a]) : repo'[a][i] = repo[a][i]
      /\ repo'[a][Len(repo'[a])] = c
  BY <1>1, <1>5, <1>6
<1> QED
  BY <1>5, <1>6, <1>7, <1>8 DEF Commits


LEMMA LocalType == ASSUME IInv, Local PROVE
  /\ DOMAIN call' = DOMAIN call /\ DOMAIN call = 1 .. started
  /\ call' \in [1 .. started' ->
       [agent : Agents, from : Callers, async : BOOLEAN, supervised : BOOLEAN,
        parent : 0 .. MaxCalls, foreground : BOOLEAN,
        env : Metas, meta : Metas, tools : 0 .. MaxTools, child : 0 .. MaxCalls,
        state : {"new", "waiting", "turn", "command", "done", "refused", "killed"}]]
<1>1. DOMAIN call = 1 .. started
  BY CallType DEF IInv
<1> QED
  BY <1>1 DEF Local, CallSet

LEMMA LocalKeeps == ASSUME IInv, Local PROVE
  \A m \in DOMAIN call : Path(m)' = Path(m) /\ (Refused(m)' <=> Refused(m))
  BY DEF Local, Kept, Path, Refused, Authorized, Cyclic

LEMMA LocalHop == ASSUME IInv, Local PROVE HopInv'
<1>1. DOMAIN call = 1 .. started /\ started \in Nat
  BY CallType DEF IInv
<1>2. \A m \in DOMAIN call : call[m].parent \in Nat
  BY CallType, AgentCallsAssumption DEF IInv, CallSet
<1>3. \A m \in DOMAIN call : call[m].parent # 0 => call[m].parent \in DOMAIN call
  BY <1>1, <1>2 DEF IInv, HopInv
<1>4. DOMAIN call' = DOMAIN call
  BY LocalType
<1> QED
  BY <1>3, <1>4, LocalKeeps DEF Local, Kept, IInv, HopInv

(* The types of the fields the invariants speak of. *)
LEMMA FieldTypes == ASSUME IInv PROVE
  /\ DOMAIN call = 1 .. started /\ started \in Nat
  /\ \A m \in DOMAIN call :
       /\ call[m].agent \in Agents /\ call[m].parent \in Nat /\ call[m].child \in Nat
       /\ call[m].parent # 0 => call[m].parent \in DOMAIN call /\ call[m].from \in Agents
  /\ \A a \in Agents : Len(repo[a]) \in Nat
<1>1. DOMAIN call = 1 .. started /\ started \in Nat /\ \A m \in DOMAIN call : call[m] \in CallSet
  BY CallType DEF IInv
<1>2. \A m \in DOMAIN call :
        call[m].agent \in Agents /\ call[m].parent \in Nat /\ call[m].child \in Nat
  BY <1>1, AgentCallsAssumption DEF CallSet
<1>3. \A m \in DOMAIN call : call[m].parent # 0 => call[m].parent \in DOMAIN call
  BY <1>1, <1>2 DEF IInv, HopInv
<1>4. \A a \in Agents : Len(repo[a]) \in Nat
  BY DEF IInv, TypeOK
<1> QED
  BY <1>1, <1>2, <1>3, <1>4 DEF IInv, HopInv

LEMMA RunningMeta == ASSUME IInv, Running PROVE MetaInv' /\ WaitInv'
<1>1. DOMAIN call' = DOMAIN call
  BY LocalType DEF Running
<1>2. ASSUME NEW m \in DOMAIN call
      PROVE  /\ Path(m)' = Path(m) /\ (Refused(m)' <=> Refused(m))
             /\ call'[m].meta = call[m].meta
             /\ Active(m)' => Active(m)
             /\ call'[m].state \in {"new", "refused"} => call[m].state \in {"new", "refused"}
  BY <1>2, LocalKeeps DEF Running, Active
<1>3. MetaInv'
  BY <1>1, <1>2 DEF IInv, MetaInv
<1>4. ASSUME NEW m \in DOMAIN call, call'[m].state = "command"
      PROVE  call[m].state = "command"
  BY <1>4 DEF Running
<1>5. ASSUME NEW m \in DOMAIN call, call'[m].state = "command"
      PROVE  /\ call'[m].child \in DOMAIN call
             /\ call'[call'[m].child].parent = m /\ call'[call'[m].child].foreground
  <2>1. call'[m].child = call[m].child
    BY <1>4, <1>5 DEF Running
  <2> QED
    BY <1>4, <1>5, <2>1 DEF IInv, WaitInv, Running, Local, Kept
<1>6. WaitInv'
  BY <1>1, <1>5 DEF WaitInv
<1> QED
  BY <1>3, <1>6

LEMMA RevGoodIs ==
  (RevInv /\ RevisionIsDispatch)' <=>
    \A n \in DOMAIN call' : Validated(n)' /\ call'[n].parent # 0 => RevGood(n)'
  BY DEF RevInv, RevisionIsDispatch, RevGood

LEMMA RevStays == ASSUME IInv, RepoGrows, NEW m \in DOMAIN call, Kept(m), Validated(m),
                         call[m].parent # 0, call'[m].meta = call[m].meta,
                         call'[call[m].parent].state # "killed" =>
                           call[call[m].parent].state # "killed"
                  PROVE  RevGood(m)'
<1> DEFINE rev == call[m].meta.rev
           by == call[m].from
<1>1. /\ rev[1] = by /\ rev[2] \in 1 .. Len(repo[by])
      /\ \E k \in 1 .. rev[2] : repo[by][k].for = m
      /\ call[m].foreground /\ call[call[m].parent].state # "killed" => repo[by][rev[2]].for = m
  BY DEF IInv, RevInv, RevisionIsDispatch
<1>2. by \in Agents /\ Len(repo[by]) \in Nat
  BY FieldTypes
<1>3. Len(repo'[by]) \in Nat /\ Len(repo[by]) <= Len(repo'[by])
      /\ \A k \in 1 .. Len(repo[by]) : repo'[by][k] = repo[by][k]
  BY <1>2 DEF RepoGrows
<1>4. PICK k \in 1 .. rev[2] : repo[by][k].for = m
  BY <1>1
<1>5. repo'[by][k] = repo[by][k] /\ repo'[by][rev[2]] = repo[by][rev[2]]
  BY <1>1, <1>2, <1>3
<1>6. rev[2] \in 1 .. Len(repo'[by])
  BY <1>1, <1>2, <1>3
<1>7. call'[m].from = by /\ call'[m].parent = call[m].parent /\ call'[m].meta.rev = rev
      /\ call'[m].foreground = call[m].foreground
  BY DEF Kept
<1> QED
  BY <1>1, <1>4, <1>5, <1>6, <1>7 DEF RevGood

LEMMA RunningCommits == ASSUME IInv, Running PROVE CommitInv' /\ RevInv' /\ RevisionIsDispatch'
<1>1. DOMAIN call' = DOMAIN call
  BY LocalType DEF Running
<1>2. ASSUME NEW m \in DOMAIN call, call[m].parent # 0
      PROVE  /\ call'[m].parent = call[m].parent /\ call[m].parent \in DOMAIN call
             /\ call'[m].from = call[m].from /\ call[m].from \in Agents
             /\ call[m].from = call[call[m].parent].agent
             /\ call'[call[m].parent].state # "killed" => call[call[m].parent].state # "killed"
             /\ call'[m].foreground = call[m].foreground
  BY <1>2, FieldTypes DEF Running, Local, Kept, IInv, HopInv
<1>3. ASSUME NEW m \in DOMAIN call, call[m].parent # 0
      PROVE  \E k \in 1 .. Len(repo'[call[m].from]) : repo'[call[m].from][k].for = m
  <2>1. PICK k \in 1 .. Len(repo[call[m].from]) : repo[call[m].from][k].for = m
    BY <1>3 DEF IInv, CommitInv
  <2>2. repo'[call[m].from][k] = repo[call[m].from][k] /\ k \in 1 .. Len(repo'[call[m].from])
    BY <1>2, <1>3, FieldTypes DEF Running, RepoGrows
  <2> QED
    BY <2>1, <2>2
<1>4. ASSUME NEW m \in DOMAIN call, call[m].parent # 0, call[m].foreground,
             call'[m].state = "new", call'[call[m].parent].state # "killed"
      PROVE  /\ call'[call[m].parent].state = "command" /\ call'[call[m].parent].child = m
             /\ repo'[call[m].from][Len(repo'[call[m].from])].for = m
  <2>1. call[m].state = "new"
    BY <1>4 DEF Running
  <2>2. /\ call[call[m].parent].state = "command" /\ call[call[m].parent].child = m
        /\ repo[call[m].from][Len(repo[call[m].from])].for = m
    BY <1>2, <1>4, <2>1 DEF IInv, CommitInv
  <2> QED
    BY <1>2, <1>4, <2>2 DEF Running
<1>5. CommitInv'
  BY <1>1, <1>2, <1>3, <1>4 DEF CommitInv, Running, Local, Kept
<1>6. ASSUME NEW m \in DOMAIN call, Validated(m)', call'[m].parent # 0 PROVE RevGood(m)'
  <2>1. Validated(m) /\ call'[m].meta = call[m].meta /\ call[m].parent # 0 /\ Kept(m)
    BY <1>6 DEF Validated, Running, Local, Kept, IInv, MetaInv
  <2> QED
    BY <1>2, <2>1, RevStays DEF Running
<1>7. RevInv' /\ RevisionIsDispatch'
  BY <1>1, <1>6, RevGoodIs
<1> QED
  BY <1>5, <1>7

LEMMA RunningStep == ASSUME IInv, Running, TypeOK', LockInv' PROVE IInv'
  BY LocalHop, RunningMeta, RunningCommits DEF IInv, Running

(* A commit to the agent of a call in its turn is one that Running allows. *)
LEMMA TurnCommits == ASSUME IInv, NEW n \in DOMAIN call, call[n].state = "turn", Commit(n, 0)
                     PROVE
  /\ repo' \in [Agents -> Seq([meta : Metas, by : Calls, for : 0 .. MaxCalls])]
  /\ RepoGrows
  /\ \A m \in DOMAIN call :
       call[m].state = "command" => repo'[call[m].agent] = repo[call[m].agent]
<1>1. 0 \in 0 .. MaxCalls
  BY AgentCallsAssumption
<1>2. /\ repo' \in [Agents -> Seq([meta : Metas, by : Calls, for : 0 .. MaxCalls])]
      /\ \A a \in Agents \ {call[n].agent} : repo'[a] = repo[a]
      /\ Len(repo'[call[n].agent]) = Len(repo[call[n].agent]) + 1
      /\ \A i \in 1 .. Len(repo[call[n].agent]) :
           repo'[call[n].agent][i] = repo[call[n].agent][i]
  BY <1>1, CommitType DEF IInv
<1>3. ASSUME NEW m \in DOMAIN call, call[m].state = "command" PROVE call[m].agent # call[n].agent
  <2>1. lock[call[m].agent] = m /\ lock[call[n].agent] = n
    BY <1>3 DEF IInv, LockInv, Holding
  <2>2. m # n
    BY <1>3
  <2> QED
    BY <2>1, <2>2
<1>4. ASSUME NEW a \in Agents
      PROVE  /\ Len(repo'[a]) \in Nat /\ Len(repo[a]) <= Len(repo'[a])
             /\ \A k \in 1 .. Len(repo[a]) : repo'[a][k] = repo[a][k]
  <2>1. CASE a = call[n].agent
    BY <1>2, <2>1, FieldTypes
  <2>2. CASE a # call[n].agent
    BY <1>2, <2>2, FieldTypes
  <2> QED
    BY <2>1, <2>2
<1> QED
  BY <1>2, <1>3, <1>4, FieldTypes DEF RepoGrows

(* The locks stay when nobody enters or leaves its turn. *)
LEMMA LocksStay == ASSUME IInv, Local, lock' = lock,
                          \A m \in DOMAIN call : Holding(m)' <=> Holding(m)
                   PROVE LockInv'
<1>1. ASSUME NEW m \in DOMAIN call', Holding(m)' PROVE lock'[call'[m].agent] = m
  BY <1>1, LocalType DEF IInv, LockInv, Local, Kept
<1>2. ASSUME NEW a \in Agents, lock'[a] # 0
      PROVE  call'[lock'[a]].agent = a /\ Holding(lock[a])'
  <2>1. lock[a] # 0 /\ lock[a] \in DOMAIN call
    BY <1>2, FieldTypes DEF IInv, TypeOK
  <2>2. call[lock[a]].agent = a /\ Holding(lock[a])
    BY <2>1 DEF IInv, LockInv
  <2> QED
    BY <2>1, <2>2 DEF Local, Kept
<1> QED
  BY <1>1, <1>2 DEF LockInv

LEMMA AcquireStep == ASSUME IInv, NEW n \in Calls, Acquire(n) PROVE IInv'
<1>1. n \in DOMAIN call /\ call[n].state = "waiting" /\ lock[call[n].agent] = 0
  BY DEF Acquire, In
<1>2. call' = [call EXCEPT ![n].state = "turn"] /\ UNCHANGED <<started, repo>>
      /\ lock' = [lock EXCEPT ![call[n].agent] = n]
  BY DEF Acquire
<1>3. call \in [1 .. started -> CallSet]
  BY DEF IInv, TypeOK, CallSet
<1>4. /\ call' \in [1 .. started -> CallSet]
      /\ \A m \in DOMAIN call : Kept(m) /\ call'[m].meta = call[m].meta
           /\ call'[m].child = call[m].child
           /\ call'[m].state = IF m = n THEN "turn" ELSE call[m].state
  BY <1>1, <1>2, <1>3 DEF Kept, CallSet
<1>5. Running
  BY <1>1, <1>2, <1>4, FieldTypes DEF Running, RepoGrows, Local, Active
<1>6. lock' \in [Agents -> 0 .. started]
  BY <1>1, <1>2, FieldTypes DEF IInv, TypeOK
<1>7. TypeOK'
  BY <1>2, <1>4, <1>6 DEF IInv, TypeOK, CallSet
<1>8. ASSUME NEW m \in DOMAIN call, Holding(m)' PROVE lock'[call'[m].agent] = m
  <2>1. lock' = [lock EXCEPT ![call[n].agent] = n] /\ lock \in [Agents -> 0 .. started]
    BY <1>2 DEF IInv, TypeOK
  <2>2. CASE m = n
    BY <1>1, <1>4, <2>1, <2>2, FieldTypes DEF Kept
  <2>3. CASE m # n
    <3>1. Holding(m) /\ call'[m].agent = call[m].agent
      BY <1>4, <1>8, <2>3 DEF Holding, Kept
    <3>2. lock[call[m].agent] = m /\ m # 0 /\ call[m].agent \in Agents
      BY <3>1, FieldTypes DEF IInv, LockInv
    <3> QED
      BY <1>1, <2>1, <3>1, <3>2
  <2> QED
    BY <2>2, <2>3
<1>9. ASSUME NEW a \in Agents, lock'[a] # 0
      PROVE  call'[lock'[a]].agent = a /\ Holding(lock[a])'
  <2>1. lock' = [lock EXCEPT ![call[n].agent] = n] /\ lock \in [Agents -> 0 .. started]
    BY <1>2 DEF IInv, TypeOK
  <2>2. CASE a = call[n].agent
    BY <1>1, <1>4, <2>1, <2>2 DEF Kept, Holding
  <2>3. CASE a # call[n].agent
    <3>1. lock'[a] = lock[a] /\ lock[a] \in DOMAIN call
      BY <1>9, <2>1, <2>3, FieldTypes
    <3>2. call[lock[a]].agent = a /\ Holding(lock[a])
      BY <1>9, <3>1 DEF IInv, LockInv
    <3> QED
      BY <1>4, <3>1, <3>2 DEF Kept, Holding
  <2> QED
    BY <2>2, <2>3
<1>10. LockInv'
  BY <1>5, <1>8, <1>9, LocalType DEF LockInv, Running
<1> QED
  BY <1>5, <1>7, <1>10, RunningStep

LEMMA ShortCircuitStep == ASSUME IInv, NEW n \in Calls, ShortCircuit(n) PROVE IInv'
<1>1. n \in DOMAIN call /\ call[n].state = "turn" /\ call[n].tools < MaxTools
  BY DEF ShortCircuit, CanDispatch, In
<1>2. call' = [call EXCEPT ![n].tools = @ + 1] /\ Commit(n, 0) /\ UNCHANGED <<started, lock>>
  BY DEF ShortCircuit
<1>3. call \in [1 .. started -> CallSet]
  BY DEF IInv, TypeOK, CallSet
<1>4. /\ call' \in [1 .. started -> CallSet]
      /\ \A m \in DOMAIN call : Kept(m) /\ call'[m].meta = call[m].meta
           /\ call'[m].child = call[m].child /\ call'[m].state = call[m].state
  BY <1>1, <1>2, <1>3, AgentCallsAssumption DEF Kept, CallSet
<1>5. Running
  BY <1>1, <1>2, <1>4, TurnCommits DEF Running, Local
<1>6. TypeOK'
  BY <1>1, <1>2, <1>4, TurnCommits DEF IInv, TypeOK, CallSet
<1>7. LockInv'
  BY <1>2, <1>4, <1>5, LocksStay DEF Holding, Running
<1> QED
  BY <1>5, <1>6, <1>7, RunningStep

LEMMA ReturnStep == ASSUME IInv, NEW n \in Calls, Return(n) PROVE IInv'
<1>1. n \in DOMAIN call /\ call[n].state = "command" /\ Ended(call[n].child)
  BY DEF Return, In
<1>2. /\ call' = [call EXCEPT ![n].state = "turn", ![n].child = 0]
      /\ UNCHANGED <<started, lock, repo>>
  BY DEF Return
<1>3. call \in [1 .. started -> CallSet]
  BY DEF IInv, TypeOK, CallSet
<1>4. /\ call' \in [1 .. started -> CallSet]
      /\ \A m \in DOMAIN call : Kept(m) /\ call'[m].meta = call[m].meta
           /\ call'[m].child = (IF m = n THEN 0 ELSE call[m].child)
           /\ call'[m].state = IF m = n THEN "turn" ELSE call[m].state
  BY <1>1, <1>2, <1>3, AgentCallsAssumption DEF Kept, CallSet
<1>5. call[n].child \in DOMAIN call /\ call[n].child # n
  BY <1>1, FieldTypes DEF IInv, WaitInv, HopInv
<1>6. Running
  BY <1>1, <1>2, <1>4, <1>5, FieldTypes DEF Running, RepoGrows, Local, Active, Ended
<1>7. TypeOK'
  BY <1>2, <1>4 DEF IInv, TypeOK, CallSet
<1>8. LockInv'
  BY <1>1, <1>2, <1>4, <1>6, LocksStay DEF Holding, Running
<1> QED
  BY <1>6, <1>7, <1>8, RunningStep


(* The locks of the calls that end are released. *)
LEMMA LocksReleased == ASSUME IInv, Local, NEW D \in SUBSET (DOMAIN call),
                              lock' = [a \in Agents |-> IF lock[a] \in D THEN 0 ELSE lock[a]],
                              \A m \in DOMAIN call : Holding(m)' <=> Holding(m) /\ m \notin D
                       PROVE LockInv' /\ lock' \in [Agents -> 0 .. started]
<1>1. /\ \A a \in Agents : lock[a] \in 0 .. started
      /\ \A a \in Agents : lock'[a] = IF lock[a] \in D THEN 0 ELSE lock[a]
  BY DEF IInv, TypeOK
<1>2. ASSUME NEW m \in DOMAIN call, Holding(m)' PROVE lock'[call'[m].agent] = m
  <2>1. call'[m].agent = call[m].agent /\ Holding(m) /\ m \notin D /\ call[m].agent \in Agents
    BY <1>2, FieldTypes DEF Local, Kept
  <2>2. lock[call[m].agent] = m
    BY <2>1 DEF IInv, LockInv
  <2> QED
    BY <1>1, <2>1, <2>2
<1>3. ASSUME NEW a \in Agents, lock'[a] # 0
      PROVE  call'[lock'[a]].agent = a /\ Holding(lock[a])'
  <2>1. lock'[a] = lock[a] /\ lock[a] \notin D /\ lock[a] \in DOMAIN call
    BY <1>1, <1>3, FieldTypes
  <2>2. call[lock[a]].agent = a /\ Holding(lock[a])
    BY <1>3, <2>1 DEF IInv, LockInv
  <2> QED
    BY <2>1, <2>2 DEF Local, Kept
<1>4. LockInv'
  BY <1>2, <1>3, LocalType DEF LockInv
<1>5. lock' \in [Agents -> 0 .. started]
  BY <1>1, FieldTypes
<1> QED
  BY <1>4, <1>5

LEMMA TimeoutStep == ASSUME IInv, NEW n \in Calls, Timeout(n) PROVE IInv'
<1> DEFINE c == call[n].child
<1>1. n \in DOMAIN call /\ call[n].state = "command" /\ ~Ended(c)
  BY DEF Timeout, In
<1>2. /\ call' = [call EXCEPT ![c].state = "killed", ![n].state = "turn", ![n].child = 0]
      /\ lock' = [a \in Agents |-> IF lock[a] = c THEN 0 ELSE lock[a]]
      /\ UNCHANGED <<started, repo>>
  BY DEF Timeout, LocksWithout
<1>3. call \in [1 .. started -> CallSet]
  BY DEF IInv, TypeOK, CallSet
<1>4. c \in DOMAIN call /\ c # n
  BY <1>1, FieldTypes DEF IInv, WaitInv, HopInv
<1> HIDE DEF c
<1>5. /\ call' \in [1 .. started -> CallSet]
      /\ \A m \in DOMAIN call : Kept(m) /\ call'[m].meta = call[m].meta
           /\ call'[m].child = (IF m = n THEN 0 ELSE call[m].child)
           /\ call'[m].state =
                IF m = n THEN "turn" ELSE IF m = c THEN "killed" ELSE call[m].state
  <2> DEFINE killed == [call EXCEPT ![c].state = "killed"]
  <2>1. /\ killed \in [1 .. started -> CallSet]
        /\ \A m \in DOMAIN call :
             killed[m] = IF m = c THEN [call[m] EXCEPT !.state = "killed"] ELSE call[m]
    BY <1>3, <1>4 DEF CallSet
  <2>2. call' = [killed EXCEPT ![n].state = "turn", ![n].child = 0]
    BY <1>2
  <2>3. n \in 1 .. started /\ DOMAIN call = 1 .. started /\ 0 \in 0 .. MaxCalls
    BY <1>1, <1>3, AgentCallsAssumption
  <2> HIDE DEF killed
  <2>4. call' \in [1 .. started -> CallSet]
    <3> DEFINE turned == [killed EXCEPT ![n].state = "turn"]
    <3>1. turned \in [1 .. started -> CallSet]
      BY <2>1, <2>3 DEF CallSet
    <3>2. call' = [turned EXCEPT ![n].child = 0]
      BY <2>2
    <3> HIDE DEF turned
    <3> QED
      BY <2>3, <3>1, <3>2 DEF CallSet
  <2>5. ASSUME NEW m \in DOMAIN call
        PROVE  /\ call'[m].agent = killed[m].agent /\ call'[m].from = killed[m].from
               /\ call'[m].async = killed[m].async /\ call'[m].supervised = killed[m].supervised
               /\ call'[m].parent = killed[m].parent
               /\ call'[m].foreground = killed[m].foreground
               /\ call'[m].env = killed[m].env /\ call'[m].meta = killed[m].meta
               /\ call'[m].child = (IF m = n THEN 0 ELSE killed[m].child)
               /\ call'[m].state = IF m = n THEN "turn" ELSE killed[m].state
    BY <2>1, <2>2, <2>3 DEF CallSet
  <2>6. ASSUME NEW m \in DOMAIN call
        PROVE  /\ killed[m].agent = call[m].agent /\ killed[m].from = call[m].from
               /\ killed[m].async = call[m].async /\ killed[m].supervised = call[m].supervised
               /\ killed[m].parent = call[m].parent
               /\ killed[m].foreground = call[m].foreground
               /\ killed[m].env = call[m].env /\ killed[m].meta = call[m].meta
               /\ killed[m].child = call[m].child
               /\ killed[m].state = IF m = c THEN "killed" ELSE call[m].state
    BY <1>3, <2>1 DEF CallSet
  <2> QED
    BY <1>4, <2>4, <2>5, <2>6 DEF Kept
<1>6. Running
  BY <1>1, <1>2, <1>4, <1>5, FieldTypes DEF Running, RepoGrows, Local, Active, Ended, c
<1>7. lock' = [a \in Agents |-> IF lock[a] \in {c} THEN 0 ELSE lock[a]]
  BY <1>2
<1>8. \A m \in DOMAIN call : Holding(m)' <=> Holding(m) /\ m \notin {c}
  BY <1>1, <1>4, <1>5 DEF Holding
<1>9. LockInv' /\ lock' \in [Agents -> 0 .. started]
  BY <1>4, <1>6, <1>7, <1>8, LocksReleased DEF Running
<1>10. TypeOK'
  BY <1>2, <1>5, <1>9 DEF IInv, TypeOK, CallSet
<1> QED
  BY <1>6, <1>9, <1>10, RunningStep

LEMMA InterruptStep == ASSUME IInv, NEW n \in Calls, Interrupt(n) PROVE IInv'
<1> DEFINE dead == {n} \cup (IF In(n, "command") /\ ~Ended(call[n].child)
                             THEN {call[n].child} ELSE {})
<1>1. n \in DOMAIN call /\ ~Ended(n)
  BY DEF Interrupt
<1>2. /\ call' = [m \in DOMAIN call |->
                    IF m \in dead THEN [call[m] EXCEPT !.state = "killed"] ELSE call[m]]
      /\ lock' = [a \in Agents |-> IF lock[a] \in dead THEN 0 ELSE lock[a]]
      /\ UNCHANGED <<started, repo>>
  BY DEF Interrupt
<1>3. dead \in SUBSET (DOMAIN call)
  BY <1>1 DEF IInv, WaitInv, In
<1>4. \A m \in DOMAIN call : Ended(m) => m \notin dead
  BY <1>1
<1> HIDE DEF dead
<1>5. call \in [1 .. started -> CallSet]
  BY DEF IInv, TypeOK, CallSet
<1>6. /\ call' \in [1 .. started -> CallSet]
      /\ \A m \in DOMAIN call : Kept(m) /\ call'[m].meta = call[m].meta
           /\ call'[m].child = call[m].child
           /\ call'[m].state = IF m \in dead THEN "killed" ELSE call[m].state
  BY <1>2, <1>5 DEF Kept, CallSet
<1>7. Running
  BY <1>2, <1>6, FieldTypes DEF Running, RepoGrows, Local, Active
<1>8. \A m \in DOMAIN call : Holding(m)' <=> Holding(m) /\ m \notin dead
  BY <1>6 DEF Holding
<1>9. LockInv' /\ lock' \in [Agents -> 0 .. started]
  BY <1>2, <1>3, <1>7, <1>8, LocksReleased DEF Running
<1>10. TypeOK'
  BY <1>2, <1>6, <1>9 DEF IInv, TypeOK, CallSet
<1> QED
  BY <1>7, <1>9, <1>10, RunningStep

LEMMA FinishStep == ASSUME IInv, NEW n \in Calls, Finish(n) PROVE IInv'
<1>1. n \in DOMAIN call /\ call[n].state = "turn"
  BY DEF Finish, In
<1>2. /\ call' = [call EXCEPT ![n].state = "done"] /\ Commit(n, 0) /\ started' = started
      /\ lock' = [a \in Agents |-> IF lock[a] \in {n} THEN 0 ELSE lock[a]]
  BY DEF Finish, LocksWithout
<1>3. call \in [1 .. started -> CallSet]
  BY DEF IInv, TypeOK, CallSet
<1>4. /\ call' \in [1 .. started -> CallSet]
      /\ \A m \in DOMAIN call : Kept(m) /\ call'[m].meta = call[m].meta
           /\ call'[m].child = call[m].child
           /\ call'[m].state = IF m = n THEN "done" ELSE call[m].state
  BY <1>1, <1>2, <1>3 DEF Kept, CallSet
<1>5. Running
  BY <1>1, <1>2, <1>4, TurnCommits DEF Running, Local, Active
<1>6. \A m \in DOMAIN call : Holding(m)' <=> Holding(m) /\ m \notin {n}
  BY <1>4 DEF Holding
<1>7. LockInv' /\ lock' \in [Agents -> 0 .. started]
  <2>1. {n} \in SUBSET (DOMAIN call) /\ Local
    BY <1>1, <1>5 DEF Running
  <2>2. lock' = [a \in Agents |-> IF lock[a] \in {n} THEN 0 ELSE lock[a]]
    BY <1>2
  <2> QED
    BY <2>1, <2>2, <1>6, LocksReleased
<1>8. TypeOK'
  BY <1>1, <1>2, <1>4, <1>7, TurnCommits DEF IInv, TypeOK, CallSet
<1> QED
  BY <1>5, <1>7, <1>8, RunningStep


LEMMA PathEnds == ASSUME NEW s \in Seq(Agents), NEW a \in Agents PROVE
  Append(s, a) # <<>> /\ Last(Append(s, a)) = a
<1>1. Len(Append(s, a)) = Len(s) + 1 /\ Append(s, a)[Len(s) + 1] = a /\ Len(s) \in Nat
  OBVIOUS
<1>2. Len(<<>>) = 0
  OBVIOUS
<1> QED
  BY <1>1, <1>2 DEF Last

(* What a call works out for itself when it passes its checks. *)
LEMMA NewMetaIs == ASSUME IInv, NEW n \in DOMAIN call PROVE
  /\ NewMeta(n).chain = Path(n) /\ NewMeta(n) # NoEnv
  /\ call[n].parent # 0 => NewMeta(n).rev = <<call[n].from, Len(repo[call[n].from])>>
<1> DEFINE env == ParseA2AMetadata(call[n].env, n)
<1>1. call[n].env \in Metas /\ call[n].agent \in Agents /\ call[n].env.chain \in Seq(Agents)
  BY CallType DEF IInv, CallSet, Metas
<1>2. env.chain = call[n].env.chain
  BY <1>1 DEF ParseA2AMetadata, Metas
<1>3. NewMeta(n).chain = Path(n)
  BY <1>2 DEF NewMeta, Extended, Path
<1>4. Path(n) # <<>>
  BY <1>1, PathEnds DEF Path
<1>5. NewMeta(n) # NoEnv
  BY <1>3, <1>4 DEF NoEnv
<1>6. ASSUME call[n].parent # 0
      PROVE  NewMeta(n).rev = <<call[n].from, Len(repo[call[n].from])>>
  <2> DEFINE p == call[n].parent
             by == call[n].from
  <2>1. p \in DOMAIN call /\ by \in Agents /\ by = call[p].agent
        /\ call[n].env.chain = Path(p)
    BY <1>6, FieldTypes DEF IInv, HopInv
  <2>2. call[p].env.chain \in Seq(Agents)
    BY <2>1, CallType DEF IInv, CallSet, Metas
  <2>3. Path(p) # <<>> /\ Last(Path(p)) = by
    BY <2>1, <2>2, PathEnds DEF Path
  <2>4. CallerOf(env) = by
    BY <1>2, <2>1, <2>3 DEF CallerOf
  <2>5. \E k \in 1 .. Len(repo[by]) : repo[by][k].for = n
    BY <1>6 DEF IInv, CommitInv
  <2>6. repo[by] # <<>> /\ Len(repo[by]) # 0
    BY <2>1, <2>5, FieldTypes
  <2>7. HeadOf(by) = <<by, Len(repo[by])>> /\ HeadOf(by) # NoRev
    BY <2>1, <2>6 DEF HeadOf, NoRev
  <2> QED
    BY <2>4, <2>7 DEF NewMeta
<1> QED
  BY <1>3, <1>5, <1>6

LEMMA ValidateStep == ASSUME IInv, NEW n \in Calls, Validate(n) PROVE IInv'
<1>1. n \in DOMAIN call /\ call[n].state = "new" /\ UNCHANGED <<started, lock, repo>>
  BY DEF Validate, In
<1>2. call' = [call EXCEPT ![n] =
        IF Refused(n) THEN [call[n] EXCEPT !.state = "refused"]
        ELSE [call[n] EXCEPT !.state = "waiting", !.meta = NewMeta(n)]]
  BY DEF Validate
<1>3. call \in [1 .. started -> CallSet] /\ NewMeta(n) \in Metas
  BY <1>1, NewMetaType DEF IInv, TypeOK, CallSet
<1>4. CASE Refused(n)
  <2>1. call' = [call EXCEPT ![n] = [call[n] EXCEPT !.state = "refused"]]
    BY <1>2, <1>4
  <2>2. /\ call' \in [1 .. started -> CallSet]
        /\ \A m \in DOMAIN call : Kept(m) /\ call'[m].meta = call[m].meta
             /\ call'[m].child = call[m].child
             /\ call'[m].state = IF m = n THEN "refused" ELSE call[m].state
    BY <1>1, <1>3, <2>1 DEF Kept, CallSet
  <2>3. Running
    BY <1>1, <2>2, FieldTypes DEF Running, RepoGrows, Local
  <2>4. TypeOK'
    BY <1>1, <2>2 DEF IInv, TypeOK, CallSet
  <2>5. LockInv'
    BY <1>1, <2>2, <2>3, LocksStay DEF Holding, Running
  <2> QED
    BY <2>3, <2>4, <2>5, RunningStep
<1>5. CASE ~Refused(n)
  <2>1. call' = [call EXCEPT ![n] = [call[n] EXCEPT !.state = "waiting", !.meta = NewMeta(n)]]
    BY <1>2, <1>5
  <2>2. /\ call' \in [1 .. started -> CallSet]
        /\ \A m \in DOMAIN call : Kept(m)
             /\ call'[m].meta = (IF m = n THEN NewMeta(n) ELSE call[m].meta)
             /\ call'[m].child = call[m].child
             /\ call'[m].state = IF m = n THEN "waiting" ELSE call[m].state
    BY <1>1, <1>3, <2>1 DEF Kept, CallSet
  <2>3. Local /\ DOMAIN call' = DOMAIN call
    BY <1>1, <2>2, LocalType DEF Local
  <2>4. TypeOK'
    BY <1>1, <2>2 DEF IInv, TypeOK, CallSet
  <2>5. LockInv'
    BY <1>1, <2>2, <2>3, LocksStay DEF Holding
  <2>6. HopInv'
    BY <2>3, LocalHop
  <2>7. ASSUME NEW m \in DOMAIN call
        PROVE  /\ call'[m].meta # NoEnv => call'[m].meta.chain = Path(m)'
               /\ Active(m)' => call'[m].meta # NoEnv /\ ~Refused(m)'
               /\ call'[m].state \in {"new", "refused"} => call'[m].meta = NoEnv
    <3>1. Path(m)' = Path(m) /\ (Refused(m)' <=> Refused(m))
      BY <2>3, LocalKeeps
    <3>2. CASE m = n
      BY <1>5, <2>2, <3>1, <3>2, NewMetaIs
    <3>3. CASE m # n
      BY <2>2, <3>1, <3>3 DEF IInv, MetaInv, Active
    <3> QED
      BY <3>2, <3>3
  <2>8. MetaInv'
    BY <2>3, <2>7 DEF MetaInv
  <2>9. WaitInv'
    BY <1>1, <2>2, <2>3 DEF IInv, WaitInv, Kept
  <2>10. CommitInv'
    <3>1. ASSUME NEW m \in DOMAIN call, call[m].parent # 0
          PROVE  LET by == call'[m].from IN
            /\ \E k \in 1 .. Len(repo'[by]) : repo'[by][k].for = m
            /\ call'[m].foreground /\ call'[m].state = "new"
                 /\ call'[call'[m].parent].state # "killed" =>
                 /\ call'[call'[m].parent].state = "command"
                 /\ call'[call'[m].parent].child = m
                 /\ repo'[by][Len(repo'[by])].for = m
      <4>1. /\ call'[m].from = call[m].from /\ call'[m].parent = call[m].parent
            /\ call'[m].foreground = call[m].foreground /\ call[m].parent \in DOMAIN call
            /\ call'[m].state = "new" => call[m].state = "new"
        BY <2>2, <3>1, FieldTypes DEF Kept
      <4>2. call'[call[m].parent].child = call[call[m].parent].child
            /\ call'[call[m].parent].state =
                 IF call[m].parent = n THEN "waiting" ELSE call[call[m].parent].state
        BY <2>2, <4>1
      <4> QED
        BY <1>1, <3>1, <4>1, <4>2 DEF IInv, CommitInv
    <3>2. \A m \in DOMAIN call : call'[m].parent = call[m].parent
      BY <2>2 DEF Kept
    <3> QED
      BY <2>3, <3>1, <3>2 DEF CommitInv
  <2>11. ASSUME NEW m \in DOMAIN call, Validated(m)', call'[m].parent # 0 PROVE RevGood(m)'
    <3>1. /\ call[m].parent # 0 /\ call'[m].from = call[m].from
          /\ call'[m].parent = call[m].parent /\ call'[m].foreground = call[m].foreground
      BY <2>2, <2>11 DEF Kept
    <3>2. call[m].parent \in DOMAIN call /\ call[m].from \in Agents
      BY <3>1, FieldTypes
    <3>3. call'[call[m].parent].state # "killed" => call[call[m].parent].state # "killed"
      BY <1>1, <2>2, <3>2
    <3>4. CASE m = n
      <4>1. call'[m].meta.rev = <<call[m].from, Len(repo[call[m].from])>>
        BY <2>2, <3>1, <3>4, NewMetaIs
      <4>2. \E k \in 1 .. Len(repo[call[m].from]) : repo[call[m].from][k].for = m
        BY <3>1 DEF IInv, CommitInv
      <4>3. call[m].foreground /\ call[call[m].parent].state # "killed" =>
              repo[call[m].from][Len(repo[call[m].from])].for = m
        BY <1>1, <3>1, <3>4 DEF IInv, CommitInv
      <4> QED
        BY <1>1, <3>1, <3>2, <3>3, <4>1, <4>2, <4>3, FieldTypes DEF RevGood
    <3>5. CASE m # n
      <4>1. call'[m].meta = call[m].meta /\ Validated(m) /\ Kept(m)
        BY <2>2, <2>11, <3>5 DEF Validated
      <4>2. RepoGrows
        BY <1>1, FieldTypes DEF RepoGrows
      <4> QED
        BY <3>1, <3>3, <4>1, <4>2, RevStays
    <3> QED
      BY <3>4, <3>5
  <2>12. RevInv' /\ RevisionIsDispatch'
    BY <2>3, <2>11, RevGoodIs
  <2> QED
    BY <2>4, <2>5, <2>6, <2>8, <2>9, <2>10, <2>12 DEF IInv
<1> QED
  BY <1>4, <1>5


(* A step that starts a call: of the human, or as a command of a turn. *)
Grown ==
  LET new == started + 1
      c == call'[new]
  IN /\ started' = new /\ lock' = lock /\ RepoGrows
     /\ DOMAIN call' = 1 .. new /\ c \in CallSet
     /\ c.meta = NoEnv /\ c.state = "new" /\ c.parent \in 0 .. started
     /\ c.foreground => ~c.supervised
     /\ \A m \in DOMAIN call :
          /\ Kept(m) /\ call'[m].meta = call[m].meta
          /\ \/ call'[m].state = call[m].state
                /\ (call[m].state = "command" => call'[m].child = call[m].child)
             \/ /\ call[m].state = "turn" /\ call'[m].state = "command"
                /\ call'[m].child = new /\ c.parent = m /\ c.foreground
     /\ c.parent = 0 =>
          c.env = NoEnv /\ c.from = Human /\ ~c.foreground /\ repo' = repo
     /\ c.parent # 0 =>
          /\ c.env = call[c.parent].meta /\ c.from = call[c.parent].agent
          /\ call[c.parent].state = "turn"
          /\ c.foreground => call'[c.parent].state = "command" /\ call'[c.parent].child = new
          /\ repo'[c.from][Len(repo'[c.from])].for = new /\ Len(repo'[c.from]) # 0
          /\ \A a \in Agents \ {c.from} : repo'[a] = repo[a]

LEMMA GrownKeeps == ASSUME IInv, Grown PROVE
  /\ DOMAIN call' = DOMAIN call \cup {started + 1} /\ started + 1 \notin DOMAIN call
  /\ \A m \in DOMAIN call : Path(m)' = Path(m) /\ (Refused(m)' <=> Refused(m))
<1>1. DOMAIN call' = DOMAIN call \cup {started + 1} /\ started + 1 \notin DOMAIN call
  BY FieldTypes DEF Grown
<1>2. \A m \in DOMAIN call : Path(m)' = Path(m) /\ (Refused(m)' <=> Refused(m))
  BY DEF Grown, Kept, Path, Refused, Authorized, Cyclic
<1> QED
  BY <1>1, <1>2

LEMMA GrownHop == ASSUME IInv, Grown PROVE HopInv'
<1> DEFINE new == started + 1
           c == call'[new]
<1>1. /\ c.parent \in 0 .. started /\ (c.foreground => ~c.supervised)
      /\ c.parent = 0 => c.env = NoEnv /\ c.from = Human /\ ~c.foreground
      /\ c.parent # 0 => /\ c.env = call[c.parent].meta /\ c.from = call[c.parent].agent
                         /\ call[c.parent].state = "turn"
      /\ \A m \in DOMAIN call : Kept(m)
  BY DEF Grown
<1>2. ASSUME NEW m \in DOMAIN call, call[m].parent # 0
      PROVE  call'[m].env.chain = Path(call[m].parent)'
             /\ call'[m].from = call'[call'[m].parent].agent
  <2>1. Kept(m) /\ call[m].parent \in DOMAIN call
    BY <1>1, <1>2, FieldTypes
  <2>2. call[m].env.chain = Path(call[m].parent) /\ call[m].from = call[call[m].parent].agent
    BY <1>2 DEF IInv, HopInv
  <2>3. Kept(call[m].parent)
    BY <1>1, <2>1
  <2> QED
    BY <2>1, <2>2, <2>3 DEF Kept, Path
<1>3. ASSUME NEW m \in DOMAIN call
      PROVE  /\ call'[m].parent < m
             /\ call'[m].parent = 0 =>
                  call'[m].env = NoEnv /\ call'[m].from = Human /\ ~call'[m].foreground
             /\ call'[m].parent # 0 =>
                  /\ call'[m].env.chain = Path(call[m].parent)'
                  /\ call'[m].from = call'[call'[m].parent].agent
             /\ call'[m].foreground => ~call'[m].supervised
  <2>1. Kept(m)
    BY <1>1
  <2>2. /\ call[m].parent < m
        /\ call[m].parent = 0 => call[m].env = NoEnv /\ call[m].from = Human /\ ~call[m].foreground
        /\ call[m].foreground => ~call[m].supervised
    BY DEF IInv, HopInv
  <2> QED
    BY <1>2, <2>1, <2>2 DEF Kept
<1>4. ASSUME NEW p \in DOMAIN call, p = c.parent
      PROVE  c.env.chain = Path(p)' /\ c.from = call'[p].agent
  <2>1. p # 0
    BY FieldTypes
  <2>2. call[p].meta.chain = Path(p)
    BY <1>1, <1>4, <2>1 DEF IInv, MetaInv, Active
  <2>3. Path(p)' = Path(p) /\ Kept(p)
    BY <1>1, GrownKeeps
  <2> QED
    BY <1>1, <1>4, <2>1, <2>2, <2>3 DEF Kept
<1>5. c.parent < new /\ (c.parent # 0 => c.parent \in DOMAIN call)
  BY <1>1, FieldTypes
<1>6. c.parent # 0 => c.env.chain = Append(call'[c.parent].env.chain, call'[c.parent].agent)
                      /\ c.from = call'[c.parent].agent
  BY <1>4, <1>5 DEF Path
<1>7. ASSUME NEW m \in DOMAIN call'
      PROVE  /\ call'[m].parent < m
             /\ call'[m].parent = 0 =>
                  call'[m].env = NoEnv /\ call'[m].from = Human /\ ~call'[m].foreground
             /\ call'[m].parent # 0 =>
                  /\ call'[m].env.chain = Path(call[m].parent)'
                  /\ call'[m].from = call'[call'[m].parent].agent
             /\ call'[m].foreground => ~call'[m].supervised
  <2>1. CASE m \in DOMAIN call
    BY <1>3, <2>1
  <2>2. CASE m = new
    BY <1>1, <1>5, <1>6, <2>2 DEF Path
  <2> QED
    BY <2>1, <2>2, GrownKeeps
<1> QED
  BY <1>7 DEF HopInv


LEMMA GrownStep == ASSUME IInv, Grown, TypeOK' PROVE IInv'
<1> DEFINE new == started + 1
           c == call'[new]
<1>1. /\ DOMAIN call' = DOMAIN call \cup {new} /\ new \notin DOMAIN call
      /\ \A m \in DOMAIN call : Path(m)' = Path(m) /\ (Refused(m)' <=> Refused(m))
  BY GrownKeeps
<1>2. /\ lock' = lock /\ RepoGrows /\ c.meta = NoEnv /\ c.state = "new"
      /\ \A m \in DOMAIN call : Kept(m) /\ call'[m].meta = call[m].meta
  BY DEF Grown
<1>3. ASSUME NEW m \in DOMAIN call
      PROVE  \/ /\ call'[m].state = call[m].state
                /\ call[m].state = "command" => call'[m].child = call[m].child
             \/ /\ call[m].state = "turn" /\ call'[m].state = "command"
                /\ call'[m].child = new /\ c.parent = m /\ c.foreground
  BY DEF Grown
<1>4. c.parent = 0 => ~c.foreground /\ repo' = repo
  BY DEF Grown
<1>5. c.parent # 0 =>
        /\ c.parent \in DOMAIN call /\ c.from = call[c.parent].agent
        /\ call[c.parent].state = "turn"
        /\ c.foreground => call'[c.parent].state = "command" /\ call'[c.parent].child = new
        /\ repo'[c.from][Len(repo'[c.from])].for = new /\ Len(repo'[c.from]) # 0
        /\ \A a \in Agents \ {c.from} : repo'[a] = repo[a]
  BY FieldTypes DEF Grown
<1>6. HopInv'
  BY GrownHop
<1>7. MetaInv'
  <2>1. ASSUME NEW m \in DOMAIN call
        PROVE  /\ call'[m].meta # NoEnv => call'[m].meta.chain = Path(m)'
               /\ Active(m)' => call'[m].meta # NoEnv /\ ~Refused(m)'
               /\ call'[m].state \in {"new", "refused"} => call'[m].meta = NoEnv
    <3>1. (Active(m)' <=> Active(m))
          /\ (call'[m].state \in {"new", "refused"} <=> call[m].state \in {"new", "refused"})
      BY <1>3 DEF Active
    <3> QED
      BY <1>1, <1>2, <3>1 DEF IInv, MetaInv
  <2>2. ASSUME NEW m \in {new} PROVE ~Active(m)' /\ call'[m].meta = NoEnv
    BY <1>2, <2>2 DEF Active
  <2> QED
    BY <1>1, <2>1, <2>2 DEF MetaInv
<1>8. LockInv'
  <2>1. \A m \in DOMAIN call : Holding(m)' <=> Holding(m)
    BY <1>3 DEF Holding
  <2>2. ASSUME NEW m \in {new} PROVE ~Holding(m)'
    BY <1>2, <2>2 DEF Holding
  <2>3. ASSUME NEW m \in DOMAIN call', Holding(m)' PROVE lock'[call'[m].agent] = m
    <3>1. m \in DOMAIN call /\ Holding(m)
      BY <1>1, <2>1, <2>2, <2>3
    <3> QED
      BY <1>2, <3>1 DEF IInv, LockInv, Kept
  <2>4. ASSUME NEW a \in Agents, lock'[a] # 0
        PROVE  call'[lock'[a]].agent = a /\ Holding(lock[a])'
    <3>1. lock[a] # 0 /\ lock[a] \in DOMAIN call /\ lock'[a] = lock[a]
      BY <1>2, <2>4, FieldTypes DEF IInv, TypeOK
    <3>2. call[lock[a]].agent = a /\ Holding(lock[a])
      BY <3>1 DEF IInv, LockInv
    <3> QED
      BY <1>2, <2>1, <3>1, <3>2 DEF Kept
  <2> QED
    BY <2>3, <2>4 DEF LockInv
<1>9. WaitInv'
  <2>1. ASSUME NEW m \in DOMAIN call', call'[m].state = "command"
        PROVE  /\ call'[m].child \in DOMAIN call'
               /\ call'[call'[m].child].parent = m /\ call'[call'[m].child].foreground
    <3>1. m \in DOMAIN call
      BY <1>1, <1>2, <2>1
    <3>2. CASE call[m].state = "command"
      <4>1. call'[m].child = call[m].child /\ call[m].child \in DOMAIN call
            /\ call[call[m].child].parent = m /\ call[call[m].child].foreground
        BY <1>3, <3>1, <3>2 DEF IInv, WaitInv
      <4> QED
        BY <1>1, <1>2, <4>1 DEF Kept
    <3>3. CASE call[m].state # "command"
      BY <1>1, <1>3, <2>1, <3>1, <3>3
    <3> QED
      BY <3>2, <3>3
  <2> QED
    BY <2>1 DEF WaitInv
<1>10. CommitInv'
  <2>1. ASSUME NEW m \in DOMAIN call, call[m].parent # 0
        PROVE  /\ \E k \in 1 .. Len(repo'[call[m].from]) : repo'[call[m].from][k].for = m
               /\ call[m].foreground /\ call'[m].state = "new"
                    /\ call'[call[m].parent].state # "killed" =>
                    /\ call'[call[m].parent].state = "command"
                    /\ call'[call[m].parent].child = m
                    /\ repo'[call[m].from][Len(repo'[call[m].from])].for = m
    <3> DEFINE p == call[m].parent
               by == call[m].from
    <3>1. p \in DOMAIN call /\ by \in Agents /\ by = call[p].agent /\ Len(repo[by]) \in Nat
      BY <2>1, FieldTypes DEF IInv, HopInv
    <3>2. PICK k \in 1 .. Len(repo[by]) : repo[by][k].for = m
      BY <2>1 DEF IInv, CommitInv
    <3>3. k \in 1 .. Len(repo'[by]) /\ repo'[by][k].for = m
      BY <1>2, <3>1, <3>2 DEF RepoGrows
    <3>4. ASSUME call[m].foreground, call'[m].state = "new", call'[p].state # "killed"
          PROVE  /\ call'[p].state = "command" /\ call'[p].child = m
                 /\ repo'[by][Len(repo'[by])].for = m
      <4>1. call[m].state = "new" /\ call[p].state # "killed"
        BY <1>3, <3>1, <3>4
      <4>2. call[p].state = "command" /\ call[p].child = m /\ repo[by][Len(repo[by])].for = m
        BY <2>1, <3>4, <4>1 DEF IInv, CommitInv
      <4>3. call'[p].state = "command" /\ call'[p].child = m
        BY <1>3, <3>1, <4>2
      <4>4. repo'[by] = repo[by]
        <5>1. CASE c.parent = 0
          BY <1>4, <5>1
        <5>2. CASE c.parent # 0
          <6>1. c.parent \in DOMAIN call /\ call[c.parent].state = "turn"
                /\ c.from = call[c.parent].agent
            BY <1>5, <5>2
          <6>2. lock[call[c.parent].agent] = c.parent
            BY <6>1 DEF IInv, LockInv, Holding
          <6>3. lock[by] = p
            BY <3>1, <4>2 DEF IInv, LockInv, Holding
          <6>4. c.from # by
            BY <4>2, <6>1, <6>2, <6>3
          <6> QED
            BY <1>5, <3>1, <5>2, <6>4
        <5> QED
          BY <5>1, <5>2
      <4> QED
        BY <4>2, <4>3, <4>4
    <3> QED
      BY <3>3, <3>4
  <2>2. ASSUME c.parent # 0
        PROVE  /\ \E k \in 1 .. Len(repo'[c.from]) : repo'[c.from][k].for = new
               /\ c.foreground => call'[c.parent].state = "command" /\ call'[c.parent].child = new
               /\ repo'[c.from][Len(repo'[c.from])].for = new
    <3>1. c.from \in Agents
      BY <1>5, <2>2, FieldTypes
    <3>2. Len(repo'[c.from]) \in Nat /\ Len(repo'[c.from]) # 0
      BY <1>2, <1>5, <2>2, <3>1 DEF RepoGrows
    <3> QED
      BY <1>5, <2>2, <3>2
  <2>3. ASSUME NEW m \in DOMAIN call', call'[m].parent # 0
        PROVE  /\ \E k \in 1 .. Len(repo'[call'[m].from]) : repo'[call'[m].from][k].for = m
               /\ call'[m].foreground /\ call'[m].state = "new"
                    /\ call'[call'[m].parent].state # "killed" =>
                    /\ call'[call'[m].parent].state = "command"
                    /\ call'[call'[m].parent].child = m
                    /\ repo'[call'[m].from][Len(repo'[call'[m].from])].for = m
    <3>1. CASE m = new
      BY <2>2, <2>3, <3>1
    <3>2. CASE m \in DOMAIN call
      BY <1>2, <2>1, <2>3, <3>2 DEF Kept
    <3> QED
      BY <1>1, <3>1, <3>2
  <2> QED
    BY <2>3 DEF CommitInv
<1>11. ASSUME NEW m \in DOMAIN call', Validated(m)', call'[m].parent # 0 PROVE RevGood(m)'
  <2>1. m \in DOMAIN call
    BY <1>1, <1>2, <1>11 DEF Validated
  <2>2. Kept(m) /\ call[m].parent # 0 /\ call'[m].meta = call[m].meta /\ Validated(m)
    BY <1>2, <1>3, <1>11, <2>1 DEF Validated, Kept
  <2>3. call'[call[m].parent].state # "killed" => call[call[m].parent].state # "killed"
    BY <1>3, <2>1, <2>2, FieldTypes
  <2> QED
    BY <1>2, <2>1, <2>2, <2>3, RevStays
<1>12. RevInv' /\ RevisionIsDispatch'
  BY <1>11, RevGoodIs
<1> QED
  BY <1>6, <1>7, <1>8, <1>9, <1>10, <1>12 DEF IInv


(* What an appended call is. *)
LEMMA Appended == ASSUME TypeOK, NEW f \in [1 .. started -> CallSet], NEW c \in CallSet,
                         started < MaxCalls, started' = started + 1, call' = Append(f, c)
                  PROVE
  /\ DOMAIN call' = 1 .. started + 1 /\ call' \in [1 .. started + 1 -> CallSet]
  /\ \A m \in 1 .. started : call'[m] = f[m]
  /\ call'[started + 1] = c /\ started' \in 0 .. MaxCalls
<1>1. started \in Nat /\ MaxCalls \in Nat
  BY CallType, AgentCallsAssumption
<1>2. f \in Seq(CallSet) /\ Len(f) = started
  BY <1>1, IsASeq
<1>3. call' \in Seq(CallSet) /\ Len(call') = started + 1
      /\ \A m \in 1 .. started : call'[m] = f[m]
      /\ call'[started + 1] = c
  BY <1>1, <1>2
<1>4. DOMAIN call' = 1 .. started + 1 /\ call' \in [1 .. started + 1 -> CallSet]
  BY <1>3, LenProperties
<1> QED
  BY <1>1, <1>3, <1>4

LEMMA LaunchStep == ASSUME IInv, NEW agent \in Agents, Launch(agent) PROVE IInv'
<1> DEFINE c == NewCall(agent, Human, FALSE, FALSE, 0, FALSE, NoEnv)
<1>1. /\ started < MaxCalls /\ started' = started + 1 /\ call' = Append(call, c)
      /\ UNCHANGED <<lock, repo>>
  BY DEF Launch
<1>2. call \in [1 .. started -> CallSet] /\ DOMAIN call = 1 .. started
  BY DEF IInv, TypeOK, CallSet
<1>3. /\ c \in CallSet /\ c.meta = NoEnv /\ c.state = "new" /\ c.parent = 0 /\ ~c.foreground
      /\ ~c.supervised /\ c.env = NoEnv /\ c.from = Human
  BY NoEnvType, AgentCallsAssumption DEF NewCall, CallSet, Callers
<1> HIDE DEF c
<1>4. /\ DOMAIN call' = 1 .. started + 1 /\ call' \in [1 .. started + 1 -> CallSet]
      /\ \A m \in DOMAIN call : call'[m] = call[m]
      /\ call'[started + 1] = c /\ started' \in 0 .. MaxCalls
  BY <1>1, <1>2, <1>3, Appended DEF IInv
<1>5. Grown
  BY <1>1, <1>3, <1>4, FieldTypes DEF Grown, RepoGrows, Kept
<1>6. lock' \in [Agents -> 0 .. started']
  BY <1>1, FieldTypes DEF IInv, TypeOK
<1>7. TypeOK'
  BY <1>1, <1>4, <1>6 DEF IInv, TypeOK, CallSet
<1> QED
  BY <1>5, <1>7, GrownStep

LEMMA DispatchStep ==
  ASSUME IInv, NEW n \in Calls, NEW agent \in Agents, NEW async \in BOOLEAN,
         NEW overlay \in BOOLEAN, NEW how \in {"command", "wackyproc"},
         Dispatch(n, agent, async, how, overlay)
  PROVE  IInv'
<1> DEFINE new == started + 1
           c == NewCall(agent, call[n].agent, async, Supervised(n, how), n,
                        how = "command", ChildMeta(call[n].meta, overlay))
           f == [call EXCEPT ![n].tools = @ + 1,
                             ![n].state = IF how = "command" THEN "command" ELSE "turn",
                             ![n].child = IF how = "command" THEN new ELSE 0]
<1>1. /\ n \in DOMAIN call /\ call[n].state = "turn" /\ call[n].tools < MaxTools
      /\ started < MaxCalls /\ started' = new /\ call' = Append(f, c)
      /\ Commit(n, new) /\ lock' = lock
  BY DEF Dispatch, CanDispatch, CommitDispatch, In
<1>2. /\ call \in [1 .. started -> CallSet] /\ DOMAIN call = 1 .. started /\ call[n] \in CallSet
      /\ started \in Nat /\ new \in 0 .. MaxCalls /\ n # 0 /\ call[n].agent \in Agents
  <2>1. call \in [1 .. started -> CallSet]
    BY DEF IInv, TypeOK, CallSet
  <2>2. DOMAIN call = 1 .. started /\ started \in Nat /\ call[n].agent \in Agents
    BY <1>1, FieldTypes
  <2>3. call[n] \in CallSet /\ n # 0
    BY <1>1, <2>1, <2>2
  <2>4. new \in 0 .. MaxCalls
    BY <1>1, <2>2, AgentCallsAssumption
  <2> QED
    BY <2>1, <2>2, <2>3, <2>4
<1>3. c = [agent |-> agent, from |-> call[n].agent, async |-> async,
           supervised |-> how = "wackyproc", parent |-> n, foreground |-> how = "command",
           env |-> call[n].meta, meta |-> NoEnv, tools |-> 0, child |-> 0, state |-> "new"]
  BY DEF NewCall, Supervised, ChildMeta
<1>4. c \in CallSet
  <2>1. n \in 0 .. MaxCalls /\ 0 \in 0 .. MaxCalls /\ 0 \in 0 .. MaxTools
    BY AgentCallsAssumption DEF Calls
  <2>2. call[n].agent \in Callers /\ call[n].meta \in Metas
    BY <1>2 DEF CallSet, Callers
  <2>3. (how = "wackyproc") \in BOOLEAN /\ (how = "command") \in BOOLEAN
    OBVIOUS
  <2> DEFINE supervised == how = "wackyproc"
             foreground == how = "command"
  <2> HIDE DEF supervised, foreground
  <2>4. supervised \in BOOLEAN /\ foreground \in BOOLEAN
    BY <2>3 DEF supervised, foreground
  <2>5. [agent |-> agent, from |-> call[n].agent, async |-> async, supervised |-> supervised,
         parent |-> n, foreground |-> foreground, env |-> call[n].meta, meta |-> NoEnv,
         tools |-> 0, child |-> 0, state |-> "new"] \in CallSet
    BY <2>1, <2>2, <2>4, NoEnvType DEF CallSet
  <2> QED
    BY <1>3, <2>5 DEF supervised, foreground
<1>5. /\ f \in [1 .. started -> CallSet]
      /\ \A m \in DOMAIN call :
           /\ f[m].agent = call[m].agent /\ f[m].from = call[m].from
           /\ f[m].async = call[m].async /\ f[m].supervised = call[m].supervised
           /\ f[m].parent = call[m].parent /\ f[m].foreground = call[m].foreground
           /\ f[m].env = call[m].env /\ f[m].meta = call[m].meta
           /\ m # n => f[m] = call[m]
      /\ f[n].state = IF how = "command" THEN "command" ELSE "turn"
      /\ f[n].child = IF how = "command" THEN new ELSE 0
  <2> DEFINE more == [call EXCEPT ![n].tools = @ + 1]
             stated == [more EXCEPT ![n].state = IF how = "command" THEN "command" ELSE "turn"]
  <2>1. f = [stated EXCEPT ![n].child = IF how = "command" THEN new ELSE 0]
    OBVIOUS
  <2>2. /\ more \in [1 .. started -> CallSet]
        /\ \A m \in DOMAIN call \ {n} : more[m] = call[m]
        /\ more[n] = [call[n] EXCEPT !.tools = @ + 1]
    <3>1. call[n].tools + 1 \in 0 .. MaxTools
      BY <1>1, <1>2, AgentCallsAssumption DEF CallSet
    <3> QED
      BY <1>1, <1>2, <3>1 DEF CallSet
  <2> HIDE DEF more
  <2>3. /\ stated \in [1 .. started -> CallSet]
        /\ \A m \in DOMAIN call \ {n} : stated[m] = call[m]
        /\ stated[n] = [more[n] EXCEPT !.state = IF how = "command" THEN "command" ELSE "turn"]
    BY <1>1, <1>2, <2>2 DEF CallSet
  <2> HIDE DEF stated
  <2>4. /\ f \in [1 .. started -> CallSet]
        /\ \A m \in DOMAIN call \ {n} : f[m] = call[m]
        /\ f[n] = [stated[n] EXCEPT !.child = IF how = "command" THEN new ELSE 0]
    <3>1. (IF how = "command" THEN new ELSE 0) \in 0 .. MaxCalls
      BY <1>2, AgentCallsAssumption
    <3> DEFINE child == IF how = "command" THEN new ELSE 0
    <3> HIDE DEF child, f
    <3>2. child \in 0 .. MaxCalls /\ f = [stated EXCEPT ![n].child = child]
      BY <2>1, <3>1 DEF child
    <3>3. f \in [1 .. started -> CallSet] /\ f[n] = [stated[n] EXCEPT !.child = child]
      BY <1>1, <1>2, <2>3, <3>2 DEF CallSet
    <3>4. \A m \in DOMAIN call \ {n} : f[m] = stated[m]
      BY <1>2, <2>3, <3>2
    <3> QED
      BY <2>3, <3>3, <3>4 DEF child
  <2> HIDE DEF f
  <2>5. /\ f[n].agent = call[n].agent /\ f[n].from = call[n].from
        /\ f[n].async = call[n].async /\ f[n].supervised = call[n].supervised
        /\ f[n].parent = call[n].parent /\ f[n].foreground = call[n].foreground
        /\ f[n].env = call[n].env /\ f[n].meta = call[n].meta
        /\ f[n].state = IF how = "command" THEN "command" ELSE "turn"
        /\ f[n].child = IF how = "command" THEN new ELSE 0
    BY <1>2, <2>2, <2>3, <2>4 DEF CallSet
  <2> QED
    BY <2>4, <2>5
<1> HIDE DEF c, f
<1>6. /\ DOMAIN call' = 1 .. new /\ call' \in [1 .. new -> CallSet]
      /\ \A m \in DOMAIN call : call'[m] = f[m]
      /\ call'[new] = c /\ started' \in 0 .. MaxCalls
  BY <1>1, <1>2, <1>4, <1>5, Appended DEF IInv
<1>7. /\ repo' \in [Agents -> Seq([meta : Metas, by : Calls, for : 0 .. MaxCalls])]
      /\ \A a \in Agents \ {call[n].agent} : repo'[a] = repo[a]
      /\ Len(repo'[call[n].agent]) = Len(repo[call[n].agent]) + 1
      /\ \A i \in 1 .. Len(repo[call[n].agent]) :
           repo'[call[n].agent][i] = repo[call[n].agent][i]
      /\ repo'[call[n].agent][Len(repo'[call[n].agent])].for = new
  BY <1>1, <1>2, CommitType DEF IInv
<1>8. RepoGrows
  <2>1. ASSUME NEW a \in Agents
        PROVE  /\ Len(repo'[a]) \in Nat /\ Len(repo[a]) <= Len(repo'[a])
               /\ \A k \in 1 .. Len(repo[a]) : repo'[a][k] = repo[a][k]
    <3>1. CASE a = call[n].agent
      BY <1>7, <3>1, FieldTypes
    <3>2. CASE a # call[n].agent
      BY <1>7, <3>2, FieldTypes
    <3> QED
      BY <3>1, <3>2
  <2> QED
    BY <2>1 DEF RepoGrows
<1>9. Len(repo'[call[n].agent]) # 0
  BY <1>2, <1>7, FieldTypes
<1>10. ASSUME NEW m \in DOMAIN call
       PROVE  /\ Kept(m) /\ call'[m].meta = call[m].meta
              /\ \/ call'[m].state = call[m].state
                    /\ (call[m].state = "command" => call'[m].child = call[m].child)
                 \/ /\ call[m].state = "turn" /\ call'[m].state = "command"
                    /\ call'[m].child = new /\ n = m /\ how = "command"
  <2>1. CASE m = n
    BY <1>1, <1>5, <1>6, <2>1 DEF Kept
  <2>2. CASE m # n
    BY <1>5, <1>6, <2>2 DEF Kept
  <2> QED
    BY <2>1, <2>2
<1>11. Grown
  <2>1. /\ c.parent = n /\ c.from = call[n].agent /\ c.env = call[n].meta
        /\ c.meta = NoEnv /\ c.state = "new" /\ (c.supervised <=> how = "wackyproc")
        /\ (c.foreground <=> how = "command")
    BY <1>3
  <2>2. ASSUME c.foreground PROVE call'[n].state = "command" /\ call'[n].child = new
    BY <1>1, <1>5, <1>6, <2>1, <2>2
  <2>3. n \in 0 .. started
    BY <1>1, <1>2
  <2>4. (c.foreground => ~c.supervised)
    BY <2>1
  <2> QED
    BY <1>1, <1>2, <1>4, <1>6, <1>7, <1>8, <1>9, <1>10, <2>1, <2>2, <2>3, <2>4 DEF Grown
<1>12. lock' \in [Agents -> 0 .. started']
  BY <1>1, <1>2 DEF IInv, TypeOK
<1>13. TypeOK'
  BY <1>1, <1>6, <1>7, <1>12 DEF IInv, TypeOK, CallSet
<1> QED
  BY <1>11, <1>13, GrownStep

LEMMA InitIInv == Init => IInv
<1> SUFFICES ASSUME Init PROVE IInv
  OBVIOUS
<1>1. started = 0 /\ call = <<>> /\ DOMAIN call = {} /\ 1 .. 0 = {}
      /\ lock = [a \in Agents |-> 0] /\ repo = [a \in Agents |-> <<>>]
  BY DEF Init
<1>2. TypeOK
  <2>1. lock \in [Agents -> 0 .. 0] /\ 0 \in 0 .. MaxCalls
    BY <1>1, AgentCallsAssumption
  <2>2. repo \in [Agents -> Seq([meta : Metas, by : Calls, for : 0 .. MaxCalls])]
    BY <1>1
  <2>3. call \in [1 .. 0 -> CallSet]
    BY <1>1
  <2> QED
    BY <1>1, <2>1, <2>2, <2>3 DEF TypeOK, CallSet
<1>3. LockInv
  BY <1>1 DEF LockInv
<1> QED
  BY <1>1, <1>2, <1>3 DEF IInv, HopInv, MetaInv, WaitInv, CommitInv, RevInv, RevisionIsDispatch

LEMMA StepIInv == IInv /\ [Next]_vars => IInv'
<1> SUFFICES ASSUME IInv, [Next]_vars PROVE IInv'
  OBVIOUS
<1>1. CASE \E a \in Agents : Launch(a)
  BY <1>1, LaunchStep
<1>2. ASSUME NEW n \in Calls, Validate(n) PROVE IInv'
  BY <1>2, ValidateStep
<1>3. ASSUME NEW n \in Calls, Acquire(n) PROVE IInv'
  BY <1>3, AcquireStep
<1>4. ASSUME NEW n \in Calls, ShortCircuit(n) PROVE IInv'
  BY <1>4, ShortCircuitStep
<1>5. ASSUME NEW n \in Calls, NEW a \in Agents, NEW async \in BOOLEAN, NEW overlay \in BOOLEAN,
             NEW how \in {"command", "wackyproc"}, Dispatch(n, a, async, how, overlay)
      PROVE  IInv'
  BY <1>5, DispatchStep
<1>6. ASSUME NEW n \in Calls, Return(n) PROVE IInv'
  BY <1>6, ReturnStep
<1>7. ASSUME NEW n \in Calls, Timeout(n) PROVE IInv'
  BY <1>7, TimeoutStep
<1>8. ASSUME NEW n \in Calls, Interrupt(n) PROVE IInv'
  BY <1>8, InterruptStep
<1>9. ASSUME NEW n \in Calls, Finish(n) PROVE IInv'
  BY <1>9, FinishStep
<1>10. CASE UNCHANGED vars
  <2>1. started' = started /\ call' = call /\ lock' = lock /\ repo' = repo
    BY <1>10 DEF vars
  <2>2. TypeOK'
    BY <2>1 DEF IInv, TypeOK
  <2>3. Running
    <3>1. call \in [1 .. started -> CallSet]
      BY DEF IInv, TypeOK, CallSet
    <3> QED
      BY <2>1, <3>1, FieldTypes DEF Running, Local, RepoGrows, Kept
  <2>4. LockInv'
    BY <2>1, <2>3, LocksStay DEF Running, Holding
  <2> QED
    BY <2>2, <2>3, <2>4, RunningStep
<1> QED
  BY <1>1, <1>2, <1>3, <1>4, <1>5, <1>6, <1>7, <1>8, <1>9, <1>10 DEF Next, Idle

(* Every reachable state satisfies the inductive invariant. *)
THEOREM Invariance == Spec => []IInv
<1> QED
  BY InitIInv, StepIInv, PTL DEF Spec


(* What a call reports of the command that made it is true. *)
THEOREM CallsReportTheirDispatch == Spec => []DispatchSound
<1>1. IInv => DispatchSound
  BY DEF IInv, DispatchSound
<1> QED
  BY <1>1, Invariance, PTL
-----------------------------------------------------------------------------
(* Induction over the calls: of the calls that are an exception there is a first. *)
LEMMA LeastNat == ASSUME NEW T \in SUBSET Nat, T # {} PROVE \E m \in T : \A k \in T : m <= k
<1>1. OpToRel(<, Nat) = {ss \in Nat \X Nat : ss[1] < ss[2]}
  BY DEF OpToRel
<1>2. PICK m \in T : \A k \in T : ~ (<<k, m>> \in OpToRel(<, Nat))
  BY NatLessThanWellFounded, WFMin
<1>3. ASSUME NEW k \in T PROVE m <= k
  <2>1. ~ (<<k, m>> \in {ss \in Nat \X Nat : ss[1] < ss[2]})
    BY <1>1, <1>2
  <2> QED
    BY <2>1
<1> QED
  BY <1>3

(* What lineage is defined by has a solution, the paths. *)
LEMMA LineageIs == ASSUME IInv PROVE
  lineage = [n \in Nat |-> IF n \notin DOMAIN call THEN <<>>
                           ELSE Append(lineage[call[n].parent], call[n].agent)]
<1> DEFINE f == [n \in Nat |-> IF n \in DOMAIN call THEN Path(n) ELSE <<>>]
<1>1. ASSUME NEW n \in DOMAIN call PROVE Path(n) = Append(f[call[n].parent], call[n].agent)
  <2>1. CASE call[n].parent = 0
    <3>1. 0 \notin DOMAIN call /\ call[n].env.chain = <<>> /\ f[0] = <<>>
      BY <2>1, FieldTypes DEF IInv, HopInv, NoEnv
    <3> QED
      BY <2>1, <3>1 DEF Path
  <2>2. CASE call[n].parent # 0
    BY <2>2, FieldTypes DEF IInv, HopInv, Path
  <2> QED
    BY <2>1, <2>2
<1>2. f = [n \in Nat |-> IF n \notin DOMAIN call THEN <<>>
                         ELSE Append(f[call[n].parent], call[n].agent)]
  BY <1>1
<1>3. \E g : g = [n \in Nat |-> IF n \notin DOMAIN call THEN <<>>
                         ELSE Append(g[call[n].parent], call[n].agent)]
  BY <1>2
<1> QED
  BY <1>3 DEF lineage


LEMMA LineageIsPath == ASSUME IInv, NEW n \in DOMAIN call PROVE lineage[n] = Path(n)
<1> DEFINE T == {m \in DOMAIN call : lineage[m] # Path(m)}
<1>1. SUFFICES ASSUME T # {} PROVE FALSE
  BY <1>1
<1>2. T \in SUBSET Nat
  BY FieldTypes
<1>3. PICK m \in T : \A k \in T : m <= k
  BY <1>1, <1>2, LeastNat
<1>4. lineage[m] = Append(lineage[call[m].parent], call[m].agent)
  BY <1>2, LineageIs
<1>5. call[m].parent \in Nat /\ call[m].parent < m /\ m \in Nat
  BY <1>2, FieldTypes DEF IInv, HopInv
<1>6. CASE call[m].parent = 0
  <2>1. lineage[0] = <<>> /\ call[m].env.chain = <<>>
    BY <1>6, FieldTypes, LineageIs DEF IInv, HopInv, NoEnv
  <2> QED
    BY <1>4, <1>6, <2>1 DEF Path
<1>7. CASE call[m].parent # 0
  <2>1. call[m].parent \in DOMAIN call /\ call[m].parent \notin T
    BY <1>3, <1>5, <1>7, FieldTypes
  <2>2. lineage[call[m].parent] = Path(call[m].parent) /\ call[m].env.chain = Path(call[m].parent)
    BY <1>7, <2>1 DEF IInv, HopInv
  <2> QED
    BY <1>4, <2>2 DEF Path
<1> QED
  BY <1>6, <1>7

(* The chain a call works with is the path of the calls that led to it. *)
THEOREM ChainsAreLineages == Spec => []ChainIsLineage
<1>1. IInv => ChainIsLineage
  BY LineageIsPath DEF ChainIsLineage, Validated, IInv, MetaInv
<1> QED
  BY <1>1, Invariance, PTL
-----------------------------------------------------------------------------
(* The next call that n waits for. *)
Waits(n) == In(n, "command")

(* What awaited is defined by has a solution: the calls in every set that has n and,
   with each call, the command it waits for. *)
LEMMA AwaitedIs == ASSUME IInv PROVE
  awaited = [n \in Nat |-> {n} \cup IF Waits(n) THEN awaited[call[n].child] ELSE {}]
<1> DEFINE Closed(U) == \A k \in U : Waits(k) => call[k].child \in U
           f == [n \in Nat |-> {m \in Nat : \A U \in SUBSET Nat :
                                  n \in U /\ Closed(U) => m \in U}]
<1>1. \A k \in DOMAIN call : k \in Nat /\ call[k].child \in Nat
  BY FieldTypes
<1>2. ASSUME NEW n \in Nat
      PROVE  f[n] = {n} \cup IF Waits(n) THEN f[call[n].child] ELSE {}
  <2> DEFINE W == {n} \cup IF Waits(n) THEN f[call[n].child] ELSE {}
  <2>1. ASSUME NEW m \in W PROVE m \in f[n]
    <3>1. CASE m = n
      BY <3>1
    <3>2. CASE Waits(n) /\ m \in f[call[n].child]
      <4>1. call[n].child \in Nat /\ m \in Nat
        BY <1>1, <3>2 DEF Waits, In
      <4>2. ASSUME NEW U \in SUBSET Nat, n \in U, Closed(U) PROVE m \in U
        <5>1. call[n].child \in U
          BY <3>2, <4>2
        <5> QED
          BY <3>2, <4>1, <4>2, <5>1
      <4> QED
        BY <4>1, <4>2
    <3> QED
      BY <2>1, <3>1, <3>2
  <2>2. W \in SUBSET Nat /\ n \in W
    BY <1>1 DEF Waits, In
  <2>3. ASSUME NEW k \in W, Waits(k) PROVE call[k].child \in W
    <3>1. call[k].child \in Nat
      BY <1>1, <2>3 DEF Waits, In
    <3>2. CASE k = n
      <4>1. call[n].child \in f[call[n].child]
        BY <3>1, <3>2
      <4> QED
        BY <2>3, <3>2, <4>1
    <3>3. CASE k # n
      <4>1. Waits(n) /\ k \in f[call[n].child] /\ call[n].child \in Nat
        BY <1>1, <2>3, <3>3 DEF Waits, In
      <4>2. ASSUME NEW U \in SUBSET Nat, call[n].child \in U, Closed(U) PROVE call[k].child \in U
        <5>1. k \in U
          BY <4>1, <4>2
        <5> QED
          BY <2>3, <4>2, <5>1
      <4>3. call[k].child \in f[call[n].child]
        BY <3>1, <4>1, <4>2
      <4> QED
        BY <4>1, <4>3
    <3> QED
      BY <3>2, <3>3
  <2>4. Closed(W)
    BY <2>3
  <2>5. ASSUME NEW m \in f[n] PROVE m \in W
    <3> HIDE DEF W
    <3> QED
      BY <2>2, <2>4, <2>5
  <2> QED
    BY <2>1, <2>5
<1> HIDE DEF f
<1>3. f = [n \in Nat |-> {n} \cup IF Waits(n) THEN f[call[n].child] ELSE {}]
  <2>1. f = [n \in Nat |-> f[n]]
    BY DEF f
  <2> QED
    BY <1>2, <2>1
<1>4. \E g : g = [n \in Nat |-> {n} \cup IF Waits(n) THEN g[call[n].child] ELSE {}]
  BY <1>3
<1> QED
  BY <1>4 DEF awaited, Waits

LEMMA BeginsChain == ASSUME IInv, NEW h \in DOMAIN call, NEW c \in DOMAIN call,
                            call[c].env.chain = Path(h)
                     PROVE  /\ Begins(Path(h), call[c].env.chain)
                            /\ \A t \in Seq(Agents) : Begins(Path(c), t) => Begins(Path(h), t)
<1>1. Path(h) \in Seq(Agents) /\ Path(c) = Append(Path(h), call[c].agent) /\ call[c].agent \in Agents
  BY CallType, FieldTypes DEF IInv, CallSet, Metas, Path
<1>2. Begins(Path(h), call[c].env.chain)
  BY <1>1 DEF Begins
<1>3. Len(Path(c)) = Len(Path(h)) + 1 /\ Len(Path(h)) \in Nat
      /\ \A i \in 1 .. Len(Path(h)) : Path(c)[i] = Path(h)[i]
  BY <1>1
<1>4. ASSUME NEW t \in Seq(Agents), Begins(Path(c), t) PROVE Begins(Path(h), t)
  <2>1. Len(t) \in Nat
    BY <1>4
  <2> QED
    BY <1>3, <1>4, <2>1 DEF Begins
<1> QED
  BY <1>2, <1>4

(* A call that h waits for has the path of h in its environment. *)
LEMMA AwaitedBelow == ASSUME IInv, NEW h \in DOMAIN call, NEW m \in awaited[h], m # h
                      PROVE  /\ m \in DOMAIN call /\ call[m].foreground
                             /\ Begins(Path(h), call[m].env.chain)
<1> DEFINE Good(k) == \A j \in awaited[k] : j # k =>
                        /\ j \in DOMAIN call /\ call[j].foreground
                        /\ Begins(Path(k), call[j].env.chain)
           T == {d \in Nat : \E k \in DOMAIN call : d = started - k /\ ~Good(k)}
<1>1. SUFFICES Good(h)
  OBVIOUS
<1>2. SUFFICES ASSUME ~Good(h) PROVE FALSE
  OBVIOUS
<1> HIDE DEF Good
<1>3. \A k \in DOMAIN call : k \in Nat /\ started - k \in Nat
  BY FieldTypes
<1>4. started - h \in T
  BY <1>2, <1>3
<1>5. PICK d \in T : \A e \in T : d <= e
  BY <1>4, LeastNat
<1>6. PICK k \in DOMAIN call : d = started - k /\ ~Good(k)
  BY <1>5
<1>7. awaited[k] = {k} \cup IF Waits(k) THEN awaited[call[k].child] ELSE {}
  BY <1>3, AwaitedIs
<1>8. CASE ~Waits(k)
  BY <1>6, <1>7, <1>8 DEF Good
<1>9. CASE Waits(k)
  <2> DEFINE c == call[k].child
  <2>1. c \in DOMAIN call /\ call[c].parent = k /\ call[c].foreground
    BY <1>9 DEF IInv, WaitInv, Waits, In
  <2>2. call[c].env.chain = Path(k) /\ k < c
    BY <1>3, <2>1, FieldTypes DEF IInv, HopInv
  <2>3. started - c \notin T
    <3>1. started - c < d /\ ~(d <= started - c)
      BY <1>3, <1>6, <2>1, <2>2, FieldTypes
    <3> HIDE DEF T
    <3> QED
      BY <1>5, <3>1
  <2>4. Good(c)
    BY <1>3, <2>1, <2>3
  <2>5. ASSUME NEW j \in awaited[k], j # k
        PROVE  /\ j \in DOMAIN call /\ call[j].foreground
               /\ Begins(Path(k), call[j].env.chain)
    <3>1. j \in awaited[c]
      BY <1>7, <1>9, <2>5
    <3>2. CASE j = c
      BY <2>1, <2>2, <3>2, BeginsChain
    <3>3. CASE j # c
      <4>1. j \in DOMAIN call /\ call[j].foreground /\ Begins(Path(c), call[j].env.chain)
        BY <2>4, <3>1, <3>3 DEF Good
      <4>2. call[j].env.chain \in Seq(Agents)
        BY <4>1, CallType DEF IInv, CallSet, Metas
      <4> QED
        BY <2>1, <2>2, <4>1, <4>2, BeginsChain
    <3> QED
      BY <3>2, <3>3
  <2> QED
    BY <1>6, <2>5 DEF Good
<1> QED
  BY <1>8, <1>9

LEMMA WaitersAreNotAwaited == IInv => NoSelfDeadlock
<1> SUFFICES ASSUME IInv, NEW n \in DOMAIN call, In(n, "waiting")
             PROVE  n \notin awaited[lock[call[n].agent]]
  BY DEF NoSelfDeadlock
<1> DEFINE h == lock[call[n].agent]
<1>1. call[n].agent \in Agents /\ h \in 0 .. started /\ n \in Nat /\ n # 0
  BY FieldTypes DEF IInv, TypeOK
<1>2. CASE h = 0
  <2>1. 0 \notin DOMAIN call
    BY FieldTypes
  <2>2. awaited[0] = {0}
    BY <2>1, AwaitedIs DEF Waits, In
  <2> QED
    BY <1>1, <1>2, <2>2
<1>3. CASE h # 0
  <2>1. h \in DOMAIN call /\ call[h].agent = call[n].agent /\ Holding(h)
    BY <1>1, <1>3, FieldTypes DEF IInv, LockInv
  <2>2. h # n
    BY <2>1 DEF Holding, In
  <2>3. SUFFICES ASSUME n \in awaited[h] PROVE FALSE
    OBVIOUS
  <2>4. call[n].foreground /\ Begins(Path(h), call[n].env.chain)
    BY <2>1, <2>2, <2>3, AwaitedBelow
  <2>5. ~Refused(n) /\ ~call[n].supervised
    BY <2>4 DEF IInv, MetaInv, HopInv, Active, In
  <2>6. Cyclic(n)
    <3>1. call[h].env.chain \in Seq(Agents) /\ call[n].env.chain \in Seq(Agents)
      BY <2>1, CallType DEF IInv, CallSet, Metas
    <3>2. Len(Path(h)) = Len(call[h].env.chain) + 1 /\ Path(h)[Len(Path(h))] = call[n].agent
          /\ Len(call[h].env.chain) \in Nat
      <4>1. Path(h) = Append(call[h].env.chain, call[n].agent)
        BY <2>1 DEF Path
      <4> HIDE DEF h
      <4> QED
        BY <1>1, <3>1, <4>1
    <3> HIDE DEF h
    <3>3. Len(Path(h)) \in DOMAIN call[n].env.chain
          /\ call[n].env.chain[Len(Path(h))] = call[n].agent
      <4>1. Len(Path(h)) \in Nat /\ Len(Path(h)) >= 1 /\ Len(call[n].env.chain) \in Nat
        BY <3>1, <3>2
      <4>2. Len(Path(h)) <= Len(call[n].env.chain)
            /\ \A i \in 1 .. Len(Path(h)) : call[n].env.chain[i] = Path(h)[i]
        BY <2>4 DEF Begins
      <4>3. DOMAIN call[n].env.chain = 1 .. Len(call[n].env.chain)
        BY <3>1
      <4>4. Len(Path(h)) \in 1 .. Len(Path(h))
        BY <4>1
      <4>5. call[n].env.chain[Len(Path(h))] = call[n].agent
        BY <3>2, <4>2, <4>4
      <4>6. Len(Path(h)) \in 1 .. Len(call[n].env.chain)
        BY <4>1, <4>2
      <4> QED
        BY <4>3, <4>5, <4>6
    <3> QED
      BY <3>3 DEF Cyclic, Range
  <2> QED
    BY <2>5, <2>6 DEF Refused
<1> QED
  BY <1>2, <1>3

(* No call waits for a session lock that is held by a call that waits for it. *)
THEOREM NobodyAwaitsItself == Spec => []NoSelfDeadlock
  BY WaitersAreNotAwaited, Invariance, PTL
=============================================================================
