------------------------------ MODULE Prompts ------------------------------
(***************************************************************************)
(* The calls that put something into a session or take an answer from it,   *)
(* from the command line or from a client of one long-lived server: add,    *)
(* generate, prompt, repl, add-media and compact, with the hook scripts     *)
(* each of them runs while it holds the session lock, the tool a turn runs, *)
(* and the two things the calls of one process share: the environment of    *)
(* the process and the hook variables kept from an added message to the     *)
(* next generate.                                                           *)
(*                                                                         *)
(* A served command runs in the one server process; every other command is *)
(* a process of its own, which is gone when the command has answered.      *)
(***************************************************************************)
EXTENDS HookChain, Persist

CONSTANTS
  Commands, Agents,
  Setups,        \* for every command its op ("nothing" if nobody gives it), its agent
                 \* and whether it is served; and for every event its hooks/ entries
  Outputs,       \* what a script may print
  Vars,          \* environment variables
  Locked,        \* those the harness owns
  DotEnv,        \* the variables each agent's .env sets
  KeyVar,        \* the variable runtime.json names as its api key
  ArgVars,       \* the variables the model passes to the tool
  Messages,      \* what a user may send: sequences of parts
  Images,        \* what add-media may attach, as the normalized image
  MaxLines,      \* lines typed into a repl
  MayDetach      \* whether a script may leave a child that keeps its stdout

Events == {Message, PreRun, TurnCompleted, TurnFailed, PreCompact, PostCompact, CompactFailed}
Ops == {"nothing", "add", "prompt", "media", "generate", "compact", "repl"}

ASSUME ConstantsAssumption ==
  /\ Locked \subseteq Vars /\ ArgVars \subseteq Vars /\ KeyVar \in Vars
  /\ DotEnv \in [Agents -> SUBSET Vars]
  /\ MaxLines \in Nat \ {0}
  /\ Outputs \subseteq [text : BOOLEAN, sets : SUBSET Vars, drops : SUBSET Vars,
                      action : {"none", "short_circuit", "continue"}]

\* The files of a directory have different names.
ASSUME SetupsAssumption ==
  \A s \in Setups :
    /\ s.plan \in [Commands -> [op : Ops, agent : Agents, served : BOOLEAN]]
    /\ \A event \in Events :
         /\ IsFiniteSet(s.dir[event])
         /\ s.dir[event] \subseteq [runs : BOOLEAN, number : 0 .. NoNumber, name : Nat]
         /\ \A d, e \in s.dir[event] : d.name = e.name => d = e

\* A message has a text, and an image is attached by add-media.
ASSUME MessagesAssumption ==
  /\ Messages \cup Images \subseteq Seq([kind : {"text", "blob", "call"}, size : Nat, whole : {TRUE}])
  /\ \A parts \in Messages : \E i \in DOMAIN parts : parts[i].kind = "text"
  /\ \A parts \in Images : \E i \in DOMAIN parts : parts[i].kind = "blob"

VARIABLES
  plan, dir,
  pc, line, cancelled,  \* of every command
  holder,               \* session.lock of every agent
  log,                  \* the user turns in the sessions, each with the call it came from
  reply,                \* what each call was told, line by line
  chain,                \* hook chains: of each command, and of its post-compact goroutine
  lastHookEnv, environ, \* of every process
  hookEnv,              \* the hook variables a turn was loaded with
  rendered,             \* every loading of hook variables into a system prompt
  key,                  \* the api key the turn's runtime.json was expanded to
  base, tool            \* the environment captured for the tool; the one it ran in

setup == <<plan, dir>>
call == <<pc, line, reply>>
process == <<lastHookEnv, environ>>
turn == <<hookEnv, rendered, key, base, tool>>
promptVars == <<setup, call, cancelled, holder, log, chain, process, turn>>

Process(c) == IF plan[c].served THEN "server" ELSE c
Processes == Commands \cup {"server"}
Op(c) == plan[c].op
Agent(c) == plan[c].agent
Asked(c) == <<c, line[c]>>   \* the message a call brings

None == "none"
NoVars == <<>>
NoHookEnv == [by |-> <<None, 0>>, set |-> NoVars]
NotRun == [ran |-> FALSE, env |-> NoVars, hooks |-> NoChain]

\* The chains a command may own
Slots == {"turn", "post"}

PromptsInit ==
  /\ \E s \in Setups : plan = s.plan /\ dir = s.dir
  /\ pc = [c \in Commands |-> "idle"] /\ line = [c \in Commands |-> 1]
  /\ cancelled = [c \in Commands |-> FALSE]
  /\ holder = [a \in Agents |-> None]
  /\ log = {}
  /\ reply = [c \in Commands |-> <<>>]
  /\ chain = [o \in Commands \X Slots |-> NoChain]
  /\ lastHookEnv = [p \in Processes |-> [a \in Agents |-> NoHookEnv]]
  /\ environ = [p \in Processes |-> [v \in Vars |-> <<"os", None>>]]
  /\ hookEnv = [c \in Commands |-> NoHookEnv]
  /\ rendered = {}
  /\ key = [c \in Commands |-> <<None, None>>]
  /\ base = [c \in Commands |-> NoVars]
  /\ tool = [c \in Commands |-> NotRun]

-----------------------------------------------------------------------------
(* Asking, the lock and the answer. *)

\* A repl that was told of an error reads its next line all the same.
Answer(c, r) ==
  LET more == Op(c) = "repl" /\ line[c] < MaxLines
  IN /\ reply' = [reply EXCEPT ![c] = Append(@, r)]
     /\ pc' = [pc EXCEPT ![c] = IF more THEN "idle" ELSE "done"]
     /\ line' = [line EXCEPT ![c] = IF more THEN @ + 1 ELSE @]

Go(c, stage) == pc' = [pc EXCEPT ![c] = stage] /\ UNCHANGED <<line, reply>>

Release(c) == holder' = [holder EXCEPT ![Agent(c)] = None]

FailCall(c) == Answer(c, "error") /\ Release(c)

StartHooks(c, slot, event) ==
  chain' = [chain EXCEPT ![<<c, slot>>] = StartChain(event, <<"text", event>>, dir[event])]

Hooks(c, event) == chain[<<c, "turn">>].event = event /\ Finished(chain[<<c, "turn">>])

EndHooks(c) == chain' = [chain EXCEPT ![<<c, "turn">>] = NoChain]

Given(c, op) == pc[c] = "idle" /\ Op(c) = op
Refuse(c) == Answer(c, "refused")
Same == UNCHANGED <<setup, cancelled, holder, log, chain, process, turn>>

\* No agent, or no message: neither an argument, nor the flag, nor piped in
AskAdd(c) == Given(c, "add") /\ (Go(c, "wants") \/ Refuse(c)) /\ Same

\* The same; or asked for async without a supervisor to catch the output
AskPrompt(c) == Given(c, "prompt") /\ (Go(c, "wants") \/ Refuse(c)) /\ Same

\* Nothing piped in, or more than the payload limit
AskMedia(c) == Given(c, "media") /\ (Go(c, "wants") \/ Refuse(c)) /\ Same

\* generate takes no message
AskGenerate(c) == Given(c, "generate") /\ (Go(c, "wants") \/ Refuse(c)) /\ Same

\* A runtime or a COMPACT.md of the command line that cannot be read
AskCompact(c) == Given(c, "compact") /\ (Go(c, "wants") \/ Refuse(c)) /\ Same

\* The next line; or the end, at once if it is an agent that starts the repl
AskRepl(c) == Given(c, "repl") /\ (Go(c, "wants") \/ Go(c, "done")) /\ Same

AcquireSessionLock(c) ==
  /\ pc[c] = "wants" /\ holder[Agent(c)] = None
  /\ holder' = [holder EXCEPT ![Agent(c)] = c]
  /\ IF Op(c) \in {"add", "prompt", "repl"}
     THEN Go(c, "message") /\ StartHooks(c, "turn", Message)
     ELSE Go(c, "load") /\ UNCHANGED chain
  /\ UNCHANGED <<setup, cancelled, log, process, turn>>

GiveUp(c) ==
  /\ pc[c] = "wants" /\ cancelled[c]
  /\ Answer(c, "error")
  /\ UNCHANGED <<setup, cancelled, holder, log, chain, process, turn>>

\* A signal to the command, or a client that hangs up; a repl's context stays done
Interrupt(c) ==
  /\ pc[c] # "done" /\ Op(c) # "nothing" /\ ~cancelled[c]
  /\ cancelled' = [cancelled EXCEPT ![c] = TRUE]
  /\ UNCHANGED <<setup, call, holder, log, chain, process, turn>>

-----------------------------------------------------------------------------
(* Running a chain.  A script that has a child of its own holding its       *)
(* stdout is waited for until the child closes it: the timeout kills the    *)
(* script's group only while the script itself runs.                        *)

\* The chains that run on a context the caller's cancellation does not reach
Detached(c, event) ==
  \/ event \in {TurnCompleted, TurnFailed, CompactFailed, PostCompact}
  \/ event = Message /\ Op(c) = "add"

Dead(c, ch) == ch.spent \/ (cancelled[c] /\ ~Detached(c, ch.event))

\* One timeout for the whole chain of a turn's end; the tool's own timeout
\* covers the chain before it as well; elsewhere each script has its own.
MaySpend(event) ==
  CASE event \in {TurnCompleted, TurnFailed} -> {TRUE}
    [] event = PreRun -> BOOLEAN
    [] OTHER -> {FALSE}

StepChain(o, ch) ==
  /\ chain' = [chain EXCEPT ![o] = ch]
  /\ UNCHANGED <<setup, call, cancelled, holder, log, process, turn>>

StartScript(c, slot) ==
  LET ch == chain[<<c, slot>>] IN
  /\ ch.todo # <<>> /\ ~Running(ch)
  /\ StepChain(<<c, slot>>, IF Dead(c, ch) THEN After(ch, Failed)
                           ELSE [ch EXCEPT !.script = "runs"])

Exit(c, slot) ==
  LET ch == chain[<<c, slot>>] IN
  /\ ch.script = "runs"
  /\ \E out \in Outputs \cup {Failed} :
       \/ StepChain(<<c, slot>>, After(ch, out))
       \/ MayDetach /\ StepChain(<<c, slot>>, [ch EXCEPT !.script = "held", !.result = out])

\* Mutant: a script that hangs is never killed.
Kill_Never(c, slot) == FALSE /\ UNCHANGED promptVars

\* The timeout of the script, or a cancelled context
Kill(c, slot) ==
  LET ch == chain[<<c, slot>>] IN
  /\ ch.script = "runs"
  /\ \E spent \in MaySpend(ch.event) :
       StepChain(<<c, slot>>, [After(ch, Failed) EXCEPT !.spent = @ \/ spent])

\* The child has closed the stdout, perhaps after the timeout
CloseStdout(c, slot) ==
  LET ch == chain[<<c, slot>>] IN
  /\ ch.script = "held"
  /\ \/ StepChain(<<c, slot>>, After(ch, ch.result))
     \/ \E spent \in MaySpend(ch.event) :
          StepChain(<<c, slot>>, [After(ch, Failed) EXCEPT !.spent = @ \/ spent])

-----------------------------------------------------------------------------
(* The message: hooked, then appended. *)

Appended(c, set, parts) ==
  log' = log \cup {[by |-> Asked(c), set |-> set, parts |-> Persisted(parts).parts]}

SetLastHookEnv(c, set) ==
  lastHookEnv' = [lastHookEnv EXCEPT ![Process(c)][Agent(c)] =
                    IF DOMAIN set = {} THEN NoHookEnv ELSE [by |-> Asked(c), set |-> set]]

\* Mutant: the variables are kept although the turn could not be appended.
AddUserTurn_EnvFirst(c) ==
  /\ pc[c] = "message" /\ Op(c) = "add" /\ Hooks(c, Message)
  /\ LET set == chain[<<c, "turn">>].set IN
     /\ SetLastHookEnv(c, set)
     /\ \/ (\E parts \in Messages : Appended(c, set, parts)) /\ Answer(c, "ok")
        \/ UNCHANGED log /\ Answer(c, "error")
  /\ Release(c) /\ EndHooks(c)
  /\ UNCHANGED <<setup, cancelled, environ, turn>>

AddUserTurn(c) ==
  /\ pc[c] = "message" /\ Op(c) = "add" /\ Hooks(c, Message)
  /\ LET set == chain[<<c, "turn">>].set IN
     \/ /\ \E parts \in Messages : Appended(c, set, parts)
        /\ SetLastHookEnv(c, set) /\ Answer(c, "ok")
     \/ UNCHANGED <<log, lastHookEnv>> /\ Answer(c, "error")
  /\ Release(c) /\ EndHooks(c)
  /\ UNCHANGED <<setup, cancelled, environ, turn>>

AddAndGenerate(c) ==
  /\ pc[c] = "message" /\ Op(c) # "add" /\ Hooks(c, Message)
  /\ EndHooks(c)
  /\ LET set == chain[<<c, "turn">>].set IN
     \/ /\ ~cancelled[c]
        /\ \E parts \in Messages : Appended(c, set, parts)
        /\ Go(c, "load")
        /\ hookEnv' = [hookEnv EXCEPT ![c] = [by |-> Asked(c), set |-> set]]
        /\ UNCHANGED holder
     \/ FailCall(c) /\ UNCHANGED <<log, hookEnv>>
  /\ UNCHANGED <<setup, cancelled, process, rendered, key, base, tool>>

\* Mutant: an image that was dropped is reported as delivered.
AddMedia_Silent(c) ==
  /\ pc[c] = "media"
  /\ \/ \E parts \in Images : Appended(c, NoVars, parts) /\ Answer(c, "ok")
     \/ UNCHANGED log /\ Answer(c, "error")
  /\ Release(c)
  /\ UNCHANGED <<setup, cancelled, chain, process, turn>>

\* Images disabled, a bad image, a failed append; or an image dropped at persist
AddMedia(c) ==
  /\ pc[c] = "media"
  /\ \/ \E parts \in Images :
          /\ Appended(c, NoVars, parts)
          /\ Answer(c, IF Persisted(parts).dropped > 0 THEN "error" ELSE "ok")
     \/ UNCHANGED log /\ Answer(c, "error")
  /\ Release(c)
  /\ UNCHANGED <<setup, cancelled, chain, process, turn>>

-----------------------------------------------------------------------------
(* Loading the agent. *)

\* os.Setenv for every line of the agent's .env, in the process's environment
LoadAgentDotEnv(c) ==
  environ' = [environ EXCEPT ![Process(c)] =
                [v \in Vars |-> IF v \in DotEnv[Agent(c)] THEN <<"env", Agent(c)>> ELSE @[v]]]

\* Mutant: the variables stay for the generate after the next.
PopLastHookEnv_Keeps(c) ==
  /\ hookEnv' = [hookEnv EXCEPT ![c] = lastHookEnv[Process(c)][Agent(c)]]
  /\ UNCHANGED lastHookEnv

PopLastHookEnv(c) ==
  /\ hookEnv' = [hookEnv EXCEPT ![c] = lastHookEnv[Process(c)][Agent(c)]]
  /\ lastHookEnv' = [lastHookEnv EXCEPT ![Process(c)][Agent(c)] = NoHookEnv]

LoadDotEnv(c) ==
  /\ pc[c] = "load"
  /\ IF Op(c) = "generate" THEN PopLastHookEnv(c) ELSE UNCHANGED <<hookEnv, lastHookEnv>>
  /\ LoadAgentDotEnv(c)
  /\ Go(c, "runtime")
  /\ UNCHANGED <<setup, cancelled, holder, log, chain, rendered, key, base, tool>>

\* runtime.json is expanded from the process's environment
LoadRuntimeConfig(c) ==
  /\ pc[c] = "runtime"
  /\ \/ /\ key' = [key EXCEPT ![c] = environ[Process(c)][KeyVar]]
        /\ Go(c, IF Op(c) = "media" THEN "media" ELSE "build")
        /\ UNCHANGED holder
     \/ FailCall(c) /\ UNCHANGED key
  /\ UNCHANGED <<setup, cancelled, log, chain, process, hookEnv, rendered, base, tool>>

\* The hook variables go into the system prompt
RenderAgentSystemPrompt(c) ==
  rendered' = IF DOMAIN hookEnv[c].set = {} THEN rendered
              ELSE rendered \cup {[env |-> hookEnv[c], in |-> Asked(c)]}

\* The prompt, MEMORY.md, the model and the tools
LoadFolderAgent(c) ==
  /\ pc[c] = "build"
  /\ \/ /\ RenderAgentSystemPrompt(c)
        /\ Go(c, IF Op(c) = "compact" THEN "compact" ELSE "turn")
        /\ UNCHANGED holder
     \/ FailCall(c) /\ UNCHANGED rendered
  /\ UNCHANGED <<setup, cancelled, log, chain, process, hookEnv, key, base, tool>>

-----------------------------------------------------------------------------
(* The turn: the tool it runs, and its end. *)

\* executeTool copies the environment first and loads the .env after it.
\* (Bound: one call of a tool in a turn.)
CallTool(c) ==
  /\ pc[c] = "turn" /\ base[c] = NoVars
  /\ base' = [base EXCEPT ![c] = environ[Process(c)]]
  /\ Go(c, "tool")
  /\ UNCHANGED <<setup, cancelled, holder, log, chain, process, hookEnv, rendered, key, tool>>

\* The hooks before a command; without a script the chain is over at once
RunPreRunCommandHooks(c) == StartHooks(c, "turn", PreRun)

\* The call may fail here: a bad .env, a scratchpad macro that cannot be expanded
PrepareTool(c) ==
  /\ pc[c] = "tool"
  /\ LoadAgentDotEnv(c)
  /\ \/ RunPreRunCommandHooks(c) /\ Go(c, "prerun")
     \/ UNCHANGED chain /\ Go(c, "turn")
  /\ UNCHANGED <<setup, cancelled, holder, log, lastHookEnv, turn>>

\* Mutant: the .env is trusted to be in the environment already.
ChildEnv_BaseOnly(c, set) ==
  [v \in Vars |->
     IF v \in Locked THEN base[c][v]
     ELSE IF v \in DOMAIN set THEN set[v]
     ELSE IF v \in ArgVars THEN <<"args", c>>
     ELSE base[c][v]]

\* The base, the agent's .env, the model's variables, the hooks'; and the
\* variables the harness owns on top, as the base had them
ChildEnv(c, set) ==
  [v \in Vars |->
     IF v \in Locked THEN base[c][v]
     ELSE IF v \in DOMAIN set THEN set[v]
     ELSE IF v \in ArgVars THEN <<"args", c>>
     ELSE IF v \in DotEnv[Agent(c)] THEN <<"env", Agent(c)>>
     ELSE base[c][v]]

\* A claimed call is answered by the hook; one out of time does not start
RunTool(c) ==
  LET ch == chain[<<c, "turn">>] IN
  /\ pc[c] = "prerun" /\ Hooks(c, PreRun)
  /\ tool' = IF "short_circuit" \in ch.actions \/ Dead(c, ch) THEN tool
             ELSE [tool EXCEPT ![c] = [ran |-> TRUE, env |-> ChildEnv(c, ch.set), hooks |-> ch]]
  /\ EndHooks(c) /\ Go(c, "turn")
  /\ UNCHANGED <<setup, cancelled, holder, log, process, hookEnv, rendered, key, base>>

\* The stream ends; the lock is still held while the chain of its end runs
EndTurn(c) ==
  /\ pc[c] = "turn"
  /\ \/ Go(c, "ok") /\ StartHooks(c, "turn", TurnCompleted) /\ ~cancelled[c]
     \/ Go(c, "failed") /\ StartHooks(c, "turn", TurnFailed)
  /\ UNCHANGED <<setup, cancelled, holder, log, process, turn>>

\* A call that asked for the whole text joins the chunks, and takes a turn
\* without any for an error, whatever the turn has put into the session
GenerateTurn(c) == Answer(c, "ok") \/ Answer(c, "error")

FinishTurn(c) ==
  /\ \/ pc[c] = "ok" /\ Hooks(c, TurnCompleted) /\ GenerateTurn(c)
     \/ /\ pc[c] = "failed" /\ Hooks(c, TurnFailed)
        /\ \/ Answer(c, "error")
           \/ cancelled[c] /\ Answer(c, "ok")   \* cancelled after its last text
  /\ EndHooks(c) /\ Release(c)
  /\ tool' = [tool EXCEPT ![c] = NotRun] /\ base' = [base EXCEPT ![c] = NoVars]
  /\ UNCHANGED <<setup, cancelled, log, process, hookEnv, rendered, key>>

-----------------------------------------------------------------------------
(* compact: a chain before, and one after it failed or succeeded; the last  *)
(* one runs in a goroutine that nothing waits for.                          *)

StartCompact(c) ==
  /\ pc[c] = "compact"
  /\ \/ Go(c, "precompact") /\ StartHooks(c, "turn", PreCompact) /\ UNCHANGED holder
     \/ Answer(c, "ok") /\ Release(c) /\ UNCHANGED chain        \* nothing to compact
     \/ Go(c, "failing") /\ StartHooks(c, "turn", CompactFailed) /\ UNCHANGED holder
  /\ UNCHANGED <<setup, cancelled, log, process, turn>>

Compacted(c) ==
  /\ pc[c] = "precompact" /\ Hooks(c, PreCompact)
  /\ \/ /\ ~cancelled[c] /\ Answer(c, "ok") /\ Release(c)
        /\ chain' = [chain EXCEPT ![<<c, "turn">>] = NoChain,
                        ![<<c, "post">>] = StartChain(PostCompact, <<"text", PostCompact>>, dir[PostCompact])]
     \/ Go(c, "failing") /\ StartHooks(c, "turn", CompactFailed) /\ UNCHANGED holder
  /\ UNCHANGED <<setup, cancelled, log, process, turn>>

CompactionFailed(c) ==
  /\ pc[c] = "failing" /\ Hooks(c, CompactFailed)
  /\ FailCall(c) /\ EndHooks(c)
  /\ UNCHANGED <<setup, cancelled, log, process, turn>>

\* The goroutine is through, or its process is gone
PostCompactDone(c) ==
  /\ pc[c] = "done" /\ chain[<<c, "post">>].event = PostCompact
  /\ ~plan[c].served \/ Finished(chain[<<c, "post">>])
  /\ chain' = [chain EXCEPT ![<<c, "post">>] = NoChain]
  /\ UNCHANGED <<setup, call, cancelled, holder, log, process, turn>>

-----------------------------------------------------------------------------
Script(c, slot) ==
  StartScript(c, slot) \/ Exit(c, slot) \/ Kill(c, slot) \/ CloseStdout(c, slot)

Work(c) ==
  \/ AcquireSessionLock(c) \/ GiveUp(c)
  \/ AddUserTurn(c) \/ AddAndGenerate(c) \/ AddMedia(c)
  \/ LoadDotEnv(c) \/ LoadRuntimeConfig(c) \/ LoadFolderAgent(c)
  \/ CallTool(c) \/ PrepareTool(c) \/ RunTool(c) \/ EndTurn(c) \/ FinishTurn(c)
  \/ StartCompact(c) \/ Compacted(c) \/ CompactionFailed(c) \/ PostCompactDone(c)

Ask(c) ==
  \/ AskAdd(c) \/ AskPrompt(c) \/ AskMedia(c) \/ AskGenerate(c) \/ AskCompact(c) \/ AskRepl(c)

PromptsNext ==
  \E c \in Commands :
    Ask(c) \/ Interrupt(c) \/ Work(c) \/ \E slot \in Slots : Script(c, slot)

PromptsSpec == PromptsInit /\ [][PromptsNext]_promptVars

\* What the program does by itself goes on, and the timeout of a script fires.
\* Nobody has to ask anything, and nothing makes a script exit.
Goes ==
  \A c \in Commands :
    /\ WF_promptVars(Work(c))
    /\ \A slot \in Slots : WF_promptVars(StartScript(c, slot)) /\ WF_promptVars(Kill(c, slot))

LetsGo == \A c \in Commands : \A slot \in Slots : WF_promptVars(CloseStdout(c, slot))

\* A child lets go of the stdout it was left with, as the scripts' authors are asked to see to
FairPromptsSpec == PromptsSpec /\ Goes /\ LetsGo

-----------------------------------------------------------------------------
(* Properties. *)

\* What a call was told is what the session holds.  A message or an image that
\* was acknowledged is in the session; one that was refused is not, so that
\* sending it again does not send it twice; and no turn is longer than a reader
\* takes.  And the hook variables a turn is loaded with are those of a message
\* that is in the session, loaded once.  (AddUserTurn and AddMedia, which know
\* more than they may say: the line of an appended turn may have lost its image,
\* and the variables are kept in another place than the message; popLastHookEnv.)
AnswersMatchTheLog ==
  /\ \A c \in Commands : \A i \in DOMAIN reply[c] :
       LET held == \E t \in log : t.by = <<c, i>> /\ \E j \in DOMAIN t.parts :
                     t.parts[j].kind = (IF Op(c) = "media" THEN "blob" ELSE "text")
       IN /\ reply[c][i] = "ok" /\ Op(c) \notin {"generate", "compact"} => held
          /\ reply[c][i] # "ok" /\ Op(c) \in {"add", "media"} => ~held
  /\ \A t \in log : t.parts # <<>> /\ Size(t.parts) <= TurnCap
  /\ \A r \in rendered : \E t \in log : t.by = r.env.by /\ t.set = r.env.set
  /\ \A r, q \in rendered : r.env.by = q.env.by => r = q

LastOf(places) == {i \in places : \A j \in places : j <= i}

InPlace(ch) ==
  LET ran == ch.ran
      claimed(x) == ch.event = PreRun /\ x.out.action = "short_circuit"
      replaced == {i \in DOMAIN ran : ran[i].out.text}
  IN /\ \A i, j \in DOMAIN ran : i < j =>
          /\ ran[i].hook # ran[j].hook /\ ran[i].hook.number <= ran[j].hook.number
          /\ ~claimed(ran[i])
     /\ Finished(ch) =>
          \/ {ran[i].hook : i \in DOMAIN ran} = {e \in dir[ch.event] : e.runs}
          \/ ran # <<>> /\ claimed(Last(ran))
     /\ IF replaced # {}
        THEN \E i \in LastOf(replaced) : ch.text = <<"hook", ran[i].hook.name>>
        ELSE ch.text[1] = "text"
     /\ \A v \in Vars :
          LET touched == {i \in DOMAIN ran : v \in ran[i].out.sets \cup ran[i].out.drops}
          IN v \in DOMAIN ch.set <=> \E i \in LastOf(touched) : v \in ran[i].out.sets

\* Scripts run in the order of their numbers, each once, until one claims the
\* chain where that is allowed; the text and the variables are those of the last
\* script that gave them, a failed one counting for nothing.  A tool whose call
\* was claimed does not run; one that runs never sees another agent's .env in
\* place of its own, although every agent of a server writes its .env into the
\* one environment, and never a variable of the harness that the model or a hook
\* has set.  (RunHookChain, executeTool, childEnv, LoadAgentDotEnv.)
HooksKeepTheirPlace ==
  /\ \A o \in Commands \X Slots : chain[o].event # "none" => InPlace(chain[o])
  /\ \A c \in Commands : tool[c].ran =>
       /\ \A i \in DOMAIN tool[c].hooks.ran :
            tool[c].hooks.ran[i].out.action # "short_circuit"
       /\ \A v \in Vars :
            IF v \in Locked THEN tool[c].env[v][1] \in {"os", "env"}
            ELSE v \in DotEnv[Agent(c)] /\ tool[c].env[v][1] = "env"
                 => tool[c].env[v] = <<"env", Agent(c)>>

\* A call that was asked is answered, and its lock given back, whatever the
\* scripts do: nothing but their timeout ends one that hangs.  (RunHookChain's
\* context and Cancel, under the lock of every call.)
PromptsEnd == \A c \in Commands : (pc[c] = "wants") ~> (pc[c] \in {"idle", "done"})

(* Refuted by the program, by hand: *)

\* agent_folder.go: harness-owned variables are captured "so a model-supplied or
\* .env-supplied value can never win the last-wins race".
HarnessOwns == \A c \in Commands : tool[c].ran => \A v \in Locked : tool[c].env[v][1] = "os"

\* runtime.go: "Loads workspace root and per-agent .env files, expands environment
\* variables" - of the agent whose runtime.json it is.
OwnKey == \A c \in Commands : key[c][1] = "env" => key[c][2] = Agent(c)

\* hooks.go: "a slow script taxes teardown by at most the hook timeout, and a consumer
\* that wants long work should detach it inside the script".  Without LetsGo.
DetachingSpec == PromptsSpec /\ Goes
DetachEnds == \A c \in Commands : (pc[c] = "ok") ~> (pc[c] # "ok")

=============================================================================
