---------------------------- MODULE SessionLock ----------------------------
(***************************************************************************)
(* The session lock of one agent directory (pkg/agent/lock.go), the        *)
(* registry of in-flight turns of each process (sdk.go) and cancellation   *)
(* of a turn from the same or from another process (cancel.go).            *)
(*                                                                         *)
(* A goroutine runs handlers: it polls for the flock, writes its PID into  *)
(* session.lock as a hint, counts itself in its process's heldLocks, runs  *)
(* the locked region (registered as an in-flight turn or not), and undoes  *)
(* all of it in the order of the deferred calls.  A canceller is a         *)
(* goroutine inside CancelAgentTurn.  Processes die at any step and their  *)
(* PIDs are recycled, possibly onto a program that is not wackypub.        *)
(***************************************************************************)
EXTENDS Naturals, FiniteSets

CONSTANTS Procs,        \* PIDs
          Servers,      \* the PIDs that run stdio-serve or tcp-serve at first
          Goroutines,   \* goroutines that run locked handlers
          Cancellers,   \* goroutines that run CancelAgentTurn
          ProcOf,       \* the PID each goroutine runs under
          NoOne,        \* no goroutine, no PID
          MaxSpawns     \* bound: how often a PID is recycled

ASSUME SessionLockAssumption ==
  /\ Goroutines \cap Cancellers = {}
  /\ ProcOf \in [Goroutines \cup Cancellers -> Procs]
  /\ Servers \subseteq Procs
  /\ NoOne \notin Procs \cup Goroutines \cup Cancellers
  /\ MaxSpawns \in Nat

VARIABLES
  flock,      \* who owns the kernel lock on session.lock
  hint,       \* the PID recorded in session.lock, and which process that was
  held,       \* heldLocks[dir] of each process
  inflight,   \* inFlightTurns[agentID] of each process
  pc,         \* where each goroutine is
  ctxDone,    \* whether the context of its call is cancelled
  prog,       \* what runs under each PID
  spawns,     \* how often each PID was recycled
  signalled,  \* PIDs whose current process was sent SIGTERM
  cpc,        \* where each canceller is
  target      \* the PID a canceller is about to signal

lockVars == <<flock, hint, held, inflight>>
procVars == <<prog, spawns, signalled>>
cancelVars == <<cpc, target>>
vars == <<flock, hint, held, inflight, pc, ctxDone, prog, spawns, signalled,
          cpc, target>>

-----------------------------------------------------------------------------
Actors == Goroutines \cup Cancellers

(* session.lock with no readable PID in it. *)
Blank == [pid |-> NoOne, spawn |-> 0]

(* What os.Getpid() writes: the PID, and (not visible to a reader of the
   file) which of the processes that used this PID wrote it. *)
HintOf(p) == [pid |-> p, spawn |-> spawns[p]]

(* Programs a canceller recognises: a CLI command, or a server process. *)
Wackypub == {"cli", "server"}

Members(p) == {g \in Goroutines : ProcOf[g] = p}

(* The locked region: the process counts the lock and the handler runs. *)
Critical == {"counted", "turn", "plain", "closing"}

(* Everywhere between a successful flock and LOCK_UN. *)
Owning == {"locked", "blanked", "stamped", "clearing", "unlocking"} \cup Critical

States == {"idle", "polling", "waiting"} \cup Owning

TypeOK ==
  /\ flock \in Actors \cup {NoOne}
  /\ hint \in [pid : Procs \cup {NoOne}, spawn : Nat]
  /\ held \in [Procs -> 0 .. 1]
  /\ inflight \in [Procs -> Goroutines \cup {NoOne}]
  /\ pc \in [Goroutines -> States]
  /\ ctxDone \in [Goroutines -> BOOLEAN]
  /\ prog \in [Procs -> Wackypub \cup {"other", "dead"}]
  /\ spawns \in [Procs -> Nat]
  /\ signalled \subseteq Procs
  /\ cpc \in [Cancellers -> {"idle", "refused", "probing", "signalling"}]
  /\ target \in [Cancellers -> Procs \cup {NoOne}]

Init ==
  /\ flock = NoOne
  /\ hint = Blank
  /\ held = [p \in Procs |-> 0]
  /\ inflight = [p \in Procs |-> NoOne]
  /\ pc = [g \in Goroutines |-> "idle"]
  /\ ctxDone = [g \in Goroutines |-> FALSE]
  /\ prog = [p \in Procs |-> IF p \in Servers THEN "server" ELSE "cli"]
  /\ spawns = [p \in Procs |-> 0]
  /\ signalled = {}
  /\ cpc = [c \in Cancellers |-> "idle"]
  /\ target = [c \in Cancellers |-> NoOne]

-----------------------------------------------------------------------------
(* Acquisition: AcquireSessionLockContext. *)

Goto(g, from, to) == pc[g] = from /\ pc' = [pc EXCEPT ![g] = to]

(* A handler is called: no new call reaches a process that was asked to stop. *)
Call(g) ==
  /\ prog[ProcOf[g]] \in Wackypub /\ ProcOf[g] \notin signalled
  /\ Goto(g, "idle", "polling")
  /\ ctxDone' = [ctxDone EXCEPT ![g] = FALSE]
  /\ UNCHANGED <<lockVars, procVars, cancelVars>>

(* Mutant: the lock file is opened but flock's result is ignored. *)
Flock_Unchecked(g) ==
  /\ Goto(g, "polling", "locked")
  /\ flock' = g
  /\ UNCHANGED <<hint, held, inflight, ctxDone, procVars, cancelVars>>

(* flock(LOCK_EX|LOCK_NB) succeeds, whether or not the context is done. *)
Flock(g) ==
  /\ flock = NoOne
  /\ Goto(g, "polling", "locked")
  /\ flock' = g
  /\ UNCHANGED <<hint, held, inflight, ctxDone, procVars, cancelVars>>

(* Mutant: the PID is written before the lock is acquired. *)
WouldBlock_Stamps(g) ==
  /\ flock # NoOne
  /\ Goto(g, "polling", "waiting")
  /\ hint' = HintOf(ProcOf[g])
  /\ UNCHANGED <<flock, held, inflight, ctxDone, procVars, cancelVars>>

(* flock fails with EWOULDBLOCK: somebody, a probe included, owns it. *)
WouldBlock(g) ==
  /\ flock # NoOne
  /\ Goto(g, "polling", "waiting")
  /\ UNCHANGED <<lockVars, ctxDone, procVars, cancelVars>>

(* The select of the poll loop: the ticker fires, or the context is done. *)
Tick(g) ==
  /\ Goto(g, "waiting", "polling")
  /\ UNCHANGED <<lockVars, ctxDone, procVars, cancelVars>>

(* Mutant: the wait does not look at the context. *)
GiveUp_Never(g) == FALSE /\ UNCHANGED vars

GiveUp(g) ==
  /\ ctxDone[g]
  /\ Goto(g, "waiting", "idle")
  /\ UNCHANGED <<lockVars, ctxDone, procVars, cancelVars>>

(* Truncate(0), then WriteString(pid): a reader can see the blank between. *)
BlankHint(g) ==
  /\ Goto(g, "locked", "blanked")
  /\ hint' = Blank
  /\ UNCHANGED <<flock, held, inflight, ctxDone, procVars, cancelVars>>

StampHint(g) ==
  /\ Goto(g, "blanked", "stamped")
  /\ hint' = HintOf(ProcOf[g])
  /\ UNCHANGED <<flock, held, inflight, ctxDone, procVars, cancelVars>>

Count(g) ==
  /\ Goto(g, "stamped", "counted")
  /\ held' = [held EXCEPT ![ProcOf[g]] = @ + 1]
  /\ UNCHANGED <<flock, hint, inflight, ctxDone, procVars, cancelVars>>

-----------------------------------------------------------------------------
(* The locked region and the deferred calls that leave it. *)

(* Generation handlers register the turn they hold the lock for ... *)
RegisterTurn(g) ==
  /\ Goto(g, "counted", "turn")
  /\ inflight' = [inflight EXCEPT ![ProcOf[g]] = g]
  /\ UNCHANGED <<flock, hint, held, ctxDone, procVars, cancelVars>>

(* ... AddUserTurn, AddMedia, StripSignatures and CompactSession do not. *)
RunPlain(g) ==
  /\ Goto(g, "counted", "plain")
  /\ UNCHANGED <<lockVars, ctxDone, procVars, cancelVars>>

(* Mutant: the cleanup cancels and leaves the entry. *)
EndTurn_KeepsEntry(g) ==
  /\ Goto(g, "turn", "closing")
  /\ ctxDone' = [ctxDone EXCEPT ![g] = TRUE]
  /\ UNCHANGED <<lockVars, procVars, cancelVars>>

(* Mutant: the lock is released before the registry is cleaned up. *)
EndTurn_Unlocks(g) ==
  /\ Goto(g, "turn", "closing")
  /\ ctxDone' = [ctxDone EXCEPT ![g] = TRUE]
  /\ inflight' = [inflight EXCEPT ![ProcOf[g]] = IF @ = g THEN NoOne ELSE @]
  /\ flock' = NoOne
  /\ UNCHANGED <<hint, held, procVars, cancelVars>>

(* Mutant: a turn that was cancelled returns without its Release. *)
EndTurn_ForgetsRelease(g) ==
  /\ Goto(g, "turn", IF ctxDone[g] THEN "idle" ELSE "closing")
  /\ ctxDone' = [ctxDone EXCEPT ![g] = TRUE]
  /\ inflight' = [inflight EXCEPT ![ProcOf[g]] = IF @ = g THEN NoOne ELSE @]
  /\ UNCHANGED <<flock, hint, held, procVars, cancelVars>>

(* The cleanup registerInFlightTurn returned: cancel(), then the entry is
   deleted if it is still this turn's own. *)
EndTurn(g) ==
  /\ Goto(g, "turn", "closing")
  /\ ctxDone' = [ctxDone EXCEPT ![g] = TRUE]
  /\ inflight' = [inflight EXCEPT ![ProcOf[g]] = IF @ = g THEN NoOne ELSE @]
  /\ UNCHANGED <<flock, hint, held, procVars, cancelVars>>

EndPlain(g) ==
  /\ Goto(g, "plain", "closing")
  /\ UNCHANGED <<lockVars, ctxDone, procVars, cancelVars>>

(* Mutant: the last hold is not deleted from heldLocks. *)
Uncount_KeepsLast(g) ==
  LET p == ProcOf[g] IN
  /\ Goto(g, "closing", IF held[p] > 1 THEN "unlocking" ELSE "clearing")
  /\ held' = [held EXCEPT ![p] = IF @ > 1 THEN @ - 1 ELSE @]
  /\ UNCHANGED <<flock, hint, inflight, ctxDone, procVars, cancelVars>>

(* Release, under heldLocksMu: only the last hold of the process goes on to
   clear the hint. *)
Uncount(g) ==
  LET p == ProcOf[g] IN
  /\ Goto(g, "closing", IF held[p] > 1 THEN "unlocking" ELSE "clearing")
  /\ held' = [held EXCEPT ![p] = IF @ > 1 THEN @ - 1 ELSE 0]
  /\ UNCHANGED <<flock, hint, inflight, ctxDone, procVars, cancelVars>>

(* Mutant: Release leaves the PID in the file. *)
ClearHint_Skipped(g) ==
  /\ Goto(g, "clearing", "unlocking")
  /\ UNCHANGED <<lockVars, ctxDone, procVars, cancelVars>>

ClearHint(g) ==
  /\ Goto(g, "clearing", "unlocking")
  /\ hint' = Blank
  /\ UNCHANGED <<flock, held, inflight, ctxDone, procVars, cancelVars>>

Unlock(g) ==
  /\ Goto(g, "unlocking", "idle")
  /\ flock' = NoOne
  /\ UNCHANGED <<hint, held, inflight, ctxDone, procVars, cancelVars>>

-----------------------------------------------------------------------------
(* Cancellation. *)

(* The caller's own context ends: client disconnect, deadline, Ctrl-C. *)
CallerGone(g) ==
  /\ pc[g] # "idle" /\ ~ctxDone[g]
  /\ ctxDone' = [ctxDone EXCEPT ![g] = TRUE]
  /\ UNCHANGED <<lockVars, pc, procVars, cancelVars>>

(***************************************************************************)
(* CancelTurn: the entry is read under inFlightTurnsMu and its cancel is   *)
(* called after the mutex is released.  That function belongs to one       *)
(* turn's context, so calling it once the turn is over changes nothing and *)
(* the two statements are one step here.                                   *)
(***************************************************************************)
CancelTurn(p) ==
  /\ inflight[p] # NoOne
  /\ ctxDone' = [ctxDone EXCEPT ![inflight[p]] = TRUE]

(* CancelAgentTurn: the in-process registry first ... *)
CancelInProcess(c) ==
  /\ cpc[c] = "idle" /\ prog[ProcOf[c]] \in Wackypub
  /\ CancelTurn(ProcOf[c])
  /\ UNCHANGED <<lockVars, pc, procVars, cancelVars>>

(* ... and only without an entry there, the probe of session.lock: a failed
   LOCK_NB means held, a successful one owns the flock until it is closed. *)
Probe(c) ==
  /\ cpc[c] = "idle" /\ prog[ProcOf[c]] \in Wackypub
  /\ inflight[ProcOf[c]] = NoOne
  /\ IF flock = NoOne
     THEN flock' = c /\ cpc' = [cpc EXCEPT ![c] = "probing"]
     ELSE UNCHANGED flock /\ cpc' = [cpc EXCEPT ![c] = "refused"]
  /\ UNCHANGED <<hint, held, inflight, pc, ctxDone, procVars, target>>

(* The lock was free: read the file, close it, report no in-flight turn. *)
CloseProbe(c) ==
  /\ cpc[c] = "probing"
  /\ cpc' = [cpc EXCEPT ![c] = "idle"]
  /\ flock' = NoOne
  /\ UNCHANGED <<hint, held, inflight, pc, ctxDone, procVars, target>>

(* The lock was held: read the PID and ask /proc what runs under it now.
   processIsCancelTarget: only a wackypub process is signalled. *)
Recognize(c) ==
  /\ cpc[c] = "refused"
  /\ IF hint.pid # NoOne /\ prog[hint.pid] \in Wackypub
     THEN /\ cpc' = [cpc EXCEPT ![c] = "signalling"]
          /\ target' = [target EXCEPT ![c] = hint.pid]
     ELSE cpc' = [cpc EXCEPT ![c] = "idle"] /\ UNCHANGED target
  /\ UNCHANGED <<lockVars, pc, ctxDone, procVars>>

(* Mutant: a command ignores the signal. *)
Kill_Ignored(c) ==
  LET p == target[c] IN
  /\ cpc[c] = "signalling"
  /\ cpc' = [cpc EXCEPT ![c] = "idle"]
  /\ target' = [target EXCEPT ![c] = NoOne]
  /\ signalled' = IF prog[p] = "dead" THEN signalled ELSE signalled \cup {p}
  /\ UNCHANGED <<lockVars, ctxDone, pc, prog, spawns>>

(***************************************************************************)
(* kill(pid, SIGTERM): whatever runs under the PID by now receives it.  A  *)
(* CLI command turns the signal into the end of its context                *)
(* (cmd/agent.go:43).  A server stops accepting and drains: GracefulStop   *)
(* waits for the calls in flight and cancels none of them.                 *)
(***************************************************************************)
Kill(c) ==
  LET p == target[c] IN
  /\ cpc[c] = "signalling"
  /\ cpc' = [cpc EXCEPT ![c] = "idle"]
  /\ target' = [target EXCEPT ![c] = NoOne]
  /\ IF prog[p] = "dead"
     THEN UNCHANGED <<ctxDone, signalled>>
     ELSE /\ signalled' = signalled \cup {p}
          /\ ctxDone' = [g \in Goroutines |->
                          ctxDone[g] \/ (prog[p] = "cli" /\ g \in Members(p))]
  /\ UNCHANGED <<lockVars, pc, prog, spawns>>

-----------------------------------------------------------------------------
(* Processes. *)

(* Exit, crash or SIGKILL: the kernel closes every descriptor. The file, and
   the PID in it, stay. *)
Die(p) ==
  /\ prog[p] # "dead"
  /\ prog' = [prog EXCEPT ![p] = "dead"]
  /\ pc' = [g \in Goroutines |-> IF ProcOf[g] = p THEN "idle" ELSE pc[g]]
  /\ ctxDone' = [g \in Goroutines |-> ctxDone[g] /\ ProcOf[g] # p]
  /\ held' = [held EXCEPT ![p] = 0]
  /\ inflight' = [inflight EXCEPT ![p] = NoOne]
  /\ flock' = IF flock # NoOne /\ ProcOf[flock] = p THEN NoOne ELSE flock
  /\ cpc' = [c \in Cancellers |-> IF ProcOf[c] = p THEN "idle" ELSE cpc[c]]
  /\ target' = [c \in Cancellers |-> IF ProcOf[c] = p THEN NoOne ELSE target[c]]
  /\ UNCHANGED <<hint, spawns, signalled>>

Spawn(p) ==
  /\ prog[p] = "dead" /\ spawns[p] < MaxSpawns
  /\ \E q \in Wackypub \cup {"other"} : prog' = [prog EXCEPT ![p] = q]
  /\ spawns' = [spawns EXCEPT ![p] = @ + 1]
  /\ signalled' = signalled \ {p}
  /\ UNCHANGED <<lockVars, pc, ctxDone, cancelVars>>

-----------------------------------------------------------------------------
Acquisition(g) ==
  Call(g) \/ Flock(g) \/ WouldBlock(g) \/ Tick(g) \/ GiveUp(g)
  \/ BlankHint(g) \/ StampHint(g) \/ Count(g)

Region(g) == RegisterTurn(g) \/ RunPlain(g) \/ EndTurn(g) \/ EndPlain(g)

Releasing(g) == Uncount(g) \/ ClearHint(g) \/ Unlock(g)

Cancelling(c) ==
  CancelInProcess(c) \/ Probe(c) \/ CloseProbe(c) \/ Recognize(c) \/ Kill(c)

Next ==
  \/ \E g \in Goroutines : Acquisition(g) \/ Region(g) \/ Releasing(g) \/ CallerGone(g)
  \/ \E c \in Cancellers : Cancelling(c)
  \/ \E p \in Procs : Die(p) \/ Spawn(p)

Spec == Init /\ [][Next]_vars

(***************************************************************************)
(* Fairness.  A goroutine the runtime schedules goes on with straight-line *)
(* code, each attempt on the flock included.  A turn whose context is done *)
(* reaches one of the context.Err() checkpoints; a turn nobody cancelled   *)
(* may run for ever, so EndTurn is fair only then.  A plain region is      *)
(* finite.  Between two 25ms ticks the select of the poll loop has only    *)
(* ctx.Done to take, so giving up is strongly fair.  Success of the        *)
(* attempt is not: polling has no queue.                                   *)
(***************************************************************************)
Straight(g) ==
  \/ Flock(g) \/ WouldBlock(g) \/ Tick(g) \/ BlankHint(g) \/ StampHint(g) \/ Count(g)
  \/ RegisterTurn(g) \/ RunPlain(g) \/ EndPlain(g) \/ Releasing(g)

Fairness ==
  /\ \A g \in Goroutines :
       /\ WF_vars(Straight(g))
       /\ WF_vars(EndTurn(g) /\ ctxDone[g])
       /\ SF_vars(GiveUp(g))
  /\ \A c \in Cancellers : WF_vars(CloseProbe(c) \/ Recognize(c) \/ Kill(c))

FairSpec == Spec /\ Fairness

-----------------------------------------------------------------------------
(* Properties. *)

InRegion == {g \in Goroutines : pc[g] \in Critical}

Occupant == IF InRegion = {} THEN NoOne ELSE CHOOSE g \in InRegion : TRUE

Mutex == INSTANCE SessionMutex WITH Holders <- Goroutines, owner <- Occupant

(***************************************************************************)
(* The locked regions of all processes exclude one another: the flock,     *)
(* the count and the deferred calls together implement SessionMutex.       *)
(* lock.go promises an exclusive lock; every writer of the session relies  *)
(* on it.                                                                  *)
(***************************************************************************)
MutexSpec == Mutex!Spec
RegionsExclude == \A g, h \in InRegion : g = h

(***************************************************************************)
(* IsSessionLockedByCurrentProcess is exact: heldLocks counts one hold in  *)
(* the process that is inside the region and none anywhere else, so        *)
(* NextSeq and the append path, which skip the flock on its word, are      *)
(* never told yes while another process is inside (lock.go:158-163).       *)
(***************************************************************************)
HeldExact ==
  \A p \in Procs : held[p] = IF InRegion \cap Members(p) # {} THEN 1 ELSE 0

(***************************************************************************)
(* A PID hint written by a process that is still running names the owner   *)
(* of the flock: an idle long-lived server never leaves its live PID in    *)
(* session.lock (lock.go:298-300), at whatever step a reader looks.        *)
(***************************************************************************)
HintNamesOwner ==
  \A p \in Procs :
    hint = HintOf(p) /\ prog[p] # "dead" => flock \in Members(p)

(***************************************************************************)
(* While a region runs the hint is the PID of its process, so a canceller  *)
(* or a waiter that finds the lock held during a turn is told who holds it.*)
(***************************************************************************)
RegionIsNamed == \A g \in InRegion : hint = HintOf(ProcOf[g])

(***************************************************************************)
(* An entry of the in-flight registry is a turn that runs now under the    *)
(* flock, and every running turn has its entry: CancelTurn can reach it    *)
(* and can never reach a turn that has let go of the lock (the order of    *)
(* the deferred calls in sdk.go:675-678, the identity check at sdk.go:304).*)
(***************************************************************************)
RegistryExact ==
  /\ \A p \in Procs : inflight[p] # NoOne => flock = inflight[p]
  /\ \A g \in Goroutines : pc[g] = "turn" => inflight[ProcOf[g]] = g

(***************************************************************************)
(* A call whose context is done ends, whether it waits for the lock, holds *)
(* it or is about to: acquisition is cancellable everywhere and the lock   *)
(* is released by the deferred Release (lock.go:165-169, cancel.go:71-76). *)
(***************************************************************************)
CancelEndsCall == \A g \in Goroutines : ctxDone[g] ~> pc[g] = "idle"

(***************************************************************************)
(* A call that holds the flock and whose context is done lets go of it,    *)
(* whoever cancelled it (CancelTurn in the process, a signal to a CLI      *)
(* command, a caller that went away) and at whatever step of acquisition,  *)
(* turn or release it is: lock.go:165-169, sdk.go:675-678.                 *)
(***************************************************************************)
CancelFreesLock ==
  (\E g \in Goroutines : flock = g /\ ctxDone[g]) ~> flock = NoOne

(***************************************************************************)
(* A CLI command that received SIGTERM lets go of the session lock: the    *)
(* signal unwinds its turn through its context (cancel.go:55-58).          *)
(***************************************************************************)
SignalFreesLock ==
  \A p \in Procs :
    p \in signalled /\ prog[p] = "cli" ~> flock \notin Members(p)

(***************************************************************************)
(* The four places that record who is inside - the flock, the PID hint,    *)
(* heldLocks and the in-flight registry - agree with each other and with   *)
(* the goroutine that runs, at every step: they are changed one after      *)
(* another (lock.go:222-308, sdk.go:289-309) and read in between by other  *)
(* processes.                                                              *)
(***************************************************************************)
RecordsAgree ==
  /\ TypeOK /\ RegionsExclude /\ HeldExact
  /\ HintNamesOwner /\ RegionIsNamed /\ RegistryExact
=============================================================================
