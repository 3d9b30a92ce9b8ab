-------------------------- MODULE Processes_proofs --------------------------
(***************************************************************************)
(* Safety of what processes share: the session lock of an agent directory, *)
(* for any number of processes, goroutines, cancellers and PID reuses, and *)
(* one bridged call to a child process, for any number of responses.       *)
(*                                                                         *)
(* None of the properties is inductive.  For the lock, IInv ties the       *)
(* program counter of a goroutine to each of the four shared places it     *)
(* changes one after another: the flock, the hint, heldLocks and the       *)
(* registry.  For the call, BridgeInv says what may have become of it in   *)
(* the child at every stage of its handler, and what a status on the pipe  *)
(* stands for.                                                             *)
(***************************************************************************)
EXTENDS SessionLock, Bridge, TLAPS

(* Between the stamp of the PID and the truncation of the hint. *)
Stamped == Critical \cup {"stamped", "clearing"}

FlockInv ==
  /\ \A g \in Goroutines : pc[g] \in Owning <=> flock = g
  /\ \A c \in Cancellers : cpc[c] = "probing" <=> flock = c

HeldInv ==
  /\ \A g \in Goroutines : pc[g] \in Critical => held[ProcOf[g]] = 1
  /\ \A p \in Procs : held[p] # 0 =>
       held[p] = 1 /\ \E g \in Goroutines : ProcOf[g] = p /\ pc[g] \in Critical

HintInv ==
  /\ hint.pid # NoOne => hint.spawn <= spawns[hint.pid]
  /\ \A g \in Goroutines : pc[g] \in Stamped => hint = HintOf(ProcOf[g])
  /\ \A p \in Procs : hint = HintOf(p) /\ prog[p] # "dead" =>
       \E g \in Goroutines : ProcOf[g] = p /\ pc[g] \in Stamped

RegistryInv ==
  /\ \A g \in Goroutines : pc[g] = "turn" => inflight[ProcOf[g]] = g
  /\ \A p \in Procs : inflight[p] # NoOne =>
       ProcOf[inflight[p]] = p /\ pc[inflight[p]] = "turn"

ProcessInv ==
  /\ \A g \in Goroutines : prog[ProcOf[g]] = "dead" => pc[g] = "idle"
  /\ \A c \in Cancellers : cpc[c] = "signalling" => target[c] \in Procs

IInv ==
  TypeOK /\ FlockInv /\ HeldInv /\ HintInv /\ RegistryInv /\ ProcessInv

-----------------------------------------------------------------------------
LEMMA InitIInv == Init => IInv
  BY SessionLockAssumption
     DEF Init, IInv, TypeOK, FlockInv, HeldInv, HintInv, RegistryInv, ProcessInv,
         Actors, States, Owning, Critical, Stamped, Blank, HintOf, Wackypub

LEMMA StepIInv == IInv /\ [Next]_vars => IInv'
<1> SUFFICES ASSUME IInv, [Next]_vars PROVE IInv'
  OBVIOUS
<1> USE SessionLockAssumption
    DEF IInv, TypeOK, FlockInv, HeldInv, HintInv, RegistryInv, ProcessInv,
        Actors, States, Owning, Critical, Stamped, Blank, HintOf, Wackypub,
        Goto, lockVars, procVars, cancelVars, Members
<1>1. ASSUME NEW g \in Goroutines, Call(g) PROVE IInv'
  BY <1>1 DEF Call
<1>2. ASSUME NEW g \in Goroutines, Flock(g) PROVE IInv'
  BY <1>2 DEF Flock
<1>3. ASSUME NEW g \in Goroutines, WouldBlock(g) PROVE IInv'
  BY <1>3 DEF WouldBlock
<1>4. ASSUME NEW g \in Goroutines, Tick(g) PROVE IInv'
  BY <1>4 DEF Tick
<1>5. ASSUME NEW g \in Goroutines, GiveUp(g) PROVE IInv'
  BY <1>5 DEF GiveUp
<1>6. ASSUME NEW g \in Goroutines, BlankHint(g) PROVE IInv'
  BY <1>6 DEF BlankHint
<1>7. ASSUME NEW g \in Goroutines, StampHint(g) PROVE IInv'
  BY <1>7 DEF StampHint
<1>8. ASSUME NEW g \in Goroutines, Count(g) PROVE IInv'
  BY <1>8 DEF Count
<1>9. ASSUME NEW g \in Goroutines, RegisterTurn(g) PROVE IInv'
  BY <1>9 DEF RegisterTurn
<1>10. ASSUME NEW g \in Goroutines, RunPlain(g) PROVE IInv'
  BY <1>10 DEF RunPlain
<1>11. ASSUME NEW g \in Goroutines, EndTurn(g) PROVE IInv'
  BY <1>11 DEF EndTurn
<1>12. ASSUME NEW g \in Goroutines, EndPlain(g) PROVE IInv'
  BY <1>12 DEF EndPlain
<1>13. ASSUME NEW g \in Goroutines, Uncount(g) PROVE IInv'
  BY <1>13 DEF Uncount
<1>14. ASSUME NEW g \in Goroutines, ClearHint(g) PROVE IInv'
  BY <1>14 DEF ClearHint
<1>15. ASSUME NEW g \in Goroutines, Unlock(g) PROVE IInv'
  BY <1>15 DEF Unlock
<1>16. ASSUME NEW g \in Goroutines, CallerGone(g) PROVE IInv'
  BY <1>16 DEF CallerGone
<1>17. ASSUME NEW c \in Cancellers, CancelInProcess(c) PROVE IInv'
  BY <1>17 DEF CancelInProcess, CancelTurn
<1>18. ASSUME NEW c \in Cancellers, Probe(c) PROVE IInv'
  BY <1>18 DEF Probe
<1>19. ASSUME NEW c \in Cancellers, CloseProbe(c) PROVE IInv'
  BY <1>19 DEF CloseProbe
<1>20. ASSUME NEW c \in Cancellers, Recognize(c) PROVE IInv'
  BY <1>20 DEF Recognize
<1>21. ASSUME NEW c \in Cancellers, Kill(c) PROVE IInv'
  <2>1. target[c] \in Procs
    BY <1>21 DEF Kill
  <2>2. ctxDone' \in [Goroutines -> BOOLEAN]
    <3>1. CASE prog[target[c]] = "dead"
      BY <1>21, <3>1 DEF Kill
    <3>2. CASE prog[target[c]] # "dead"
      <4> DEFINE done(g) == ctxDone[g] \/ (prog[target[c]] = "cli" /\ g \in Members(target[c]))
      <4>1. \A g \in Goroutines : done(g) \in BOOLEAN
        BY Zenon
      <4>2. ctxDone' = [g \in Goroutines |-> done(g)]
        BY <1>21, <3>2, Zenon DEF Kill
      <4> HIDE DEF done
      <4> QED
        BY <4>1, <4>2
    <3> QED
      BY <3>1, <3>2
  <2>3. signalled' \subseteq Procs
    BY <1>21, <2>1 DEF Kill
  <2> QED
    BY <1>21, <2>2, <2>3 DEF Kill
<1>22. ASSUME NEW p \in Procs, Die(p) PROVE IInv'
  BY <1>22 DEF Die
<1>23. ASSUME NEW p \in Procs, Spawn(p) PROVE IInv'
  BY <1>23 DEF Spawn
<1>24. CASE UNCHANGED vars
  BY <1>24 DEF vars
<1> QED
  BY <1>1, <1>2, <1>3, <1>4, <1>5, <1>6, <1>7, <1>8, <1>9, <1>10, <1>11, <1>12,
     <1>13, <1>14, <1>15, <1>16, <1>17, <1>18, <1>19, <1>20, <1>21, <1>22, <1>23,
     <1>24 DEF Next, Acquisition, Region, Releasing, Cancelling

THEOREM Invariance == Spec => []IInv
  BY InitIInv, StepIInv, PTL DEF Spec

-----------------------------------------------------------------------------
(* The properties follow from the invariant. *)

(* Every reachable state has the declared shape; in particular heldLocks
   never counts below zero. *)
THEOREM TypeCorrect == Spec => []TypeOK
<1>1. IInv => TypeOK
  BY DEF IInv
<1> QED
  BY <1>1, Invariance, PTL

LEMMA AtMostOneInRegion == IInv => RegionsExclude
  BY DEF IInv, FlockInv, RegionsExclude, InRegion, Owning

(* At most one goroutine of any process is inside a locked region. *)
THEOREM MutualExclusion == Spec => []RegionsExclude
  BY AtMostOneInRegion, Invariance, PTL

(* IsSessionLockedByCurrentProcess answers yes in the process whose goroutine
   is inside the locked region, and in no other. *)
THEOREM HeldIsExact == Spec => []HeldExact
<1>1. IInv => HeldExact
  BY SessionLockAssumption DEF IInv, HeldInv, TypeOK, HeldExact, InRegion, Members
<1> QED
  BY <1>1, Invariance, PTL

(* The hint of a running process is never stale. *)
THEOREM HintIsCurrent == Spec => [](HintNamesOwner /\ RegionIsNamed)
<1>1. IInv => HintNamesOwner
  BY SessionLockAssumption
     DEF IInv, HintInv, FlockInv, HintNamesOwner, Members, Stamped, Owning, Critical
<1>2. IInv => RegionIsNamed
  BY DEF IInv, HintInv, RegionIsNamed, InRegion, Stamped
<1> QED
  BY <1>1, <1>2, Invariance, PTL

(* The registry lists exactly the turns that run under the flock. *)
THEOREM RegistryIsExact == Spec => []RegistryExact
<1>1. IInv => RegistryExact
  BY SessionLockAssumption
     DEF IInv, RegistryInv, FlockInv, TypeOK, RegistryExact, Owning, Critical
<1> QED
  BY <1>1, Invariance, PTL

(* The flock, the hint, heldLocks and the registry agree about who is inside,
   at every step of every process. *)
THEOREM RecordsAlwaysAgree == Spec => []RecordsAgree
<1>1. TypeOK /\ RegionsExclude /\ HeldExact /\ HintNamesOwner /\ RegionIsNamed
        /\ RegistryExact => RecordsAgree
  BY DEF RecordsAgree
<1> QED
  BY <1>1, TypeCorrect, MutualExclusion, HeldIsExact, HintIsCurrent, RegistryIsExact, PTL

-----------------------------------------------------------------------------
(* Refinement. *)

LEMMA OccupantIs ==
  ASSUME IInv
  PROVE  /\ InRegion = {} => Occupant = NoOne
         /\ \A g \in InRegion : Occupant = g
  BY AtMostOneInRegion DEF RegionsExclude, Occupant

LEMMA OccupantIsNext ==
  ASSUME IInv'
  PROVE  /\ InRegion' = {} => Occupant' = NoOne
         /\ \A g \in InRegion' : Occupant' = g
<1>1. \A g, h \in InRegion' : g = h
  BY DEF IInv, FlockInv, InRegion, Owning
<1> QED
  BY <1>1 DEF Occupant

(* A step of the lock enters the region when it is empty, leaves it, or is
   invisible to SessionMutex. *)
LEMMA StepRefines == IInv /\ IInv' /\ [Next]_vars => [Mutex!Next]_Occupant
<1> SUFFICES ASSUME IInv, IInv', [Next]_vars PROVE [Mutex!Next]_Occupant
  OBVIOUS
<1>1. ASSUME InRegion' = InRegion PROVE Occupant' = Occupant
  BY <1>1 DEF Occupant
<1>2. ASSUME NEW g \in Goroutines, Count(g) PROVE Mutex!Acquire(g)
  <2>1. InRegion = {}
    BY <1>2 DEF Count, Goto, InRegion, IInv, FlockInv, Owning, Critical
  <2>2. g \in InRegion'
    BY <1>2 DEF Count, Goto, InRegion, IInv, TypeOK, Critical
  <2> QED
    BY <2>1, <2>2, OccupantIs, OccupantIsNext DEF Mutex!Acquire
<1>3. ASSUME NEW g \in Goroutines, Uncount(g) PROVE Mutex!Release(g)
  <2>1. g \in InRegion
    BY <1>3 DEF Uncount, Goto, InRegion, Critical
  <2>2. InRegion' = {}
    BY <1>3 DEF Uncount, Goto, InRegion, IInv, TypeOK, FlockInv, Owning, Critical
  <2> QED
    BY <2>1, <2>2, OccupantIs, OccupantIsNext DEF Mutex!Release
<1>4. ASSUME NEW p \in Procs, Die(p) PROVE [Mutex!Next]_Occupant
  <2>1. InRegion' = InRegion \/ (InRegion' = {} /\ InRegion # {})
    BY <1>4 DEF Die, InRegion, IInv, TypeOK, FlockInv, Owning, Critical
  <2>2. CASE InRegion' = {} /\ InRegion # {}
    <3>1. PICK g \in Goroutines : g \in InRegion
      BY <2>2 DEF InRegion
    <3>2. Mutex!Release(g)
      BY <2>2, <3>1, OccupantIs, OccupantIsNext DEF Mutex!Release
    <3> QED
      BY <3>2 DEF Mutex!Next
  <2> QED
    BY <2>1, <2>2, <1>1
<1>5. CASE UNCHANGED pc
  BY <1>5, <1>1 DEF InRegion
<1>6. ASSUME NEW g \in Goroutines, NEW from \in States, NEW to \in States,
             Goto(g, from, to), from \in Critical <=> to \in Critical
      PROVE  Occupant' = Occupant
  <2>1. InRegion' = InRegion
    BY <1>6 DEF Goto, InRegion, IInv, TypeOK
  <2> QED
    BY <2>1, <1>1
<1>7. ASSUME NEW g \in Goroutines,
             Acquisition(g) \/ Region(g) \/ Releasing(g) \/ CallerGone(g)
      PROVE  [Mutex!Next]_Occupant
  <2>1. CASE Count(g) \/ Uncount(g)
    BY <2>1, <1>2, <1>3 DEF Mutex!Next
  <2>2. CASE CallerGone(g)
    BY <2>2, <1>5 DEF CallerGone
  <2> USE <1>6 DEF States, Owning, Critical
  <2>3. CASE Call(g) \/ Flock(g) \/ WouldBlock(g) \/ Tick(g) \/ GiveUp(g)
    BY <2>3 DEF Call, Flock, WouldBlock, Tick, GiveUp
  <2>4. CASE BlankHint(g) \/ StampHint(g) \/ ClearHint(g) \/ Unlock(g)
    BY <2>4 DEF BlankHint, StampHint, ClearHint, Unlock
  <2>5. CASE Region(g)
    BY <2>5 DEF Region, RegisterTurn, RunPlain, EndTurn, EndPlain
  <2> QED
    BY <1>7, <2>1, <2>2, <2>3, <2>4, <2>5 DEF Acquisition, Releasing
<1>8. ASSUME NEW c \in Cancellers, Cancelling(c) PROVE [Mutex!Next]_Occupant
  BY <1>8, <1>5
     DEF Cancelling, CancelInProcess, Probe, CloseProbe, Recognize, Kill
<1>9. ASSUME NEW p \in Procs, Spawn(p) PROVE [Mutex!Next]_Occupant
  BY <1>9, <1>5 DEF Spawn
<1>10. CASE UNCHANGED vars
  BY <1>10, <1>5 DEF vars
<1> QED
  BY <1>4, <1>7, <1>8, <1>9, <1>10 DEF Next

(* flock, heldLocks and the deferred calls implement the abstract lock. *)
THEOREM ImplementsMutex == Spec => MutexSpec
<1>1. Init => Mutex!Init
  BY DEF Init, Mutex!Init, Occupant, InRegion, Critical
<1> QED
  BY <1>1, StepRefines, Invariance, PTL DEF Spec, MutexSpec, Mutex!Spec

-----------------------------------------------------------------------------
(* The bridged call. *)

(* The connection and the child, by the stage of the handler. *)
StageInv ==
  /\ call = "route" =>
       conn = "none" /\ child = "none" /\ rpc = "none" /\ result = "none"
  /\ call = "ready" => conn = "undialed" /\ rpc = "none" /\ result = "none"
  /\ call = "wait" => conn = "open" /\ result = "none"
  /\ call = "clean" => conn \in {"undialed", "open", "eof", "term", "kill"}

(* A status on the pipe is the one the call ended with in the child; a call runs
   only in a child that lives. *)
ChildInv ==
  /\ rpc = "running" => Alive
  /\ trailer # "none" => rpc = trailer
  /\ rpc = "none" => chunks = 0

(* While the pipes are open only a cancel or the child's own death can cut the
   call off or lose its status, and the child has not seen the end of its input. *)
PipeInv ==
  PipesOpen =>
    /\ child # "leaving"
    /\ rpc = "canceled" => ctx
    /\ rpc = "abandoned" => ctx \/ crashed \/ call = "done"
    /\ rpc = "ok" => trailer = "ok" \/ crashed

BridgeInv ==
  BridgeTypeOK /\ OkIsComplete /\ TermDrains /\ StageInv /\ ChildInv /\ PipeInv

-----------------------------------------------------------------------------
LEMMA BridgeInvInit == BridgeInit => BridgeInv
<1>1. BridgeInit => BridgeTypeOK
  <2>1. BridgeInit => ctx \in BOOLEAN /\ crashed \in BOOLEAN /\ wedged \in BOOLEAN /\ heeds \in BOOLEAN
    BY DEF BridgeInit
  <2>2. BridgeInit => chunks \in 0 .. MaxChunks /\ forwarded \in 0 .. chunks
    BY BridgeAssumption DEF BridgeInit
  <2> QED
    BY <2>1, <2>2, Zenon DEF BridgeInit, BridgeTypeOK
<1>2. BridgeInit => OkIsComplete /\ TermDrains
  BY DEF BridgeInit, OkIsComplete, TermDrains
<1>3. BridgeInit => StageInv /\ ChildInv /\ PipeInv
  BY DEF BridgeInit, StageInv, ChildInv, PipeInv, PipesOpen
<1> QED
  BY <1>1, <1>2, <1>3 DEF BridgeInv

LEMMA BridgeInvStep == BridgeInv /\ [BridgeNext]_bridgeVars => BridgeInv'
<1> SUFFICES ASSUME BridgeInv, [BridgeNext]_bridgeVars PROVE BridgeInv'
  OBVIOUS
<1> USE BridgeAssumption
    DEF BridgeInv, BridgeTypeOK, OkIsComplete, TermDrains, StageInv, ChildInv, PipeInv,
        PipesOpen, Alive, Child, handlerVars, parentVars, serverVars, faultVars
<1>1. CASE RouteCall
  BY <1>1 DEF RouteCall, Unrouted
<1>2. CASE StartFails
  BY <1>2 DEF StartFails
<1>3. CASE StartBridge
  BY <1>3 DEF StartBridge
<1>4. CASE Dial
  BY <1>4 DEF Dial
<1>5. CASE Forward
  BY <1>5 DEF Forward
<1>6. CASE Answered
  BY <1>6 DEF Answered, Finish, Translated
<1>7. CASE LoseTransport
  BY <1>7 DEF LoseTransport, Finish
<1>8. CASE Refused
  BY <1>8 DEF Refused, Finish
<1>9. CASE SeeCancel
  BY <1>9 DEF SeeCancel, Finish
<1>10. CASE Cancel
  BY <1>10 DEF Cancel
<1>11. CASE BeginClose
  BY <1>11 DEF BeginClose
<1>12. CASE WaitDone
  BY <1>12 DEF WaitDone
<1>13. CASE Escalate
  BY <1>13 DEF Escalate, AfterTerm, Killed
<1>14. CASE GiveUpWait
  BY <1>14 DEF GiveUpWait
<1>15. CASE Watch
  BY <1>15 DEF Watch, CtxDone, AfterTerm, Killed
<1>16. CASE Accept
  BY <1>16 DEF Accept
<1>17. CASE Respond
  BY <1>17 DEF Respond
<1>18. CASE EndRpc
  BY <1>18 DEF EndRpc, RpcCancelled
<1>19. CASE SeeEOF
  BY <1>19 DEF SeeEOF
<1>20. CASE Exit
  BY <1>20 DEF Exit
<1>21. CASE Terminate
  BY <1>21 DEF Terminate
<1>22. CASE Crash
  BY <1>22 DEF Crash
<1>23. CASE Wedge
  BY <1>23 DEF Wedge
<1>24. CASE UNCHANGED bridgeVars
  BY <1>24 DEF bridgeVars
<1> QED
  BY <1>1, <1>2, <1>3, <1>4, <1>5, <1>6, <1>7, <1>8, <1>9, <1>10, <1>11, <1>12,
     <1>13, <1>14, <1>15, <1>16, <1>17, <1>18, <1>19, <1>20, <1>21, <1>22, <1>23, <1>24
     DEF BridgeNext, Handler, Cleanup, Server

(* Every reachable state satisfies the inductive invariant. *)
THEOREM BridgeInvariance == BridgeSpec => []BridgeInv
<1> QED
  BY BridgeInvInit, BridgeInvStep, PTL DEF BridgeSpec

(***************************************************************************)
(* What the caller is told of a bridged call is what became of it in the   *)
(* child: a success is a success with all of its responses, and a call     *)
(* reported dead failed, never began, was cancelled or crashed             *)
(* (routing_server.go:205-240, grpc_bridge_client.go:216-245).             *)
(***************************************************************************)
THEOREM CallersAreToldTheTruth == BridgeSpec => []CallsAreTold
<1>1. BridgeInv => CallsAreTold
  BY DEF BridgeInv, CallsAreTold
<1> QED
  BY <1>1, BridgeInvariance, PTL
=============================================================================
