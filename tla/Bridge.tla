------------------------------- MODULE Bridge -------------------------------
(***************************************************************************)
(* One call that REMOTE_MANIFEST routes to a bridge: the handler of the     *)
(* routing server (routing_server.go, grpc_bridge_client.go), the pipes to  *)
(* the child and its reaping (stdio.go), and the child, which serves the    *)
(* call over its standard streams (serve.go, stdio_serve.go).               *)
(*                                                                         *)
(* Timers may expire at any time.  gRPC is external: it delivers what one   *)
(* side has written, in order, and tells the end of a transport.            *)
(***************************************************************************)
EXTENDS Naturals

CONSTANT MaxChunks      \* bound: responses of the call

ASSUME BridgeAssumption == MaxChunks \in Nat

VARIABLES
  ctx,             \* has the client of the routing server cancelled its call
  call,            \* the handler
  result,          \* what it returns
  forwarded,       \* responses it has passed on
  conn,            \* the connection to the child, and the stages of its Close
  watch,           \* exec.CommandContext: the context of the call kills the child
  waited,          \* has anybody waited for the child
  child,           \* the serving process
  rpc,             \* the call, in the child
  heeds,           \* does that call end when its context does
  chunks,          \* responses it has written
  trailer,         \* the status it has written
  crashed,         \* did the child die by itself, and
  wedged           \* is it in a sleep that no signal interrupts

handlerVars == <<call, result, forwarded>>
parentVars == <<conn, watch, waited>>
serverVars == <<child, rpc, chunks, trailer>>
faultVars == <<crashed, wedged, heeds>>
bridgeVars == <<ctx, handlerVars, parentVars, serverVars, faultVars>>

BridgeTypeOK ==
  /\ ctx \in BOOLEAN
  /\ call \in {"route", "ready", "wait", "clean", "done"}
  /\ result \in {"none", "native", "invalid", "notFound", "ok", "died", "canceled"}
  /\ chunks \in 0 .. MaxChunks /\ forwarded \in 0 .. chunks
  /\ conn \in {"none", "undialed", "open", "eof", "term", "kill", "closed"}
  /\ watch \in {"off", "armed", "termed", "killed"}
  /\ waited \in BOOLEAN /\ (waited => child = "exited")
  /\ child \in {"none", "serve", "drain", "leaving", "exited"}
  /\ rpc \in {"none", "running", "ok", "failed", "canceled", "abandoned"}
  /\ trailer \in {"none", "ok", "failed"}
  /\ crashed \in BOOLEAN /\ wedged \in BOOLEAN /\ heeds \in BOOLEAN

BridgeInit ==
  /\ ctx = FALSE /\ call = "route" /\ result = "none" /\ forwarded = 0
  /\ conn = "none" /\ watch = "off" /\ waited = FALSE
  /\ child = "none" /\ rpc = "none" /\ chunks = 0 /\ trailer = "none"
  /\ crashed = FALSE /\ wedged = FALSE /\ heeds \in BOOLEAN

PipesOpen == conn \in {"undialed", "open"}
Alive == child \in {"serve", "drain", "leaving"}

-----------------------------------------------------------------------------
(* The handler of the routing server. *)

\* LoadRemoteManifest and Lookup: no route, or a file with a bad line, which fails the
\* calls of every agent, native ones too
Unrouted == {"native", "invalid"}

RouteCall ==
  /\ call = "route"
  /\ result' \in Unrouted /\ call' = "done"
  /\ UNCHANGED <<ctx, forwarded, parentVars, serverVars, faultVars>>

\* the command is not on the PATH, or its pipes or its process cannot be made
StartFails ==
  /\ call = "route"
  /\ result' = "notFound" /\ call' = "done"
  /\ UNCHANGED <<ctx, forwarded, parentVars, serverVars, faultVars>>

\* dialBridgeConn: the child is started, and dialled only by the first call
StartBridge ==
  /\ call = "route"
  /\ call' = "ready" /\ conn' = "undialed" /\ watch' = "armed"
  /\ child' = "serve"
  /\ UNCHANGED <<ctx, result, forwarded, waited, rpc, chunks, trailer, faultVars>>

Dial ==
  /\ call = "ready"
  /\ call' = "wait" /\ conn' = "open"
  /\ UNCHANGED <<ctx, result, forwarded, watch, waited, serverVars, faultVars>>

Finish(what) ==
  /\ result' = what /\ call' = "clean"
  /\ UNCHANGED <<ctx, parentVars, serverVars, faultVars>>

\* the loop of the streaming call
Forward ==
  /\ call = "wait" /\ forwarded < chunks
  /\ forwarded' = forwarded + 1
  /\ UNCHANGED <<ctx, call, result, parentVars, serverVars, faultVars>>

(* translateBridgeError: a status of the call whose code is Unknown, Internal or
   Unavailable is reported as the death of the process. *)
Translated(status) == IF status = "ok" THEN "ok" ELSE "died"

Answered ==
  /\ call = "wait" /\ forwarded = chunks /\ trailer # "none"
  /\ Finish(Translated(trailer))
  /\ UNCHANGED forwarded

\* Mutant: a transport that breaks off reads like the end of the stream.
LoseTransport_AsEnd ==
  /\ call = "wait" /\ forwarded = chunks /\ trailer = "none"
  /\ child = "exited"
  /\ Finish("ok")
  /\ UNCHANGED forwarded

\* the dialer hands the pipes out once, so that nobody connects again
LoseTransport ==
  /\ call = "wait" /\ forwarded = chunks /\ trailer = "none"
  /\ child = "exited"
  /\ Finish("died")
  /\ UNCHANGED forwarded

\* a server that drains does not take a call
Refused ==
  /\ call = "wait" /\ rpc = "none" /\ child = "drain"
  /\ Finish("died")
  /\ UNCHANGED forwarded

SeeCancel ==
  /\ call \in {"ready", "wait"} /\ ctx
  /\ Finish("canceled")
  /\ UNCHANGED forwarded

Cancel ==
  /\ ~ctx /\ call \in {"ready", "wait"}
  /\ ctx' = TRUE
  /\ UNCHANGED <<handlerVars, parentVars, serverVars, faultVars>>

-----------------------------------------------------------------------------
(* Cleaning up: gc.Close, Conn.Close and reap. *)

\* gRPC closes the connection only if it has dialled it
BeginClose ==
  /\ call = "clean" /\ PipesOpen
  /\ IF conn = "open" THEN conn' = "eof" /\ UNCHANGED call
                      ELSE call' = "done" /\ UNCHANGED conn
  /\ UNCHANGED <<ctx, result, forwarded, watch, waited, serverVars, faultVars>>

WaitDone ==
  /\ conn \in {"eof", "term", "kill"} /\ child = "exited"
  /\ conn' = "closed" /\ waited' = TRUE /\ call' = "done"
  /\ UNCHANGED <<ctx, result, forwarded, watch, serverVars, faultVars>>

\* SIGTERM: a serving child begins to drain; one that does already takes no notice
AfterTerm == IF child = "serve" /\ ~wedged THEN "drain" ELSE child

\* SIGKILL; what is wedged stays
Killed ==
  IF Alive /\ ~wedged
  THEN child' = "exited" /\ rpc' = (IF rpc = "running" THEN "abandoned" ELSE rpc)
  ELSE UNCHANGED <<child, rpc>>

Escalate ==
  /\ \/ conn = "eof" /\ conn' = "term" /\ child' = AfterTerm /\ UNCHANGED rpc
     \/ conn = "term" /\ conn' = "kill" /\ Killed
  /\ UNCHANGED <<ctx, handlerVars, watch, waited, chunks, trailer, faultVars>>

\* Mutant: the wait behind SIGKILL has no end.
GiveUpWait_Never ==
  /\ conn = "kill" /\ child = "exited" /\ ~waited
  /\ conn' = "closed" /\ call' = "done"
  /\ UNCHANGED <<ctx, result, forwarded, watch, waited, serverVars, faultVars>>

\* the wait behind SIGKILL is bounded as well
GiveUpWait ==
  /\ conn = "kill"
  /\ conn' = "closed" /\ call' = "done"
  /\ UNCHANGED <<ctx, result, forwarded, watch, waited, serverVars, faultVars>>

\* Mutant: exec.Command, with nothing that watches the context.
CtxDone_Unwatched == FALSE

\* the context of the call ends with its handler as well
CtxDone == ctx \/ call = "done"

\* cmd.Cancel, and WaitDelay behind it
Watch ==
  /\ CtxDone /\ ~waited
  /\ \/ watch = "armed" /\ watch' = "termed" /\ child' = AfterTerm /\ UNCHANGED rpc
     \/ watch = "termed" /\ watch' = "killed" /\ Killed
  /\ UNCHANGED <<ctx, handlerVars, conn, waited, chunks, trailer, faultVars>>

-----------------------------------------------------------------------------
(* The child. *)

Child == Alive /\ ~wedged
RpcCancelled == ctx \/ ~PipesOpen

Accept ==
  /\ Child /\ child = "serve" /\ call = "wait" /\ conn = "open" /\ rpc = "none"
  /\ rpc' = "running"
  /\ UNCHANGED <<ctx, handlerVars, parentVars, child, chunks, trailer, faultVars>>

Respond ==
  /\ Child /\ rpc = "running" /\ chunks < MaxChunks /\ PipesOpen
  /\ chunks' = chunks + 1
  /\ UNCHANGED <<ctx, handlerVars, parentVars, child, rpc, trailer, faultVars>>

\* the handler returns, or its panic is recovered: both write a status
EndRpc ==
  /\ Child /\ rpc = "running"
  /\ \/ \E status \in {"ok", "failed"} :
          /\ rpc' = status
          /\ trailer' = IF PipesOpen THEN status ELSE trailer
     \/ heeds /\ RpcCancelled /\ rpc' = "canceled" /\ UNCHANGED trailer
  /\ UNCHANGED <<ctx, handlerVars, parentVars, child, chunks, faultVars>>

\* the end of the standard input closes the listener and stops the server
SeeEOF ==
  /\ Child /\ child = "serve" /\ ~PipesOpen
  /\ child' = "leaving"
  /\ UNCHANGED <<ctx, handlerVars, parentVars, rpc, chunks, trailer, faultVars>>

\* Mutant: Stop in place of GracefulStop.
Exit_AtOnce ==
  /\ Child /\ child \in {"drain", "leaving"}
  /\ child' = "exited"
  /\ rpc' = IF rpc = "running" THEN "abandoned" ELSE rpc
  /\ UNCHANGED <<ctx, handlerVars, parentVars, chunks, trailer, faultVars>>

(* GracefulStop waits for the call.  Behind the end of the input it runs on the
   side: Serve may return first, and the process ends with a call in flight. *)
Exit ==
  /\ Child
  /\ child = "leaving" \/ (child = "drain" /\ rpc # "running")
  /\ child' = "exited"
  /\ rpc' = IF rpc = "running" THEN "abandoned" ELSE rpc
  /\ UNCHANGED <<ctx, handlerVars, parentVars, chunks, trailer, faultVars>>

\* a supervisor, or another wackypub, sends SIGTERM
Terminate ==
  /\ Child /\ child = "serve"
  /\ child' = "drain"
  /\ UNCHANGED <<ctx, handlerVars, parentVars, rpc, chunks, trailer, faultVars>>

\* an unrecoverable panic or a kill; a status that was not flushed is lost
Crash ==
  /\ Child
  /\ child' = "exited" /\ crashed' = TRUE
  /\ rpc' = IF rpc = "running" THEN "abandoned" ELSE rpc
  /\ trailer' \in {trailer, "none"}
  /\ UNCHANGED <<ctx, handlerVars, parentVars, chunks, wedged, heeds>>

Wedge ==
  /\ Child
  /\ wedged' = TRUE
  /\ UNCHANGED <<ctx, handlerVars, parentVars, serverVars, crashed, heeds>>

-----------------------------------------------------------------------------
Handler ==
  \/ RouteCall \/ StartFails \/ StartBridge \/ Dial \/ Forward
  \/ Answered \/ LoseTransport \/ Refused \/ SeeCancel
Cleanup == BeginClose \/ WaitDone \/ Escalate \/ GiveUpWait
Server == Accept \/ Respond \/ EndRpc \/ SeeEOF \/ Exit

BridgeNext ==
  \/ Handler \/ Cancel \/ Cleanup \/ Watch \/ Server \/ Terminate \/ Crash \/ Wedge

(* Timers expire, and a process that may exit does.  Nothing is assumed of the
   call in the child: it may run for ever. *)
BridgeFairness ==
  /\ WF_bridgeVars(Handler) /\ WF_bridgeVars(Cleanup) /\ WF_bridgeVars(Watch) /\ WF_bridgeVars(SeeEOF) /\ WF_bridgeVars(Exit)

BridgeSpec == BridgeInit /\ [][BridgeNext]_bridgeVars /\ BridgeFairness

-----------------------------------------------------------------------------
(* Properties. *)

(* A call that the handler reports as a success has succeeded in the child, and
   all of its responses were passed on. *)
OkIsComplete == result = "ok" => rpc = "ok" /\ forwarded = chunks

(* SIGTERM drains: a call that the child has taken ends with its own status, and
   only a child that dies by itself can cut it off while its client waits. *)
TermDrains == result = "died" => crashed \/ ctx \/ rpc \in {"failed", "none"}

(* "so the child cannot outlive the caller" (stdio.go:113): when the call is over
   the child exits, whatever its own call does, unless no signal reaches it. *)
NoOrphan == (child # "none" /\ call \in {"clean", "done"}) ~> (child = "exited" \/ wedged)

(* Close returns whatever the child does (stdio.go:151). *)
CleanupEnds == (call = "clean") ~> (call = "done")

(* "ErrBridgeProcessDied indicates the bridge subprocess exited unexpectedly or
   crashed mid-stream" (grpc_bridge_client.go:28). *)
DiedMeansExited == result = "died" /\ conn = "open" => child # "serve"

(* What the caller is told of a call is what became of it in the child
   (routing_server.go:205-240, grpc_bridge_client.go:216-245). *)
CallsAreTold == BridgeTypeOK /\ OkIsComplete /\ TermDrains
=============================================================================
