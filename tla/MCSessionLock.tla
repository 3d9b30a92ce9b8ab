--------------------------- MODULE MCSessionLock ---------------------------
(* Two wackypub processes share an agent directory: a server that runs two
   handlers at once, and a CLI with one handler and one cancel command. *)
EXTENDS SessionLock

CONSTANTS server, cli, g1, g2, g3, c1

MCProcs == {server, cli}
MCServers == {server}
MCGoroutines == {g1, g2, g3}
MCCancellers == {c1}
MCProcOf == [x \in {g1, g2, g3, c1} |-> IF x \in {g1, g2} THEN server ELSE cli]

(* For liveness: one handler in each process. *)
LiveGoroutines == {g1, g3}
LiveProcOf == [x \in {g1, g3, c1} |-> IF x = g1 THEN server ELSE cli]
=============================================================================
