---------------------------- MODULE MCSessionLog ----------------------------
(* A server with two workers and a CLI process with one share a session. *)
EXTENDS SessionLog

CONSTANTS server, cli, w1, w2, w3

MCProcs == {server, cli}
MCWorkers == {w1, w2, w3}
MCProcOf == [w \in MCWorkers |-> IF w = w3 THEN cli ELSE server]

(* The two handlers of the server do the same.  Used without liveness. *)
Twins == Permutations({w1, w2})

(* All in the server: two handlers and a subscription. *)
MCServerProcOf == [w \in MCWorkers |-> server]
=============================================================================
