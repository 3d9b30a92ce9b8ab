------------------------- MODULE MCRuntimeFallback -------------------------
(* A chain of three levels on two backends: the last level names the same
   endpoint and model as the first. *)
EXTENDS RuntimeFallback

CONSTANTS primary, secondary

MCBackends == {primary, secondary}
MCBackendOf == <<primary, secondary, primary>>
=============================================================================
