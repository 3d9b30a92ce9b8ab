----------------------------- MODULE MCTurnLoop -----------------------------
(* Small limits, and the configurations that differ in how a turn goes on. *)
EXTENDS TurnLoop

CONSTANTS Repeated, BadArguments

MCSignatures == {Repeated, BadArguments}
MCSchemaSignatures == {BadArguments}

Plain ==
  [disabled |-> FALSE, a2a |-> FALSE, general |-> Unset, images |-> 1, defers |-> TRUE,
   accepts |-> TRUE, window |-> TRUE, resumable |-> FALSE]

MCConfigs ==
  {Plain,
   [Plain EXCEPT !.a2a = TRUE, !.images = Unset, !.resumable = TRUE],
   [Plain EXCEPT !.disabled = TRUE],
   [Plain EXCEPT !.general = -1, !.window = FALSE],
   [Plain EXCEPT !.accepts = FALSE, !.general = 2]}
=============================================================================
