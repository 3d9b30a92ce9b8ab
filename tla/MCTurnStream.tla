---------------------------- MODULE MCTurnStream ----------------------------
(* Two tool calls with the same name and arguments. *)
EXTENDS TurnStream

CONSTANTS t1, t2

MCTools == {t1, t2}
MCSig == [t \in MCTools |-> "same"]
MCSignatures == {"same"}
=============================================================================
