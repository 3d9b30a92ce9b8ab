--------------------------- MODULE MCSessionWatch ---------------------------
(* Every kind of cursor; a resuming consumer may be behind or ahead. *)
EXTENDS SessionWatch

MCCursors ==
  {[mode |-> "all", n |-> 0], [mode |-> "last", n |-> 1], [mode |-> "live", n |-> 0],
   [mode |-> "since", n |-> 1], [mode |-> "poll", n |-> 0]}

ResumeCursors == {[mode |-> "since", n |-> 1]}
=============================================================================
