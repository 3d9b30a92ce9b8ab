------------------------------- MODULE TurnLog -------------------------------
(***************************************************************************)
(* What a session promises, whatever the files and processes behind it do: *)
(* turns enter at the tail with a sequence number above every number in    *)
(* sight, and leave from the head, only once MEMORY.md tells of them.      *)
(* Nothing in between is reordered, renumbered or dropped.  SessionLog     *)
(* implements it.                                                          *)
(***************************************************************************)
EXTENDS Naturals, Sequences

VARIABLES turns,       \* the turns a reader of the session sees, oldest first
          remembered   \* the turns MEMORY.md tells of

vars == <<turns, remembered>>

IdsOf(s) == {s[i].id : i \in DOMAIN s}

Above(seq, s) == \A i \in DOMAIN s : s[i].seq < seq

Init == remembered = {} /\ \A i \in DOMAIN turns : turns[i].seq = 0

(* A turn is appended. *)
Commit ==
  /\ Len(turns') = Len(turns) + 1
  /\ SubSeq(turns', 1, Len(turns)) = turns
  /\ Above(turns'[Len(turns')].seq, turns)
  /\ UNCHANGED remembered

(* The oldest turns are summarised. *)
Remember ==
  /\ \E n \in DOMAIN turns :
       remembered' = remembered \cup IdsOf(SubSeq(turns, 1, n))
  /\ UNCHANGED turns

(* Summarised turns leave, and a notice may take their place at the tail. *)
Archive ==
  /\ \E n \in DOMAIN turns :
       LET rest == SubSeq(turns, n + 1, Len(turns)) IN
       /\ IdsOf(SubSeq(turns, 1, n)) \subseteq remembered
       /\ \/ turns' = rest
          \/ /\ Len(turns') = Len(rest) + 1
             /\ SubSeq(turns', 1, Len(rest)) = rest
             /\ Above(turns'[Len(turns')].seq, turns)
  /\ UNCHANGED remembered

(* MEMORY.md is overwritten in place, and that ends half-way. *)
Forget == remembered' = {} /\ UNCHANGED turns

Next == Commit \/ Remember \/ Archive \/ Forget

Spec == Init /\ [][Next]_vars
=============================================================================
