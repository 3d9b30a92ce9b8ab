------------------------------ MODULE Persist ------------------------------
(***************************************************************************)
(* What of a turn reaches session.jsonl: long texts are cut to their head   *)
(* and tail, and a turn whose line would be too long is reduced to its     *)
(* first text, or to a banner.  Sizes are in units that keep the order of   *)
(* the program's limits (256 KiB, 64 MiB, twice 8 KiB).                     *)
(***************************************************************************)
EXTENDS Integers, Sequences, SequencesExt

CONSTANTS
  TextCap,    \* MaxPersistTextPartBytes
  TurnCap,    \* MaxPersistTurnBytes
  Kept,       \* PersistTruncationHead and PersistTruncationTail together
  Note        \* a banner

ASSUME PersistAssumption ==
  /\ {TextCap, TurnCap, Kept, Note} \subseteq Nat
  /\ Kept + Note <= TextCap /\ TextCap + Note <= TurnCap

\* A part is a text, a blob or a structured part, and whole unless it was cut
Part(kind, size) == [kind |-> kind, size |-> size, whole |-> TRUE]
IsTextPart(p) == p.kind = "text"
Banner == [kind |-> "banner", size |-> Note, whole |-> TRUE]

TruncateTextPart(p) ==
  IF IsTextPart(p) /\ p.size > TextCap THEN [p EXCEPT !.size = Kept + Note, !.whole = FALSE] ELSE p

\* A blob is base64 in the line
LineSize(p) == IF p.kind = "blob" THEN (p.size * 4 + 2) \div 3 ELSE p.size
Size(parts) == FoldLeft(LAMBDA sum, p : sum + LineSize(p), 0, parts)

\* PersistReport.DroppedParts: all but the first text
Dropped(parts) ==
  IF Size(parts) <= TurnCap THEN 0
  ELSE IF \E i \in DOMAIN parts : IsTextPart(parts[i]) THEN Len(parts) - 1 ELSE Len(parts)

\* The first text and a banner; a turn without a text is left to LastResort
Fallback(parts) ==
  LET first == SelectInSeq(parts, IsTextPart)
  IN IF Size(parts) <= TurnCap \/ first = 0 THEN parts ELSE <<parts[first], Banner>>

\* Nothing but a banner.  (Before it, the program cuts the text of a Fallback that
\* is still too long once more; a text within TextCap and a banner never are.)
LastResort(parts) == IF Size(parts) <= TurnCap THEN parts ELSE <<Banner>>

\* sanitizeContentForPersistWithSeq: the parts of the line, and the report
Persisted(parts) ==
  LET cut == [i \in DOMAIN parts |-> TruncateTextPart(parts[i])]
  IN [parts |-> LastResort(Fallback(cut)), dropped |-> Dropped(cut)]
=============================================================================
