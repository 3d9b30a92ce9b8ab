-------------------------- MODULE SessionLog_proofs --------------------------
(***************************************************************************)
(* Safety of the session log, for any processes, workers and bounds.       *)
(*                                                                         *)
(* As long as streams end before their handlers, at most one worker is     *)
(* between two steps of an operation that writes (TurnInv), and everything *)
(* it read is still so when it writes.  What is left to show is that the   *)
(* steps themselves are right: that the number taken is above every number *)
(* of the log, that the boundary of a rewrite is the one MEMORY.md was     *)
(* told, and that nothing is forgotten in between.  Then every step of the *)
(* session is one of TurnLog, or changes nothing a reader can see.         *)
(***************************************************************************)
EXTENDS SessionLog, SequenceTheorems, FiniteSetTheorems, WellFoundedInduction, TLAPS

Lines == [id : Ids, seq : Nat, ok : BOOLEAN]

-----------------------------------------------------------------------------
(* Lemmas about numbers and sequences. *)

LEMMA LeastNat == ASSUME NEW T \in SUBSET Nat, T # {} PROVE \E m \in T : \A k \in T : m <= k
<1>1. OpToRel(<, Nat) = {p \in Nat \X Nat : p[1] < p[2]}
  BY DEF OpToRel
<1>2. PICK m \in T : \A k \in T : ~ (<<k, m>> \in OpToRel(<, Nat))
  BY NatLessThanWellFounded, WFMin
<1>3. ASSUME NEW k \in T PROVE m <= k
  <2>1. ~ (<<k, m>> \in {p \in Nat \X Nat : p[1] < p[2]})
    BY <1>1, <1>2
  <2> QED
    BY <2>1
<1> QED
  BY <1>3

(* A bounded set of numbers has its Max. *)
LEMMA MaxIs ==
  ASSUME NEW S \in SUBSET Nat, S # {}, NEW b \in Nat, \A n \in S : n <= b
  PROVE  Max(S) \in S /\ \A n \in S : n <= Max(S)
<1> DEFINE T == {u \in Nat : \A n \in S : n <= u}
<1>1. PICK u \in T : \A k \in T : u <= k
  <2>1. b \in T
    OBVIOUS
  <2> QED
    BY <2>1, LeastNat
<1>2. u \in S
  <2>1. SUFFICES ASSUME u \notin S PROVE FALSE
    OBVIOUS
  <2>2. \A n \in S : n < u
    BY <1>1, <2>1
  <2>3. u > 0 /\ u - 1 \in Nat
    <3>1. PICK n \in S : n < u
      BY <2>2
    <3>2. n \in Nat /\ u \in Nat
      BY <1>1
    <3> QED
      BY <3>1, <3>2
  <2>4. u - 1 \in T
    BY <2>2, <2>3, <1>1
  <2>5. u <= u - 1
    BY <1>1, <2>4
  <2> QED
    BY <2>3, <2>5, <1>1
<1>3. \A n \in S : u >= n
  BY <1>1
<1>4. \E x \in S : \A y \in S : x >= y
  BY <1>2, <1>3
<1>5. Max(S) \in S /\ \A y \in S : Max(S) >= y
  BY <1>4 DEF Max
<1> QED
  BY <1>5

LEMMA AppendIs ==
  ASSUME NEW L, NEW s \in Seq(L), NEW x \in L
  PROVE  /\ Append(s, x) \in Seq(L)
         /\ Len(Append(s, x)) = Len(s) + 1
         /\ \A i \in 1 .. Len(s) : Append(s, x)[i] = s[i]
         /\ Append(s, x)[Len(s) + 1] = x
         /\ DOMAIN Append(s, x) = 1 .. (Len(s) + 1)
  OBVIOUS

-----------------------------------------------------------------------------
(* Parsed. *)

Chosen(lines, n) ==
  CHOOSE f : f = [k \in 0 .. n |->
                    IF k = 0 THEN <<>>
                    ELSE IF lines[k].ok THEN Append(f[k - 1], lines[k]) ELSE f[k - 1]]

Rows(lines) == Chosen(lines, Len(lines))

IsRows(f, lines, n) ==
  f = [k \in 0 .. n |-> IF k = 0 THEN <<>>
                        ELSE IF lines[k].ok THEN Append(f[k - 1], lines[k]) ELSE f[k - 1]]

LEMMA ParsedIsRows == ASSUME NEW lines PROVE Parsed(lines) = Rows(lines)[Len(lines)]
  BY DEF Parsed, Rows, Chosen

LEMMA RowsExist ==
  ASSUME NEW lines, NEW n \in Nat
  PROVE  \E f : IsRows(f, lines, n)
<1> DEFINE T == {m \in Nat : ~ \E f : IsRows(f, lines, m)}
<1>1. SUFFICES ASSUME T # {} PROVE FALSE
  OBVIOUS
<1>2. PICK m \in T : \A k \in T : m <= k
  BY <1>1, LeastNat
<1>3. CASE m = 0
  <2>1. IsRows([k \in 0 .. 0 |-> <<>>], lines, 0)
    BY DEF IsRows
  <2> QED
    BY <1>2, <1>3, <2>1
<1>4. CASE m # 0
  <2>1. m - 1 \in Nat /\ m - 1 \notin T
    BY <1>2, <1>4
  <2>2. PICK g : IsRows(g, lines, m - 1)
    BY <2>1
  <2> DEFINE h == [k \in 0 .. m |->
                     IF k < m THEN g[k]
                     ELSE IF lines[m].ok THEN Append(g[m - 1], lines[m]) ELSE g[m - 1]]
  <2>3. \A k \in 0 .. (m - 1) : h[k] = g[k]
    BY <1>2, <2>1
  <2>4. \A k \in 0 .. (m - 1) :
          g[k] = IF k = 0 THEN <<>>
                 ELSE IF lines[k].ok THEN Append(g[k - 1], lines[k]) ELSE g[k - 1]
    BY <2>2 DEF IsRows
  <2>5. \A k \in 0 .. m :
          h[k] = IF k = 0 THEN <<>>
                 ELSE IF lines[k].ok THEN Append(h[k - 1], lines[k]) ELSE h[k - 1]
    <3>1. SUFFICES ASSUME NEW k \in 0 .. m
                   PROVE h[k] = IF k = 0 THEN <<>>
                                ELSE IF lines[k].ok THEN Append(h[k - 1], lines[k]) ELSE h[k - 1]
      OBVIOUS
    <3>2. CASE k = m
      <4>1. h[k] = IF lines[m].ok THEN Append(g[m - 1], lines[m]) ELSE g[m - 1]
        BY <1>2, <3>2
      <4>2. h[m - 1] = g[m - 1]
        BY <2>1, <2>3
      <4> HIDE DEF h
      <4> QED
        BY <1>4, <3>2, <4>1, <4>2
    <3>3. CASE k # m
      <4>1. k \in 0 .. (m - 1) /\ (k # 0 => k - 1 \in 0 .. (m - 1))
        BY <1>2, <2>1, <3>1, <3>3
      <4>2. h[k] = g[k] /\ (k # 0 => h[k - 1] = g[k - 1])
        BY <2>3, <4>1
      <4> HIDE DEF h
      <4> QED
        BY <2>4, <4>1, <4>2
    <3> QED
      BY <3>2, <3>3
  <2>6. h = [k \in 0 .. m |-> h[k]]
    OBVIOUS
  <2>7. IsRows(h, lines, m)
    <3> HIDE DEF h
    <3> QED
      BY <2>5, <2>6 DEF IsRows
  <2> QED
    BY <1>2, <2>7
<1> QED
  BY <1>3, <1>4

LEMMA RowsAre ==
  ASSUME NEW lines, Len(lines) \in Nat
  PROVE  \A k \in 0 .. Len(lines) :
           Rows(lines)[k] = IF k = 0 THEN <<>>
                            ELSE IF lines[k].ok THEN Append(Rows(lines)[k - 1], lines[k])
                            ELSE Rows(lines)[k - 1]
<1>1. \E f : IsRows(f, lines, Len(lines))
  BY RowsExist
<1>2. IsRows(Rows(lines), lines, Len(lines))
  BY <1>1 DEF IsRows, Rows, Chosen
<1>3. PICK f : f = Rows(lines)
  OBVIOUS
<1>4. IsRows(f, lines, Len(lines))
  BY <1>2, <1>3
<1>5. \A k \in 0 .. Len(lines) :
           f[k] = IF k = 0 THEN <<>>
                            ELSE IF lines[k].ok THEN Append(f[k - 1], lines[k])
                            ELSE f[k - 1]
  BY <1>4 DEF IsRows
<1> QED
  BY <1>3, <1>5

(* What the first k lines parse to. *)
LEMMA RowsHold ==
  ASSUME NEW lines \in Seq(Lines), NEW k \in 0 .. Len(lines)
  PROVE  /\ Rows(lines)[k] \in Seq(Lines)
         /\ Len(Rows(lines)[k]) <= k
         /\ \A i \in DOMAIN Rows(lines)[k] : Rows(lines)[k][i].ok
         /\ \A i \in DOMAIN Rows(lines)[k] : \E j \in 1 .. k : Rows(lines)[k][i] = lines[j]
         /\ \A j \in 1 .. k : lines[j].ok => \E i \in DOMAIN Rows(lines)[k] : Rows(lines)[k][i] = lines[j]
<1> DEFINE Good(n) == /\ Rows(lines)[n] \in Seq(Lines)
                      /\ Len(Rows(lines)[n]) <= n
                      /\ \A i \in DOMAIN Rows(lines)[n] : Rows(lines)[n][i].ok
                      /\ \A i \in DOMAIN Rows(lines)[n] : \E j \in 1 .. n : Rows(lines)[n][i] = lines[j]
                      /\ \A j \in 1 .. n : lines[j].ok =>
                           \E i \in DOMAIN Rows(lines)[n] : Rows(lines)[n][i] = lines[j]
<1> DEFINE T == {n \in 0 .. Len(lines) : ~Good(n)}
<1>1. SUFFICES ASSUME T # {} PROVE FALSE
  OBVIOUS
<1>2. Len(lines) \in Nat
  OBVIOUS
<1>3. PICK m \in T : \A n \in T : m <= n
  <2>1. T \in SUBSET Nat
    OBVIOUS
  <2> HIDE DEF T
  <2> QED
    BY <1>1, <2>1, LeastNat
<1>4. m \in 0 .. Len(lines) /\ ~Good(m)
  OBVIOUS
<1>5. CASE m = 0
  <2>1. Rows(lines)[0] = <<>>
    BY <1>2, RowsAre
  <2>2. Good(0)
    BY <2>1
  <2> HIDE DEF Good
  <2> QED
    BY <1>4, <1>5, <2>2
<1>6. CASE m # 0
  <2>1. m - 1 \in 0 .. Len(lines) /\ m \in 1 .. Len(lines) /\ m - 1 \in Nat /\ m \in Nat
    BY <1>2, <1>4, <1>6
  <2>2. Good(m - 1)
    <3>1. m - 1 \notin T
      <4> HIDE DEF T
      <4> QED
        BY <1>3, <2>1
    <3> QED
      BY <2>1, <3>1
  <2>3. PICK r : r = Rows(lines)[m - 1]
    OBVIOUS
  <2>4. PICK q : q = Rows(lines)[m]
    OBVIOUS
  <2>5. q = IF lines[m].ok THEN Append(r, lines[m]) ELSE r
    BY <1>2, <1>6, <2>1, <2>3, <2>4, RowsAre
  <2>6. /\ r \in Seq(Lines)
        /\ Len(r) <= m - 1
        /\ \A i \in DOMAIN r : r[i].ok
        /\ \A i \in DOMAIN r : \E j \in 1 .. (m - 1) : r[i] = lines[j]
        /\ \A j \in 1 .. (m - 1) : lines[j].ok => \E i \in DOMAIN r : r[i] = lines[j]
    BY <2>2, <2>3
  <2>7. lines[m] \in Lines
    BY <2>1
  <2>8. /\ q \in Seq(Lines)
        /\ Len(q) <= m
        /\ \A i \in DOMAIN q : q[i].ok
        /\ \A i \in DOMAIN q : \E j \in 1 .. m : q[i] = lines[j]
        /\ \A j \in 1 .. m : lines[j].ok => \E i \in DOMAIN q : q[i] = lines[j]
    <3>1. CASE ~lines[m].ok
      <4>1. q = r
        BY <2>5, <3>1
      <4> QED
        BY <2>1, <2>6, <3>1, <4>1
    <3>2. CASE lines[m].ok
      <4>1. q = Append(r, lines[m])
        BY <2>5, <3>2
      <4>2. /\ q \in Seq(Lines) /\ Len(q) = Len(r) + 1 /\ DOMAIN q = 1 .. (Len(r) + 1)
            /\ q[Len(r) + 1] = lines[m] /\ \A i \in 1 .. Len(r) : q[i] = r[i]
            /\ DOMAIN r = 1 .. Len(r) /\ Len(r) \in Nat
        BY <2>6, <2>7, <4>1, AppendIs
      <4>3. \A i \in DOMAIN q : i \in DOMAIN r \/ i = Len(r) + 1
        BY <4>2
      <4>4. ASSUME NEW i \in DOMAIN q PROVE q[i].ok /\ \E j \in 1 .. m : q[i] = lines[j]
        <5>1. CASE i = Len(r) + 1
          BY <2>1, <3>2, <4>2, <5>1
        <5>2. CASE i \in DOMAIN r
          <6>1. q[i] = r[i]
            BY <4>2, <5>2
          <6>2. PICK j \in 1 .. (m - 1) : r[i] = lines[j]
            BY <2>6, <5>2
          <6>3. j \in 1 .. m
            BY <2>1
          <6> QED
            BY <2>6, <5>2, <6>1, <6>2, <6>3
        <5> QED
          BY <4>3, <5>1, <5>2
      <4>5. ASSUME NEW j \in 1 .. m, lines[j].ok PROVE \E i \in DOMAIN q : q[i] = lines[j]
        <5>1. CASE j = m
          <6>1. Len(r) + 1 \in DOMAIN q
            BY <4>2
          <6> QED
            BY <4>2, <5>1, <6>1
        <5>2. CASE j # m
          <6>1. j \in 1 .. (m - 1)
            BY <2>1, <5>2
          <6>2. PICK i \in DOMAIN r : r[i] = lines[j]
            BY <2>6, <4>5, <6>1
          <6>3. i \in DOMAIN q /\ q[i] = r[i]
            BY <4>2, <6>2
          <6> QED
            BY <6>2, <6>3
        <5> QED
          BY <5>1, <5>2
      <4> QED
        BY <2>1, <2>6, <4>2, <4>4, <4>5
    <3> QED
      BY <3>1, <3>2
  <2>9. Good(m)
    BY <2>4, <2>8
  <2> HIDE DEF Good
  <2> QED
    BY <1>4, <2>9
<1> QED
  BY <1>5, <1>6

(* The rows of a log are its lines that parse. *)
LEMMA ParsedHolds ==
  ASSUME NEW lines \in Seq(Lines)
  PROVE  /\ Parsed(lines) \in Seq(Lines)
         /\ Len(Parsed(lines)) <= Len(lines)
         /\ \A i \in DOMAIN Parsed(lines) : Parsed(lines)[i].ok
         /\ \A i \in DOMAIN Parsed(lines) : \E j \in DOMAIN lines : Parsed(lines)[i] = lines[j]
         /\ \A j \in DOMAIN lines :
              lines[j].ok => \E i \in DOMAIN Parsed(lines) : Parsed(lines)[i] = lines[j]
<1>1. Len(lines) \in 0 .. Len(lines) /\ DOMAIN lines = 1 .. Len(lines)
  OBVIOUS
<1>2. PICK k : k = Len(lines)
  OBVIOUS
<1>3. Parsed(lines) = Rows(lines)[k]
  BY <1>2, ParsedIsRows
<1> QED
  BY <1>1, <1>2, <1>3, RowsHold

(* Rows of a beginning of the log. *)
LEMMA RowsBegin ==
  ASSUME NEW lines \in Seq(Lines), NEW line \in Lines, NEW k \in 0 .. Len(lines)
  PROVE  Rows(Append(lines, line))[k] = Rows(lines)[k]
<1> DEFINE more == Append(lines, line)
<1> DEFINE T == {n \in 0 .. Len(lines) : Rows(more)[n] # Rows(lines)[n]}
<1>1. SUFFICES ASSUME T # {} PROVE FALSE
  OBVIOUS
<1>2. Len(lines) \in Nat
  OBVIOUS
<1>3. PICK m \in T : \A n \in T : m <= n
  <2>1. T \in SUBSET Nat
    OBVIOUS
  <2> HIDE DEF T
  <2> QED
    BY <1>1, <2>1, LeastNat
<1>4. m \in 0 .. Len(lines) /\ Rows(more)[m] # Rows(lines)[m]
  OBVIOUS
<1>5. /\ Len(more) = Len(lines) + 1 /\ Len(more) \in Nat
      /\ \A i \in 1 .. Len(lines) : more[i] = lines[i]
  BY AppendIs
<1>6. CASE m = 0
  <2>1. Rows(lines)[0] = <<>>
    BY <1>2, RowsAre
  <2> HIDE DEF more
  <2>2. Rows(more)[0] = <<>>
    BY <1>2, <1>5, RowsAre
  <2> QED
    BY <1>4, <1>6, <2>1, <2>2
<1>7. CASE m # 0
  <2>1. m - 1 \in 0 .. Len(lines) /\ m \in 1 .. Len(lines) /\ m - 1 \in Nat /\ m \in Nat
    BY <1>2, <1>4, <1>7
  <2>2. Rows(more)[m - 1] = Rows(lines)[m - 1]
    <3>1. m - 1 \notin T
      <4> HIDE DEF T
      <4> QED
        BY <1>3, <2>1
    <3> QED
      BY <2>1, <3>1
  <2> HIDE DEF more
  <2>3. Rows(more)[m] = IF more[m].ok THEN Append(Rows(more)[m - 1], more[m]) ELSE Rows(more)[m - 1]
    <3>1. m \in 0 .. Len(more)
      BY <1>2, <1>5, <2>1
    <3> QED
      BY <1>5, <1>7, <3>1, RowsAre
  <2>4. Rows(lines)[m] = IF lines[m].ok THEN Append(Rows(lines)[m - 1], lines[m]) ELSE Rows(lines)[m - 1]
    BY <1>2, <1>7, <2>1, RowsAre
  <2> QED
    BY <1>4, <1>5, <2>1, <2>2, <2>3, <2>4
<1> QED
  BY <1>6, <1>7

LEMMA ParsedAppend ==
  ASSUME NEW lines \in Seq(Lines), NEW line \in Lines
  PROVE  Parsed(Append(lines, line)) =
           IF line.ok THEN Append(Parsed(lines), line) ELSE Parsed(lines)
<1> DEFINE more == Append(lines, line)
<1>1. /\ Len(more) = Len(lines) + 1 /\ Len(more) \in Nat /\ Len(lines) \in Nat
      /\ more[Len(lines) + 1] = line
  BY AppendIs
<1>2. Rows(more)[Len(lines)] = Rows(lines)[Len(lines)]
  BY <1>1, RowsBegin
<1> HIDE DEF more
<1>3. Rows(more)[Len(lines) + 1] =
        IF line.ok THEN Append(Rows(more)[Len(lines)], line) ELSE Rows(more)[Len(lines)]
  <2>1. PICK k : k = Len(lines) + 1
    OBVIOUS
  <2>2. k \in 0 .. Len(more) /\ k # 0 /\ k - 1 = Len(lines)
    BY <1>1, <2>1
  <2>3. Rows(more)[k] = IF more[k].ok THEN Append(Rows(more)[k - 1], more[k]) ELSE Rows(more)[k - 1]
    BY <1>1, <2>2, RowsAre
  <2> QED
    BY <1>1, <2>1, <2>2, <2>3
<1>4. Parsed(more) = Rows(more)[Len(lines) + 1] /\ Parsed(lines) = Rows(lines)[Len(lines)]
  BY <1>1, ParsedIsRows
<1>5. Parsed(more) = IF line.ok THEN Append(Parsed(lines), line) ELSE Parsed(lines)
  BY <1>2, <1>3, <1>4
<1> QED
  BY <1>5 DEF more

LEMMA ParsedEmpty == Parsed(<<>>) = <<>>
<1>1. Len(<<>>) = 0
  OBVIOUS
<1>2. PICK s : s = <<>>
  OBVIOUS
<1>3. Parsed(s) = Rows(s)[0] /\ Rows(s)[0] = <<>>
  BY <1>1, <1>2, ParsedIsRows, RowsAre
<1> QED
  BY <1>2, <1>3

(* A log in which every line parses is what it parses to. *)
LEMMA ParsedWhole ==
  ASSUME NEW lines \in Seq(Lines), \A i \in DOMAIN lines : lines[i].ok
  PROVE  Parsed(lines) = lines
<1> DEFINE Same(n) == /\ Len(Rows(lines)[n]) = n
                      /\ \A i \in 1 .. n : Rows(lines)[n][i] = lines[i]
<1> DEFINE T == {n \in 0 .. Len(lines) : ~Same(n)}
<1>1. Len(lines) \in Nat /\ DOMAIN lines = 1 .. Len(lines)
  OBVIOUS
<1>2. T = {}
  <2>1. SUFFICES ASSUME T # {} PROVE FALSE
    OBVIOUS
  <2>2. PICK m \in T : \A n \in T : m <= n
    <3>1. T \in SUBSET Nat
      OBVIOUS
    <3> HIDE DEF T
    <3> QED
      BY <2>1, <3>1, LeastNat
  <2>3. m \in 0 .. Len(lines) /\ ~Same(m)
    OBVIOUS
  <2>4. CASE m = 0
    <3>1. Rows(lines)[0] = <<>>
      BY <1>1, RowsAre
    <3> QED
      BY <2>3, <2>4, <3>1
  <2>5. CASE m # 0
    <3>1. m - 1 \in 0 .. Len(lines) /\ m \in 1 .. Len(lines) /\ m - 1 \in Nat /\ m \in Nat
      BY <1>1, <2>3, <2>5
    <3>2. Same(m - 1)
      <4>1. m - 1 \notin T
        <5> HIDE DEF T
        <5> QED
          BY <2>2, <3>1
      <4> QED
        BY <3>1, <4>1
    <3>3. PICK r : r = Rows(lines)[m - 1]
      OBVIOUS
    <3>4. Rows(lines)[m] = Append(r, lines[m]) /\ lines[m] \in Lines
      <4>1. lines[m].ok /\ lines[m] \in Lines
        BY <1>1, <3>1
      <4> QED
        BY <1>1, <2>5, <3>1, <3>3, <4>1, RowsAre
    <3>5. r \in Seq(Lines)
      BY <3>1, <3>3, RowsHold
    <3>6. /\ Len(Rows(lines)[m]) = Len(r) + 1
          /\ Rows(lines)[m][Len(r) + 1] = lines[m]
          /\ \A i \in 1 .. Len(r) : Rows(lines)[m][i] = r[i]
      BY <3>4, <3>5, AppendIs
    <3>7. Len(r) = m - 1 /\ \A i \in 1 .. (m - 1) : r[i] = lines[i]
      BY <3>2, <3>3
    <3>8. \A i \in 1 .. m : Rows(lines)[m][i] = lines[i]
      <4>1. ASSUME NEW i \in 1 .. m PROVE Rows(lines)[m][i] = lines[i]
        <5>1. CASE i = m
          BY <3>1, <3>6, <3>7, <5>1
        <5>2. CASE i # m
          <6>1. i \in 1 .. (m - 1)
            BY <3>1, <5>2
          <6> QED
            BY <3>6, <3>7, <6>1
        <5> QED
          BY <5>1, <5>2
      <4> QED
        BY <4>1
    <3>9. Same(m)
      BY <3>1, <3>6, <3>7, <3>8
    <3> HIDE DEF Same
    <3> QED
      BY <2>3, <3>9
  <2> QED
    BY <2>4, <2>5
<1>3. Same(Len(lines))
  <2>1. Len(lines) \in 0 .. Len(lines)
    BY <1>1
  <2> QED
    BY <1>2, <2>1
<1>4. PICK r : r = Parsed(lines)
  OBVIOUS
<1>5. r \in Seq(Lines)
  BY <1>4, ParsedHolds
<1>6. r = Rows(lines)[Len(lines)]
  BY <1>4, ParsedIsRows
<1>7. Len(r) = Len(lines) /\ \A i \in 1 .. Len(lines) : r[i] = lines[i]
  BY <1>3, <1>6
<1>8. r = lines
  BY <1>5, <1>7, SeqEqual
<1> QED
  BY <1>4, <1>8

(* A last line that parses is the last row. *)
LEMMA ParsedLast ==
  ASSUME NEW lines \in Seq(Lines), lines # <<>>, lines[Len(lines)].ok
  PROVE  /\ Len(Parsed(lines)) > 0
         /\ Parsed(lines)[Len(Parsed(lines))] = lines[Len(lines)]
<1>1. Len(lines) \in Nat /\ Len(lines) > 0
  OBVIOUS
<1>2. PICK k : k = Len(lines)
  OBVIOUS
<1>3. k \in 0 .. Len(lines) /\ k # 0 /\ k - 1 \in 0 .. Len(lines) /\ lines[k] \in Lines
  BY <1>1, <1>2
<1>4. PICK r : r = Rows(lines)[k - 1]
  OBVIOUS
<1>5. r \in Seq(Lines)
  BY <1>3, <1>4, RowsHold
<1>6. Rows(lines)[k] = Append(r, lines[k])
  BY <1>1, <1>2, <1>3, <1>4, RowsAre
<1>7. Parsed(lines) = Append(r, lines[k])
  BY <1>2, <1>6, ParsedIsRows
<1>8. Len(r) \in Nat
  BY <1>5
<1> QED
  BY <1>2, <1>3, <1>5, <1>7, <1>8, AppendIs

-----------------------------------------------------------------------------
(* TailMaxSeq. *)

(* Rows without a seq come first, the others with growing ones. *)
Sorted(rows) ==
  \A i, j \in DOMAIN rows : i < j => rows[i].seq < rows[j].seq \/ rows[i].seq = 0

Above(seq, rows) == \A i \in DOMAIN rows : rows[i].seq < seq

LEMMA RecoverIs ==
  ASSUME NEW lines \in Seq(Lines), NEW b \in Nat, Len(lines) <= b,
         \A i \in DOMAIN lines : lines[i].seq <= b
  PROVE  /\ RecoverMaxSeq(lines) \in 0 .. b
         /\ \A i \in DOMAIN Parsed(lines) : Parsed(lines)[i].seq <= RecoverMaxSeq(lines)
<1> DEFINE rows == Parsed(lines)
<1> DEFINE unsequenced == {i \in DOMAIN rows : rows[i].seq = 0}
<1> DEFINE S == {Cardinality(unsequenced)} \cup {rows[i].seq : i \in DOMAIN rows}
<1>1. /\ rows \in Seq(Lines) /\ Len(rows) <= Len(lines)
      /\ \A i \in DOMAIN rows : rows[i].seq \in 0 .. b
  <2>1. /\ rows \in Seq(Lines) /\ Len(rows) <= Len(lines)
        /\ \A i \in DOMAIN rows : \E j \in DOMAIN lines : rows[i] = lines[j]
    BY ParsedHolds
  <2>2. \A j \in DOMAIN lines : lines[j] \in Lines
    OBVIOUS
  <2>3. \A j \in DOMAIN lines : lines[j].seq \in 0 .. b
    BY <2>2 DEF Lines
  <2> HIDE DEF rows
  <2> QED
    BY <2>1, <2>3
<1>2. Cardinality(unsequenced) \in 0 .. b
  <2>1. DOMAIN rows = 1 .. Len(rows) /\ Len(rows) \in Nat /\ Len(rows) <= b
    <3>1. Len(lines) \in Nat
      OBVIOUS
    <3> HIDE DEF rows
    <3> QED
      BY <1>1, <3>1
  <2>2. IsFiniteSet(DOMAIN rows) /\ Cardinality(DOMAIN rows) = Len(rows)
    <3> HIDE DEF rows
    <3>1. PICK n \in Nat : n = Len(rows)
      BY <2>1
    <3>2. IsFiniteSet(1 .. n) /\ Cardinality(1 .. n) = n
      <4>1. 1 \in Int /\ n \in Int
        OBVIOUS
      <4>2. IsFiniteSet(1 .. n) /\ Cardinality(1 .. n) = IF 1 > n THEN 0 ELSE n - 1 + 1
        BY <4>1, FS_Interval
      <4> QED
        BY <4>2
    <3> QED
      BY <2>1, <3>1, <3>2
  <2>3. unsequenced \in SUBSET DOMAIN rows
    OBVIOUS
  <2> HIDE DEF rows, unsequenced
  <2>4. Cardinality(unsequenced) <= Cardinality(DOMAIN rows) /\ IsFiniteSet(unsequenced)
    BY <2>2, <2>3, FS_Subset
  <2>5. Cardinality(unsequenced) \in Nat
    BY <2>4, FS_CardinalityType
  <2> QED
    BY <2>1, <2>2, <2>4, <2>5
<1>3. S \in SUBSET Nat /\ S # {} /\ \A n \in S : n <= b
  <2> HIDE DEF rows, unsequenced
  <2> QED
    BY <1>1, <1>2
<1>4. Max(S) \in S /\ \A n \in S : n <= Max(S)
  <2> HIDE DEF S
  <2> QED
    BY <1>3, MaxIs
<1>5. RecoverMaxSeq(lines) = Max(S)
  BY DEF RecoverMaxSeq
<1>6. \A i \in DOMAIN rows : rows[i].seq \in S
  <2> HIDE DEF rows, unsequenced
  <2> QED
    OBVIOUS
<1> HIDE DEF S
<1>7. PICK m \in S : m = Max(S)
  BY <1>4
<1>8. m \in 0 .. b /\ \A n \in S : n <= m
  BY <1>3, <1>4, <1>7
<1> QED
  BY <1>5, <1>6, <1>7, <1>8

LEMMA TailMaxBounded ==
  ASSUME NEW lines \in Seq(Lines), NEW b \in Nat, Len(lines) <= b,
         \A i \in DOMAIN lines : lines[i].seq <= b
  PROVE  TailMaxSeq(lines) \in 0 .. b
<1>1. RecoverMaxSeq(lines) \in 0 .. b
  BY RecoverIs
<1>2. CASE lines = <<>>
  BY <1>2 DEF TailMaxSeq
<1>3. CASE lines # <<>>
  <2>1. Len(lines) \in DOMAIN lines /\ lines[Len(lines)] \in Lines
    BY <1>3
  <2>2. lines[Len(lines)].seq \in 0 .. b
    BY <2>1 DEF Lines
  <2>3. TailMaxSeq(lines) = IF lines[Len(lines)].ok /\ lines[Len(lines)].seq > 0
                            THEN lines[Len(lines)].seq ELSE RecoverMaxSeq(lines)
    BY <1>3 DEF TailMaxSeq, Last
  <2> QED
    BY <1>1, <2>2, <2>3
<1> QED
  BY <1>2, <1>3

(* The last line decides. *)
LEMMA TailMaxHighest ==
  ASSUME NEW lines \in Seq(Lines), NEW b \in Nat, Len(lines) <= b,
         \A i \in DOMAIN lines : lines[i].seq <= b, Sorted(Parsed(lines))
  PROVE  \A i \in DOMAIN Parsed(lines) : Parsed(lines)[i].seq <= TailMaxSeq(lines)
<1>1. \A i \in DOMAIN Parsed(lines) : Parsed(lines)[i].seq <= RecoverMaxSeq(lines)
  BY RecoverIs
<1>2. CASE lines = <<>>
  <2>1. Parsed(lines) = <<>>
    BY <1>2, ParsedEmpty
  <2> QED
    BY <2>1
<1>3. CASE lines # <<>> /\ ~(lines[Len(lines)].ok /\ lines[Len(lines)].seq > 0)
  BY <1>1, <1>3 DEF TailMaxSeq, Last
<1>4. CASE lines # <<>> /\ lines[Len(lines)].ok /\ lines[Len(lines)].seq > 0
  <2>1. TailMaxSeq(lines) = lines[Len(lines)].seq
    BY <1>4 DEF TailMaxSeq, Last
  <2>2. PICK rows : rows = Parsed(lines)
    OBVIOUS
  <2>3. rows \in Seq(Lines) /\ Len(rows) > 0 /\ rows[Len(rows)] = lines[Len(lines)]
    BY <1>4, <2>2, ParsedHolds, ParsedLast
  <2>4. Sorted(rows)
    BY <2>2
  <2>5. ASSUME NEW i \in DOMAIN rows PROVE rows[i].seq <= rows[Len(rows)].seq
    <3>1. i \in 1 .. Len(rows) /\ Len(rows) \in Nat /\ Len(rows) \in DOMAIN rows
      BY <2>3, <2>5
    <3>2. rows[i].seq \in Nat /\ rows[Len(rows)].seq \in Nat
      <4>1. rows[i] \in Lines /\ rows[Len(rows)] \in Lines
        BY <2>3, <3>1
      <4> QED
        BY <4>1 DEF Lines
    <3>3. CASE i = Len(rows)
      BY <3>2, <3>3
    <3>4. CASE i # Len(rows)
      <4>1. i < Len(rows)
        BY <3>1, <3>4
      <4> QED
        BY <2>4, <3>1, <3>2, <4>1 DEF Sorted
    <3> QED
      BY <3>3, <3>4
  <2> QED
    BY <2>1, <2>2, <2>3, <2>5
<1> QED
  BY <1>2, <1>3, <1>4

-----------------------------------------------------------------------------
(* The inductive invariant. *)

Ops == [kind : Kinds, id : Ids, seq : Nat, fd : Nat, cut : Nat,
        snap : Seq(Lines), rest : Seq(Lines), mem : SUBSET Ids]

Uses == [turns : 0 .. (LegacyRows + MaxTurns), tools : 0 .. MaxToolEvents,
         orphans : BOOLEAN, rewrites : 0 .. MaxRewrites, faults : 0 .. MaxFaults]

TypeInv ==
  /\ owner \in Workers \cup {NoOne}
  /\ hold \in [Workers -> {"none", "turn", "append", "seq"}]
  /\ log \in Seq(Lines)
  /\ terminated \in BOOLEAN
  /\ inode \in Nat
  /\ memory \in SUBSET Ids
  /\ bump \in [Procs -> Nat]
  /\ seqMu \in [Procs -> Workers \cup {NoOne}]
  /\ pc \in [Workers -> Steps]
  /\ op \in [Workers -> Ops]
  /\ used \in Uses
  /\ acked \in SUBSET Ids
  /\ torn \in BOOLEAN

(* Which operation is at which step. *)
KindAt(k, step) ==
  /\ step \in {"idle", "turn"} => k = "none"
  /\ step = "readSeq" => k = "read"
  /\ step \in {"check", "acquire", "open", "write"} => k \in {"user", "event"}
  /\ step \in {"seqMu", "seqCheck", "seqAcquire", "alloc"} => k \in {"user", "event", "tool", "compact"}
  /\ step \in {"claims", "claimsWrite", "memTruncate", "memWrite", "readBack"} => k = "compact"
  /\ step = "pairUp" => k = "strip"
  /\ step = "rewrite" => k \in {"compact", "strip"}

KindOf(o, step) ==
  /\ KindAt(o.kind, step)
  /\ o.kind = "none" => o = NoOp
  /\ o.kind # "compact" => o.mem = {}
  /\ o.kind = "compact" => o.cut \in DOMAIN o.snap

KindInv == \A w \in Workers : KindOf(op[w], pc[w])

(* Who holds the session lock, for which call, and seqMu. *)
HoldOf(h, k, step, orphans) ==
  /\ h = "append" =>
       step \in {"seqMu", "seqCheck", "alloc", "open", "write"} /\ k \in {"user", "event"}
  /\ h = "seq" => step = "alloc"
  /\ h = "turn" => step \notin {"idle", "readSeq", "acquire", "seqAcquire"}
  /\ step = "turn" => h = "turn"
  /\ ~orphans /\ step \notin {"idle", "readSeq"} => h = "turn"

InSeqMu == {"seqCheck", "seqAcquire", "alloc"}

OwnerInv == \A w \in Workers : owner = w <=> hold[w] # "none"
HoldInv == \A w \in Workers : HoldOf(hold[w], op[w].kind, pc[w], used.orphans)
MuInv == \A p \in Procs, w \in Workers : seqMu[p] = w => ProcOf[w] = p /\ pc[w] \in InSeqMu

LockInv == OwnerInv /\ HoldInv /\ MuInv

(* Operations that put a line in the log or take a number, those that still
   have to take it, and what that leaves. *)
Due == {w \in Workers : op[w].kind \in {"user", "event", "tool", "compact"}}
Pending == {w \in Due : pc[w] \notin {"open", "write", "rewrite"}}
Spent == used.turns + used.tools + used.rewrites
Room == Spent - Cardinality(Due)
Numbers == Spent - Cardinality(Pending)

Fits(lines, room, numbers) ==
  Len(lines) <= room /\ \A i \in DOMAIN lines : lines[i].seq <= numbers

CountInv ==
  /\ IsFiniteSet(Due)
  /\ Fits(log, Room, Numbers)
  /\ \A p \in Procs : bump[p] <= Numbers
  /\ \A w \in Workers :
       /\ op[w].seq <= Numbers
       /\ Len(op[w].snap) <= Room
       /\ Fits(op[w].rest, Room, Numbers)

(* Executions in which no stream that was left behind meets a rewrite. *)
Calm == ~used.orphans \/ OrphanRewrites = 0

OrphanInv ==
  used.orphans =>
    /\ terminated
    /\ used.faults = MaxFaults
    /\ OrphanRewrites = 0 =>
         /\ used.rewrites = MaxRewrites
         /\ \A w \in Workers : op[w].kind \notin {"compact", "strip"}

WriteInv ==
  \A w \in Workers : pc[w] = "write" => terminated /\ (Calm => op[w].fd = inode)

Behind == {"seqMu", "seqCheck", "seqAcquire", "alloc", "rewrite"}

(* A rewrite o at a step, with these rows in the log and this in MEMORY.md. *)
Rewrite(o, step, rows, told) ==
  /\ o.kind \in {"compact", "strip"} => o.snap = rows
  /\ o.kind = "strip" /\ step = "rewrite" => o.rest = rows
  /\ o.kind = "compact" =>
       /\ step = "claims" => told = o.mem
       /\ step = "memTruncate" => told = o.mem \/ told = {}
       /\ step \in {"claimsWrite", "memWrite"} => told = {}
       /\ step \in Behind \cup {"readBack"} =>
            o.mem \cup IdsOf(SubSeq(rows, 1, o.cut)) \subseteq told
       /\ step \in Behind => o.rest = SubSeq(rows, o.cut + 1, Len(rows))

(* A line that is about to be written. *)
Numbered(o, step) ==
  step \in {"open", "write"} \/ (step = "rewrite" /\ o.kind = "compact")

TurnInv ==
  ~used.orphans =>
    /\ Sorted(Parsed(log))
    /\ \A w \in Workers :
         /\ Rewrite(op[w], pc[w], Parsed(log), memory)
         /\ Numbered(op[w], pc[w]) => Above(op[w].seq, Parsed(log))

LostInv == Calm => NothingLost

IInv ==
  /\ TypeInv /\ KindInv /\ LockInv /\ CountInv
  /\ OrphanInv /\ WriteInv /\ TurnInv /\ LostInv

-----------------------------------------------------------------------------
(* Lines, operations, numbers. *)

LEMMA LineIs ==
  ASSUME NEW id \in Ids, NEW seq \in Nat
  PROVE  /\ Line(id, seq) \in Lines /\ Line(id, seq).ok
         /\ Line(id, seq).id = id /\ Line(id, seq).seq = seq
  BY DEF Line, Lines

LEMMA BoundsAre ==
  /\ LegacyRows \in Nat /\ MaxTurns \in Nat /\ MaxRewrites \in Nat
  /\ MaxToolEvents \in Nat /\ MaxFaults \in Nat
  /\ OrphanRewrites \in Nat /\ OrphanRewrites <= MaxRewrites
  /\ ProcOf \in [Workers -> Procs] /\ NoOne \notin Workers /\ Orphans \in BOOLEAN
  BY SessionLogAssumption

LEMMA NoOpIs == NoOp \in Ops /\ NoOp.kind = "none" /\ NoOp.mem = {}
<1>1. 0 \in Ids
  BY BoundsAre DEF Ids
<1>2. <<>> \in Seq(Lines)
  OBVIOUS
<1> QED
  BY <1>1, <1>2 DEF NoOp, Ops, Kinds

LEMMA OpChange ==
  ASSUME NEW o \in Ops
  PROVE  /\ \A k \in Kinds : [o EXCEPT !.kind = k] \in Ops
         /\ \A k \in Kinds, n \in Ids : [o EXCEPT !.kind = k, !.id = n] \in Ops
         /\ \A n \in Nat : [o EXCEPT !.seq = n] \in Ops /\ [o EXCEPT !.fd = n] \in Ops
         /\ \A s \in Seq(Lines) : [o EXCEPT !.rest = s] \in Ops
         /\ \A k \in Kinds, s \in Seq(Lines) : [o EXCEPT !.kind = k, !.snap = s] \in Ops
         /\ \A k \in Kinds, n \in Nat, s \in Seq(Lines), m \in SUBSET Ids :
              [o EXCEPT !.kind = k, !.cut = n, !.snap = s, !.mem = m] \in Ops
<1> DEFINE S == Seq(Lines)
<1> DEFINE M == SUBSET Ids
<1>1. Ops = [kind : Kinds, id : Ids, seq : Nat, fd : Nat, cut : Nat, snap : S, rest : S, mem : M]
  BY DEF Ops
<1> HIDE DEF S, M
<1>2. \A k \in Kinds : [o EXCEPT !.kind = k] \in Ops
  BY <1>1
<1>4. \A n \in Nat : [o EXCEPT !.seq = n] \in Ops /\ [o EXCEPT !.fd = n] \in Ops
  BY <1>1
<1>5. \A s \in S : [o EXCEPT !.rest = s] \in Ops
  BY <1>1
<1>6. \A k \in Kinds, n \in Ids : [o EXCEPT !.kind = k, !.id = n] \in Ops
  BY <1>1
<1>7. \A k \in Kinds, s \in S : [o EXCEPT !.kind = k, !.snap = s] \in Ops
  BY <1>1
<1>8. \A k \in Kinds, n \in Nat, s \in S, m \in M :
        [o EXCEPT !.kind = k, !.cut = n, !.snap = s, !.mem = m] \in Ops
  BY <1>1
<1> QED
  BY <1>2, <1>4, <1>5, <1>6, <1>7, <1>8 DEF S, M

LEMMA OpIs ==
  ASSUME TypeInv, NEW w \in Workers
  PROVE  /\ op[w] \in Ops
         /\ op[w].kind \in Kinds /\ op[w].id \in Ids /\ op[w].seq \in Nat /\ op[w].fd \in Nat
         /\ op[w].cut \in Nat /\ op[w].snap \in Seq(Lines) /\ op[w].rest \in Seq(Lines)
         /\ op[w].mem \in SUBSET Ids
<1>1. op[w] \in Ops
  BY DEF TypeInv
<1> QED
  BY <1>1 DEF Ops

LEMMA UsedIs ==
  ASSUME TypeInv
  PROVE  /\ used.turns \in 0 .. (LegacyRows + MaxTurns) /\ used.tools \in 0 .. MaxToolEvents
         /\ used.rewrites \in 0 .. MaxRewrites /\ used.faults \in 0 .. MaxFaults
         /\ used.orphans \in BOOLEAN
         /\ used.turns \in Nat /\ used.tools \in Nat /\ used.rewrites \in Nat /\ used.faults \in Nat
  BY BoundsAre DEF TypeInv, Uses

LEMMA StampIs ==
  ASSUME NEW turns \in Seq(Lines), NEW lines \in Seq(Lines), NEW offset \in Nat
  PROVE  /\ Stamp(turns, lines, offset) \in Seq(Lines)
         /\ Len(Stamp(turns, lines, offset)) = Len(turns)
         /\ \A i \in 1 .. Len(turns) :
              Stamp(turns, lines, offset)[i] =
                Line(turns[i].id, IF i + offset \in DOMAIN lines THEN lines[i + offset].seq ELSE 0)
<1> DEFINE seqAt(i) == IF i + offset \in DOMAIN lines THEN lines[i + offset].seq ELSE 0
<1>1. DOMAIN turns = 1 .. Len(turns) /\ Len(turns) \in Nat
  OBVIOUS
<1>2. \A i \in 1 .. Len(turns) : turns[i] \in Lines
  OBVIOUS
<1>3. \A i \in 1 .. Len(turns) : turns[i].id \in Ids
  BY <1>2 DEF Lines
<1>4. ASSUME NEW i \in 1 .. Len(turns) PROVE seqAt(i) \in Nat
  <2>1. CASE i + offset \in DOMAIN lines
    <3>1. lines[i + offset] \in Lines
      BY <2>1
    <3> QED
      BY <2>1, <3>1 DEF Lines
  <2> QED
    BY <2>1
<1>5. Stamp(turns, lines, offset) = [i \in 1 .. Len(turns) |-> Line(turns[i].id, seqAt(i))]
  BY <1>1 DEF Stamp
<1> HIDE DEF seqAt
<1>6. \A i \in 1 .. Len(turns) : Line(turns[i].id, seqAt(i)) \in Lines
  BY <1>3, <1>4, LineIs
<1>7. Stamp(turns, lines, offset) \in Seq(Lines) /\ Len(Stamp(turns, lines, offset)) = Len(turns)
  BY <1>1, <1>5, <1>6
<1> QED
  BY <1>5, <1>7 DEF seqAt

LEMMA CountsAre ==
  ASSUME TypeInv, CountInv
  PROVE  /\ IsFiniteSet(Pending) /\ Pending \subseteq Due /\ IsFiniteSet(Due)
         /\ Cardinality(Due) \in Nat /\ Cardinality(Pending) \in Nat
         /\ Cardinality(Pending) <= Cardinality(Due)
         /\ Spent \in Nat /\ Room \in Nat /\ Numbers \in Nat /\ Room <= Numbers
<1>1. IsFiniteSet(Due)
  BY DEF CountInv
<1>2. Pending \in SUBSET Due
  BY DEF Pending
<1>3. IsFiniteSet(Pending) /\ Cardinality(Pending) <= Cardinality(Due)
  BY <1>1, <1>2, FS_Subset
<1>4. Cardinality(Due) \in Nat /\ Cardinality(Pending) \in Nat
  BY <1>1, <1>3, FS_CardinalityType
<1>5. Spent \in Nat
  BY UsedIs DEF Spent
<1>6. Len(log) \in Nat /\ Len(log) <= Room
  BY DEF TypeInv, CountInv, Fits
<1> QED
  BY <1>1, <1>2, <1>3, <1>4, <1>5, <1>6 DEF Room, Numbers

LEMMA HighestIs ==
  ASSUME TypeInv, CountInv, NEW p \in Procs
  PROVE  /\ HighestSeq(p) \in Nat /\ HighestSeq(p) <= Numbers
         /\ TailMaxSeq(log) \in Nat /\ TailMaxSeq(log) <= HighestSeq(p)
<1>1. log \in Seq(Lines) /\ Len(log) <= Numbers /\ \A i \in DOMAIN log : log[i].seq <= Numbers
  <2>1. log \in Seq(Lines) /\ Len(log) <= Room /\ \A i \in DOMAIN log : log[i].seq <= Numbers
    BY DEF TypeInv, CountInv, Fits
  <2> QED
    BY <2>1, CountsAre
<1>2. TailMaxSeq(log) \in 0 .. Numbers
  BY <1>1, CountsAre, TailMaxBounded
<1>3. bump[p] \in Nat /\ bump[p] <= Numbers
  BY DEF TypeInv, CountInv
<1>4. PICK S : S = {TailMaxSeq(log), bump[p]}
  OBVIOUS
<1>5. S \in SUBSET Nat /\ S # {} /\ \A n \in S : n <= Numbers
  BY <1>2, <1>3, <1>4
<1>6. Max(S) \in S /\ \A n \in S : n <= Max(S)
  BY <1>5, CountsAre, MaxIs
<1> QED
  BY <1>2, <1>4, <1>5, <1>6 DEF HighestSeq

-----------------------------------------------------------------------------
(* The steps. *)

(* The operation of w becomes o. *)
Becomes(w, o) == op' = [op EXCEPT ![w] = o]

LEMMA BecomesType ==
  ASSUME TypeInv, NEW w \in Workers, NEW o \in Ops, Becomes(w, o)
  PROVE  op' \in [Workers -> Ops]
  BY DEF TypeInv, Becomes

LEMMA GotoType ==
  ASSUME TypeInv, NEW w \in Workers, NEW from, NEW to \in Steps, Goto(w, from, to)
  PROVE  pc' \in [Workers -> Steps] /\ pc'[w] = to /\ \A v \in Workers \ {w} : pc'[v] = pc[v]
  BY DEF TypeInv, Goto

LEMMA ReturnIs ==
  ASSUME TypeInv, NEW w \in Workers, NEW from, Return(w, from)
  PROVE  /\ pc[w] = from
         /\ pc' \in [Workers -> Steps] /\ op' \in [Workers -> Ops] /\ Becomes(w, NoOp)
         /\ pc'[w] = (IF hold[w] = "turn" THEN "turn" ELSE "idle")
         /\ \A v \in Workers \ {w} : pc'[v] = pc[v]
<1>1. Becomes(w, NoOp) /\ pc[w] = from
  BY DEF Return, Becomes, Goto
<1>2. (IF hold[w] = "turn" THEN "turn" ELSE "idle") \in Steps
  BY DEF Steps
<1>3. Goto(w, from, IF hold[w] = "turn" THEN "turn" ELSE "idle")
  BY DEF Return
<1> QED
  BY <1>1, <1>2, <1>3, NoOpIs, BecomesType, GotoType

LEMMA ReleaseIs ==
  ASSUME TypeInv, NEW w \in Workers, NEW c, ReleaseOwn(w, c)
  PROVE  /\ owner' \in Workers \cup {NoOne}
         /\ hold' \in [Workers -> {"none", "turn", "append", "seq"}]
         /\ \/ hold[w] = c /\ owner = w /\ owner' = NoOne /\ hold' = [hold EXCEPT ![w] = "none"]
            \/ hold[w] # c /\ owner' = owner /\ hold' = hold
  BY DEF TypeInv, ReleaseOwn, lockVars, Mutex!Release

(* What a write may leave. *)
Leaves(w, l, full) ==
  /\ l \in Lines /\ l.id = op[w].id /\ l.seq = op[w].seq /\ l.ok = full
  /\ log' = Append(log, l)

LEMMA WrittenIs ==
  ASSUME TypeInv, WriteInv, NEW w \in Workers, pc[w] = "write"
  PROVE  /\ Line(op[w].id, op[w].seq) \in Lines
         /\ [Line(op[w].id, op[w].seq) EXCEPT !.ok = FALSE] \in Lines
         /\ \A l : AppendLine(l) = Append(log, l)
         /\ terminated
<1>1. op[w].id \in Ids /\ op[w].seq \in Nat
  BY OpIs
<1>2. terminated
  BY DEF WriteInv
<1> QED
  BY <1>1, <1>2 DEF Line, Lines, AppendLine

LEMMA CutShortIs ==
  ASSUME TypeInv, WriteInv, NEW w \in Workers, pc[w] = "write", CutShort(w)
  PROVE  /\ terminated' \in BOOLEAN
         /\ log' = log \/ \E l, full : Leaves(w, l, full)
<1>1. PICK l : l = Line(op[w].id, op[w].seq)
  OBVIOUS
<1>2. PICK m : m = [l EXCEPT !.ok = FALSE]
  OBVIOUS
<1>3. l \in Lines /\ l.ok /\ l.id = op[w].id /\ l.seq = op[w].seq
  BY <1>1, OpIs, LineIs
<1>4. m \in Lines /\ ~m.ok /\ m.id = op[w].id /\ m.seq = op[w].seq
  BY <1>2, <1>3 DEF Lines
<1>5. \/ log' = log /\ terminated' = terminated
      \/ log' = Append(log, m) /\ terminated' = FALSE
      \/ log' = Append(log, l) /\ terminated' = FALSE
  BY <1>1, <1>2, WrittenIs DEF CutShort
<1>6. terminated \in BOOLEAN
  BY DEF TypeInv
<1>7. CASE log' = Append(log, l) /\ terminated' = FALSE
  <2>1. Leaves(w, l, l.ok)
    BY <1>3, <1>7 DEF Leaves
  <2> QED
    BY <1>7, <2>1
<1>8. CASE log' = Append(log, m) /\ terminated' = FALSE
  <2>1. Leaves(w, m, m.ok)
    BY <1>4, <1>8 DEF Leaves
  <2> QED
    BY <1>8, <2>1
<1> QED
  BY <1>5, <1>6, <1>7, <1>8

LEMMA LeavesType ==
  ASSUME TypeInv, NEW w, NEW l, NEW full, Leaves(w, l, full) PROVE log' \in Seq(Lines)
  BY AppendIs DEF TypeInv, Leaves

LEMMA UsedChange ==
  ASSUME TypeInv
  PROVE  /\ used.turns < MaxTurns => [used EXCEPT !.turns = used.turns + 1] \in Uses
         /\ used.tools < MaxToolEvents => [used EXCEPT !.tools = used.tools + 1] \in Uses
         /\ used.rewrites < MaxRewrites => [used EXCEPT !.rewrites = used.rewrites + 1] \in Uses
         /\ used.faults < MaxFaults => [used EXCEPT !.faults = used.faults + 1] \in Uses
<1>1. used \in Uses
  BY DEF TypeInv
<1>2. ASSUME used.turns < MaxTurns PROVE [used EXCEPT !.turns = used.turns + 1] \in Uses
  <2>1. PICK n \in 0 .. (LegacyRows + MaxTurns) : n = used.turns + 1
    BY <1>2, UsedIs, BoundsAre
  <2>2. [used EXCEPT !.turns = n] \in Uses
    BY <1>1, <2>1 DEF Uses
  <2> QED
    BY <2>1, <2>2
<1>3. ASSUME used.tools < MaxToolEvents PROVE [used EXCEPT !.tools = used.tools + 1] \in Uses
  <2>1. PICK n \in 0 .. MaxToolEvents : n = used.tools + 1
    BY <1>3, UsedIs, BoundsAre
  <2>2. [used EXCEPT !.tools = n] \in Uses
    BY <1>1, <2>1 DEF Uses
  <2> QED
    BY <2>1, <2>2
<1>4. ASSUME used.rewrites < MaxRewrites PROVE [used EXCEPT !.rewrites = used.rewrites + 1] \in Uses
  <2>1. PICK n \in 0 .. MaxRewrites : n = used.rewrites + 1
    BY <1>4, UsedIs, BoundsAre
  <2>2. [used EXCEPT !.rewrites = n] \in Uses
    BY <1>1, <2>1 DEF Uses
  <2> QED
    BY <2>1, <2>2
<1>5. ASSUME used.faults < MaxFaults PROVE [used EXCEPT !.faults = used.faults + 1] \in Uses
  <2>1. PICK n \in 0 .. MaxFaults : n = used.faults + 1
    BY <1>5, UsedIs, BoundsAre
  <2>2. [used EXCEPT !.faults = n] \in Uses
    BY <1>1, <2>1 DEF Uses
  <2> QED
    BY <2>1, <2>2
<1> QED
  BY <1>2, <1>3, <1>4, <1>5

(* What the steps that read the log put in the hands of their operation. *)
LEMMA StartAppendIs ==
  ASSUME TypeInv, KindInv, NEW w \in Workers, StartAppend(w)
  PROVE  \E o \in Ops, k \in {"user", "event"} :
           /\ Becomes(w, o) /\ o = [op[w] EXCEPT !.kind = k, !.id = used.turns + 1]
<1>1. used.turns + 1 \in Ids
  BY UsedIs, BoundsAre DEF StartAppend, Ids
<1>2. PICK k \in {"user", "event"} : op' = [op EXCEPT ![w].kind = k, ![w].id = used.turns + 1]
  BY DEF StartAppend
<1>3. PICK o : o = [op[w] EXCEPT !.kind = k, !.id = used.turns + 1]
  OBVIOUS
<1>4. o \in Ops
  BY <1>1, <1>3, OpIs, OpChange DEF Kinds
<1>5. Becomes(w, o)
  BY <1>2, <1>3 DEF Becomes
<1> QED
  BY <1>3, <1>4, <1>5

LEMMA StartCompactIs ==
  ASSUME TypeInv, NEW w \in Workers, StartCompact(w)
  PROVE  \E o \in Ops, n \in DOMAIN Parsed(log) :
           /\ Becomes(w, o)
           /\ o = [NoOp EXCEPT !.kind = "compact", !.cut = n, !.snap = Parsed(log), !.mem = memory]
<1>1. PICK n \in DOMAIN Parsed(log) :
        op' = [op EXCEPT ![w] = [NoOp EXCEPT !.kind = "compact", !.cut = n, !.snap = Parsed(log), !.mem = memory]]
  BY DEF StartCompact
<1>2. PICK o : o = [NoOp EXCEPT !.kind = "compact", !.cut = n, !.snap = Parsed(log), !.mem = memory]
  OBVIOUS
<1>3. Parsed(log) \in Seq(Lines) /\ memory \in SUBSET Ids
  BY ParsedHolds DEF TypeInv
<1>4. n \in Nat
  BY <1>3
<1>5. o \in Ops
  BY <1>2, <1>3, <1>4, NoOpIs, OpChange DEF Kinds
<1> QED
  BY <1>1, <1>2, <1>5 DEF Becomes

LEMMA StartStripIs ==
  ASSUME TypeInv, NEW w \in Workers, StartStrip(w)
  PROVE  \E o \in Ops :
           Becomes(w, o) /\ o = [NoOp EXCEPT !.kind = "strip", !.snap = Parsed(log)]
<1>1. PICK o : o = [NoOp EXCEPT !.kind = "strip", !.snap = Parsed(log)]
  OBVIOUS
<1>2. Parsed(log) \in Seq(Lines)
  BY ParsedHolds DEF TypeInv
<1>3. o \in Ops
  BY <1>1, <1>2, NoOpIs, OpChange DEF Kinds
<1> QED
  BY <1>1, <1>3 DEF Becomes, StartStrip

LEMMA StartToolEventIs ==
  ASSUME TypeInv, NEW w \in Workers, StartToolEvent(w)
  PROVE  \E o \in Ops : Becomes(w, o) /\ o = [op[w] EXCEPT !.kind = "tool"]
<1>1. [op[w] EXCEPT !.kind = "tool"] \in Ops
  BY OpIs, OpChange DEF Kinds
<1> QED
  BY <1>1 DEF Becomes, StartToolEvent

LEMMA StartReadIs ==
  ASSUME TypeInv, NEW w \in Workers, StartRead(w)
  PROVE  \E o \in Ops : Becomes(w, o) /\ o = [op[w] EXCEPT !.kind = "read"]
<1>1. [op[w] EXCEPT !.kind = "read"] \in Ops
  BY OpIs, OpChange DEF Kinds
<1> QED
  BY <1>1 DEF Becomes, StartRead

LEMMA OpenLogIs ==
  ASSUME TypeInv, NEW w \in Workers, OpenLog(w)
  PROVE  \E o \in Ops : Becomes(w, o) /\ o = [op[w] EXCEPT !.fd = inode]
<1>1. [op[w] EXCEPT !.fd = inode] \in Ops
  BY OpIs, OpChange DEF TypeInv
<1> QED
  BY <1>1 DEF Becomes, OpenLog

(* The survivors of a compaction, with the seqs of the last lines. *)
LEMMA ReadBackIs ==
  ASSUME TypeInv, NEW w \in Workers, ReadBack(w)
  PROVE  \E o \in Ops, rest \in Seq(Lines), n \in Nat :
           /\ Becomes(w, o) /\ o = [op[w] EXCEPT !.rest = rest]
           /\ LET remaining == SubSeq(op[w].snap, op[w].cut + 1, Len(op[w].snap)) IN
              /\ rest = Stamp(remaining, Parsed(log), n)
              /\ remaining \in Seq(Lines) /\ Len(remaining) <= Len(op[w].snap)
              /\ n = (IF Len(Parsed(log)) < Len(remaining) THEN 0
                      ELSE Len(Parsed(log)) - Len(remaining))
<1> DEFINE remaining == SubSeq(op[w].snap, op[w].cut + 1, Len(op[w].snap))
<1>1. remaining \in Seq(Lines) /\ Len(remaining) <= Len(op[w].snap) /\ Len(remaining) \in Nat
  <2>1. PICK s : s = op[w].snap
    OBVIOUS
  <2>2. PICK c \in Nat : c = op[w].cut
    BY OpIs
  <2>3. s \in Seq(Lines)
    BY <2>1, OpIs
  <2>4. SubSeq(s, c + 1, Len(s)) \in Seq(Lines) /\ Len(SubSeq(s, c + 1, Len(s))) <= Len(s)
    <3>1. CASE c + 1 > Len(s)
      <4>1. SubSeq(s, c + 1, Len(s)) = <<>>
        BY <2>3, <3>1, SubSeqProperties
      <4> QED
        BY <2>3, <4>1
    <3>2. CASE c + 1 <= Len(s)
      BY <2>3, <3>2, SubSeqProperties
    <3> QED
      BY <2>3, <3>1, <3>2
  <2>5. PICK q : q = SubSeq(s, c + 1, Len(s))
    OBVIOUS
  <2>6. q \in Seq(Lines) /\ Len(q) <= Len(s) /\ Len(q) \in Nat
    BY <2>4, <2>5
  <2>7. q = remaining /\ Len(s) = Len(op[w].snap)
    BY <2>1, <2>2, <2>5
  <2> HIDE DEF remaining
  <2> QED
    BY <2>6, <2>7
<1>2. Parsed(log) \in Seq(Lines)
  BY ParsedHolds DEF TypeInv
<1>3. PICK n : n = IF Len(Parsed(log)) < Len(remaining) THEN 0 ELSE Len(Parsed(log)) - Len(remaining)
  OBVIOUS
<1>4. n \in Nat
  <2>1. Len(Parsed(log)) \in Nat
    BY <1>2
  <2> HIDE DEF remaining
  <2> QED
    BY <1>1, <1>3, <2>1
<1>5. PICK rest : rest = Stamp(remaining, Parsed(log), n)
  OBVIOUS
<1>6. rest \in Seq(Lines)
  <2> HIDE DEF remaining
  <2> QED
    BY <1>1, <1>2, <1>4, <1>5, StampIs
<1>7. op' = [op EXCEPT ![w].rest = rest]
  BY <1>3, <1>5 DEF ReadBack
<1>8. PICK o : o = [op[w] EXCEPT !.rest = rest]
  OBVIOUS
<1>9. o \in Ops /\ Becomes(w, o)
  BY <1>6, <1>7, <1>8, OpIs, OpChange DEF Becomes
<1> QED
  BY <1>1, <1>3, <1>4, <1>5, <1>6, <1>8, <1>9

LEMMA PairUpIs ==
  ASSUME TypeInv, NEW w \in Workers, PairUp(w)
  PROVE  \E o \in Ops, rest \in Seq(Lines) :
           /\ Becomes(w, o) /\ o = [op[w] EXCEPT !.rest = rest]
           /\ rest = Stamp(op[w].snap, Parsed(log), 0)
<1>1. Parsed(log) \in Seq(Lines)
  BY ParsedHolds DEF TypeInv
<1>2. PICK rest : rest = Stamp(op[w].snap, Parsed(log), 0)
  OBVIOUS
<1>3. rest \in Seq(Lines)
  BY <1>1, <1>2, OpIs, StampIs
<1>4. PICK o : o = [op[w] EXCEPT !.rest = rest]
  OBVIOUS
<1>5. o \in Ops /\ Becomes(w, o)
  BY <1>2, <1>3, <1>4, OpIs, OpChange DEF Becomes, PairUp
<1> QED
  BY <1>2, <1>3, <1>4, <1>5

(* Allocate, by what becomes of the operation. *)
LEMMA AllocateIs ==
  ASSUME TypeInv, CountInv, NEW w \in Workers, Allocate(w)
  PROVE  \E next \in Nat, o \in Ops :
           /\ next = HighestSeq(ProcOf[w]) + 1
           /\ bump' = [bump EXCEPT ![ProcOf[w]] = next] /\ bump' \in [Procs -> Nat]
           /\ seqMu' = [seqMu EXCEPT ![ProcOf[w]] = NoOne]
           /\ pc[w] = "alloc" /\ pc' \in [Workers -> Steps] /\ Becomes(w, o)
           /\ \A v \in Workers \ {w} : pc'[v] = pc[v]
           /\ op[w].kind = "tool" =>
                /\ o = NoOp
                /\ pc'[w] = (IF hold[w] = "turn" THEN "turn" ELSE "idle")
           /\ op[w].kind # "tool" =>
                /\ o = [op[w] EXCEPT !.seq = next]
                /\ pc'[w] = (IF op[w].kind = "compact" THEN "rewrite" ELSE "open")
<1>1. ProcOf[w] \in Procs
  BY BoundsAre
<1>2. PICK next \in Nat : next = HighestSeq(ProcOf[w]) + 1
  BY <1>1, HighestIs
<1>3. bump' = [bump EXCEPT ![ProcOf[w]] = next] /\ bump' \in [Procs -> Nat]
  BY <1>1, <1>2 DEF Allocate, TypeInv
<1>4. seqMu' = [seqMu EXCEPT ![ProcOf[w]] = NoOne]
  BY DEF Allocate
<1>5. CASE op[w].kind = "tool"
  <2>1. Return(w, "alloc")
    BY <1>5 DEF Allocate
  <2> QED
    BY <1>2, <1>3, <1>4, <1>5, <2>1, ReturnIs, NoOpIs
<1>6. CASE op[w].kind # "tool"
  <2>1. /\ Goto(w, "alloc", IF op[w].kind = "compact" THEN "rewrite" ELSE "open")
        /\ op' = [op EXCEPT ![w].seq = next]
    BY <1>2, <1>6 DEF Allocate
  <2>2. PICK o : o = [op[w] EXCEPT !.seq = next]
    OBVIOUS
  <2>3. o \in Ops /\ Becomes(w, o)
    BY <2>1, <2>2, OpIs, OpChange DEF Becomes
  <2>4. (IF op[w].kind = "compact" THEN "rewrite" ELSE "open") \in Steps
    BY DEF Steps
  <2>5. pc[w] = "alloc"
    BY <2>1 DEF Goto
  <2>6. /\ pc' \in [Workers -> Steps] /\ pc'[w] = (IF op[w].kind = "compact" THEN "rewrite" ELSE "open")
        /\ \A v \in Workers \ {w} : pc'[v] = pc[v]
    BY <2>1, <2>4, GotoType
  <2> QED
    BY <1>2, <1>3, <1>4, <1>6, <2>2, <2>3, <2>5, <2>6
<1> QED
  BY <1>5, <1>6

LEMMA SubSeqIs ==
  ASSUME NEW s \in Seq(Lines), NEW a \in Nat, NEW b \in 0 .. Len(s), a >= 1
  PROVE  /\ SubSeq(s, a, b) \in Seq(Lines)
         /\ Len(SubSeq(s, a, b)) = (IF a <= b THEN b - a + 1 ELSE 0)
         /\ \A i \in 1 .. Len(SubSeq(s, a, b)) :
              SubSeq(s, a, b)[i] = s[a + i - 1] /\ a + i - 1 \in 1 .. Len(s)
<1>1. Len(s) \in Nat /\ a \in Int /\ b \in Int
  OBVIOUS
<1>2. \A i \in a .. b : s[i] \in Lines
  <2>1. \A i \in a .. b : i \in 1 .. Len(s)
    BY <1>1
  <2> QED
    BY <2>1
<1>3. /\ SubSeq(s, a, b) \in Seq(Lines)
      /\ Len(SubSeq(s, a, b)) = IF a <= b THEN b - a + 1 ELSE 0
      /\ \A i \in 1 .. b - a + 1 : SubSeq(s, a, b)[i] = s[a + i - 1]
  BY <1>1, <1>2, SubSeqProperties
<1>4. PICK q : q = SubSeq(s, a, b)
  OBVIOUS
<1>5. \A i \in 1 .. Len(q) : q[i] = s[a + i - 1] /\ a + i - 1 \in 1 .. Len(s)
  <2>1. ASSUME NEW i \in 1 .. Len(q) PROVE q[i] = s[a + i - 1] /\ a + i - 1 \in 1 .. Len(s)
    <3>1. a <= b /\ i \in 1 .. b - a + 1
      BY <1>1, <1>3, <1>4, <2>1
    <3> QED
      BY <1>1, <1>3, <1>4, <3>1
  <2> QED
    BY <2>1
<1> QED
  BY <1>3, <1>4, <1>5

LEMMA IdsAre ==
  ASSUME NEW s \in Seq(Lines) PROVE IdsOf(s) \in SUBSET Ids
<1>1. \A i \in DOMAIN s : s[i] \in Lines
  OBVIOUS
<1>2. \A i \in DOMAIN s : s[i].id \in Ids
  BY <1>1 DEF Lines
<1> QED
  BY <1>2 DEF IdsOf

(* The prefix a compaction archives. *)
LEMMA CutIs ==
  ASSUME TypeInv, KindInv, NEW w \in Workers, op[w].kind = "compact"
  PROVE  IdsOf(SubSeq(op[w].snap, 1, op[w].cut)) \in SUBSET Ids
<1>1. op[w].cut \in 0 .. Len(op[w].snap)
  BY OpIs DEF KindInv, KindOf
<1>2. SubSeq(op[w].snap, 1, op[w].cut) \in Seq(Lines)
  BY <1>1, OpIs, SubSeqIs
<1> QED
  BY <1>2, IdsAre

LEMMA TypeStep == IInv /\ [Next]_vars => TypeInv'
<1> SUFFICES ASSUME IInv, [Next]_vars PROVE TypeInv'
  OBVIOUS
<1> USE DEF Steps
<1>0. TypeInv /\ KindInv /\ LockInv /\ CountInv /\ WriteInv
  BY DEF IInv
<1>1. ASSUME NEW w \in Workers, BeginTurn(w) \/ EndTurn(w) \/ Abandon(w) PROVE TypeInv'
  BY <1>0, <1>1 DEF TypeInv, BeginTurn, EndTurn, Abandon, Goto, Mutex!Acquire, Mutex!Release,
     fileVars, seqVars, ghosts
<1>2. ASSUME NEW w \in Workers, StartAppend(w) PROVE TypeInv'
  <2>1. op' \in [Workers -> Ops]
    BY <1>0, <1>2, StartAppendIs, BecomesType
  <2>2. used' \in Uses
    BY <1>0, <1>2, UsedChange DEF StartAppend
  <2> QED
    BY <1>0, <1>2, <2>1, <2>2 DEF TypeInv, StartAppend, Goto, lockVars, fileVars, seqVars, ghosts
<1>3. ASSUME NEW w \in Workers, StartToolEvent(w) PROVE TypeInv'
  <2>1. op' \in [Workers -> Ops]
    BY <1>0, <1>3, StartToolEventIs, BecomesType
  <2>2. used' \in Uses
    BY <1>0, <1>3, UsedChange DEF StartToolEvent
  <2> QED
    BY <1>0, <1>3, <2>1, <2>2 DEF TypeInv, StartToolEvent, Goto, lockVars, fileVars, seqVars, ghosts
<1>4. ASSUME NEW w \in Workers, StartRead(w) PROVE TypeInv'
  <2>1. op' \in [Workers -> Ops]
    BY <1>0, <1>4, StartReadIs, BecomesType
  <2> QED
    BY <1>0, <1>4, <2>1 DEF TypeInv, StartRead, Goto, lockVars, fileVars, seqVars, ghosts
<1>5. ASSUME NEW w \in Workers, StartCompact(w) PROVE TypeInv'
  <2>1. op' \in [Workers -> Ops]
    BY <1>0, <1>5, StartCompactIs, BecomesType
  <2>2. used' \in Uses
    BY <1>0, <1>5, UsedChange DEF StartCompact
  <2> QED
    BY <1>0, <1>5, <2>1, <2>2 DEF TypeInv, StartCompact, Goto, lockVars, fileVars, seqVars, ghosts
<1>6. ASSUME NEW w \in Workers, StartStrip(w) PROVE TypeInv'
  <2>1. op' \in [Workers -> Ops]
    BY <1>0, <1>6, StartStripIs, BecomesType
  <2>2. used' \in Uses
    BY <1>0, <1>6, UsedChange DEF StartStrip
  <2> QED
    BY <1>0, <1>6, <2>1, <2>2 DEF TypeInv, StartStrip, Goto, lockVars, fileVars, seqVars, ghosts
<1>7. ASSUME NEW w \in Workers, CheckLocked(w) \/ AcquireForAppend(w) \/ CheckLockedForSeq(w) \/ AcquireForSeq(w)
      PROVE TypeInv'
  BY <1>0, <1>7 DEF TypeInv, CheckLocked, AcquireForAppend, CheckLockedForSeq, AcquireForSeq,
     Mutex!Acquire, Goto, lockVars, fileVars, seqVars, ghosts
<1>8. ASSUME NEW w \in Workers, OpenLog(w) PROVE TypeInv'
  <2>1. op' \in [Workers -> Ops]
    BY <1>0, <1>8, OpenLogIs, BecomesType
  <2> QED
    BY <1>0, <1>8, <2>1 DEF TypeInv, OpenLog, Goto, lockVars, seqVars, ghosts
<1>9. ASSUME NEW w \in Workers, WriteLine(w) PROVE TypeInv'
  <2>1. pc' \in [Workers -> Steps] /\ op' \in [Workers -> Ops] /\ pc[w] = "write"
    BY <1>0, <1>9, ReturnIs DEF WriteLine
  <2>2. owner' \in Workers \cup {NoOne} /\ hold' \in [Workers -> {"none", "turn", "append", "seq"}]
    BY <1>0, <1>9, ReleaseIs DEF WriteLine
  <2>3. log' \in Seq(Lines)
    <3>1. log' = log \/ log' = Append(log, Line(op[w].id, op[w].seq))
      BY <1>0, <1>9, <2>1, WrittenIs DEF WriteLine
    <3>2. PICK l \in Lines : l = Line(op[w].id, op[w].seq)
      BY <1>0, <2>1, WrittenIs
    <3>3. log \in Seq(Lines)
      BY <1>0 DEF TypeInv
    <3> QED
      BY <3>1, <3>2, <3>3, AppendIs
  <2>4. acked' \in SUBSET Ids /\ terminated' \in BOOLEAN
    BY <1>0, <1>9, OpIs DEF WriteLine, TypeInv
  <2> QED
    BY <1>0, <1>9, <2>1, <2>2, <2>3, <2>4 DEF TypeInv, WriteLine, seqVars
<1>10. ASSUME NEW w \in Workers, WriteFails(w) PROVE TypeInv'
  <2>1. pc' \in [Workers -> Steps] /\ op' \in [Workers -> Ops] /\ pc[w] = "write"
    BY <1>0, <1>10, ReturnIs DEF WriteFails
  <2>2. owner' \in Workers \cup {NoOne} /\ hold' \in [Workers -> {"none", "turn", "append", "seq"}]
    BY <1>0, <1>10, ReleaseIs DEF WriteFails
  <2>3. log' \in Seq(Lines) /\ terminated' \in BOOLEAN
    BY <1>0, <1>10, <2>1, CutShortIs, LeavesType DEF WriteFails, TypeInv
  <2>4. used' \in Uses
    BY <1>0, <1>10, UsedChange DEF WriteFails
  <2> QED
    BY <1>0, <1>10, <2>1, <2>2, <2>3, <2>4 DEF TypeInv, WriteFails, seqVars
<1>11. ASSUME NEW w \in Workers, LockSeqMu(w) PROVE TypeInv'
  BY <1>0, <1>11, BoundsAre DEF TypeInv, LockSeqMu, Goto, lockVars, fileVars, ghosts
<1>12. ASSUME NEW w \in Workers, Allocate(w) PROVE TypeInv'
  <2>1. bump' \in [Procs -> Nat] /\ pc' \in [Workers -> Steps] /\ op' \in [Workers -> Ops]
        /\ seqMu' = [seqMu EXCEPT ![ProcOf[w]] = NoOne]
    BY <1>0, <1>12, AllocateIs, BecomesType
  <2>2. owner' \in Workers \cup {NoOne} /\ hold' \in [Workers -> {"none", "turn", "append", "seq"}]
    BY <1>0, <1>12, ReleaseIs DEF Allocate
  <2>3. UNCHANGED <<fileVars, memory, used, ghosts>>
    BY <1>12 DEF Allocate
  <2> QED
    BY <1>0, <2>1, <2>2, <2>3 DEF TypeInv, fileVars, ghosts
<1>13. ASSUME NEW w \in Workers, ReadSeq(w) PROVE TypeInv'
  <2>1. pc' \in [Workers -> Steps] /\ op' \in [Workers -> Ops]
    BY <1>0, <1>13, ReturnIs DEF ReadSeq
  <2>2. bump' \in [Procs -> Nat]
    BY <1>0, <1>13 DEF ReadSeq, TypeInv
  <2> QED
    BY <1>0, <1>13, <2>1, <2>2 DEF TypeInv, ReadSeq, lockVars, fileVars, ghosts
<1>14. ASSUME NEW w \in Workers, TruncateMemory(w) PROVE TypeInv'
  BY <1>0, <1>14 DEF TypeInv, TruncateMemory, Goto, lockVars, fileVars, seqVars, ghosts
<1>15. ASSUME NEW w \in Workers, WriteClaims(w) PROVE TypeInv'
  <2>1. memory' \in SUBSET Ids /\ used' \in Uses
    BY <1>0, <1>15, OpIs, UsedChange DEF WriteClaims, TypeInv
  <2> QED
    BY <1>0, <1>15, <2>1 DEF TypeInv, WriteClaims, Goto, lockVars, fileVars, seqVars, ghosts
<1>16. ASSUME NEW w \in Workers, WriteMemory(w) PROVE TypeInv'
  <2>1. op[w].kind = "compact"
    BY <1>0, <1>16 DEF WriteMemory, Goto, KindInv, KindOf, KindAt
  <2>2. memory' \in SUBSET Ids
    BY <1>0, <1>16, <2>1, OpIs, CutIs DEF WriteMemory
  <2> QED
    BY <1>0, <1>16, <2>2 DEF TypeInv, WriteMemory, Goto, lockVars, fileVars, seqVars, ghosts
<1>17. ASSUME NEW w \in Workers, ReadBack(w) PROVE TypeInv'
  <2>1. op' \in [Workers -> Ops]
    BY <1>0, <1>17, ReadBackIs, BecomesType
  <2> QED
    BY <1>0, <1>17, <2>1 DEF TypeInv, ReadBack, Goto, lockVars, fileVars, seqVars, ghosts
<1>18. ASSUME NEW w \in Workers, PairUp(w) PROVE TypeInv'
  <2>1. op' \in [Workers -> Ops]
    BY <1>0, <1>18, PairUpIs, BecomesType
  <2> QED
    BY <1>0, <1>18, <2>1 DEF TypeInv, PairUp, Goto, lockVars, fileVars, seqVars, ghosts
<1>19. ASSUME NEW w \in Workers, RewriteCompacted(w) \/ RewriteStripped(w) PROVE TypeInv'
  <2>1. pc' \in [Workers -> Steps] /\ op' \in [Workers -> Ops]
    BY <1>0, <1>19, ReturnIs DEF RewriteCompacted, RewriteStripped
  <2>2. Line(Notice, op[w].seq) \in Lines
    BY <1>0, OpIs, LineIs, BoundsAre DEF Notice, Ids
  <2>3. PICK lines : Rename(w, lines) /\ (lines = op[w].rest \/ lines = Append(op[w].rest, Line(Notice, op[w].seq)))
    BY <1>19 DEF RewriteCompacted, RewriteStripped
  <2>4. lines \in Seq(Lines)
    <3>1. PICK rest : rest = op[w].rest
      OBVIOUS
    <3>2. rest \in Seq(Lines)
      BY <1>0, <3>1, OpIs
    <3>3. Append(rest, Line(Notice, op[w].seq)) \in Seq(Lines)
      BY <2>2, <3>2, AppendIs
    <3> QED
      BY <2>3, <3>1, <3>2, <3>3
  <2>5. UNCHANGED <<lockVars, memory, seqVars, used, ghosts>>
    BY <1>19 DEF RewriteCompacted, RewriteStripped
  <2> QED
    BY <1>0, <2>1, <2>3, <2>4, <2>5 DEF TypeInv, Rename, lockVars, seqVars, ghosts
<1>20. ASSUME NEW w \in Workers, SummaryFails(w) PROVE TypeInv'
  <2>1. pc' \in [Workers -> Steps] /\ op' \in [Workers -> Ops]
    BY <1>0, <1>20, ReturnIs DEF SummaryFails
  <2>2. torn' \in BOOLEAN
    BY <1>0, <1>20 DEF SummaryFails, Forgotten, TypeInv
  <2> QED
    BY <1>0, <1>20, <2>1, <2>2 DEF TypeInv, SummaryFails, lockVars, fileVars, seqVars
<1>21. ASSUME NEW w \in Workers, RewriteFails(w) PROVE TypeInv'
  <2>1. pc' \in [Workers -> Steps] /\ op' \in [Workers -> Ops]
    BY <1>0, <1>21, ReturnIs DEF RewriteFails
  <2>2. torn' \in BOOLEAN
    BY <1>0, <1>21 DEF RewriteFails, Forgotten, TypeInv
  <2>3. used' \in Uses
    BY <1>0, <1>21, UsedChange DEF RewriteFails
  <2> QED
    BY <1>0, <1>21, <2>1, <2>2, <2>3 DEF TypeInv, RewriteFails, lockVars, fileVars, seqVars
<1>22. ASSUME NEW p \in Procs, Crash(p) PROVE TypeInv'
  <2>1. log' \in Seq(Lines) /\ terminated' \in BOOLEAN
    <3>1. CASE UNCHANGED <<log, terminated>>
      BY <1>0, <3>1 DEF TypeInv
    <3>2. ASSUME NEW w \in Workers, pc[w] = "write", CutShort(w) PROVE log' \in Seq(Lines) /\ terminated' \in BOOLEAN
      BY <1>0, <3>2, CutShortIs, LeavesType DEF TypeInv
    <3> QED
      BY <1>22, <3>1, <3>2 DEF Crash
  <2>2. op' \in [Workers -> Ops] /\ pc' \in [Workers -> Steps]
    BY <1>0, <1>22, NoOpIs DEF Crash, TypeInv
  <2>3. /\ owner' \in Workers \cup {NoOne}
        /\ hold' \in [Workers -> {"none", "turn", "append", "seq"}]
        /\ bump' \in [Procs -> Nat] /\ seqMu' \in [Procs -> Workers \cup {NoOne}]
    BY <1>0, <1>22 DEF Crash, TypeInv
  <2>4. used' \in Uses
    BY <1>0, <1>22, UsedChange DEF Crash
  <2>5. torn' \in BOOLEAN
    BY <1>0, <1>22 DEF Crash, TypeInv
  <2> QED
    BY <1>0, <1>22, <2>1, <2>2, <2>3, <2>4, <2>5 DEF TypeInv, Crash
<1>23. CASE UNCHANGED vars
  BY <1>0, <1>23 DEF TypeInv, vars
<1> QED
  BY <1>1, <1>2, <1>3, <1>4, <1>5, <1>6, <1>7, <1>8, <1>9, <1>10, <1>11, <1>12, <1>13, <1>14,
     <1>15, <1>16, <1>17, <1>18, <1>19, <1>20, <1>21, <1>22, <1>23
     DEF Next, Starting, Appending, Sequencing, Rewriting

LEMMA KindStays ==
  ASSUME TypeInv, KindInv, NEW w \in Workers, NEW o, NEW step,
         Becomes(w, o) \/ (op' = op /\ o = op[w]),
         pc'[w] = step, \A v \in Workers \ {w} : pc'[v] = pc[v],
         KindOf(o, step)
  PROVE  KindInv'
<1>1. op'[w] = o /\ \A v \in Workers \ {w} : op'[v] = op[v]
  BY DEF TypeInv, Becomes
<1>2. ASSUME NEW v \in Workers PROVE KindOf(op'[v], pc'[v])
  BY <1>1 DEF KindInv
<1> QED
  BY <1>2 DEF KindInv

LEMMA ReturnKind ==
  ASSUME TypeInv, KindInv, NEW w \in Workers, NEW from, Return(w, from)
  PROVE  KindInv'
<1>1. KindOf(NoOp, "idle") /\ KindOf(NoOp, "turn")
  BY NoOpIs DEF KindOf, KindAt
<1> QED
  BY <1>1, ReturnIs, KindStays

LEMMA MoveKind ==
  ASSUME TypeInv, KindInv, NEW w \in Workers, NEW from, NEW to \in Steps, Goto(w, from, to),
         op' = op, KindAt(op[w].kind, from) => KindAt(op[w].kind, to)
  PROVE  KindInv'
<1>1. pc[w] = from /\ pc'[w] = to /\ \A v \in Workers \ {w} : pc'[v] = pc[v]
  BY GotoType DEF Goto
<1>2. KindOf(op[w], to)
  BY <1>1 DEF KindInv, KindOf
<1> QED
  BY <1>1, <1>2, KindStays

LEMMA KindStep == IInv /\ [Next]_vars => KindInv'
<1> SUFFICES ASSUME IInv, [Next]_vars PROVE KindInv'
  OBVIOUS
<1>0. TypeInv /\ KindInv /\ CountInv
  BY DEF IInv
<1>1. ASSUME NEW w \in Workers, BeginTurn(w) \/ EndTurn(w) PROVE KindInv'
  <2>1. \E from, to \in {"idle", "turn"} : Goto(w, from, to) /\ op' = op
    BY <1>1 DEF BeginTurn, EndTurn
  <2> QED
    BY <1>0, <2>1, MoveKind DEF KindAt, Steps
<1>2. ASSUME NEW w \in Workers, Abandon(w) PROVE KindInv'
  BY <1>0, <1>2 DEF Abandon, KindInv
<1>3. ASSUME NEW w \in Workers, StartAppend(w) PROVE KindInv'
  <2>1. PICK o \in Ops, k \in {"user", "event"} :
          Becomes(w, o) /\ o = [op[w] EXCEPT !.kind = k, !.id = used.turns + 1]
    BY <1>0, <1>3, StartAppendIs
  <2>2. pc[w] = "turn" /\ pc'[w] = "check" /\ \A v \in Workers \ {w} : pc'[v] = pc[v]
    BY <1>0, <1>3, GotoType DEF StartAppend, Goto, Steps
  <2>3. op[w] = NoOp
    BY <1>0, <2>2 DEF KindInv, KindOf, KindAt
  <2>4. o.kind = k /\ o.mem = {}
    BY <1>0, <2>1, <2>3, OpIs DEF NoOp
  <2>5. KindOf(o, "check")
    BY <2>1, <2>4 DEF KindOf, KindAt
  <2> QED
    BY <1>0, <2>1, <2>2, <2>5, KindStays
<1>4. ASSUME NEW w \in Workers, StartToolEvent(w) PROVE KindInv'
  <2>1. PICK o \in Ops : Becomes(w, o) /\ o = [op[w] EXCEPT !.kind = "tool"]
    BY <1>0, <1>4, StartToolEventIs
  <2>2. pc[w] = "turn" /\ pc'[w] = "seqMu" /\ \A v \in Workers \ {w} : pc'[v] = pc[v]
    BY <1>0, <1>4, GotoType DEF StartToolEvent, Goto, Steps
  <2>3. op[w] = NoOp
    BY <1>0, <2>2 DEF KindInv, KindOf, KindAt
  <2>4. o.kind = "tool" /\ o.mem = {}
    BY <1>0, <2>1, <2>3, OpIs DEF NoOp
  <2>5. KindOf(o, "seqMu")
    BY <2>4 DEF KindOf, KindAt
  <2> QED
    BY <1>0, <2>1, <2>2, <2>5, KindStays
<1>5. ASSUME NEW w \in Workers, StartRead(w) PROVE KindInv'
  <2>1. PICK o \in Ops : Becomes(w, o) /\ o = [op[w] EXCEPT !.kind = "read"]
    BY <1>0, <1>5, StartReadIs
  <2>2. pc[w] = "idle" /\ pc'[w] = "readSeq" /\ \A v \in Workers \ {w} : pc'[v] = pc[v]
    BY <1>0, <1>5, GotoType DEF StartRead, Goto, Steps
  <2>3. op[w] = NoOp
    BY <1>0, <2>2 DEF KindInv, KindOf, KindAt
  <2>4. o.kind = "read" /\ o.mem = {}
    BY <1>0, <2>1, <2>3, OpIs DEF NoOp
  <2>5. KindOf(o, "readSeq")
    BY <2>4 DEF KindOf, KindAt
  <2> QED
    BY <1>0, <2>1, <2>2, <2>5, KindStays
<1>6. ASSUME NEW w \in Workers, StartCompact(w) PROVE KindInv'
  <2>1. PICK o \in Ops, n \in DOMAIN Parsed(log) :
          /\ Becomes(w, o)
          /\ o = [NoOp EXCEPT !.kind = "compact", !.cut = n, !.snap = Parsed(log), !.mem = memory]
    BY <1>0, <1>6, StartCompactIs
  <2>2. PICK step \in {"claims", "memTruncate"} :
          pc[w] = "turn" /\ pc'[w] = step /\ \A v \in Workers \ {w} : pc'[v] = pc[v]
    BY <1>0, <1>6, GotoType DEF StartCompact, Goto, Steps
  <2>3. o.kind = "compact" /\ o.cut = n /\ o.snap = Parsed(log)
    BY <2>1 DEF NoOp
  <2>4. KindOf(o, step)
    BY <2>2, <2>3 DEF KindOf, KindAt
  <2> QED
    BY <1>0, <2>1, <2>2, <2>4, KindStays
<1>7. ASSUME NEW w \in Workers, StartStrip(w) PROVE KindInv'
  <2>1. PICK o \in Ops : Becomes(w, o) /\ o = [NoOp EXCEPT !.kind = "strip", !.snap = Parsed(log)]
    BY <1>0, <1>7, StartStripIs
  <2>2. pc[w] = "turn" /\ pc'[w] = "pairUp" /\ \A v \in Workers \ {w} : pc'[v] = pc[v]
    BY <1>0, <1>7, GotoType DEF StartStrip, Goto, Steps
  <2>3. o.kind = "strip" /\ o.mem = {}
    BY <2>1 DEF NoOp
  <2>4. KindOf(o, "pairUp")
    BY <2>3 DEF KindOf, KindAt
  <2> QED
    BY <1>0, <2>1, <2>2, <2>4, KindStays
<1>8. ASSUME NEW w \in Workers, CheckLocked(w) \/ AcquireForAppend(w) PROVE KindInv'
  <2>1. \E from \in {"check", "acquire"}, to \in {"seqMu", "acquire"} : Goto(w, from, to) /\ op' = op
    BY <1>8 DEF CheckLocked, AcquireForAppend
  <2> QED
    BY <1>0, <2>1, MoveKind DEF KindAt, Steps
<1>9. ASSUME NEW w \in Workers, LockSeqMu(w) \/ CheckLockedForSeq(w) \/ AcquireForSeq(w) PROVE KindInv'
  <2>1. \E from, to \in {"seqMu", "seqCheck", "seqAcquire", "alloc"} : Goto(w, from, to) /\ op' = op
    BY <1>9 DEF LockSeqMu, CheckLockedForSeq, AcquireForSeq
  <2> QED
    BY <1>0, <2>1, MoveKind DEF KindAt, Steps
<1>10. ASSUME NEW w \in Workers, OpenLog(w) PROVE KindInv'
  <2>1. PICK o \in Ops : Becomes(w, o) /\ o = [op[w] EXCEPT !.fd = inode]
    BY <1>0, <1>10, OpenLogIs
  <2>2. pc[w] = "open" /\ pc'[w] = "write" /\ \A v \in Workers \ {w} : pc'[v] = pc[v]
    BY <1>0, <1>10, GotoType DEF OpenLog, Goto, Steps
  <2>3. KindOf(op[w], "open")
    BY <1>0, <2>2 DEF KindInv
  <2>4. o.kind = op[w].kind /\ o.mem = op[w].mem
    BY <1>0, <2>1, OpIs DEF Ops
  <2>5. op[w].kind \in {"user", "event"} /\ op[w].mem = {}
    BY <2>3 DEF KindOf, KindAt
  <2>6. KindOf(o, "write")
    BY <2>4, <2>5 DEF KindOf, KindAt
  <2> QED
    BY <1>0, <2>1, <2>2, <2>6, KindStays
<1>11. ASSUME NEW w \in Workers, NEW from, Return(w, from) PROVE KindInv'
  BY <1>0, <1>11, ReturnKind
<1>12. ASSUME NEW w \in Workers, Allocate(w) PROVE KindInv'
  <2>1. CASE op[w].kind = "tool"
    BY <1>11, <1>12, <2>1 DEF Allocate
  <2>2. CASE op[w].kind # "tool"
    <3>1. PICK next \in Nat, o \in Ops :
            /\ pc[w] = "alloc" /\ Becomes(w, o) /\ o = [op[w] EXCEPT !.seq = next]
            /\ pc'[w] = (IF op[w].kind = "compact" THEN "rewrite" ELSE "open")
            /\ \A v \in Workers \ {w} : pc'[v] = pc[v]
      BY <1>0, <1>12, <2>2, AllocateIs
    <3>2. KindOf(op[w], "alloc")
      BY <1>0, <3>1 DEF KindInv
    <3>3. /\ o.kind = op[w].kind /\ o.mem = op[w].mem /\ o.cut = op[w].cut /\ o.snap = op[w].snap
      BY <1>0, <3>1, OpIs DEF Ops
    <3>4. /\ op[w].kind \in {"user", "event", "compact"}
          /\ op[w].kind # "compact" => op[w].mem = {}
          /\ op[w].kind = "compact" => op[w].cut \in DOMAIN op[w].snap
      BY <2>2, <3>2 DEF KindOf, KindAt
    <3>5. KindOf(o, IF op[w].kind = "compact" THEN "rewrite" ELSE "open")
      BY <3>3, <3>4 DEF KindOf, KindAt
    <3> QED
      BY <1>0, <3>1, <3>5, KindStays
  <2> QED
    BY <2>1, <2>2
<1>13. ASSUME NEW w \in Workers, TruncateMemory(w) \/ WriteClaims(w) \/ WriteMemory(w) PROVE KindInv'
  <2>1. \E from, to \in {"claims", "claimsWrite", "memTruncate", "memWrite", "readBack"} :
          Goto(w, from, to) /\ op' = op
    BY <1>13 DEF TruncateMemory, WriteClaims, WriteMemory
  <2> QED
    BY <1>0, <2>1, MoveKind DEF KindAt, Steps
<1>14. ASSUME NEW w \in Workers, ReadBack(w) \/ PairUp(w) PROVE KindInv'
  <2>1. PICK o \in Ops, rest \in Seq(Lines) : Becomes(w, o) /\ o = [op[w] EXCEPT !.rest = rest]
    BY <1>0, <1>14, ReadBackIs, PairUpIs
  <2>2. /\ \A v \in Workers \ {w} : pc'[v] = pc[v]
        /\ \/ pc[w] = "readBack" /\ pc'[w] = "seqMu"
           \/ pc[w] = "pairUp" /\ pc'[w] = "rewrite"
    BY <1>0, <1>14, GotoType DEF ReadBack, PairUp, Goto, Steps
  <2>3. o.kind = op[w].kind /\ o.mem = op[w].mem /\ o.cut = op[w].cut /\ o.snap = op[w].snap
    BY <1>0, <2>1, OpIs DEF Ops
  <2>4. KindOf(op[w], pc[w])
    BY <1>0 DEF KindInv
  <2>5. KindOf(o, pc'[w])
    BY <2>2, <2>3, <2>4 DEF KindOf, KindAt
  <2> QED
    BY <1>0, <2>1, <2>2, <2>5, KindStays
<1>15. ASSUME NEW p \in Procs, Crash(p) PROVE KindInv'
  <2>1. KindOf(NoOp, "idle")
    BY NoOpIs DEF KindOf, KindAt
  <2>2. ASSUME NEW w \in Workers PROVE KindOf(op'[w], pc'[w])
    <3>1. \/ op'[w] = NoOp /\ pc'[w] = "idle"
          \/ op'[w] = op[w] /\ pc'[w] = pc[w]
      BY <1>15 DEF Crash
    <3> QED
      BY <1>0, <2>1, <3>1 DEF KindInv
  <2> QED
    BY <2>2 DEF KindInv
<1>16. CASE UNCHANGED vars
  BY <1>0, <1>16 DEF KindInv, vars
<1>17. ASSUME NEW w \in Workers,
              \/ WriteLine(w) \/ WriteFails(w) \/ ReadSeq(w) \/ RewriteCompacted(w)
              \/ RewriteStripped(w) \/ SummaryFails(w) \/ RewriteFails(w)
       PROVE  KindInv'
  BY <1>11, <1>17 DEF WriteLine, WriteFails, ReadSeq, RewriteCompacted, RewriteStripped,
     SummaryFails, RewriteFails
<1> QED
  BY <1>1, <1>2, <1>3, <1>4, <1>5, <1>6, <1>7, <1>8, <1>9, <1>10, <1>12, <1>13, <1>14,
     <1>15, <1>16, <1>17 DEF Next, Starting, Appending, Sequencing, Rewriting

LEMMA OrphansStay == IInv /\ [Next]_vars => used'.orphans = used.orphans
<1> SUFFICES ASSUME IInv, [Next]_vars PROVE used'.orphans = used.orphans
  OBVIOUS
<1>1. used \in Uses
  BY DEF IInv, TypeInv
<1>2. ASSUME NEW w \in Workers,
             StartAppend(w) \/ StartToolEvent(w) \/ StartCompact(w) \/ StartStrip(w)
             \/ WriteFails(w) \/ RewriteFails(w) \/ WriteClaims(w)
      PROVE  used'.orphans = used.orphans
  BY <1>1, <1>2 DEF StartAppend, StartToolEvent, StartCompact, StartStrip, WriteFails,
     RewriteFails, WriteClaims, Uses
<1>3. ASSUME NEW p \in Procs, Crash(p) PROVE used'.orphans = used.orphans
  BY <1>1, <1>3 DEF Crash, Uses
<1>4. ASSUME used' = used PROVE used'.orphans = used.orphans
  BY <1>4
<1>5. ASSUME NEW w \in Workers,
             \/ BeginTurn(w) \/ StartRead(w) \/ Appending(w) \/ Sequencing(w)
             \/ TruncateMemory(w) \/ WriteMemory(w) \/ ReadBack(w) \/ RewriteCompacted(w)
             \/ PairUp(w) \/ RewriteStripped(w)
             \/ EndTurn(w) \/ Abandon(w) \/ SummaryFails(w)
      PROVE  used' = used
  BY <1>5 DEF BeginTurn, StartRead, Appending, Sequencing, CheckLocked, AcquireForAppend,
     OpenLog, WriteLine, LockSeqMu, CheckLockedForSeq, AcquireForSeq, Allocate, ReadSeq,
     TruncateMemory, WriteMemory, ReadBack, RewriteCompacted, PairUp, RewriteStripped,
     EndTurn, Abandon, SummaryFails
<1> QED
  BY <1>2, <1>3, <1>4, <1>5 DEF Next, Starting, Rewriting, vars

(* How the lock changes hands. *)
LEMMA OwnerStays ==
  ASSUME TypeInv, OwnerInv,
         \/ owner' = owner /\ hold' = hold
         \/ \E w \in Workers, h \in {"turn", "append", "seq"} :
              owner = NoOne /\ owner' = w /\ hold' = [hold EXCEPT ![w] = h]
         \/ \E w \in Workers :
              owner = w /\ owner' = NoOne /\ hold' = [hold EXCEPT ![w] = "none"]
  PROVE  OwnerInv'
  BY BoundsAre DEF TypeInv, OwnerInv

LEMMA OwnerStep == IInv /\ [Next]_vars => OwnerInv'
<1> SUFFICES ASSUME IInv, [Next]_vars PROVE OwnerInv'
  OBVIOUS
<1>0. TypeInv /\ OwnerInv
  BY DEF IInv, LockInv
<1>1. ASSUME NEW w \in Workers, BeginTurn(w) \/ AcquireForAppend(w) \/ AcquireForSeq(w) PROVE OwnerInv'
  <2>1. \E h \in {"turn", "append", "seq"} :
          owner = NoOne /\ owner' = w /\ hold' = [hold EXCEPT ![w] = h]
    BY <1>1 DEF BeginTurn, AcquireForAppend, AcquireForSeq, Mutex!Acquire
  <2> QED
    BY <1>0, <2>1, OwnerStays
<1>2. ASSUME NEW w \in Workers, EndTurn(w) \/ Abandon(w) PROVE OwnerInv'
  <2>1. owner = w /\ owner' = NoOne /\ hold' = [hold EXCEPT ![w] = "none"]
    BY <1>2 DEF EndTurn, Abandon, Mutex!Release
  <2> QED
    BY <1>0, <2>1, OwnerStays
<1>3. ASSUME NEW w \in Workers, NEW c, ReleaseOwn(w, c) PROVE OwnerInv'
  BY <1>0, <1>3, ReleaseIs, OwnerStays
<1>4. ASSUME NEW w \in Workers, WriteLine(w) \/ WriteFails(w) \/ Allocate(w) PROVE OwnerInv'
  BY <1>3, <1>4 DEF WriteLine, WriteFails, Allocate
<1>5. ASSUME NEW p \in Procs, Crash(p) PROVE OwnerInv'
  <2> DEFINE mine == {w \in Workers : ProcOf[w] = p}
  <2>1. /\ owner' = (IF owner \in mine THEN NoOne ELSE owner)
        /\ \A w \in Workers : hold'[w] = IF w \in mine THEN "none" ELSE hold[w]
    BY <1>5 DEF Crash
  <2> HIDE DEF mine
  <2>2. ASSUME NEW w \in Workers PROVE owner' = w <=> hold'[w] # "none"
    <3>1. owner = w <=> hold[w] # "none"
      BY <1>0 DEF OwnerInv
    <3>2. w # NoOne
      BY BoundsAre
    <3> QED
      BY <2>1, <3>1, <3>2
  <2> QED
    BY <2>2 DEF OwnerInv
<1>6. ASSUME owner' = owner, hold' = hold PROVE OwnerInv'
  BY <1>0, <1>6, OwnerStays
<1>7. ASSUME NEW w \in Workers,
             \/ StartAppend(w) \/ StartToolEvent(w) \/ StartRead(w) \/ StartCompact(w) \/ StartStrip(w)
             \/ CheckLocked(w) \/ OpenLog(w) \/ LockSeqMu(w) \/ CheckLockedForSeq(w) \/ ReadSeq(w)
             \/ Rewriting(w) \/ SummaryFails(w) \/ RewriteFails(w)
      PROVE  owner' = owner /\ hold' = hold
  BY <1>7 DEF StartAppend, StartToolEvent, StartRead, StartCompact, StartStrip, CheckLocked,
     OpenLog, LockSeqMu, CheckLockedForSeq, ReadSeq, Rewriting, TruncateMemory, WriteClaims,
     WriteMemory, ReadBack, RewriteCompacted, PairUp, RewriteStripped, SummaryFails,
     RewriteFails, lockVars
<1> QED
  BY <1>1, <1>2, <1>4, <1>5, <1>6, <1>7 DEF Next, Starting, Appending, Sequencing, vars

LEMMA HoldStays ==
  ASSUME TypeInv, HoldInv, NEW w \in Workers, used'.orphans = used.orphans,
         \A v \in Workers \ {w} :
           pc'[v] = pc[v] /\ op'[v].kind = op[v].kind /\ hold'[v] = hold[v],
         HoldOf(hold'[w], op'[w].kind, pc'[w], used.orphans)
  PROVE  HoldInv'
<1>1. ASSUME NEW v \in Workers PROVE HoldOf(hold'[v], op'[v].kind, pc'[v], used'.orphans)
  BY <1>1 DEF HoldInv
<1> QED
  BY <1>1 DEF HoldInv

LEMMA OthersStay ==
  ASSUME TypeInv, NEW w \in Workers, NEW o, Becomes(w, o)
  PROVE  op'[w] = o /\ \A v \in Workers \ {w} : op'[v] = op[v]
  BY DEF TypeInv, Becomes

(* A call that returns keeps the lock of its turn only. *)
LEMMA ReturnHold ==
  ASSUME TypeInv, HoldInv, NEW w \in Workers, NEW from, Return(w, from),
         used'.orphans = used.orphans,
         \A v \in Workers \ {w} : hold'[v] = hold[v],
         hold'[w] = hold[w] \/ hold'[w] = "none",
         hold[w] = "turn" => hold'[w] = "turn",
         hold[w] \in {"append", "seq"} => hold'[w] = "none",
         from \notin {"idle", "readSeq"} \/ hold[w] # "turn"
  PROVE  HoldInv'
<1>1. /\ pc[w] = from /\ Becomes(w, NoOp)
      /\ pc'[w] = (IF hold[w] = "turn" THEN "turn" ELSE "idle")
      /\ \A v \in Workers \ {w} : pc'[v] = pc[v]
  BY ReturnIs
<1>2. op'[w] = NoOp /\ \A v \in Workers \ {w} : op'[v] = op[v]
  BY <1>1, OthersStay
<1>3. hold[w] \in {"none", "turn", "append", "seq"}
  BY DEF TypeInv
<1>4. HoldOf(hold'[w], op'[w].kind, pc'[w], used.orphans)
  BY <1>1, <1>3 DEF HoldOf
<1> QED
  BY <1>1, <1>2, <1>4, HoldStays

LEMMA HoldStep == IInv /\ [Next]_vars => HoldInv'
<1> SUFFICES ASSUME IInv, [Next]_vars PROVE HoldInv'
  OBVIOUS
<1>0. TypeInv /\ HoldInv /\ OwnerInv /\ KindInv /\ CountInv
  BY DEF IInv, LockInv
<1>a. used'.orphans = used.orphans
  BY OrphansStay
<1>b. \A w \in Workers : hold[w] \in {"none", "turn", "append", "seq"}
  BY <1>0 DEF TypeInv
<1>1. ASSUME NEW w \in Workers, BeginTurn(w) PROVE HoldInv'
  <2>1. /\ pc'[w] = "turn" /\ \A v \in Workers \ {w} : pc'[v] = pc[v]
        /\ hold'[w] = "turn" /\ \A v \in Workers \ {w} : hold'[v] = hold[v]
        /\ op' = op
    BY <1>0, <1>1 DEF BeginTurn, Goto, TypeInv
  <2>2. HoldOf(hold'[w], op'[w].kind, pc'[w], used.orphans)
    BY <2>1 DEF HoldOf
  <2> QED
    BY <1>0, <1>a, <2>1, <2>2, HoldStays
<1>2. ASSUME NEW w \in Workers, EndTurn(w) PROVE HoldInv'
  <2>1. /\ pc'[w] = "idle" /\ \A v \in Workers \ {w} : pc'[v] = pc[v]
        /\ hold'[w] = "none" /\ \A v \in Workers \ {w} : hold'[v] = hold[v]
        /\ op' = op
    BY <1>0, <1>2 DEF EndTurn, Goto, TypeInv
  <2>2. HoldOf(hold'[w], op'[w].kind, pc'[w], used.orphans)
    BY <2>1 DEF HoldOf
  <2> QED
    BY <1>0, <1>a, <2>1, <2>2, HoldStays
<1>3. ASSUME NEW w \in Workers, Abandon(w) PROVE HoldInv'
  <2>1. /\ pc' = pc /\ op' = op /\ used.orphans
        /\ hold'[w] = "none" /\ \A v \in Workers \ {w} : hold'[v] = hold[v]
        /\ op[w].kind \in Streamed
    BY <1>0, <1>3 DEF Abandon, TypeInv
  <2>2. pc[w] # "turn"
    BY <1>0, <2>1 DEF KindInv, KindOf, KindAt, Streamed
  <2>3. HoldOf(hold'[w], op'[w].kind, pc'[w], used.orphans)
    BY <2>1, <2>2 DEF HoldOf
  <2> QED
    BY <1>0, <1>a, <2>1, <2>3, HoldStays
<1>4. ASSUME NEW w \in Workers,
             \/ StartAppend(w) \/ StartToolEvent(w) \/ StartCompact(w) \/ StartStrip(w)
      PROVE HoldInv'
  <2>1. /\ pc[w] = "turn" /\ pc'[w] \in {"check", "seqMu", "claims", "memTruncate", "pairUp"}
        /\ \A v \in Workers \ {w} : pc'[v] = pc[v]
        /\ hold' = hold
    BY <1>0, <1>4 DEF StartAppend, StartToolEvent, StartCompact, StartStrip, Goto, TypeInv, lockVars
  <2>2. \A v \in Workers \ {w} : op'[v] = op[v]
    BY <1>0, <1>4, StartAppendIs, StartToolEventIs, StartCompactIs, StartStripIs, OthersStay
  <2>3. hold[w] = "turn"
    BY <1>0, <2>1 DEF HoldInv, HoldOf
  <2>4. HoldOf(hold'[w], op'[w].kind, pc'[w], used.orphans)
    BY <2>1, <2>3 DEF HoldOf
  <2> QED
    BY <1>0, <1>a, <2>1, <2>2, <2>4, HoldStays
<1>5. ASSUME NEW w \in Workers, StartRead(w) PROVE HoldInv'
  <2>1. /\ pc[w] = "idle" /\ pc'[w] = "readSeq" /\ hold' = hold
        /\ \A v \in Workers \ {w} : pc'[v] = pc[v]
    BY <1>0, <1>5 DEF StartRead, Goto, TypeInv, lockVars
  <2>2. \A v \in Workers \ {w} : op'[v] = op[v]
    BY <1>0, <1>5, StartReadIs, OthersStay
  <2>3. hold[w] = "none"
    BY <1>0, <1>b, <2>1 DEF HoldInv, HoldOf
  <2>4. HoldOf(hold'[w], op'[w].kind, pc'[w], used.orphans)
    BY <2>1, <2>3 DEF HoldOf
  <2> QED
    BY <1>0, <1>a, <2>1, <2>2, <2>4, HoldStays
<1>6. ASSUME NEW w \in Workers, CheckLocked(w) \/ CheckLockedForSeq(w) PROVE HoldInv'
  <2>1. /\ op' = op /\ hold' = hold /\ \A v \in Workers \ {w} : pc'[v] = pc[v]
        /\ \/ pc[w] = "check" /\ pc'[w] = (IF Mutex!HeldBy(ProcOf[w]) THEN "seqMu" ELSE "acquire")
           \/ pc[w] = "seqCheck" /\ pc'[w] = (IF Mutex!HeldBy(ProcOf[w]) THEN "alloc" ELSE "seqAcquire")
    BY <1>0, <1>6 DEF CheckLocked, CheckLockedForSeq, Goto, TypeInv, lockVars
  <2>2. hold[w] # "none" => Mutex!HeldBy(ProcOf[w])
    BY <1>0, BoundsAre DEF OwnerInv, Mutex!HeldBy
  <2>3. HoldOf(hold[w], op[w].kind, pc[w], used.orphans)
    BY <1>0 DEF HoldInv
  <2>4. HoldOf(hold'[w], op'[w].kind, pc'[w], used.orphans)
    BY <1>b, <2>1, <2>2, <2>3 DEF HoldOf
  <2> QED
    BY <1>0, <1>a, <2>1, <2>4, HoldStays
<1>7. ASSUME NEW w \in Workers, AcquireForAppend(w) \/ AcquireForSeq(w) PROVE HoldInv'
  <2>1. /\ op' = op /\ \A v \in Workers \ {w} : pc'[v] = pc[v] /\ hold'[v] = hold[v]
        /\ \/ pc[w] = "acquire" /\ pc'[w] = "seqMu" /\ hold'[w] = "append"
           \/ pc[w] = "seqAcquire" /\ pc'[w] = "alloc" /\ hold'[w] = "seq"
    BY <1>0, <1>7 DEF AcquireForAppend, AcquireForSeq, Goto, TypeInv
  <2>2. HoldOf(hold[w], op[w].kind, pc[w], used.orphans)
    BY <1>0 DEF HoldInv
  <2>3. KindAt(op[w].kind, pc[w])
    BY <1>0 DEF KindInv, KindOf
  <2>4. HoldOf(hold'[w], op'[w].kind, pc'[w], used.orphans)
    BY <2>1, <2>2, <2>3 DEF HoldOf, KindAt
  <2> QED
    BY <1>0, <1>a, <2>1, <2>4, HoldStays
<1>8. ASSUME NEW w \in Workers, LockSeqMu(w) \/ TruncateMemory(w) \/ WriteClaims(w) \/ WriteMemory(w)
      PROVE HoldInv'
  <2>1. /\ op' = op /\ hold' = hold /\ \A v \in Workers \ {w} : pc'[v] = pc[v]
        /\ \/ pc[w] = "seqMu" /\ pc'[w] = "seqCheck"
           \/ /\ pc[w] \in {"claims", "memTruncate", "claimsWrite", "memWrite"}
              /\ pc'[w] \in {"claimsWrite", "memWrite", "memTruncate", "readBack"}
    BY <1>0, <1>8 DEF LockSeqMu, TruncateMemory, WriteClaims, WriteMemory, Goto, TypeInv, lockVars
  <2>2. HoldOf(hold[w], op[w].kind, pc[w], used.orphans)
    BY <1>0 DEF HoldInv
  <2>3. HoldOf(hold'[w], op'[w].kind, pc'[w], used.orphans)
    BY <1>b, <2>1, <2>2 DEF HoldOf
  <2> QED
    BY <1>0, <1>a, <2>1, <2>3, HoldStays
<1>9. ASSUME NEW w \in Workers, OpenLog(w) \/ ReadBack(w) \/ PairUp(w) PROVE HoldInv'
  <2>1. /\ hold' = hold /\ \A v \in Workers \ {w} : pc'[v] = pc[v]
        /\ \/ pc[w] = "open" /\ pc'[w] = "write"
           \/ pc[w] = "readBack" /\ pc'[w] = "seqMu"
           \/ pc[w] = "pairUp" /\ pc'[w] = "rewrite"
    BY <1>0, <1>9 DEF OpenLog, ReadBack, PairUp, Goto, TypeInv, lockVars
  <2>2. PICK o \in Ops : Becomes(w, o) /\ o.kind = op[w].kind
    <3>1. CASE OpenLog(w)
      <4>1. PICK o \in Ops : Becomes(w, o) /\ o = [op[w] EXCEPT !.fd = inode]
        BY <1>0, <3>1, OpenLogIs
      <4> QED
        BY <1>0, <4>1, OpIs DEF Ops
    <3>2. CASE ReadBack(w) \/ PairUp(w)
      <4>1. PICK o \in Ops, rest \in Seq(Lines) : Becomes(w, o) /\ o = [op[w] EXCEPT !.rest = rest]
        BY <1>0, <3>2, ReadBackIs, PairUpIs
      <4> QED
        BY <1>0, <4>1, OpIs DEF Ops
    <3> QED
      BY <1>9, <3>1, <3>2
  <2>3. op'[w].kind = op[w].kind /\ \A v \in Workers \ {w} : op'[v] = op[v]
    BY <1>0, <2>2, OthersStay
  <2>4. HoldOf(hold[w], op[w].kind, pc[w], used.orphans)
    BY <1>0 DEF HoldInv
  <2>5. HoldOf(hold'[w], op'[w].kind, pc'[w], used.orphans)
    BY <1>b, <2>1, <2>3, <2>4 DEF HoldOf
  <2> QED
    BY <1>0, <1>a, <2>1, <2>3, <2>5, HoldStays
<1>10. ASSUME NEW w \in Workers, WriteLine(w) \/ WriteFails(w) PROVE HoldInv'
  <2>1. Return(w, "write") /\ ReleaseOwn(w, "append") /\ pc[w] = "write"
    BY <1>0, <1>10, ReturnIs DEF WriteLine, WriteFails
  <2>2. /\ \A v \in Workers \ {w} : hold'[v] = hold[v]
        /\ hold'[w] = (IF hold[w] = "append" THEN "none" ELSE hold[w])
    BY <1>0, <2>1, ReleaseIs DEF TypeInv
  <2>3. hold[w] # "seq"
    BY <1>0, <2>1 DEF HoldInv, HoldOf
  <2> QED
    BY <1>0, <1>a, <1>b, <2>1, <2>2, <2>3, ReturnHold
<1>11. ASSUME NEW w \in Workers, Allocate(w) PROVE HoldInv'
  <2>1. ReleaseOwn(w, "seq") /\ pc[w] = "alloc"
    BY <1>0, <1>11, AllocateIs DEF Allocate
  <2>2. /\ \A v \in Workers \ {w} : hold'[v] = hold[v]
        /\ hold'[w] = (IF hold[w] = "seq" THEN "none" ELSE hold[w])
    BY <1>0, <2>1, ReleaseIs DEF TypeInv
  <2>3. HoldOf(hold[w], op[w].kind, "alloc", used.orphans)
    BY <1>0, <2>1 DEF HoldInv
  <2>4. CASE op[w].kind = "tool"
    <3>1. Return(w, "alloc") /\ hold[w] # "append"
      BY <1>11, <2>3, <2>4 DEF Allocate, HoldOf
    <3> QED
      BY <1>0, <1>a, <1>b, <2>2, <3>1, ReturnHold
  <2>5. CASE op[w].kind # "tool"
    <3>1. PICK next \in Nat, o \in Ops :
            /\ Becomes(w, o) /\ o = [op[w] EXCEPT !.seq = next]
            /\ pc'[w] = (IF op[w].kind = "compact" THEN "rewrite" ELSE "open")
            /\ \A v \in Workers \ {w} : pc'[v] = pc[v]
      BY <1>0, <1>11, <2>5, AllocateIs
    <3>2. op'[w].kind = op[w].kind /\ \A v \in Workers \ {w} : op'[v] = op[v]
      <4>1. o.kind = op[w].kind
        BY <1>0, <3>1, OpIs DEF Ops
      <4> QED
        BY <1>0, <3>1, <4>1, OthersStay
    <3>3. HoldOf(hold'[w], op'[w].kind, pc'[w], used.orphans)
      BY <1>b, <2>2, <2>3, <3>1, <3>2 DEF HoldOf
    <3> QED
      BY <1>0, <1>a, <2>2, <3>1, <3>2, <3>3, HoldStays
  <2> QED
    BY <2>4, <2>5
<1>12. ASSUME NEW w \in Workers, NEW from,
              \/ ReadSeq(w) \/ RewriteCompacted(w) \/ RewriteStripped(w) \/ SummaryFails(w) \/ RewriteFails(w),
              Return(w, from)
       PROVE  HoldInv'
  <2>1. hold' = hold /\ pc[w] = from
    BY <1>0, <1>12, ReturnIs DEF ReadSeq, RewriteCompacted, RewriteStripped, SummaryFails, RewriteFails, lockVars
  <2>2. from \in {"readSeq", "rewrite", "memTruncate", "memWrite", "readBack", "pairUp"}
    <3>1. \E step \in {"readSeq", "rewrite", "memTruncate", "memWrite", "readBack", "pairUp"} : Return(w, step)
      BY <1>12 DEF ReadSeq, RewriteCompacted, RewriteStripped, SummaryFails, RewriteFails
    <3> QED
      BY <1>0, <2>1, <3>1, ReturnIs
  <2>3. HoldOf(hold[w], op[w].kind, pc[w], used.orphans)
    BY <1>0 DEF HoldInv
  <2>4. hold[w] \notin {"append", "seq"} /\ (from = "readSeq" => hold[w] # "turn") /\ from # "idle"
    BY <2>1, <2>2, <2>3 DEF HoldOf
  <2> QED
    BY <1>0, <1>a, <1>12, <2>1, <2>4, ReturnHold
<1>13. ASSUME NEW w \in Workers,
              \/ ReadSeq(w) \/ RewriteCompacted(w) \/ RewriteStripped(w) \/ SummaryFails(w) \/ RewriteFails(w)
       PROVE  HoldInv'
  <2>1. \E from : Return(w, from)
    BY <1>13 DEF ReadSeq, RewriteCompacted, RewriteStripped, SummaryFails, RewriteFails
  <2> QED
    BY <1>12, <1>13, <2>1
<1>14. ASSUME NEW p \in Procs, Crash(p) PROVE HoldInv'
  <2>1. ASSUME NEW w \in Workers PROVE HoldOf(hold'[w], op'[w].kind, pc'[w], used'.orphans)
    <3>1. \/ hold'[w] = "none" /\ pc'[w] = "idle"
          \/ hold'[w] = hold[w] /\ pc'[w] = pc[w] /\ op'[w] = op[w]
      BY <1>14 DEF Crash
    <3> QED
      BY <1>0, <1>a, <3>1 DEF HoldInv, HoldOf
  <2> QED
    BY <2>1 DEF HoldInv
<1>15. CASE UNCHANGED vars
  BY <1>0, <1>15 DEF HoldInv, vars
<1> QED
  BY <1>1, <1>2, <1>3, <1>4, <1>5, <1>6, <1>7, <1>8, <1>9, <1>10, <1>11, <1>13, <1>14, <1>15
     DEF Next, Starting, Appending, Sequencing, Rewriting

LEMMA MuStays ==
  ASSUME TypeInv, MuInv, seqMu' = seqMu,
         \A v \in Workers : pc[v] \in InSeqMu => pc'[v] \in InSeqMu
  PROVE  MuInv'
  BY DEF MuInv

LEMMA MuStep == IInv /\ [Next]_vars => MuInv'
<1> SUFFICES ASSUME IInv, [Next]_vars PROVE MuInv'
  OBVIOUS
<1>0. TypeInv /\ MuInv /\ CountInv
  BY DEF IInv, LockInv
<1>1. ASSUME NEW w \in Workers, NEW from, NEW to \in Steps, Goto(w, from, to), seqMu' = seqMu,
             from \notin InSeqMu \/ to \in InSeqMu
      PROVE  MuInv'
  <2>1. pc[w] = from /\ pc'[w] = to /\ \A v \in Workers \ {w} : pc'[v] = pc[v]
    BY <1>0, <1>1, GotoType DEF Goto
  <2> QED
    BY <1>0, <1>1, <2>1, MuStays
<1>2. ASSUME NEW w \in Workers, NEW from, Return(w, from), seqMu' = seqMu, from \notin InSeqMu
      PROVE  MuInv'
  <2>1. pc[w] = from /\ \A v \in Workers \ {w} : pc'[v] = pc[v]
    BY <1>0, <1>2, ReturnIs
  <2> QED
    BY <1>0, <1>2, <2>1, MuStays
<1>3. ASSUME NEW w \in Workers,
             \/ BeginTurn(w) \/ EndTurn(w) \/ StartAppend(w) \/ StartToolEvent(w) \/ StartRead(w)
             \/ StartCompact(w) \/ StartStrip(w) \/ CheckLocked(w) \/ AcquireForAppend(w)
             \/ OpenLog(w) \/ CheckLockedForSeq(w) \/ AcquireForSeq(w) \/ TruncateMemory(w)
             \/ WriteClaims(w) \/ WriteMemory(w) \/ ReadBack(w) \/ PairUp(w)
      PROVE  MuInv'
  <2>1. /\ seqMu' = seqMu
        /\ \/ \E from \in Steps \ InSeqMu, to \in Steps : Goto(w, from, to)
           \/ \E from \in InSeqMu, to \in InSeqMu : Goto(w, from, to)
    BY <1>3 DEF BeginTurn, EndTurn, StartAppend, StartToolEvent, StartRead, StartCompact, StartStrip,
       CheckLocked, AcquireForAppend, OpenLog, CheckLockedForSeq, AcquireForSeq, TruncateMemory,
       WriteClaims, WriteMemory, ReadBack, PairUp, seqVars, Steps, InSeqMu
  <2> QED
    BY <1>1, <2>1 DEF InSeqMu, Steps
<1>4. ASSUME NEW w \in Workers,
             \/ WriteLine(w) \/ WriteFails(w) \/ ReadSeq(w) \/ RewriteCompacted(w)
             \/ RewriteStripped(w) \/ SummaryFails(w) \/ RewriteFails(w)
      PROVE  MuInv'
  <2>1. seqMu' = seqMu /\ \E from : Return(w, from) /\ from \notin InSeqMu
    BY <1>4 DEF WriteLine, WriteFails, ReadSeq, RewriteCompacted, RewriteStripped,
       SummaryFails, RewriteFails, seqVars, InSeqMu
  <2> QED
    BY <1>2, <2>1
<1>5. ASSUME NEW w \in Workers, Abandon(w) PROVE MuInv'
  BY <1>0, <1>5 DEF Abandon, MuInv, seqVars
<1>6. ASSUME NEW w \in Workers, LockSeqMu(w) PROVE MuInv'
  <2>1. /\ seqMu' = [seqMu EXCEPT ![ProcOf[w]] = w]
        /\ pc[w] = "seqMu" /\ pc'[w] = "seqCheck" /\ \A v \in Workers \ {w} : pc'[v] = pc[v]
    BY <1>0, <1>6, GotoType DEF LockSeqMu, Goto, Steps
  <2>2. seqMu \in [Procs -> Workers \cup {NoOne}]
    BY <1>0 DEF TypeInv
  <2> QED
    BY <1>0, <2>1, <2>2 DEF MuInv, InSeqMu
<1>7. ASSUME NEW w \in Workers, Allocate(w) PROVE MuInv'
  <2>1. /\ seqMu' = [seqMu EXCEPT ![ProcOf[w]] = NoOne]
        /\ pc[w] = "alloc" /\ \A v \in Workers \ {w} : pc'[v] = pc[v]
    BY <1>0, <1>7, AllocateIs
  <2>2. seqMu \in [Procs -> Workers \cup {NoOne}]
    BY <1>0 DEF TypeInv
  <2>3. ASSUME NEW p \in Procs, NEW v \in Workers, seqMu'[p] = v
        PROVE ProcOf[v] = p /\ pc'[v] \in InSeqMu
    <3>1. v # NoOne
      BY BoundsAre
    <3>2. p # ProcOf[w] /\ seqMu[p] = v
      BY <2>1, <2>2, <2>3, <3>1
    <3>3. ProcOf[v] = p /\ pc[v] \in InSeqMu
      BY <1>0, <3>2 DEF MuInv
    <3>4. v # w
      BY <3>2, <3>3
    <3> QED
      BY <2>1, <3>3, <3>4
  <2> QED
    BY <2>3 DEF MuInv
<1>8. ASSUME NEW p \in Procs, Crash(p) PROVE MuInv'
  <2>1. /\ seqMu' = [seqMu EXCEPT ![p] = NoOne]
        /\ \A v \in Workers : ProcOf[v] # p => pc'[v] = pc[v]
    BY <1>8 DEF Crash
  <2>2. seqMu \in [Procs -> Workers \cup {NoOne}]
    BY <1>0 DEF TypeInv
  <2>3. ASSUME NEW q \in Procs, NEW v \in Workers, seqMu'[q] = v
        PROVE ProcOf[v] = q /\ pc'[v] \in InSeqMu
    <3>1. v # NoOne
      BY BoundsAre
    <3>2. q # p /\ seqMu[q] = v
      BY <2>1, <2>2, <2>3, <3>1
    <3>3. ProcOf[v] = q /\ pc[v] \in InSeqMu
      BY <1>0, <3>2 DEF MuInv
    <3> QED
      BY <2>1, <3>2, <3>3
  <2> QED
    BY <2>3 DEF MuInv
<1>9. CASE UNCHANGED vars
  BY <1>0, <1>9 DEF MuInv, vars
<1> QED
  BY <1>3, <1>4, <1>5, <1>6, <1>7, <1>8, <1>9 DEF Next, Starting, Appending, Sequencing, Rewriting

LEMMA LockStep == IInv /\ [Next]_vars => LockInv'
  BY OwnerStep, HoldStep, MuStep DEF LockInv

(* Without orphans, one worker at most is inside an operation of its turn. *)
LEMMA Alone ==
  ASSUME TypeInv, LockInv, ~used.orphans, NEW w \in Workers, NEW v \in Workers,
         pc[w] \notin {"idle", "readSeq"}, v # w
  PROVE  pc[v] \in {"idle", "readSeq"} /\ owner = w /\ hold[w] = "turn"
<1>1. hold[w] = "turn" /\ owner = w
  BY DEF LockInv, HoldInv, HoldOf, OwnerInv
<1>2. ASSUME pc[v] \notin {"idle", "readSeq"} PROVE FALSE
  <2>1. hold[v] = "turn" /\ owner = v
    BY <1>2 DEF LockInv, HoldInv, HoldOf, OwnerInv
  <2> QED
    BY <1>1, <2>1
<1> QED
  BY <1>1, <1>2

-----------------------------------------------------------------------------
(* A step is one worker's, or the end of a process. *)

StepBy(w) ==
  Starting(w) \/ Appending(w) \/ Sequencing(w) \/ Rewriting(w)
  \/ EndTurn(w) \/ Abandon(w) \/ WriteFails(w) \/ SummaryFails(w) \/ RewriteFails(w)

LEMMA NextIs ==
  [Next]_vars => (\E w \in Workers : StepBy(w)) \/ (\E p \in Procs : Crash(p)) \/ UNCHANGED vars
  BY DEF Next, StepBy

LEMMA FrameIs ==
  ASSUME TypeInv, CountInv, KindInv, NEW w \in Workers, StepBy(w)
  PROVE  \A v \in Workers \ {w} : pc'[v] = pc[v] /\ op'[v] = op[v]
<1>1. ASSUME NEW from, NEW to \in Steps, Goto(w, from, to) PROVE \A v \in Workers \ {w} : pc'[v] = pc[v]
  BY <1>1, GotoType
<1>2. ASSUME NEW from, Return(w, from)
      PROVE \A v \in Workers \ {w} : pc'[v] = pc[v] /\ op'[v] = op[v]
  BY <1>2, ReturnIs, OthersStay
<1>3. CASE \/ BeginTurn(w) \/ EndTurn(w) \/ CheckLocked(w) \/ AcquireForAppend(w)
           \/ LockSeqMu(w) \/ CheckLockedForSeq(w) \/ AcquireForSeq(w) \/ TruncateMemory(w)
           \/ WriteClaims(w) \/ WriteMemory(w)
  <2>1. op' = op /\ \E from, to \in Steps : Goto(w, from, to)
    BY <1>3 DEF BeginTurn, EndTurn, CheckLocked, AcquireForAppend, LockSeqMu, CheckLockedForSeq,
       AcquireForSeq, TruncateMemory, WriteClaims, WriteMemory, Steps
  <2> QED
    BY <1>1, <2>1
<1>4. CASE \/ StartAppend(w) \/ StartToolEvent(w) \/ StartRead(w) \/ StartCompact(w)
           \/ StartStrip(w) \/ OpenLog(w) \/ ReadBack(w) \/ PairUp(w)
  <2>1. \E from, to \in Steps : Goto(w, from, to)
    BY <1>4 DEF StartAppend, StartToolEvent, StartRead, StartCompact, StartStrip, OpenLog,
       ReadBack, PairUp, Steps
  <2>2. \E o : Becomes(w, o)
    BY <1>4, StartAppendIs, StartToolEventIs, StartReadIs, StartCompactIs, StartStripIs,
       OpenLogIs, ReadBackIs, PairUpIs
  <2> QED
    BY <1>1, <2>1, <2>2, OthersStay
<1>5. CASE \/ WriteLine(w) \/ WriteFails(w) \/ ReadSeq(w) \/ RewriteCompacted(w)
           \/ RewriteStripped(w) \/ SummaryFails(w) \/ RewriteFails(w)
  <2>1. \E from : Return(w, from)
    BY <1>5 DEF WriteLine, WriteFails, ReadSeq, RewriteCompacted, RewriteStripped, SummaryFails,
       RewriteFails
  <2> QED
    BY <1>2, <2>1
<1>6. CASE Allocate(w)
  BY <1>6, AllocateIs, OthersStay
<1>7. CASE Abandon(w)
  BY <1>7 DEF Abandon
<1> QED
  BY <1>3, <1>4, <1>5, <1>6, <1>7 DEF StepBy, Starting, Appending, Sequencing, Rewriting

(* What a worker does that is not in an operation of its turn. *)
LEMMA IdleSteps ==
  ASSUME TypeInv, KindInv, CountInv, LockInv, NEW w \in Workers, StepBy(w), pc[w] \in {"idle", "readSeq"}
  PROVE  /\ log' = log /\ terminated' = terminated /\ inode' = inode /\ memory' = memory
         /\ acked' = acked /\ torn' = torn /\ used' = used
         /\ op'[w].kind \in {"none", "read"} /\ op[w].mem = {} /\ op'[w].mem = {}
         /\ pc'[w] \in {"idle", "turn", "readSeq"}
<1>1. ~Abandon(w)
  <2>1. hold[w] # "turn"
    BY DEF LockInv, HoldInv, HoldOf
  <2> QED
    BY <2>1 DEF Abandon
<1>2. BeginTurn(w) \/ StartRead(w) \/ ReadSeq(w)
  BY <1>1 DEF StepBy, Starting, Appending, Sequencing, Rewriting, EndTurn, WriteFails, SummaryFails,
     RewriteFails, StartAppend, StartToolEvent, StartCompact, StartStrip, CheckLocked,
     AcquireForAppend, OpenLog, WriteLine, LockSeqMu, CheckLockedForSeq, AcquireForSeq,
     Allocate, TruncateMemory, WriteClaims, WriteMemory, ReadBack, RewriteCompacted, PairUp,
     RewriteStripped, Return, Goto
<1>3. KindOf(op[w], pc[w])
  BY DEF KindInv
<1>4. op[w].kind \in {"none", "read"} /\ op[w].mem = {}
  BY <1>3 DEF KindOf, KindAt
<1>5. CASE BeginTurn(w)
  BY <1>4, <1>5 DEF BeginTurn, Goto, TypeInv, fileVars, ghosts
<1>6. CASE StartRead(w)
  <2>1. PICK o \in Ops : Becomes(w, o) /\ o = [op[w] EXCEPT !.kind = "read"]
    BY <1>6, StartReadIs
  <2>2. o.kind = "read" /\ o.mem = op[w].mem
    BY <2>1, OpIs DEF Ops
  <2>3. op'[w] = o
    BY <2>1, OthersStay
  <2> QED
    BY <1>4, <1>6, <2>2, <2>3 DEF StartRead, Goto, TypeInv, fileVars, ghosts
<1>7. CASE ReadSeq(w)
  <2>1. op'[w] = NoOp /\ pc'[w] \in {"idle", "turn"}
    BY <1>7, ReturnIs, OthersStay DEF ReadSeq
  <2> QED
    BY <1>4, <1>7, <2>1, NoOpIs DEF ReadSeq, fileVars, ghosts
<1> QED
  BY <1>2, <1>5, <1>6, <1>7

(* A kind that rewrites comes from the start of a rewrite. *)
LEMMA KindChanges ==
  ASSUME TypeInv, CountInv, KindInv, NEW w \in Workers, StepBy(w)
  PROVE  \/ StartCompact(w) \/ StartStrip(w)
         \/ op'[w].kind = op[w].kind
         \/ op'[w].kind \notin {"compact", "strip"}
<1>1. CASE \/ BeginTurn(w) \/ EndTurn(w) \/ CheckLocked(w) \/ AcquireForAppend(w)
           \/ LockSeqMu(w) \/ CheckLockedForSeq(w) \/ AcquireForSeq(w) \/ TruncateMemory(w)
           \/ WriteClaims(w) \/ WriteMemory(w) \/ Abandon(w)
  BY <1>1 DEF BeginTurn, EndTurn, CheckLocked, AcquireForAppend, LockSeqMu, CheckLockedForSeq,
       AcquireForSeq, TruncateMemory, WriteClaims, WriteMemory, Abandon
<1>2. CASE StartAppend(w)
  <2>1. PICK o \in Ops, k \in {"user", "event"} :
          Becomes(w, o) /\ o = [op[w] EXCEPT !.kind = k, !.id = used.turns + 1]
    BY <1>2, StartAppendIs
  <2>2. o.kind = k /\ op'[w] = o
    BY <2>1, OpIs, OthersStay DEF Ops
  <2> QED
    BY <2>2
<1>3. CASE StartToolEvent(w)
  <2>1. PICK o \in Ops : Becomes(w, o) /\ o = [op[w] EXCEPT !.kind = "tool"]
    BY <1>3, StartToolEventIs
  <2>2. o.kind = "tool" /\ op'[w] = o
    BY <2>1, OpIs, OthersStay DEF Ops
  <2> QED
    BY <2>2
<1>4. CASE StartRead(w)
  <2>1. PICK o \in Ops : Becomes(w, o) /\ o = [op[w] EXCEPT !.kind = "read"]
    BY <1>4, StartReadIs
  <2>2. o.kind = "read" /\ op'[w] = o
    BY <2>1, OpIs, OthersStay DEF Ops
  <2> QED
    BY <2>2
<1>5. CASE OpenLog(w)
  <2>1. PICK o \in Ops : Becomes(w, o) /\ o = [op[w] EXCEPT !.fd = inode]
    BY <1>5, OpenLogIs
  <2>2. o.kind = op[w].kind /\ op'[w] = o
    BY <2>1, OpIs, OthersStay DEF Ops
  <2> QED
    BY <2>2
<1>6. CASE ReadBack(w) \/ PairUp(w)
  <2>1. PICK o \in Ops, rest \in Seq(Lines) : Becomes(w, o) /\ o = [op[w] EXCEPT !.rest = rest]
    BY <1>6, ReadBackIs, PairUpIs
  <2>2. o.kind = op[w].kind /\ op'[w] = o
    BY <2>1, OpIs, OthersStay DEF Ops
  <2> QED
    BY <2>2
<1>7. ASSUME NEW from, Return(w, from) PROVE op'[w].kind \notin {"compact", "strip"}
  BY <1>7, ReturnIs, OthersStay, NoOpIs
<1>8. CASE \/ WriteLine(w) \/ WriteFails(w) \/ ReadSeq(w) \/ RewriteCompacted(w)
           \/ RewriteStripped(w) \/ SummaryFails(w) \/ RewriteFails(w)
  BY <1>7, <1>8 DEF WriteLine, WriteFails, ReadSeq, RewriteCompacted, RewriteStripped, SummaryFails,
       RewriteFails
<1>9. CASE Allocate(w)
  <2>1. CASE op[w].kind = "tool"
    BY <1>7, <1>9, <2>1 DEF Allocate
  <2>2. CASE op[w].kind # "tool"
    <3>1. PICK next \in Nat, o \in Ops : Becomes(w, o) /\ o = [op[w] EXCEPT !.seq = next]
      BY <1>9, <2>2, AllocateIs
    <3>2. o.kind = op[w].kind /\ op'[w] = o
      BY <3>1, OpIs, OthersStay DEF Ops
    <3> QED
      BY <3>2
  <2> QED
    BY <2>1, <2>2
<1> QED
  BY <1>1, <1>2, <1>3, <1>4, <1>5, <1>6, <1>8, <1>9 DEF StepBy, Starting, Appending, Sequencing, Rewriting

LEMMA OrphanStep == IInv /\ [Next]_vars => OrphanInv'
<1> SUFFICES ASSUME IInv, [Next]_vars, used'.orphans PROVE OrphanInv'
  BY DEF OrphanInv
<1>0. TypeInv /\ KindInv /\ CountInv /\ OrphanInv /\ used.orphans
  BY OrphansStay DEF IInv
<1>a. ~(used.faults < MaxFaults) /\ terminated /\ used.faults = MaxFaults
  BY <1>0, BoundsAre, UsedIs DEF OrphanInv
<1>b. OrphanRewrites = 0 => ~(used.rewrites < MaxRewrites) /\ used.rewrites = MaxRewrites
  BY <1>0, BoundsAre, UsedIs DEF OrphanInv
<1>c. used \in Uses
  BY <1>0 DEF TypeInv
<1>1. ASSUME NEW w \in Workers, StepBy(w) PROVE OrphanInv'
  <2>1. ~WriteFails(w) /\ ~RewriteFails(w)
    BY <1>a DEF WriteFails, RewriteFails
  <2>2. terminated'
    BY <1>a, <1>1, <2>1 DEF StepBy, Starting, Appending, Sequencing, Rewriting,
       BeginTurn, StartAppend, StartToolEvent, StartRead, StartCompact, StartStrip, EndTurn, Abandon,
       CheckLocked, AcquireForAppend, OpenLog, WriteLine, LockSeqMu, CheckLockedForSeq,
       AcquireForSeq, Allocate, ReadSeq, TruncateMemory, WriteClaims, WriteMemory, ReadBack,
       RewriteCompacted, PairUp, RewriteStripped, SummaryFails, Rename, fileVars
  <2>3. used'.faults = used.faults
    <3>1. CASE StartAppend(w) \/ StartToolEvent(w) \/ StartCompact(w) \/ StartStrip(w)
      BY <1>c, <3>1 DEF StartAppend, StartToolEvent, StartCompact, StartStrip, Uses
    <3>2. CASE ~(StartAppend(w) \/ StartToolEvent(w) \/ StartCompact(w) \/ StartStrip(w))
      <4>1. used' = used
        BY <1>a, <1>1, <2>1, <3>2 DEF StepBy, Starting, Appending, Sequencing, Rewriting,
           BeginTurn, StartRead, EndTurn, Abandon,
           CheckLocked, AcquireForAppend, OpenLog, WriteLine, LockSeqMu, CheckLockedForSeq,
           AcquireForSeq, Allocate, ReadSeq, TruncateMemory, WriteClaims, WriteMemory, ReadBack,
           RewriteCompacted, PairUp, RewriteStripped, SummaryFails
      <4> QED
        BY <4>1
    <3> QED
      BY <3>1, <3>2
  <2>4. ASSUME OrphanRewrites = 0
        PROVE  used'.rewrites = MaxRewrites /\ \A v \in Workers : op'[v].kind \notin {"compact", "strip"}
    <3>1. ~StartCompact(w) /\ ~StartStrip(w)
      BY <1>b, <2>4 DEF StartCompact, StartStrip
    <3>2. used'.rewrites = used.rewrites
      <4>1. CASE StartAppend(w) \/ StartToolEvent(w)
        BY <1>c, <4>1 DEF StartAppend, StartToolEvent, Uses
      <4>2. CASE ~(StartAppend(w) \/ StartToolEvent(w))
        <5>1. used' = used
          BY <1>a, <1>1, <2>1, <3>1, <4>2 DEF StepBy, Starting, Appending, Sequencing, Rewriting,
             BeginTurn, StartRead, EndTurn, Abandon,
             CheckLocked, AcquireForAppend, OpenLog, WriteLine, LockSeqMu, CheckLockedForSeq,
             AcquireForSeq, Allocate, ReadSeq, TruncateMemory, WriteClaims, WriteMemory, ReadBack,
             RewriteCompacted, PairUp, RewriteStripped, SummaryFails
        <5> QED
          BY <5>1
      <4> QED
        BY <4>1, <4>2
    <3>3. ASSUME NEW v \in Workers PROVE op'[v].kind \notin {"compact", "strip"}
      <4>1. op[v].kind \notin {"compact", "strip"}
        BY <1>0, <2>4 DEF OrphanInv
      <4>2. CASE v # w
        BY <1>0, <1>1, <4>1, <4>2, FrameIs
      <4>3. CASE v = w
        BY <1>0, <1>1, <3>1, <4>1, <4>3, KindChanges
      <4> QED
        BY <4>2, <4>3
    <3> QED
      BY <1>b, <2>4, <3>2, <3>3
  <2> QED
    BY <1>a, <2>2, <2>3, <2>4 DEF OrphanInv
<1>2. ASSUME NEW p \in Procs, Crash(p) PROVE OrphanInv'
  BY <1>a, <1>2 DEF Crash
<1>3. CASE UNCHANGED vars
  BY <1>0, <1>3 DEF OrphanInv, vars
<1> QED
  BY <1>1, <1>2, <1>3, NextIs

(* Only a rename gives session.jsonl another file. *)
LEMMA InodeStays ==
  ASSUME NEW w \in Workers, StepBy(w), ~RewriteCompacted(w), ~RewriteStripped(w)
  PROVE  inode' = inode
  BY DEF StepBy, Starting, Appending, Sequencing, Rewriting,
       BeginTurn, StartAppend, StartToolEvent, StartRead, StartCompact, StartStrip, EndTurn, Abandon,
       CheckLocked, AcquireForAppend, OpenLog, WriteLine, LockSeqMu, CheckLockedForSeq,
       AcquireForSeq, Allocate, ReadSeq, TruncateMemory, WriteClaims, WriteMemory, ReadBack,
       PairUp, SummaryFails, WriteFails, RewriteFails, fileVars

(* A worker comes to write by opening the file. *)
LEMMA OpensFirst ==
  ASSUME TypeInv, CountInv, NEW w \in Workers, StepBy(w), pc'[w] = "write"
  PROVE  OpenLog(w) \/ Abandon(w)
<1>1. ASSUME NEW from, NEW to \in Steps \ {"write"}, Goto(w, from, to) PROVE FALSE
  BY <1>1, GotoType
<1>2. ASSUME NEW from, Return(w, from) PROVE FALSE
  BY <1>2, ReturnIs
<1>3. ASSUME \/ BeginTurn(w) \/ EndTurn(w) \/ CheckLocked(w) \/ AcquireForAppend(w)
             \/ LockSeqMu(w) \/ CheckLockedForSeq(w) \/ AcquireForSeq(w) \/ TruncateMemory(w)
             \/ WriteClaims(w) \/ WriteMemory(w) \/ StartAppend(w) \/ StartToolEvent(w)
             \/ StartRead(w) \/ StartCompact(w) \/ StartStrip(w) \/ ReadBack(w) \/ PairUp(w)
      PROVE  FALSE
  <2>1. \E from, to \in Steps \ {"write"} : Goto(w, from, to)
    BY <1>3 DEF BeginTurn, EndTurn, CheckLocked, AcquireForAppend, LockSeqMu, CheckLockedForSeq,
       AcquireForSeq, TruncateMemory, WriteClaims, WriteMemory, StartAppend, StartToolEvent,
       StartRead, StartCompact, StartStrip, ReadBack, PairUp, Steps
  <2> QED
    BY <1>1, <2>1
<1>4. ASSUME \/ WriteLine(w) \/ WriteFails(w) \/ ReadSeq(w) \/ RewriteCompacted(w)
             \/ RewriteStripped(w) \/ SummaryFails(w) \/ RewriteFails(w)
      PROVE  FALSE
  <2>1. \E from : Return(w, from)
    BY <1>4 DEF WriteLine, WriteFails, ReadSeq, RewriteCompacted, RewriteStripped, SummaryFails,
       RewriteFails
  <2> QED
    BY <1>2, <2>1
<1>5. ASSUME Allocate(w) PROVE FALSE
  BY <1>5, AllocateIs
<1> QED
  BY <1>3, <1>4, <1>5 DEF StepBy, Starting, Appending, Sequencing, Rewriting

LEMMA WriteStep == IInv /\ [Next]_vars => WriteInv'
<1> SUFFICES ASSUME IInv, [Next]_vars, NEW v \in Workers, pc'[v] = "write"
             PROVE terminated' /\ (Calm => op'[v].fd = inode')
  BY OrphansStay DEF WriteInv, Calm
<1>0. TypeInv /\ KindInv /\ CountInv /\ LockInv /\ WriteInv /\ OrphanInv
  BY DEF IInv
<1>a. used.orphans => terminated' /\ used.faults = MaxFaults
  BY OrphanStep, OrphansStay DEF IInv, OrphanInv
<1>b. KindOf(op[v], pc[v]) /\ (pc[v] = "write" => op[v].kind \in {"user", "event"})
  BY <1>0 DEF KindInv, KindOf, KindAt
<1>1. ASSUME NEW w \in Workers, StepBy(w), v = w
      PROVE  terminated' /\ (Calm => op'[v].fd = inode')
  <2>1. CASE OpenLog(w)
    <3>1. PICK o \in Ops : Becomes(w, o) /\ o = [op[w] EXCEPT !.fd = inode]
      BY <1>0, <2>1, OpenLogIs
    <3>2. o.fd = inode /\ op'[w] = o
      BY <1>0, <3>1, OpIs, OthersStay DEF Ops
    <3> QED
      BY <1>1, <2>1, <3>2 DEF OpenLog
  <2>2. CASE Abandon(w)
    <3>1. pc' = pc /\ op' = op /\ terminated' = terminated /\ inode' = inode
      BY <2>2 DEF Abandon, fileVars
    <3> QED
      BY <1>0, <3>1 DEF WriteInv
  <2> QED
    BY <1>0, <1>1, <2>1, <2>2, OpensFirst
<1>2. ASSUME NEW w \in Workers, StepBy(w), v # w
      PROVE  terminated' /\ (Calm => op'[v].fd = inode')
  <2>1. pc[v] = "write" /\ op'[v] = op[v] /\ terminated /\ (Calm => op[v].fd = inode)
    BY <1>0, <1>2, FrameIs DEF WriteInv
  <2>2. CASE ~used.orphans
    <3>1. pc[w] \in {"idle", "readSeq"}
      BY <1>0, <1>2, <2>1, <2>2, Alone
    <3>2. terminated' = terminated /\ inode' = inode
      BY <1>0, <1>2, <3>1, IdleSteps
    <3> QED
      BY <2>1, <3>2
  <2>3. CASE used.orphans
    <3>1. ASSUME Calm PROVE inode' = inode
      <4>1. op[w].kind \notin {"compact", "strip"}
        BY <1>0, <2>3, <3>1 DEF Calm, OrphanInv
      <4>2. ~RewriteCompacted(w) /\ ~RewriteStripped(w)
        BY <4>1 DEF RewriteCompacted, RewriteStripped
      <4> QED
        BY <1>2, <4>2, InodeStays
    <3> QED
      BY <1>a, <2>1, <2>3, <3>1
  <2> QED
    BY <1>0, <2>2, <2>3, UsedIs
<1>3. ASSUME NEW p \in Procs, Crash(p)
      PROVE  terminated' /\ (Calm => op'[v].fd = inode')
  <2>1. ProcOf[v] # p /\ pc[v] = "write" /\ op'[v] = op[v] /\ inode' = inode
    BY <1>3 DEF Crash
  <2>2. ~used.orphans
    BY <1>0, <1>3, <1>a, UsedIs, BoundsAre DEF Crash
  <2>3. ASSUME NEW w \in Workers, ProcOf[w] = p PROVE pc[w] # "write"
    BY <1>0, <2>1, <2>2, <2>3, Alone
  <2>4. terminated' = terminated
    BY <1>3, <2>3 DEF Crash
  <2> QED
    BY <1>0, <2>1, <2>4 DEF WriteInv
<1>4. CASE UNCHANGED vars
  BY <1>0, <1>4 DEF WriteInv, vars
<1> QED
  BY <1>1, <1>2, <1>3, <1>4, NextIs

-----------------------------------------------------------------------------
(* Counting. *)

LEMMA Fewer ==
  ASSUME NEW D, IsFiniteSet(D), NEW E \in SUBSET D
  PROVE  /\ IsFiniteSet(E) /\ Cardinality(E) \in Nat /\ Cardinality(D) \in Nat
         /\ Cardinality(E) <= Cardinality(D)
         /\ \A w \in D : w \notin E => Cardinality(E) + 1 <= Cardinality(D)
<1>1. /\ IsFiniteSet(E) /\ Cardinality(E) <= Cardinality(D)
      /\ Cardinality(E) = Cardinality(D) => E = D
  BY FS_Subset
<1>2. Cardinality(E) \in Nat /\ Cardinality(D) \in Nat
  BY <1>1, FS_CardinalityType
<1> QED
  BY <1>1, <1>2

LEMMA OneMore ==
  ASSUME NEW D, IsFiniteSet(D), NEW w, NEW E \in SUBSET (D \cup {w})
  PROVE  /\ IsFiniteSet(E) /\ Cardinality(E) \in Nat /\ Cardinality(D) \in Nat
         /\ Cardinality(E) <= Cardinality(D) + 1
<1>1. /\ IsFiniteSet(D \cup {w})
      /\ Cardinality(D \cup {w}) = Cardinality(D) \/ Cardinality(D \cup {w}) = Cardinality(D) + 1
  BY FS_AddElement
<1>2. Cardinality(D) \in Nat
  BY FS_CardinalityType
<1> QED
  BY <1>1, <1>2, Fewer

(* How the counts move with the operation of one worker. *)
LEMMA CountsMove ==
  ASSUME TypeInv, CountInv, NEW w \in Workers, Spent' \in Nat, Spent <= Spent',
         \A v \in Workers \ {w} : pc'[v] = pc[v] /\ op'[v] = op[v],
         w \in Due' => w \in Due \/ Spent < Spent',
         w \in Pending' => w \in Pending \/ Spent < Spent'
  PROVE  /\ IsFiniteSet(Due') /\ Room' \in Nat /\ Numbers' \in Nat
         /\ Room <= Room' /\ Numbers <= Numbers'
         /\ w \in Due /\ w \notin Due' => Room + 1 <= Room'
         /\ w \in Pending /\ w \notin Pending' => Numbers + 1 <= Numbers'
<1>1. PICK D, E, P, Q : D = Due /\ E = Due' /\ P = Pending /\ Q = Pending'
  OBVIOUS
<1>2. /\ E \subseteq D \cup {w} /\ (w \notin E \/ w \in D => E \subseteq D)
      /\ Q \subseteq P \cup {w} /\ (w \notin Q \/ w \in P => Q \subseteq P)
  BY <1>1 DEF Due, Pending
<1>3. IsFiniteSet(D) /\ IsFiniteSet(P)
  BY <1>1, CountsAre
<1>4. PICK s, t \in Nat : s = Spent /\ t = Spent' /\ s <= t
  BY CountsAre
<1>5. (w \in E => w \in D \/ s < t) /\ (w \in Q => w \in P \/ s < t)
  BY <1>1, <1>4
<1>6. /\ IsFiniteSet(E) /\ Cardinality(E) \in Nat /\ Cardinality(D) \in Nat
      /\ s - Cardinality(D) <= t - Cardinality(E)
      /\ w \in D /\ w \notin E => s - Cardinality(D) + 1 <= t - Cardinality(E)
  <2>1. CASE E \subseteq D
    BY <1>3, <1>4, <2>1, Fewer
  <2>2. CASE ~(E \subseteq D)
    BY <1>2, <1>3, <1>4, <1>5, <2>2, OneMore
  <2> QED
    BY <2>1, <2>2
<1>7. /\ IsFiniteSet(Q) /\ Cardinality(Q) \in Nat /\ Cardinality(P) \in Nat
      /\ s - Cardinality(P) <= t - Cardinality(Q)
      /\ w \in P /\ w \notin Q => s - Cardinality(P) + 1 <= t - Cardinality(Q)
  <2>1. CASE Q \subseteq P
    BY <1>3, <1>4, <2>1, Fewer
  <2>2. CASE ~(Q \subseteq P)
    BY <1>2, <1>3, <1>4, <1>5, <2>2, OneMore
  <2> QED
    BY <2>1, <2>2
<1>8. Room = s - Cardinality(D) /\ Room' = t - Cardinality(E)
  BY <1>1, <1>4 DEF Room
<1>9. Numbers = s - Cardinality(P) /\ Numbers' = t - Cardinality(Q)
  BY <1>1, <1>4 DEF Numbers
<1>10. Room \in Nat /\ Numbers \in Nat
  BY CountsAre
<1> QED
  BY <1>1, <1>4, <1>6, <1>7, <1>8, <1>9, <1>10

LEMMA FitsMore ==
  ASSUME NEW lines \in Seq(Lines), NEW r \in Nat, NEW n \in Nat, NEW q \in Nat, NEW m \in Nat,
         Fits(lines, r, n), r <= q, n <= m
  PROVE  Fits(lines, q, m)
<1>1. \A i \in DOMAIN lines : lines[i] \in Lines
  OBVIOUS
<1>2. \A i \in DOMAIN lines : lines[i].seq \in Nat
  BY <1>1 DEF Lines
<1> QED
  BY <1>2 DEF Fits

LEMMA FitsAppend ==
  ASSUME NEW lines \in Seq(Lines), NEW l \in Lines, NEW r \in Nat, NEW n \in Nat, NEW q \in Nat, NEW m \in Nat,
         Fits(lines, r, n), r + 1 <= q, n <= m, l.seq <= m
  PROVE  Fits(Append(lines, l), q, m)
<1>1. Fits(lines, r, m)
  BY FitsMore
<1>2. PICK s : s = Append(lines, l)
  OBVIOUS
<1>3. /\ Len(s) = Len(lines) + 1 /\ DOMAIN s = 1 .. (Len(lines) + 1)
      /\ s[Len(lines) + 1] = l /\ \A i \in 1 .. Len(lines) : s[i] = lines[i]
      /\ Len(lines) \in Nat /\ DOMAIN lines = 1 .. Len(lines)
  BY <1>2, AppendIs
<1>4. \A i \in DOMAIN s : s[i].seq <= m
  <2>1. ASSUME NEW i \in DOMAIN s PROVE s[i].seq <= m
    <3>1. PICK k \in Nat : k = Len(lines)
      BY <1>3
    <3>2. i \in 1 .. (k + 1)
      BY <1>3, <3>1
    <3>3. i = k + 1 \/ i \in 1 .. k
      BY <3>2
    <3> QED
      BY <1>1, <1>3, <3>1, <3>3 DEF Fits
  <2> QED
    BY <2>1
<1>5. Len(s) <= q
  BY <1>1, <1>3 DEF Fits
<1> QED
  BY <1>2, <1>4, <1>5 DEF Fits

LEMMA FitsEmpty == ASSUME NEW r \in Nat, NEW n PROVE Fits(<<>>, r, n)
  BY DEF Fits

(* Rows and stamps fit where their log does. *)
LEMMA RowsFit ==
  ASSUME TypeInv, CountInv
  PROVE  /\ Parsed(log) \in Seq(Lines) /\ Fits(Parsed(log), Room, Numbers)
         /\ \A turns \in Seq(Lines), n \in Nat :
              Len(turns) <= Room => Fits(Stamp(turns, Parsed(log), n), Room, Numbers)
<1>1. log \in Seq(Lines) /\ Len(log) <= Room /\ (\A i \in DOMAIN log : log[i].seq <= Numbers)
  BY DEF TypeInv, CountInv, Fits
<1>2. PICK rows : rows = Parsed(log)
  OBVIOUS
<1>3. /\ rows \in Seq(Lines) /\ Len(rows) <= Len(log)
      /\ \A i \in DOMAIN rows : \E j \in DOMAIN log : rows[i] = log[j]
  BY <1>1, <1>2, ParsedHolds
<1>4. Len(rows) <= Room
  <2>1. Len(rows) \in Nat /\ Len(log) \in Nat
    BY <1>1, <1>3
  <2> QED
    BY <1>1, <1>3, <2>1, CountsAre
<1>5. \A i \in DOMAIN rows : rows[i].seq <= Numbers
  BY <1>1, <1>3
<1>6. ASSUME NEW turns \in Seq(Lines), NEW n \in Nat, Len(turns) <= Room
      PROVE  Fits(Stamp(turns, rows, n), Room, Numbers)
  <2>1. PICK s : s = Stamp(turns, rows, n)
    OBVIOUS
  <2>2. /\ s \in Seq(Lines) /\ Len(s) = Len(turns)
        /\ \A i \in 1 .. Len(turns) :
             s[i] = Line(turns[i].id, IF i + n \in DOMAIN rows THEN rows[i + n].seq ELSE 0)
    BY <1>3, <2>1, StampIs
  <2>3. \A i \in DOMAIN s : s[i].seq <= Numbers
    <3>1. ASSUME NEW i \in DOMAIN s PROVE s[i].seq <= Numbers
      <4>1. i \in 1 .. Len(turns)
        BY <2>2
      <4>2. PICK k : k = i + n
        OBVIOUS
      <4>3. Numbers \in Nat
        BY CountsAre
      <4>4. PICK x : x = IF k \in DOMAIN rows THEN rows[k].seq ELSE 0
        OBVIOUS
      <4>5. s[i] = Line(turns[i].id, x)
        BY <2>2, <4>1, <4>2, <4>4
      <4>6. s[i].seq = x
        BY <4>5 DEF Line
      <4> QED
        BY <1>5, <4>3, <4>4, <4>6
    <3> QED
      BY <3>1
  <2> QED
    BY <1>6, <2>1, <2>2, <2>3 DEF Fits
<1> QED
  BY <1>2, <1>3, <1>4, <1>5, <1>6 DEF Fits

(* What is left to show of a step of one worker. *)
LEMMA CountStays ==
  ASSUME TypeInv, CountInv, TypeInv', NEW w \in Workers,
         \A v \in Workers \ {w} : op'[v] = op[v],
         IsFiniteSet(Due'), Room' \in Nat, Numbers' \in Nat, Room <= Room', Numbers <= Numbers',
         log' = log \/ Fits(log', Room', Numbers'),
         bump' = bump \/ \A p \in Procs : bump'[p] <= Numbers',
         op'[w].seq <= Numbers', Len(op'[w].snap) <= Room', Fits(op'[w].rest, Room', Numbers')
  PROVE  CountInv'
<1>1. PICK r, n \in Nat : r = Room' /\ n = Numbers' /\ Room <= r /\ Numbers <= n
  OBVIOUS
<1>2. Room \in Nat /\ Numbers \in Nat
  BY CountsAre
<1>3. Fits(log', r, n)
  <2>1. log \in Seq(Lines) /\ Fits(log, Room, Numbers)
    BY DEF TypeInv, CountInv
  <2>2. Fits(log, r, n)
    BY <1>1, <1>2, <2>1, FitsMore
  <2> QED
    BY <1>1, <2>2
<1>4. \A p \in Procs : bump'[p] <= n
  <2>1. CASE bump' = bump
    <3>1. \A p \in Procs : bump[p] \in Nat /\ bump[p] <= Numbers
      BY DEF TypeInv, CountInv
    <3> QED
      BY <1>1, <1>2, <2>1, <3>1
  <2> QED
    BY <1>1, <2>1
<1>5. ASSUME NEW v \in Workers
      PROVE  op'[v].seq <= n /\ Len(op'[v].snap) <= r /\ Fits(op'[v].rest, r, n)
  <2>1. CASE v = w
    BY <1>1, <2>1
  <2>2. CASE v # w
    <3>1. op'[v] = op[v]
      BY <2>2
    <3>2. op[v].seq <= Numbers /\ Len(op[v].snap) <= Room /\ Fits(op[v].rest, Room, Numbers)
      BY DEF CountInv
    <3>3. op[v].seq \in Nat /\ op[v].snap \in Seq(Lines) /\ op[v].rest \in Seq(Lines)
      BY OpIs
    <3>4. Len(op[v].snap) \in Nat
      BY <3>3
    <3>5. Fits(op[v].rest, r, n)
      BY <1>1, <1>2, <3>2, <3>3, FitsMore
    <3> QED
      BY <1>1, <1>2, <3>1, <3>2, <3>3, <3>4, <3>5
  <2> QED
    BY <2>1, <2>2
<1> QED
  BY <1>1, <1>3, <1>4, <1>5 DEF CountInv

LEMMA SpentMoves ==
  ASSUME TypeInv
  PROVE  /\ Spent \in Nat
         /\ used' = used => Spent' = Spent
         /\ used' = [used EXCEPT !.faults = @ + 1] => Spent' = Spent
         /\ \/ used' = [used EXCEPT !.turns = @ + 1]
            \/ used' = [used EXCEPT !.tools = @ + 1]
            \/ used' = [used EXCEPT !.rewrites = @ + 1]
            => Spent' = Spent + 1
<1>1. used \in Uses /\ used.turns \in Nat /\ used.tools \in Nat /\ used.rewrites \in Nat
  BY UsedIs DEF TypeInv
<1>2. ASSUME used' = used PROVE Spent' = Spent
  BY <1>2 DEF Spent
<1>3. ASSUME used' = [used EXCEPT !.faults = @ + 1] PROVE Spent' = Spent
  <2>1. used'.turns = used.turns /\ used'.tools = used.tools /\ used'.rewrites = used.rewrites
    BY <1>1, <1>3 DEF Uses
  <2> QED
    BY <2>1 DEF Spent
<1>4. ASSUME used' = [used EXCEPT !.turns = @ + 1] PROVE Spent' = Spent + 1
  <2>1. used'.turns = used.turns + 1 /\ used'.tools = used.tools /\ used'.rewrites = used.rewrites
    BY <1>1, <1>4 DEF Uses
  <2> QED
    BY <1>1, <2>1 DEF Spent
<1>5. ASSUME used' = [used EXCEPT !.tools = @ + 1] PROVE Spent' = Spent + 1
  <2>1. used'.turns = used.turns /\ used'.tools = used.tools + 1 /\ used'.rewrites = used.rewrites
    BY <1>1, <1>5 DEF Uses
  <2> QED
    BY <1>1, <2>1 DEF Spent
<1>6. ASSUME used' = [used EXCEPT !.rewrites = @ + 1] PROVE Spent' = Spent + 1
  <2>1. used'.turns = used.turns /\ used'.tools = used.tools /\ used'.rewrites = used.rewrites + 1
    BY <1>1, <1>6 DEF Uses
  <2> QED
    BY <1>1, <2>1 DEF Spent
<1>7. Spent \in Nat
  BY <1>1 DEF Spent
<1> QED
  BY <1>2, <1>3, <1>4, <1>5, <1>6, <1>7

(* An operation that ends leaves room. *)
LEMMA CountReturns ==
  ASSUME TypeInv, CountInv, TypeInv', NEW w \in Workers, NEW from, Return(w, from),
         used' = used \/ used' = [used EXCEPT !.faults = @ + 1]
  PROVE  /\ IsFiniteSet(Due') /\ Room' \in Nat /\ Numbers' \in Nat
         /\ Room <= Room' /\ Numbers <= Numbers'
         /\ op[w].kind \in {"user", "event", "tool", "compact"} => Room + 1 <= Room'
         /\ w \in Pending => Numbers + 1 <= Numbers'
         /\ (log' = log \/ Fits(log', Room', Numbers'))
              /\ (bump' = bump \/ \A p \in Procs : bump'[p] <= Numbers') => CountInv'
<1>1. /\ op'[w] = NoOp
      /\ \A v \in Workers \ {w} : pc'[v] = pc[v] /\ op'[v] = op[v]
  BY ReturnIs, OthersStay
<1>2. w \notin Due' /\ w \notin Pending'
  BY <1>1, NoOpIs DEF Due, Pending
<1>3. Spent' \in Nat /\ Spent <= Spent'
  BY SpentMoves
<1>4. /\ IsFiniteSet(Due') /\ Room' \in Nat /\ Numbers' \in Nat
      /\ Room <= Room' /\ Numbers <= Numbers'
      /\ w \in Due => Room + 1 <= Room'
      /\ w \in Pending => Numbers + 1 <= Numbers'
  BY <1>1, <1>2, <1>3, CountsMove
<1>5. op'[w].seq <= Numbers' /\ Len(op'[w].snap) <= Room' /\ Fits(op'[w].rest, Room', Numbers')
  <2>1. op'[w].seq = 0 /\ op'[w].snap = <<>> /\ op'[w].rest = <<>>
    BY <1>1 DEF NoOp
  <2> QED
    BY <1>4, <2>1, FitsEmpty
<1>6. (log' = log \/ Fits(log', Room', Numbers'))
        /\ (bump' = bump \/ \A p \in Procs : bump'[p] <= Numbers') => CountInv'
  BY <1>1, <1>4, <1>5, CountStays
<1> QED
  BY <1>4, <1>6 DEF Due

(* An operation starts, on what it read. *)
LEMMA CountStarts ==
  ASSUME TypeInv, CountInv, TypeInv', KindInv, NEW w \in Workers, NEW o, Becomes(w, o),
         \A v \in Workers \ {w} : pc'[v] = pc[v],
         log' = log, bump' = bump,
         \/ used' = [used EXCEPT !.turns = @ + 1]
         \/ used' = [used EXCEPT !.tools = @ + 1]
         \/ used' = [used EXCEPT !.rewrites = @ + 1]
         \/ used' = used /\ o.kind = "read",
         o.seq = 0, o.snap = <<>> \/ o.snap = Parsed(log), o.rest = <<>>
  PROVE  CountInv'
<1>1. op'[w] = o /\ \A v \in Workers \ {w} : op'[v] = op[v]
  BY OthersStay
<1>2. Spent' \in Nat /\ Spent <= Spent' /\ (o.kind # "read" => Spent < Spent')
  BY SpentMoves
<1>3. o.kind = "read" => w \notin Due' /\ w \notin Pending'
  BY <1>1 DEF Due, Pending
<1>4. /\ IsFiniteSet(Due') /\ Room' \in Nat /\ Numbers' \in Nat
      /\ Room <= Room' /\ Numbers <= Numbers'
  BY <1>1, <1>2, <1>3, CountsMove
<1>5. op'[w].seq <= Numbers' /\ Len(op'[w].snap) <= Room' /\ Fits(op'[w].rest, Room', Numbers')
  <2>1. Parsed(log) \in Seq(Lines) /\ Len(Parsed(log)) <= Room
    BY RowsFit DEF Fits
  <2>2. Len(Parsed(log)) \in Nat /\ Room \in Nat
    BY <2>1, CountsAre
  <2>3. Len(Parsed(log)) <= Room'
    BY <1>4, <2>1, <2>2
  <2> QED
    BY <1>1, <1>4, <2>3, FitsEmpty
<1> QED
  BY <1>1, <1>4, <1>5, CountStays

(* An operation moves on, with what it has in its hands. *)
LEMMA CountGoes ==
  ASSUME TypeInv, CountInv, TypeInv', NEW w \in Workers, NEW o,
         Becomes(w, o) \/ (op' = op /\ o = op[w]),
         \A v \in Workers \ {w} : pc'[v] = pc[v],
         o.kind = op[w].kind, o.seq = op[w].seq, o.snap = op[w].snap,
         o.rest = op[w].rest \/ Fits(o.rest, Room, Numbers), o.rest \in Seq(Lines),
         pc'[w] = pc[w] \/ pc[w] \notin {"open", "write", "rewrite"} \/ pc'[w] = "write",
         log' = log, bump' = bump,
         used' = used \/ used' = [used EXCEPT !.faults = @ + 1]
  PROVE  CountInv'
<1>1. op'[w] = o /\ \A v \in Workers \ {w} : op'[v] = op[v]
  BY OthersStay
<1>2. Spent' \in Nat /\ Spent <= Spent'
  BY SpentMoves
<1>3. (w \in Due' => w \in Due) /\ (w \in Pending' => w \in Pending)
  BY <1>1 DEF Due, Pending
<1>4. /\ IsFiniteSet(Due') /\ Room' \in Nat /\ Numbers' \in Nat
      /\ Room <= Room' /\ Numbers <= Numbers'
  BY <1>1, <1>2, <1>3, CountsMove
<1>5. op'[w].seq <= Numbers' /\ Len(op'[w].snap) <= Room' /\ Fits(op'[w].rest, Room', Numbers')
  <2>1. op[w].seq <= Numbers /\ Len(op[w].snap) <= Room /\ Fits(op[w].rest, Room, Numbers)
    BY DEF CountInv
  <2>2. op[w].seq \in Nat /\ Len(op[w].snap) \in Nat /\ Room \in Nat /\ Numbers \in Nat
    BY OpIs, CountsAre
  <2>3. Fits(o.rest, Room, Numbers)
    BY <2>1
  <2>4. PICK r, n \in Nat : r = Room' /\ n = Numbers'
    BY <1>4
  <2>5. Fits(o.rest, r, n)
    BY <1>4, <2>2, <2>3, <2>4, FitsMore
  <2> QED
    BY <1>1, <1>4, <2>1, <2>2, <2>4, <2>5
<1> QED
  BY <1>1, <1>4, <1>5, CountStays

LEMMA CountStep == IInv /\ [Next]_vars => CountInv'
<1> SUFFICES ASSUME IInv, [Next]_vars PROVE CountInv'
  OBVIOUS
<1>0. TypeInv /\ KindInv /\ CountInv /\ WriteInv /\ TypeInv'
  BY TypeStep DEF IInv
<1>a. /\ Room \in Nat /\ Numbers \in Nat /\ log \in Seq(Lines) /\ Fits(log, Room, Numbers)
      /\ \A p \in Procs : bump[p] \in Nat /\ bump[p] <= Numbers
  BY <1>0, CountsAre DEF CountInv, TypeInv
<1>b. \A w \in Workers : KindOf(op[w], pc[w])
  BY <1>0 DEF KindInv
<1>1. ASSUME NEW w \in Workers,
             \/ BeginTurn(w) \/ EndTurn(w) \/ CheckLocked(w) \/ AcquireForAppend(w)
             \/ LockSeqMu(w) \/ CheckLockedForSeq(w) \/ AcquireForSeq(w) \/ TruncateMemory(w)
             \/ WriteClaims(w) \/ WriteMemory(w) \/ Abandon(w)
      PROVE  CountInv'
  <2>1. \A v \in Workers \ {w} : pc'[v] = pc[v]
    BY <1>0, <1>1, FrameIs DEF StepBy, Starting, Appending, Sequencing, Rewriting
  <2>2. /\ op' = op /\ log' = log /\ bump' = bump
        /\ used' = used \/ used' = [used EXCEPT !.faults = @ + 1]
        /\ pc'[w] = pc[w] \/ pc[w] \notin {"open", "write", "rewrite"}
    BY <1>1 DEF BeginTurn, EndTurn, CheckLocked, AcquireForAppend, LockSeqMu, CheckLockedForSeq,
       AcquireForSeq, TruncateMemory, WriteClaims, WriteMemory, Abandon, Goto, seqVars, fileVars
  <2>3. op[w].rest \in Seq(Lines)
    BY <1>0, OpIs
  <2> QED
    BY <1>0, <2>1, <2>2, <2>3, CountGoes
<1>2. ASSUME NEW w \in Workers, StartAppend(w) PROVE CountInv'
  <2>1. PICK o \in Ops, k \in {"user", "event"} :
          Becomes(w, o) /\ o = [op[w] EXCEPT !.kind = k, !.id = used.turns + 1]
    BY <1>0, <1>2, StartAppendIs
  <2>2. pc[w] = "turn" /\ \A v \in Workers \ {w} : pc'[v] = pc[v]
    BY <1>0, <1>2, GotoType DEF StartAppend, Goto, Steps
  <2>3. op[w] = NoOp
    BY <1>b, <2>2 DEF KindOf, KindAt
  <2>4. o.seq = 0 /\ o.snap = <<>> /\ o.rest = <<>>
    BY <2>1, <2>3 DEF NoOp
  <2>5. log' = log /\ bump' = bump /\ used' = [used EXCEPT !.turns = @ + 1]
    BY <1>2 DEF StartAppend, fileVars, seqVars
  <2> QED
    BY <1>0, <2>1, <2>2, <2>4, <2>5, CountStarts
<1>3. ASSUME NEW w \in Workers, StartToolEvent(w) PROVE CountInv'
  <2>1. PICK o \in Ops : Becomes(w, o) /\ o = [op[w] EXCEPT !.kind = "tool"]
    BY <1>0, <1>3, StartToolEventIs
  <2>2. pc[w] = "turn" /\ \A v \in Workers \ {w} : pc'[v] = pc[v]
    BY <1>0, <1>3, GotoType DEF StartToolEvent, Goto, Steps
  <2>3. op[w] = NoOp
    BY <1>b, <2>2 DEF KindOf, KindAt
  <2>4. o.seq = 0 /\ o.snap = <<>> /\ o.rest = <<>>
    BY <2>1, <2>3 DEF NoOp
  <2>5. log' = log /\ bump' = bump /\ used' = [used EXCEPT !.tools = @ + 1]
    BY <1>3 DEF StartToolEvent, fileVars, seqVars
  <2> QED
    BY <1>0, <2>1, <2>2, <2>4, <2>5, CountStarts
<1>4. ASSUME NEW w \in Workers, StartRead(w) PROVE CountInv'
  <2>1. PICK o \in Ops : Becomes(w, o) /\ o = [op[w] EXCEPT !.kind = "read"]
    BY <1>0, <1>4, StartReadIs
  <2>2. pc[w] = "idle" /\ \A v \in Workers \ {w} : pc'[v] = pc[v]
    BY <1>0, <1>4, GotoType DEF StartRead, Goto, Steps
  <2>3. op[w] = NoOp
    BY <1>b, <2>2 DEF KindOf, KindAt
  <2>4. o.kind = "read" /\ o.seq = 0 /\ o.snap = <<>> /\ o.rest = <<>>
    BY <2>1, <2>3 DEF NoOp
  <2>5. log' = log /\ bump' = bump /\ used' = used
    BY <1>4 DEF StartRead, fileVars, seqVars
  <2> QED
    BY <1>0, <2>1, <2>2, <2>4, <2>5, CountStarts
<1>5. ASSUME NEW w \in Workers, StartCompact(w) PROVE CountInv'
  <2>1. PICK o \in Ops, n \in DOMAIN Parsed(log) :
          /\ Becomes(w, o)
          /\ o = [NoOp EXCEPT !.kind = "compact", !.cut = n, !.snap = Parsed(log), !.mem = memory]
    BY <1>0, <1>5, StartCompactIs
  <2>2. \A v \in Workers \ {w} : pc'[v] = pc[v]
    BY <1>0, <1>5, GotoType DEF StartCompact, Goto, Steps
  <2>3. o.seq = 0 /\ o.snap = Parsed(log) /\ o.rest = <<>>
    BY <2>1 DEF NoOp
  <2>4. log' = log /\ bump' = bump /\ used' = [used EXCEPT !.rewrites = @ + 1]
    BY <1>5 DEF StartCompact, fileVars, seqVars
  <2> QED
    BY <1>0, <2>1, <2>2, <2>3, <2>4, CountStarts
<1>6. ASSUME NEW w \in Workers, StartStrip(w) PROVE CountInv'
  <2>1. PICK o \in Ops : Becomes(w, o) /\ o = [NoOp EXCEPT !.kind = "strip", !.snap = Parsed(log)]
    BY <1>0, <1>6, StartStripIs
  <2>2. \A v \in Workers \ {w} : pc'[v] = pc[v]
    BY <1>0, <1>6, GotoType DEF StartStrip, Goto, Steps
  <2>3. o.seq = 0 /\ o.snap = Parsed(log) /\ o.rest = <<>>
    BY <2>1 DEF NoOp
  <2>4. log' = log /\ bump' = bump /\ used' = [used EXCEPT !.rewrites = @ + 1]
    BY <1>6 DEF StartStrip, fileVars, seqVars
  <2> QED
    BY <1>0, <2>1, <2>2, <2>3, <2>4, CountStarts
<1>7. ASSUME NEW w \in Workers, OpenLog(w) PROVE CountInv'
  <2>1. PICK o \in Ops : Becomes(w, o) /\ o = [op[w] EXCEPT !.fd = inode]
    BY <1>0, <1>7, OpenLogIs
  <2>2. pc'[w] = "write" /\ \A v \in Workers \ {w} : pc'[v] = pc[v]
    BY <1>0, <1>7, GotoType DEF OpenLog, Goto, Steps
  <2>3. /\ o.kind = op[w].kind /\ o.seq = op[w].seq /\ o.snap = op[w].snap /\ o.rest = op[w].rest
        /\ o.rest \in Seq(Lines)
    BY <1>0, <2>1, OpIs DEF Ops
  <2>4. log' = log /\ bump' = bump /\ used' = used
    BY <1>7 DEF OpenLog, seqVars
  <2> QED
    BY <1>0, <2>1, <2>2, <2>3, <2>4, CountGoes
<1>8. ASSUME NEW w \in Workers, ReadBack(w) PROVE CountInv'
  <2> DEFINE remaining == SubSeq(op[w].snap, op[w].cut + 1, Len(op[w].snap))
  <2>1. PICK o \in Ops, rest \in Seq(Lines), n \in Nat :
          /\ Becomes(w, o) /\ o = [op[w] EXCEPT !.rest = rest]
          /\ rest = Stamp(remaining, Parsed(log), n)
          /\ remaining \in Seq(Lines) /\ Len(remaining) <= Len(op[w].snap)
    BY <1>0, <1>8, ReadBackIs
  <2>2. pc[w] = "readBack" /\ \A v \in Workers \ {w} : pc'[v] = pc[v]
    BY <1>0, <1>8, GotoType DEF ReadBack, Goto, Steps
  <2>3. o.kind = op[w].kind /\ o.seq = op[w].seq /\ o.snap = op[w].snap /\ o.rest = rest
    BY <1>0, <2>1, OpIs DEF Ops
  <2>4. log' = log /\ bump' = bump /\ used' = used
    BY <1>8 DEF ReadBack, fileVars, seqVars
  <2>5. Fits(rest, Room, Numbers)
    <3>1. Len(op[w].snap) <= Room /\ Len(op[w].snap) \in Nat
      BY <1>0, OpIs DEF CountInv
    <3> HIDE DEF remaining
    <3>2. Len(remaining) \in Nat
      BY <2>1
    <3>3. Len(remaining) <= Room
      BY <1>a, <2>1, <3>1, <3>2
    <3> QED
      BY <1>0, <2>1, <3>3, RowsFit
  <2> HIDE DEF remaining
  <2> QED
    BY <1>0, <2>1, <2>2, <2>3, <2>4, <2>5, CountGoes
<1>9. ASSUME NEW w \in Workers, PairUp(w) PROVE CountInv'
  <2>1. PICK o \in Ops, rest \in Seq(Lines) :
           /\ Becomes(w, o) /\ o = [op[w] EXCEPT !.rest = rest]
           /\ rest = Stamp(op[w].snap, Parsed(log), 0)
    BY <1>0, <1>9, PairUpIs
  <2>2. pc[w] = "pairUp" /\ \A v \in Workers \ {w} : pc'[v] = pc[v]
    BY <1>0, <1>9, GotoType DEF PairUp, Goto, Steps
  <2>3. o.kind = op[w].kind /\ o.seq = op[w].seq /\ o.snap = op[w].snap /\ o.rest = rest
    BY <1>0, <2>1, OpIs DEF Ops
  <2>4. log' = log /\ bump' = bump /\ used' = used
    BY <1>9 DEF PairUp, fileVars, seqVars
  <2>5. Fits(rest, Room, Numbers)
    <3>1. Len(op[w].snap) <= Room /\ op[w].snap \in Seq(Lines)
      BY <1>0, OpIs DEF CountInv
    <3> QED
      BY <1>0, <2>1, <3>1, RowsFit
  <2> QED
    BY <1>0, <2>1, <2>2, <2>3, <2>4, <2>5, CountGoes
<1>10. ASSUME NEW w \in Workers, WriteLine(w) \/ WriteFails(w) PROVE CountInv'
  <2>1. /\ Return(w, "write") /\ pc[w] = "write" /\ bump' = bump
        /\ used' = used \/ used' = [used EXCEPT !.faults = @ + 1]
    BY <1>0, <1>10, ReturnIs DEF WriteLine, WriteFails, seqVars
  <2>2. op[w].kind \in {"user", "event"}
    BY <1>b, <2>1 DEF KindOf, KindAt
  <2>3. log' = log \/ \E l, full : Leaves(w, l, full)
    <3>1. CASE WriteFails(w)
      BY <1>0, <2>1, <3>1, CutShortIs DEF WriteFails
    <3>2. CASE WriteLine(w)
      <4>1. PICK l : l = Line(op[w].id, op[w].seq)
        OBVIOUS
      <4>2. log' = log \/ log' = Append(log, l)
        BY <1>0, <2>1, <3>2, <4>1, WrittenIs DEF WriteLine
      <4>3. l \in Lines /\ l.ok /\ l.id = op[w].id /\ l.seq = op[w].seq
        BY <1>0, <4>1, OpIs, LineIs
      <4>4. log' = log \/ Leaves(w, l, l.ok)
        BY <4>2, <4>3 DEF Leaves
      <4> QED
        BY <4>4
    <3> QED
      BY <1>10, <3>1, <3>2
  <2>4. /\ Room' \in Nat /\ Numbers' \in Nat /\ Room + 1 <= Room' /\ Numbers <= Numbers'
        /\ log' = log \/ Fits(log', Room', Numbers') => CountInv'
    BY <1>0, <2>1, <2>2, CountReturns
  <2>5. ASSUME NEW l, NEW full, Leaves(w, l, full) PROVE Fits(log', Room', Numbers')
    <3>1. l \in Lines /\ l.seq = op[w].seq /\ log' = Append(log, l)
      BY <2>5 DEF Leaves
    <3>2. PICK r, n \in Nat : r = Room' /\ n = Numbers'
      BY <2>4
    <3>3. l.seq <= n
      <4>1. op[w].seq <= Numbers /\ op[w].seq \in Nat
        BY <1>0, OpIs DEF CountInv
      <4> QED
        BY <1>a, <2>4, <3>1, <3>2, <4>1
    <3>4. Fits(Append(log, l), r, n)
      BY <1>a, <2>4, <3>1, <3>2, <3>3, FitsAppend
    <3> QED
      BY <3>1, <3>2, <3>4
  <2> QED
    BY <2>3, <2>4, <2>5
<1>11. ASSUME NEW w \in Workers, Allocate(w) PROVE CountInv'
  <2>1. PICK next \in Nat, o \in Ops :
           /\ next = HighestSeq(ProcOf[w]) + 1
           /\ bump' = [bump EXCEPT ![ProcOf[w]] = next]
           /\ pc[w] = "alloc" /\ Becomes(w, o)
           /\ \A v \in Workers \ {w} : pc'[v] = pc[v]
           /\ op[w].kind # "tool" =>
                /\ o = [op[w] EXCEPT !.seq = next]
                /\ pc'[w] = (IF op[w].kind = "compact" THEN "rewrite" ELSE "open")
    BY <1>0, <1>11, AllocateIs
  <2>2. op[w].kind \in {"user", "event", "tool", "compact"} /\ w \in Due /\ w \in Pending
    BY <1>b, <2>1 DEF KindOf, KindAt, Due, Pending
  <2>3. next <= Numbers + 1 /\ ProcOf[w] \in Procs
    BY <1>0, <1>a, <2>1, HighestIs, BoundsAre
  <2>4. log' = log /\ used' = used
    BY <1>11 DEF Allocate, fileVars
  <2>5. ASSUME Numbers' \in Nat, Numbers + 1 <= Numbers' PROVE \A p \in Procs : bump'[p] <= Numbers'
    <3>1. \A p \in Procs : bump'[p] = IF p = ProcOf[w] THEN next ELSE bump[p]
      BY <1>0, <2>1, <2>3 DEF TypeInv
    <3>2. PICK n \in Nat : n = Numbers'
      BY <2>5
    <3> QED
      BY <1>a, <2>3, <2>5, <3>1, <3>2
  <2>6. CASE op[w].kind = "tool"
    <3>1. Return(w, "alloc")
      BY <1>11, <2>6 DEF Allocate
    <3>2. /\ Numbers' \in Nat /\ Numbers + 1 <= Numbers'
          /\ log' = log /\ (\A p \in Procs : bump'[p] <= Numbers') => CountInv'
      BY <1>0, <2>2, <2>4, <3>1, CountReturns
    <3> QED
      BY <2>4, <2>5, <3>2
  <2>7. CASE op[w].kind # "tool"
    <3>1. op'[w] = o /\ \A v \in Workers \ {w} : op'[v] = op[v]
      BY <1>0, <2>1, OthersStay
    <3>2. o.kind = op[w].kind /\ o.seq = next /\ o.snap = op[w].snap /\ o.rest = op[w].rest
      BY <1>0, <2>1, <2>7, OpIs DEF Ops
    <3>3. w \notin Pending'
      BY <2>1, <2>7, <3>1, <3>2 DEF Pending
    <3>4. Spent' \in Nat /\ Spent <= Spent'
      BY <1>0, <2>4, SpentMoves
    <3>5. /\ IsFiniteSet(Due') /\ Room' \in Nat /\ Numbers' \in Nat
          /\ Room <= Room' /\ Numbers <= Numbers' /\ Numbers + 1 <= Numbers'
      BY <1>0, <2>1, <2>2, <3>1, <3>3, <3>4, CountsMove
    <3>6. PICK r, n \in Nat : r = Room' /\ n = Numbers'
      BY <3>5
    <3>7. op'[w].seq <= n /\ Len(op'[w].snap) <= r /\ Fits(op'[w].rest, r, n)
      <4>1. Len(op[w].snap) <= Room /\ Fits(op[w].rest, Room, Numbers)
        BY <1>0 DEF CountInv
      <4>2. Len(op[w].snap) \in Nat /\ op[w].rest \in Seq(Lines)
        BY <1>0, OpIs
      <4>3. Fits(op[w].rest, r, n)
        BY <1>a, <3>5, <3>6, <4>1, <4>2, FitsMore
      <4> QED
        BY <1>a, <2>3, <3>1, <3>2, <3>5, <3>6, <4>1, <4>2, <4>3
    <3> QED
      BY <1>0, <2>4, <2>5, <3>1, <3>5, <3>6, <3>7, CountStays
  <2> QED
    BY <2>6, <2>7
<1>12. ASSUME NEW w \in Workers, ReadSeq(w) PROVE CountInv'
  <2>1. Return(w, "readSeq") /\ log' = log /\ used' = used
        /\ bump' = [bump EXCEPT ![ProcOf[w]] = IF @ > TailMaxSeq(log) THEN @ ELSE 0]
    BY <1>12 DEF ReadSeq, fileVars
  <2>2. /\ Numbers' \in Nat /\ Numbers <= Numbers'
        /\ log' = log /\ (\A p \in Procs : bump'[p] <= Numbers') => CountInv'
    BY <1>0, <2>1, CountReturns
  <2>3. \A p \in Procs : bump'[p] = bump[p] \/ bump'[p] = 0
    BY <1>0, <2>1 DEF TypeInv
  <2>4. PICK n \in Nat : n = Numbers'
    BY <2>2
  <2>5. \A p \in Procs : bump'[p] <= n
    BY <1>a, <2>2, <2>3, <2>4
  <2> QED
    BY <2>1, <2>2, <2>4, <2>5
<1>13. ASSUME NEW w \in Workers, SummaryFails(w) \/ RewriteFails(w) PROVE CountInv'
  <2>1. /\ log' = log /\ bump' = bump /\ \E from : Return(w, from)
        /\ used' = used \/ used' = [used EXCEPT !.faults = @ + 1]
    BY <1>13 DEF SummaryFails, RewriteFails, fileVars, seqVars
  <2> QED
    BY <1>0, <2>1, CountReturns
<1>14. ASSUME NEW w \in Workers, RewriteCompacted(w) \/ RewriteStripped(w) PROVE CountInv'
  <2>1. PICK notice : notice = Line(Notice, op[w].seq)
    OBVIOUS
  <2>2. /\ Return(w, "rewrite") /\ bump' = bump /\ used' = used
        /\ log' = op[w].rest \/ (op[w].kind = "compact" /\ log' = Append(op[w].rest, notice))
    BY <1>14, <2>1 DEF RewriteCompacted, RewriteStripped, Rename, seqVars
  <2>3. notice \in Lines /\ notice.seq = op[w].seq
    BY <1>0, <2>1, OpIs, LineIs, BoundsAre DEF Notice, Ids
  <2>4. /\ Room' \in Nat /\ Numbers' \in Nat /\ Room <= Room' /\ Numbers <= Numbers'
        /\ op[w].kind = "compact" => Room + 1 <= Room'
        /\ Fits(log', Room', Numbers') => CountInv'
    BY <1>0, <2>2, CountReturns
  <2>5. PICK r, n \in Nat : r = Room' /\ n = Numbers'
    BY <2>4
  <2>6. op[w].rest \in Seq(Lines) /\ Fits(op[w].rest, Room, Numbers) /\ op[w].seq <= Numbers /\ op[w].seq \in Nat
    BY <1>0, OpIs DEF CountInv
  <2>7. Fits(op[w].rest, r, n)
    BY <1>a, <2>4, <2>5, <2>6, FitsMore
  <2>8. ASSUME op[w].kind = "compact" PROVE Fits(Append(op[w].rest, notice), r, n)
    <3>1. notice.seq <= n /\ Room + 1 <= r /\ Numbers <= n
      BY <1>a, <2>3, <2>4, <2>5, <2>6, <2>8
    <3> QED
      BY <1>a, <2>3, <2>5, <2>6, <3>1, FitsAppend
  <2> QED
    BY <2>2, <2>4, <2>5, <2>7, <2>8
<1>15. CASE UNCHANGED vars
  <2>1. CountInv' <=> CountInv
    BY <1>15 DEF vars, CountInv, Due, Pending, Room, Numbers, Spent
  <2> QED
    BY <1>0, <2>1

<1>16. ASSUME NEW p \in Procs, Crash(p) PROVE CountInv'
  <2>1. /\ \A w \in Workers : ProcOf[w] = p => op'[w] = NoOp
        /\ \A w \in Workers : ProcOf[w] # p => op'[w] = op[w] /\ pc'[w] = pc[w]
        /\ bump' = [bump EXCEPT ![p] = 0] /\ used' = [used EXCEPT !.faults = @ + 1]
    BY <1>16 DEF Crash
  <2>2. PICK D, E, P, Q : D = Due /\ E = Due' /\ P = Pending /\ Q = Pending'
    OBVIOUS
  <2>3. E \in SUBSET D /\ Q \in SUBSET P /\ \A w \in Workers : ProcOf[w] = p => w \notin E
    BY <2>1, <2>2, NoOpIs DEF Due, Pending
  <2>4. IsFiniteSet(D) /\ IsFiniteSet(P)
    BY <1>0, <2>2, CountsAre
  <2>5. /\ IsFiniteSet(E) /\ Cardinality(E) \in Nat /\ Cardinality(D) \in Nat
        /\ Cardinality(E) <= Cardinality(D)
        /\ \A w \in D : w \notin E => Cardinality(E) + 1 <= Cardinality(D)
        /\ Cardinality(Q) \in Nat /\ Cardinality(P) \in Nat
        /\ Cardinality(Q) <= Cardinality(P)
    BY <2>3, <2>4, Fewer
  <2>6. PICK s \in Nat : s = Spent /\ s = Spent'
    BY <1>0, <2>1, SpentMoves
  <2>7. /\ Room = s - Cardinality(D) /\ Room' = s - Cardinality(E)
        /\ Numbers = s - Cardinality(P) /\ Numbers' = s - Cardinality(Q)
    BY <2>2, <2>6 DEF Room, Numbers
  <2>8. /\ IsFiniteSet(Due') /\ Room' \in Nat /\ Numbers' \in Nat
        /\ Room <= Room' /\ Numbers <= Numbers'
        /\ \A w \in D : w \notin E => Room + 1 <= Room'
    <3>1. PICK d, e, c, q \in Nat :
            d = Cardinality(D) /\ e = Cardinality(E) /\ c = Cardinality(P) /\ q = Cardinality(Q)
      BY <2>5
    <3>2. e <= d /\ q <= c /\ \A w \in D : w \notin E => e + 1 <= d
      BY <2>5, <3>1
    <3>3. Room = s - d /\ Room' = s - e /\ Numbers = s - c /\ Numbers' = s - q
      BY <2>7, <3>1
    <3>4. Room \in Nat /\ Numbers \in Nat
      BY <1>a
    <3>5. IsFiniteSet(Due')
      BY <2>2, <2>5
    <3> QED
      BY <3>2, <3>3, <3>4, <3>5
  <2>9. PICK r, n \in Nat : r = Room' /\ n = Numbers'
    BY <2>8
  <2>10. Fits(log', r, n)
    <3>1. CASE log' = log
      BY <1>a, <2>8, <2>9, <3>1, FitsMore
    <3>2. CASE log' # log
      <4>1. PICK w \in Workers : ProcOf[w] = p /\ pc[w] = "write" /\ CutShort(w)
        BY <1>16, <3>2 DEF Crash
      <4>2. PICK l, full : Leaves(w, l, full)
        BY <1>0, <3>2, <4>1, CutShortIs
      <4>3. w \in D /\ w \notin E
        BY <1>b, <2>2, <2>3, <4>1 DEF KindOf, KindAt, Due
      <4>4. l \in Lines /\ l.seq = op[w].seq /\ log' = Append(log, l)
        BY <4>2 DEF Leaves
      <4>5. op[w].seq <= Numbers /\ op[w].seq \in Nat
        BY <1>0, OpIs DEF CountInv
      <4>6. l.seq <= n /\ Room + 1 <= r
        BY <1>a, <2>8, <2>9, <4>3, <4>4, <4>5
      <4> QED
        BY <1>a, <2>8, <2>9, <4>4, <4>6, FitsAppend
    <3> QED
      BY <3>1, <3>2
  <2>11. \A q \in Procs : bump'[q] <= n
    <3>1. \A q \in Procs : bump'[q] = bump[q] \/ bump'[q] = 0
      BY <1>0, <2>1 DEF TypeInv
    <3> QED
      BY <1>a, <2>8, <2>9, <3>1
  <2>12. ASSUME NEW v \in Workers
         PROVE  op'[v].seq <= n /\ Len(op'[v].snap) <= r /\ Fits(op'[v].rest, r, n)
    <3>1. CASE ProcOf[v] = p
      <4>1. op'[v].seq = 0 /\ op'[v].snap = <<>> /\ op'[v].rest = <<>>
        BY <2>1, <3>1 DEF NoOp
      <4> QED
        BY <4>1, FitsEmpty
    <3>2. CASE ProcOf[v] # p
      <4>1. op'[v] = op[v]
        BY <2>1, <3>2
      <4>2. op[v].seq <= Numbers /\ Len(op[v].snap) <= Room /\ Fits(op[v].rest, Room, Numbers)
        BY <1>0 DEF CountInv
      <4>3. op[v].seq \in Nat /\ op[v].snap \in Seq(Lines) /\ op[v].rest \in Seq(Lines)
        BY <1>0, OpIs
      <4>4. Len(op[v].snap) \in Nat
        BY <4>3
      <4>5. Fits(op[v].rest, r, n)
        BY <1>a, <2>8, <2>9, <4>2, <4>3, FitsMore
      <4> QED
        BY <1>a, <2>8, <2>9, <4>1, <4>2, <4>3, <4>4, <4>5
    <3> QED
      BY <3>1, <3>2
  <2> QED
    BY <2>8, <2>9, <2>10, <2>11, <2>12 DEF CountInv
<1> QED
  BY <1>1, <1>2, <1>3, <1>4, <1>5, <1>6, <1>7, <1>8, <1>9, <1>10, <1>11, <1>12, <1>13, <1>14,
     <1>15, <1>16 DEF Next, Starting, Appending, Sequencing, Rewriting

-----------------------------------------------------------------------------
(* Rows that are appended, archived, stamped. *)

LEMMA SortedAppend ==
  ASSUME NEW rows \in Seq(Lines), NEW l \in Lines, Sorted(rows), Above(l.seq, rows)
  PROVE  Sorted(Append(rows, l))
<1>1. PICK s : s = Append(rows, l)
  OBVIOUS
<1>2. PICK k \in Nat : k = Len(rows)
  OBVIOUS
<1>3. /\ DOMAIN s = 1 .. (k + 1) /\ DOMAIN rows = 1 .. k
      /\ s[k + 1] = l /\ \A i \in 1 .. k : s[i] = rows[i]
  BY <1>1, <1>2, AppendIs
<1>4. ASSUME NEW i \in DOMAIN s, NEW j \in DOMAIN s, i < j
      PROVE  s[i].seq < s[j].seq \/ s[i].seq = 0
  <2>1. i \in 1 .. k
    BY <1>3, <1>4
  <2>2. CASE j = k + 1
    BY <1>3, <2>1, <2>2 DEF Above
  <2>3. CASE j # k + 1
    <3>1. j \in 1 .. k
      BY <1>3, <2>3
    <3> QED
      BY <1>3, <1>4, <2>1, <3>1 DEF Sorted
  <2> QED
    BY <2>2, <2>3
<1> QED
  BY <1>1, <1>4 DEF Sorted

(* What is left of the rows behind c of them. *)
LEMMA TailIs ==
  ASSUME NEW rows \in Seq(Lines), NEW c \in 0 .. Len(rows)
  PROVE  LET rest == SubSeq(rows, c + 1, Len(rows)) IN
         /\ rest \in Seq(Lines) /\ Len(rest) = Len(rows) - c /\ DOMAIN rest = 1 .. (Len(rows) - c)
         /\ \A i \in 1 .. (Len(rows) - c) : i + c \in DOMAIN rows /\ rest[i] = rows[i + c]
<1>1. PICK k \in Nat : k = Len(rows)
  OBVIOUS
<1>2. PICK rest : rest = SubSeq(rows, c + 1, Len(rows))
  OBVIOUS
<1>3. /\ rest \in Seq(Lines) /\ Len(rest) = (IF c + 1 <= k THEN k - (c + 1) + 1 ELSE 0)
      /\ \A i \in 1 .. Len(rest) : rest[i] = rows[c + 1 + i - 1]
  BY <1>1, <1>2, SubSeqIs
<1>4. Len(rest) = k - c
  BY <1>1, <1>3
<1>5. DOMAIN rest = 1 .. (k - c) /\ DOMAIN rows = 1 .. k
  BY <1>1, <1>3, <1>4
<1>6. ASSUME NEW i \in 1 .. (k - c) PROVE i + c \in 1 .. k /\ rest[i] = rows[i + c]
  <2>1. c + 1 + i - 1 = i + c
    BY <1>1
  <2> QED
    BY <1>1, <1>3, <1>4, <2>1
<1> QED
  BY <1>1, <1>2, <1>3, <1>4, <1>5, <1>6

LEMMA SortedTail ==
  ASSUME NEW rows \in Seq(Lines), NEW c \in 0 .. Len(rows), Sorted(rows)
  PROVE  /\ Sorted(SubSeq(rows, c + 1, Len(rows)))
         /\ \A seq : Above(seq, rows) => Above(seq, SubSeq(rows, c + 1, Len(rows)))
<1>1. PICK rest : rest = SubSeq(rows, c + 1, Len(rows))
  OBVIOUS
<1>2. PICK k \in Nat : k = Len(rows)
  OBVIOUS
<1>3. DOMAIN rest = 1 .. (k - c) /\ \A i \in 1 .. (k - c) : i + c \in DOMAIN rows /\ rest[i] = rows[i + c]
  BY <1>1, <1>2, TailIs
<1>4. ASSUME NEW i \in DOMAIN rest, NEW j \in DOMAIN rest, i < j
      PROVE  rest[i].seq < rest[j].seq \/ rest[i].seq = 0
  <2>1. i + c < j + c
    BY <1>2, <1>3, <1>4
  <2> QED
    BY <1>3, <1>4, <2>1 DEF Sorted
<1>5. ASSUME NEW seq, Above(seq, rows) PROVE Above(seq, rest)
  BY <1>3, <1>5 DEF Above
<1> QED
  BY <1>1, <1>4, <1>5 DEF Sorted

LEMMA StampSame ==
  ASSUME NEW turns \in Seq(Lines), NEW rows \in Seq(Lines), NEW n \in Nat,
         \A i \in DOMAIN rows : rows[i].ok,
         \A i \in 1 .. Len(turns) : i + n \in DOMAIN rows /\ turns[i] = rows[i + n]
  PROVE  Stamp(turns, rows, n) = turns
<1>1. PICK s : s = Stamp(turns, rows, n)
  OBVIOUS
<1>2. /\ s \in Seq(Lines) /\ Len(s) = Len(turns)
      /\ \A i \in 1 .. Len(turns) :
           s[i] = Line(turns[i].id, IF i + n \in DOMAIN rows THEN rows[i + n].seq ELSE 0)
  BY <1>1, StampIs
<1>3. ASSUME NEW i \in 1 .. Len(turns) PROVE s[i] = turns[i]
  <2>1. PICK r : r = rows[i + n]
    OBVIOUS
  <2>2. r \in Lines /\ r.ok /\ turns[i] = r
    BY <1>3, <2>1
  <2>3. s[i] = Line(r.id, r.seq)
    BY <1>2, <1>3, <2>1, <2>2
  <2>4. r = [id |-> r.id, seq |-> r.seq, ok |-> r.ok] /\ r.ok \in BOOLEAN
    BY <2>2 DEF Lines
  <2>5. r.ok = TRUE
    BY <2>2, <2>4
  <2>6. r = [id |-> r.id, seq |-> r.seq, ok |-> TRUE]
    BY <2>4, <2>5
  <2> QED
    BY <2>2, <2>3, <2>6 DEF Line
<1>4. s = turns
  BY <1>2, <1>3, SeqEqual
<1> QED
  BY <1>1, <1>4

LEMMA LogRows ==
  ASSUME TypeInv
  PROVE  Parsed(log) \in Seq(Lines) /\ \A i \in DOMAIN Parsed(log) : Parsed(log)[i].ok
  BY ParsedHolds DEF TypeInv

LEMMA LeavesRow ==
  ASSUME TypeInv, NEW w \in Workers, NEW l, NEW full, Leaves(w, l, full)
  PROVE  /\ Parsed(log') = (IF full THEN Append(Parsed(log), l) ELSE Parsed(log))
         /\ l \in Lines /\ l.id = op[w].id /\ l.seq = op[w].seq
<1>1. l \in Lines /\ l.id = op[w].id /\ l.seq = op[w].seq /\ l.ok = full
  BY DEF Leaves
<1>2. PICK more : more = Append(log, l)
  OBVIOUS
<1>3. log' = more
  BY <1>2 DEF Leaves
<1>4. Parsed(more) = IF l.ok THEN Append(Parsed(log), l) ELSE Parsed(log)
  BY <1>1, <1>2, ParsedAppend DEF TypeInv
<1> QED
  BY <1>1, <1>3, <1>4

(* In calm executions the line reaches the log. *)
LEMMA WriteLineIs ==
  ASSUME TypeInv, WriteInv, Calm, NEW w \in Workers, WriteLine(w)
  PROVE  \E l : Leaves(w, l, TRUE)
<1>1. pc[w] = "write"
  BY ReturnIs DEF WriteLine
<1>2. op[w].fd = inode
  BY <1>1 DEF WriteInv
<1>3. PICK l : l = Line(op[w].id, op[w].seq)
  OBVIOUS
<1>4. l \in Lines /\ l.id = op[w].id /\ l.seq = op[w].seq /\ l.ok = TRUE
  BY <1>3, OpIs, LineIs DEF Line
<1>5. log' = Append(log, l)
  BY <1>1, <1>2, <1>3, WrittenIs DEF WriteLine
<1> QED
  BY <1>4, <1>5 DEF Leaves

(* A write that is cut short: nothing new to read, or the whole line. *)
LEMMA CutShortRows ==
  ASSUME TypeInv, WriteInv, NEW w \in Workers, pc[w] = "write", CutShort(w)
  PROVE  \/ Parsed(log') = Parsed(log)
         \/ \E l : Leaves(w, l, TRUE)
<1>1. CASE log' = log
  BY <1>1
<1>2. CASE log' # log
  <2>1. PICK l, full : Leaves(w, l, full)
    BY <1>2, CutShortIs
  <2>2. l \in Lines /\ l.ok = full
    BY <2>1 DEF Leaves
  <2>3. full \in BOOLEAN
    BY <2>2 DEF Lines
  <2>4. CASE full = TRUE
    BY <2>1, <2>4
  <2>5. CASE full = FALSE
    BY <2>1, <2>5, LeavesRow
  <2> QED
    BY <2>3, <2>4, <2>5
<1> QED
  BY <1>1, <1>2

(* The number a process takes is above all of the log. *)
LEMMA TakesAbove ==
  ASSUME TypeInv, CountInv, Sorted(Parsed(log)), NEW p \in Procs
  PROVE  Above(HighestSeq(p) + 1, Parsed(log))
<1>1. log \in Seq(Lines) /\ Len(log) <= Numbers /\ Numbers \in Nat
  <2>1. log \in Seq(Lines) /\ Len(log) <= Room
    BY DEF TypeInv, CountInv, Fits
  <2> QED
    BY <2>1, CountsAre
<1>2. \A i \in DOMAIN log : log[i].seq <= Numbers
  BY DEF CountInv, Fits
<1>3. \A i \in DOMAIN Parsed(log) : Parsed(log)[i].seq <= TailMaxSeq(log)
  BY <1>1, <1>2, TailMaxHighest
<1>4. PICK h, t \in Nat : h = HighestSeq(p) /\ t = TailMaxSeq(log) /\ t <= h
  BY HighestIs
<1>5. PICK rows \in Seq(Lines) : rows = Parsed(log)
  BY LogRows
<1>6. \A i \in DOMAIN rows : rows[i] \in Lines
  OBVIOUS
<1>7. \A i \in DOMAIN rows : rows[i].seq \in Nat /\ rows[i].seq <= t
  BY <1>3, <1>4, <1>5, <1>6 DEF Lines
<1>8. \A i \in DOMAIN rows : rows[i].seq < h + 1
  BY <1>4, <1>7
<1> QED
  BY <1>4, <1>5, <1>8 DEF Above

(* What the rewrite of a compaction does, when nobody came in between. *)
LEMMA RewriteCompactedIs ==
  ASSUME TypeInv, KindInv, TurnInv, ~used.orphans, NEW w \in Workers, RewriteCompacted(w)
  PROVE  \E c \in DOMAIN Parsed(log) :
           /\ op[w].kind = "compact" /\ c = op[w].cut /\ pc[w] = "rewrite"
           /\ op[w].mem \cup IdsOf(SubSeq(Parsed(log), 1, c)) \subseteq memory
           /\ LET rest == SubSeq(Parsed(log), c + 1, Len(Parsed(log))) IN
              \/ Parsed(log') = rest
              \/ \E l \in Lines : Parsed(log') = Append(rest, l) /\ Above(l.seq, Parsed(log))
<1>1. op[w].kind = "compact" /\ pc[w] = "rewrite"
  BY ReturnIs DEF RewriteCompacted
<1>2. PICK rows : rows = Parsed(log)
  OBVIOUS
<1>3. rows \in Seq(Lines) /\ \A i \in DOMAIN rows : rows[i].ok
  BY <1>2, LogRows
<1>4. PICK c : c = op[w].cut
  OBVIOUS
<1>5. op[w].snap = rows /\ op[w].mem \cup IdsOf(SubSeq(rows, 1, c)) \subseteq memory
      /\ op[w].rest = SubSeq(rows, c + 1, Len(rows))
      /\ Above(op[w].seq, rows)
  <2>1. Rewrite(op[w], pc[w], rows, memory) /\ (Numbered(op[w], pc[w]) => Above(op[w].seq, rows))
    BY <1>2 DEF TurnInv
  <2>2. "rewrite" \in Behind /\ Numbered(op[w], pc[w])
    BY <1>1 DEF Behind, Numbered
  <2> QED
    BY <1>1, <1>4, <2>1, <2>2 DEF Rewrite
<1>6. c \in DOMAIN rows
  BY <1>1, <1>4, <1>5 DEF KindInv, KindOf
<1>7. c \in 0 .. Len(rows)
  BY <1>3, <1>6
<1>8. PICK rest : rest = op[w].rest
  OBVIOUS
<1>9. /\ rest \in Seq(Lines) /\ DOMAIN rest = 1 .. (Len(rows) - c)
      /\ \A i \in 1 .. (Len(rows) - c) : i + c \in DOMAIN rows /\ rest[i] = rows[i + c]
  BY <1>3, <1>5, <1>7, <1>8, TailIs
<1>10. \A i \in DOMAIN rest : rest[i].ok
  BY <1>3, <1>9
<1>11. Parsed(rest) = rest
  BY <1>9, <1>10, ParsedWhole
<1>12. CASE log' = rest
  BY <1>1, <1>2, <1>4, <1>5, <1>6, <1>8, <1>11, <1>12
<1>13. CASE log' = Append(rest, Line(Notice, op[w].seq))
  <2>1. PICK l : l = Line(Notice, op[w].seq)
    OBVIOUS
  <2>2. l \in Lines /\ l.ok /\ l.seq = op[w].seq
    BY <2>1, OpIs, LineIs, BoundsAre DEF Notice, Ids
  <2>3. PICK more : more = Append(rest, l)
    OBVIOUS
  <2>4. Parsed(more) = Append(rest, l)
    BY <1>9, <1>11, <2>2, <2>3, ParsedAppend
  <2>5. log' = more
    BY <1>13, <2>1, <2>3
  <2> QED
    BY <1>1, <1>2, <1>4, <1>5, <1>6, <1>8, <2>2, <2>4, <2>5
<1> QED
  BY <1>8, <1>12, <1>13 DEF RewriteCompacted, Rename

(* A strip leaves the rows as they are. *)
LEMMA RewriteStrippedIs ==
  ASSUME TypeInv, TurnInv, ~used.orphans, NEW w \in Workers, RewriteStripped(w)
  PROVE  Parsed(log') = Parsed(log)
<1>1. op[w].kind = "strip" /\ pc[w] = "rewrite"
  BY ReturnIs DEF RewriteStripped
<1>2. PICK rows : rows = Parsed(log)
  OBVIOUS
<1>3. Rewrite(op[w], pc[w], rows, memory)
  BY <1>2 DEF TurnInv
<1>4. log' = rows
  BY <1>1, <1>3 DEF Rewrite, RewriteStripped, Rename
<1>5. Parsed(rows) = rows
  BY <1>2, LogRows, ParsedWhole
<1> QED
  BY <1>2, <1>4, <1>5

(* A worker outside the operations of a turn. *)
LEMMA AtRest ==
  ASSUME NEW o, NEW step, KindOf(o, step), step \in {"idle", "turn", "readSeq"}
  PROVE  /\ \A rows, told : Rewrite(o, step, rows, told)
         /\ ~Numbered(o, step)
         /\ o.kind \in {"none", "read"} /\ o.mem = {}
<1>1. o.kind \in {"none", "read"}
  BY DEF KindOf, KindAt
<1> QED
  BY <1>1 DEF KindOf, Rewrite, Numbered

(* What is left to show of a step inside an operation. *)
LEMMA TurnStays ==
  ASSUME TypeInv, KindInv, LockInv, CountInv, TurnInv, ~used.orphans, used'.orphans = used.orphans,
         NEW w \in Workers, StepBy(w), pc[w] \notin {"idle", "readSeq"},
         NEW rows, rows = Parsed(log'), Sorted(rows),
         Rewrite(op'[w], pc'[w], rows, memory'),
         Numbered(op'[w], pc'[w]) => Above(op'[w].seq, rows)
  PROVE  TurnInv'
<1>1. ASSUME NEW v \in Workers
      PROVE  /\ Rewrite(op'[v], pc'[v], rows, memory')
             /\ Numbered(op'[v], pc'[v]) => Above(op'[v].seq, rows)
  <2>1. CASE v # w
    <3>1. pc[v] \in {"idle", "readSeq"} /\ KindOf(op[v], pc[v])
      BY <2>1, Alone DEF KindInv
    <3>2. pc'[v] = pc[v] /\ op'[v] = op[v]
      BY <2>1, FrameIs
    <3> QED
      BY <3>1, <3>2, AtRest
  <2> QED
    BY <2>1
<1> QED
  BY <1>1 DEF TurnInv

LEMMA TurnStep == IInv /\ [Next]_vars => TurnInv'
<1> SUFFICES ASSUME IInv, [Next]_vars, ~used'.orphans PROVE TurnInv'
  BY DEF TurnInv
<1>0. /\ TypeInv /\ KindInv /\ CountInv /\ LockInv /\ WriteInv /\ TurnInv
      /\ ~used.orphans /\ Calm /\ used'.orphans = used.orphans /\ KindInv'
  BY OrphansStay, KindStep DEF IInv, Calm
<1>a. PICK rows : rows = Parsed(log)
  OBVIOUS
<1>b. rows \in Seq(Lines) /\ Sorted(rows) /\ \A i \in DOMAIN rows : rows[i].ok
  BY <1>0, <1>a, LogRows DEF TurnInv
<1>c. \A w \in Workers : /\ KindOf(op[w], pc[w]) /\ KindOf(op'[w], pc'[w])
                         /\ Rewrite(op[w], pc[w], rows, memory)
                         /\ Numbered(op[w], pc[w]) => Above(op[w].seq, rows)
  BY <1>0, <1>a DEF KindInv, TurnInv
<1>1. ASSUME NEW w \in Workers, StepBy(w), pc[w] \in {"idle", "readSeq"} PROVE TurnInv'
  <2>1. log' = log /\ memory' = memory /\ pc'[w] \in {"idle", "turn", "readSeq"}
    BY <1>0, <1>1, IdleSteps
  <2>2. \A v \in Workers \ {w} : pc'[v] = pc[v] /\ op'[v] = op[v]
    BY <1>0, <1>1, FrameIs
  <2>3. ASSUME NEW v \in Workers
        PROVE  /\ Rewrite(op'[v], pc'[v], rows, memory')
               /\ Numbered(op'[v], pc'[v]) => Above(op'[v].seq, rows)
    BY <1>c, <2>1, <2>2, AtRest
  <2> QED
    BY <1>a, <1>b, <2>1, <2>3 DEF TurnInv
<1>2. ASSUME NEW w \in Workers, StepBy(w), pc[w] \notin {"idle", "readSeq"}, log' = log,
             Rewrite(op'[w], pc'[w], rows, memory'),
             Numbered(op'[w], pc'[w]) => Above(op'[w].seq, rows)
      PROVE  TurnInv'
  BY <1>0, <1>a, <1>b, <1>2, TurnStays
(* An operation ends. *)
<1>3. ASSUME NEW w \in Workers, StepBy(w), NEW from, from \notin {"idle", "readSeq"}, Return(w, from),
             Sorted(Parsed(log'))
      PROVE  TurnInv'
  <2>1. pc[w] = from /\ pc'[w] \in {"idle", "turn"}
    BY <1>0, <1>3, ReturnIs
  <2>2. PICK s : s = Parsed(log')
    OBVIOUS
  <2>3. Rewrite(op'[w], pc'[w], s, memory') /\ ~Numbered(op'[w], pc'[w])
    BY <1>c, <2>1, AtRest
  <2> QED
    BY <1>0, <1>3, <2>1, <2>2, <2>3, TurnStays
<1>4. ASSUME NEW w \in Workers, StepBy(w),
             \/ CheckLocked(w) \/ AcquireForAppend(w)
             \/ LockSeqMu(w) \/ CheckLockedForSeq(w) \/ AcquireForSeq(w) \/ EndTurn(w)
      PROVE  TurnInv'
  <2>1. \E from, to \in Steps : Goto(w, from, to) /\ op' = op /\ log' = log /\ memory' = memory
           /\ \/ from \in {"check", "acquire", "turn"} /\ to \in {"acquire", "seqMu", "idle"}
              \/ from \in {"seqMu", "seqCheck", "seqAcquire"} /\ to \in {"seqCheck", "seqAcquire", "alloc"}
    BY <1>4 DEF CheckLocked, AcquireForAppend, LockSeqMu, CheckLockedForSeq, AcquireForSeq, EndTurn,
       fileVars, Steps
  <2>2. PICK from, to \in Steps :
          /\ pc[w] = from /\ pc'[w] = to /\ op' = op /\ log' = log /\ memory' = memory
          /\ \/ from \in {"check", "acquire", "turn"} /\ to \in {"acquire", "seqMu", "idle"}
             \/ from \in {"seqMu", "seqCheck", "seqAcquire"} /\ to \in {"seqCheck", "seqAcquire", "alloc"}
    BY <1>0, <2>1, GotoType DEF Goto
  <2>3. ~Numbered(op'[w], pc'[w])
    BY <2>2 DEF Numbered
  <2>4. Rewrite(op[w], to, rows, memory)
    <3>1. CASE from \in {"check", "acquire", "turn"}
      <4>1. op[w].kind \in {"none", "user", "event"}
        BY <1>c, <2>2, <3>1 DEF KindOf, KindAt
      <4> QED
        BY <4>1 DEF Rewrite
    <3>2. CASE from \notin {"check", "acquire", "turn"}
      <4>1. from \in Behind /\ to \in Behind /\ to # "rewrite"
        BY <2>2, <3>2 DEF Behind
      <4>2. from \notin {"claims", "claimsWrite", "memTruncate", "memWrite", "rewrite"}
            /\ to \notin {"claims", "claimsWrite", "memTruncate", "memWrite", "rewrite"}
        BY <2>2, <3>2
      <4>3. Rewrite(op[w], from, rows, memory)
        BY <1>c, <2>2
      <4> QED
        BY <4>1, <4>2, <4>3 DEF Rewrite
    <3> QED
      BY <3>1, <3>2
  <2>5. pc[w] \notin {"idle", "readSeq"}
    BY <2>2
  <2> QED
    BY <1>2, <1>4, <2>2, <2>3, <2>4, <2>5
<1>5. ASSUME NEW w \in Workers, StepBy(w), StartAppend(w) \/ StartToolEvent(w) PROVE TurnInv'
  <2>1. PICK o \in Ops : Becomes(w, o) /\ o.kind \in {"user", "event", "tool"}
    <3>1. CASE StartAppend(w)
      <4>1. PICK o \in Ops, k \in {"user", "event"} :
              Becomes(w, o) /\ o = [op[w] EXCEPT !.kind = k, !.id = used.turns + 1]
        BY <1>0, <3>1, StartAppendIs
      <4>2. o.kind = k
        BY <1>0, <4>1, OpIs DEF Ops
      <4> QED
        BY <4>1, <4>2
    <3>2. CASE StartToolEvent(w)
      <4>1. PICK o \in Ops : Becomes(w, o) /\ o = [op[w] EXCEPT !.kind = "tool"]
        BY <1>0, <3>2, StartToolEventIs
      <4>2. o.kind = "tool"
        BY <1>0, <4>1, OpIs DEF Ops
      <4> QED
        BY <4>1, <4>2
    <3> QED
      BY <1>5, <3>1, <3>2
  <2>2. pc[w] = "turn" /\ pc'[w] \in {"check", "seqMu"} /\ log' = log /\ memory' = memory
    BY <1>0, <1>5, GotoType DEF StartAppend, StartToolEvent, Goto, Steps, fileVars
  <2>3. op'[w] = o
    BY <1>0, <2>1, OthersStay
  <2>4. Rewrite(o, pc'[w], rows, memory') /\ ~Numbered(o, pc'[w])
    BY <2>1, <2>2 DEF Rewrite, Numbered
  <2> QED
    BY <1>2, <1>5, <2>2, <2>3, <2>4
<1>6. ASSUME NEW w \in Workers, StepBy(w), StartCompact(w) PROVE TurnInv'
  <2>1. PICK o \in Ops, n \in DOMAIN Parsed(log) :
          /\ Becomes(w, o)
          /\ o = [NoOp EXCEPT !.kind = "compact", !.cut = n, !.snap = Parsed(log), !.mem = memory]
    BY <1>0, <1>6, StartCompactIs
  <2>2. pc[w] = "turn" /\ pc'[w] \in {"claims", "memTruncate"} /\ log' = log /\ memory' = memory
    BY <1>0, <1>6, GotoType DEF StartCompact, Goto, Steps, fileVars
  <2>3. op'[w] = o /\ o.kind = "compact" /\ o.snap = rows /\ o.mem = memory
    BY <1>0, <1>a, <2>1, OthersStay DEF NoOp
  <2>4. Rewrite(o, pc'[w], rows, memory') /\ ~Numbered(o, pc'[w])
    BY <2>2, <2>3 DEF Rewrite, Numbered, Behind
  <2> QED
    BY <1>2, <1>6, <2>2, <2>3, <2>4
<1>7. ASSUME NEW w \in Workers, StepBy(w), StartStrip(w) PROVE TurnInv'
  <2>1. PICK o \in Ops : Becomes(w, o) /\ o = [NoOp EXCEPT !.kind = "strip", !.snap = Parsed(log)]
    BY <1>0, <1>7, StartStripIs
  <2>2. pc[w] = "turn" /\ pc'[w] = "pairUp" /\ log' = log /\ memory' = memory
    BY <1>0, <1>7, GotoType DEF StartStrip, Goto, Steps, fileVars
  <2>3. op'[w] = o /\ o.kind = "strip" /\ o.snap = rows
    BY <1>0, <1>a, <2>1, OthersStay DEF NoOp
  <2>4. Rewrite(o, pc'[w], rows, memory') /\ ~Numbered(o, pc'[w])
    BY <2>2, <2>3 DEF Rewrite, Numbered
  <2> QED
    BY <1>2, <1>7, <2>2, <2>3, <2>4
<1>8. ASSUME NEW w \in Workers, StepBy(w), OpenLog(w) PROVE TurnInv'
  <2>1. PICK o \in Ops : Becomes(w, o) /\ o = [op[w] EXCEPT !.fd = inode]
    BY <1>0, <1>8, OpenLogIs
  <2>2. pc[w] = "open" /\ pc'[w] = "write" /\ log' = log /\ memory' = memory
    BY <1>0, <1>8, GotoType DEF OpenLog, Goto, Steps
  <2>3. op'[w] = o /\ o.kind = op[w].kind /\ o.seq = op[w].seq
    BY <1>0, <2>1, OpIs, OthersStay DEF Ops
  <2>4. op[w].kind \in {"user", "event"} /\ Above(op[w].seq, rows)
    BY <1>c, <2>2 DEF KindOf, KindAt, Numbered
  <2>5. Rewrite(o, pc'[w], rows, memory')
    BY <2>3, <2>4 DEF Rewrite
  <2> QED
    BY <1>2, <1>8, <2>2, <2>3, <2>4, <2>5

<1>9. ASSUME NEW w \in Workers, StepBy(w), WriteLine(w) \/ WriteFails(w) PROVE TurnInv'
  <2>1. Return(w, "write") /\ pc[w] = "write"
    BY <1>0, <1>9, ReturnIs DEF WriteLine, WriteFails
  <2>2. Above(op[w].seq, rows)
    BY <1>c, <2>1 DEF Numbered
  <2>3. Parsed(log') = rows \/ \E l : Leaves(w, l, TRUE)
    BY <1>0, <1>9, <1>a, <2>1, WriteLineIs, CutShortRows DEF WriteFails
  <2>4. ASSUME NEW l, Leaves(w, l, TRUE) PROVE Sorted(Parsed(log'))
    <3>1. Parsed(log') = Append(rows, l) /\ l \in Lines /\ l.seq = op[w].seq
      BY <1>0, <1>a, <2>4, LeavesRow
    <3> QED
      BY <1>b, <2>2, <3>1, SortedAppend
  <2> QED
    BY <1>3, <1>9, <1>b, <2>1, <2>3, <2>4
<1>10. ASSUME NEW w \in Workers, StepBy(w), Allocate(w) PROVE TurnInv'
  <2>1. PICK next \in Nat, o \in Ops :
           /\ next = HighestSeq(ProcOf[w]) + 1
           /\ pc[w] = "alloc" /\ Becomes(w, o)
           /\ op[w].kind # "tool" =>
                /\ o = [op[w] EXCEPT !.seq = next]
                /\ pc'[w] = (IF op[w].kind = "compact" THEN "rewrite" ELSE "open")
    BY <1>0, <1>10, AllocateIs
  <2>2. log' = log /\ memory' = memory
    BY <1>10 DEF Allocate, fileVars
  <2>3. CASE op[w].kind = "tool"
    <3>1. Return(w, "alloc")
      BY <1>10, <2>3 DEF Allocate
    <3> QED
      BY <1>3, <1>10, <1>a, <1>b, <2>2, <3>1
  <2>4. CASE op[w].kind # "tool"
    <3>1. /\ op'[w] = o /\ o.kind = op[w].kind /\ o.seq = next /\ o.snap = op[w].snap
          /\ o.rest = op[w].rest /\ o.cut = op[w].cut /\ o.mem = op[w].mem
      BY <1>0, <2>1, <2>4, OpIs, OthersStay DEF Ops
    <3>2. Above(next, rows)
      BY <1>0, <1>a, <1>b, <2>1, TakesAbove, BoundsAre
    <3>3. op[w].kind \in {"user", "event", "compact"} /\ Rewrite(op[w], "alloc", rows, memory)
      BY <1>c, <2>1, <2>4 DEF KindOf, KindAt
    <3>4. Rewrite(o, pc'[w], rows, memory')
      <4>1. CASE op[w].kind = "compact"
        <5>1. "alloc" \in Behind /\ "rewrite" \in Behind
          BY DEF Behind
        <5> QED
          BY <2>1, <2>2, <3>1, <3>3, <4>1, <5>1 DEF Rewrite
      <4>2. CASE op[w].kind # "compact"
        BY <3>1, <3>3, <4>2 DEF Rewrite
      <4> QED
        BY <4>1, <4>2
    <3> QED
      BY <1>2, <1>10, <2>1, <2>2, <3>1, <3>2, <3>4
  <2> QED
    BY <2>3, <2>4
<1>11. ASSUME NEW w \in Workers, StepBy(w), TruncateMemory(w) \/ WriteClaims(w) \/ WriteMemory(w) PROVE TurnInv'
  <2>1. op' = op /\ log' = log
    BY <1>11 DEF TruncateMemory, WriteClaims, WriteMemory, fileVars
  <2>2. /\ pc[w] \in {"claims", "memTruncate", "claimsWrite", "memWrite"}
        /\ \/ pc'[w] \in {"claimsWrite", "memWrite"} /\ memory' = {}
           \/ pc'[w] = "memTruncate" /\ pc[w] = "claimsWrite" /\ memory' \in {op[w].mem, memory}
           \/ /\ pc'[w] = "readBack"
              /\ memory' = op[w].mem \cup IdsOf(SubSeq(op[w].snap, 1, op[w].cut))
    BY <1>0, <1>11, GotoType DEF TruncateMemory, WriteClaims, WriteMemory, Goto, Steps
  <2>3. op[w].kind = "compact" /\ Rewrite(op[w], pc[w], rows, memory)
    BY <1>c, <2>2 DEF KindOf, KindAt
  <2>4. op[w].snap = rows /\ (pc[w] = "claimsWrite" => memory = {})
    BY <2>3 DEF Rewrite
  <2>5. Rewrite(op[w], pc'[w], rows, memory')
    BY <2>2, <2>3, <2>4 DEF Rewrite, Behind
  <2>6. ~Numbered(op'[w], pc'[w]) /\ pc[w] \notin {"idle", "readSeq"}
    BY <2>2 DEF Numbered
  <2> QED
    BY <1>2, <1>11, <2>1, <2>5, <2>6
<1>12. ASSUME NEW w \in Workers, StepBy(w), ReadBack(w) PROVE TurnInv'
  <2> DEFINE remaining == SubSeq(op[w].snap, op[w].cut + 1, Len(op[w].snap))
  <2>1. PICK o \in Ops, rest \in Seq(Lines), n \in Nat :
          /\ Becomes(w, o) /\ o = [op[w] EXCEPT !.rest = rest]
          /\ rest = Stamp(remaining, rows, n)
          /\ remaining \in Seq(Lines) /\ Len(remaining) <= Len(op[w].snap)
          /\ n = (IF Len(rows) < Len(remaining) THEN 0 ELSE Len(rows) - Len(remaining))
    BY <1>0, <1>12, <1>a, ReadBackIs
  <2>2. pc[w] = "readBack" /\ pc'[w] = "seqMu" /\ log' = log /\ memory' = memory
    BY <1>0, <1>12, GotoType DEF ReadBack, Goto, Steps, fileVars
  <2>3. op[w].kind = "compact" /\ Rewrite(op[w], "readBack", rows, memory)
    BY <1>c, <2>2 DEF KindOf, KindAt
  <2>4. PICK c : c = op[w].cut
    OBVIOUS
  <2>5. op[w].snap = rows /\ op[w].mem \cup IdsOf(SubSeq(rows, 1, c)) \subseteq memory
    BY <2>3, <2>4 DEF Rewrite
  <2>6. c \in DOMAIN rows
    BY <1>c, <2>3, <2>4, <2>5 DEF KindOf
  <2>7. c \in 0 .. Len(rows) /\ Len(rows) \in Nat
    BY <1>b, <2>6
  <2>8. PICK tail : tail = SubSeq(rows, c + 1, Len(rows))
    OBVIOUS
  <2>9. /\ tail \in Seq(Lines) /\ Len(tail) = Len(rows) - c
        /\ \A i \in 1 .. (Len(rows) - c) : i + c \in DOMAIN rows /\ tail[i] = rows[i + c]
    BY <1>b, <2>7, <2>8, TailIs
  <2>10. remaining = tail
    BY <2>4, <2>5, <2>8
  <2> HIDE DEF remaining
  <2>11. n = c
    <3>1. PICK k \in Nat : k = Len(rows)
      BY <2>7
    <3>2. Len(remaining) = k - c /\ c \in 0 .. k
      BY <2>7, <2>9, <2>10, <3>1
    <3>3. n = IF k < k - c THEN 0 ELSE k - (k - c)
      BY <2>1, <3>1, <3>2
    <3> QED
      BY <3>2, <3>3
  <2>12. rest = tail
    BY <1>b, <2>1, <2>7, <2>9, <2>10, <2>11, StampSame
  <2>13. /\ op'[w] = o /\ o.kind = op[w].kind /\ o.snap = op[w].snap
         /\ o.rest = rest /\ o.cut = op[w].cut /\ o.mem = op[w].mem
    BY <1>0, <2>1, OpIs, OthersStay DEF Ops
  <2>14. Rewrite(o, "seqMu", rows, memory) /\ ~Numbered(o, "seqMu")
    BY <2>3, <2>4, <2>5, <2>8, <2>12, <2>13 DEF Rewrite, Numbered, Behind
  <2> QED
    BY <1>2, <1>12, <2>2, <2>13, <2>14
<1>13. ASSUME NEW w \in Workers, StepBy(w), PairUp(w) PROVE TurnInv'
  <2>1. PICK o \in Ops, rest \in Seq(Lines) :
           /\ Becomes(w, o) /\ o = [op[w] EXCEPT !.rest = rest]
           /\ rest = Stamp(op[w].snap, rows, 0)
    BY <1>0, <1>13, <1>a, PairUpIs
  <2>2. pc[w] = "pairUp" /\ pc'[w] = "rewrite" /\ log' = log /\ memory' = memory
    BY <1>0, <1>13, GotoType DEF PairUp, Goto, Steps, fileVars
  <2>3. op[w].kind = "strip" /\ Rewrite(op[w], "pairUp", rows, memory)
    BY <1>c, <2>2 DEF KindOf, KindAt
  <2>4. op[w].snap = rows
    BY <2>3 DEF Rewrite
  <2>5. \A i \in 1 .. Len(rows) : i + 0 \in DOMAIN rows /\ rows[i] = rows[i + 0]
    BY <1>b
  <2>6. rest = rows
    BY <1>b, <2>1, <2>4, <2>5, StampSame
  <2>7. op'[w] = o /\ o.kind = op[w].kind /\ o.snap = op[w].snap /\ o.rest = rest
    BY <1>0, <2>1, OpIs, OthersStay DEF Ops
  <2>8. Rewrite(o, "rewrite", rows, memory) /\ ~Numbered(o, "rewrite")
    BY <2>3, <2>4, <2>6, <2>7 DEF Rewrite, Numbered
  <2> QED
    BY <1>2, <1>13, <2>2, <2>7, <2>8
<1>14. ASSUME NEW w \in Workers, StepBy(w), RewriteCompacted(w) PROVE TurnInv'
  <2>1. PICK c \in DOMAIN rows :
          LET rest == SubSeq(rows, c + 1, Len(rows)) IN
          \/ Parsed(log') = rest
          \/ \E l \in Lines : Parsed(log') = Append(rest, l) /\ Above(l.seq, rows)
    BY <1>0, <1>14, <1>a, RewriteCompactedIs
  <2>2. c \in 0 .. Len(rows)
    BY <1>b
  <2>3. PICK rest : rest = SubSeq(rows, c + 1, Len(rows))
    OBVIOUS
  <2>4. rest \in Seq(Lines) /\ Sorted(rest) /\ \A seq : Above(seq, rows) => Above(seq, rest)
    BY <1>b, <2>2, <2>3, TailIs, SortedTail
  <2>5. Sorted(Parsed(log'))
    BY <2>1, <2>3, <2>4, SortedAppend
  <2>6. Return(w, "rewrite")
    BY <1>14 DEF RewriteCompacted
  <2> QED
    BY <1>3, <1>14, <2>5, <2>6
<1>15. ASSUME NEW w \in Workers, StepBy(w), RewriteStripped(w) PROVE TurnInv'
  <2>1. Parsed(log') = rows /\ Return(w, "rewrite")
    BY <1>0, <1>15, <1>a, RewriteStrippedIs DEF RewriteStripped
  <2> QED
    BY <1>3, <1>15, <1>b, <2>1
<1>16. ASSUME NEW w \in Workers, StepBy(w), SummaryFails(w) \/ RewriteFails(w) PROVE TurnInv'
  <2>1. log' = log /\ \E from : Return(w, from) /\ from \notin {"idle", "readSeq"}
    BY <1>16 DEF SummaryFails, RewriteFails, fileVars
  <2> QED
    BY <1>3, <1>16, <1>a, <1>b, <2>1
<1>17. ASSUME NEW w \in Workers, StepBy(w) PROVE TurnInv'
  <2>1. ~Abandon(w)
    BY <1>0 DEF Abandon
  <2>2. BeginTurn(w) \/ StartRead(w) \/ ReadSeq(w) => pc[w] \in {"idle", "readSeq"}
    BY DEF BeginTurn, StartRead, ReadSeq, Return, Goto
  <2> QED
    BY <1>1, <1>4, <1>5, <1>6, <1>7, <1>8, <1>9, <1>10, <1>11, <1>12, <1>13, <1>14, <1>15, <1>16,
       <1>17, <2>1, <2>2 DEF StepBy, Starting, Appending, Sequencing, Rewriting
<1>18. ASSUME NEW p \in Procs, Crash(p) PROVE TurnInv'
  <2>1. \A v \in Workers : \/ op'[v] = NoOp /\ pc'[v] = "idle"
                           \/ op'[v] = op[v] /\ pc'[v] = pc[v] /\ ProcOf[v] # p
    BY <1>18 DEF Crash
  <2>2. memory' = memory
    BY <1>18 DEF Crash
  <2>3. CASE log' = log
    <3>1. ASSUME NEW v \in Workers
          PROVE  /\ Rewrite(op'[v], pc'[v], rows, memory)
                 /\ Numbered(op'[v], pc'[v]) => Above(op'[v].seq, rows)
      BY <1>c, <2>1, AtRest
    <3> QED
      BY <1>a, <1>b, <2>2, <2>3, <3>1 DEF TurnInv
  <2>4. CASE log' # log
    <3>1. PICK w \in Workers : ProcOf[w] = p /\ pc[w] = "write" /\ CutShort(w)
      BY <1>18, <2>4 DEF Crash
    <3>2. PICK s : s = Parsed(log')
      OBVIOUS
    <3>3. Sorted(s)
      <4>1. s = rows \/ \E l : Leaves(w, l, TRUE)
        BY <1>0, <1>a, <3>1, <3>2, CutShortRows
      <4>2. Above(op[w].seq, rows)
        BY <1>c, <3>1 DEF Numbered
      <4>3. ASSUME NEW l, Leaves(w, l, TRUE) PROVE Sorted(s)
        <5>1. s = Append(rows, l) /\ l \in Lines /\ l.seq = op[w].seq
          BY <1>0, <1>a, <3>2, <4>3, LeavesRow
        <5> QED
          BY <1>b, <4>2, <5>1, SortedAppend
      <4> QED
        BY <1>b, <4>1, <4>3
    <3>4. ASSUME NEW v \in Workers
          PROVE  Rewrite(op'[v], pc'[v], s, memory') /\ ~Numbered(op'[v], pc'[v])
      <4>1. pc'[v] \in {"idle", "readSeq"}
        BY <1>0, <2>1, <3>1, Alone
      <4> QED
        BY <1>c, <4>1, AtRest
    <3> QED
      BY <3>2, <3>3, <3>4 DEF TurnInv
  <2> QED
    BY <2>3, <2>4
<1>19. CASE UNCHANGED vars
  BY <1>0, <1>19 DEF TurnInv, vars
<1> QED
  BY <1>17, <1>18, <1>19, NextIs

-----------------------------------------------------------------------------
(* Nothing is forgotten. *)

LEMMA IdsAppend ==
  ASSUME NEW s \in Seq(Lines), NEW l \in Lines
  PROVE  IdsOf(Append(s, l)) = IdsOf(s) \cup {l.id}
<1>1. PICK q : q = Append(s, l)
  OBVIOUS
<1>2. PICK k \in Nat : k = Len(s)
  OBVIOUS
<1>3. /\ DOMAIN q = 1 .. (k + 1) /\ DOMAIN s = 1 .. k
      /\ q[k + 1] = l /\ \A i \in 1 .. k : q[i] = s[i]
  BY <1>1, <1>2, AppendIs
<1>4. \A i \in 1 .. (k + 1) : i \in 1 .. k \/ i = k + 1
  OBVIOUS
<1>5. k + 1 \in 1 .. (k + 1) /\ \A i \in 1 .. k : i \in 1 .. (k + 1)
  OBVIOUS
<1>6. IdsOf(q) \subseteq IdsOf(s) \cup {l.id}
  BY <1>3, <1>4 DEF IdsOf
<1>7. IdsOf(s) \cup {l.id} \subseteq IdsOf(q)
  BY <1>3, <1>5 DEF IdsOf
<1> QED
  BY <1>1, <1>6, <1>7

LEMMA IdsSplit ==
  ASSUME NEW rows \in Seq(Lines), NEW c \in 0 .. Len(rows)
  PROVE  IdsOf(rows) \subseteq IdsOf(SubSeq(rows, 1, c)) \cup IdsOf(SubSeq(rows, c + 1, Len(rows)))
<1>1. PICK k \in Nat : k = Len(rows)
  OBVIOUS
<1>2. PICK head, rest : head = SubSeq(rows, 1, c) /\ rest = SubSeq(rows, c + 1, Len(rows))
  OBVIOUS
<1>3. /\ DOMAIN rest = 1 .. (k - c) /\ DOMAIN rows = 1 .. k
      /\ \A i \in 1 .. (k - c) : rest[i] = rows[i + c]
  BY <1>1, <1>2, TailIs
<1>4. /\ head \in Seq(Lines) /\ Len(head) = (IF 1 <= c THEN c - 1 + 1 ELSE 0)
      /\ \A i \in 1 .. Len(head) : head[i] = rows[1 + i - 1]
  BY <1>1, <1>2, SubSeqIs
<1>5. DOMAIN head = 1 .. c /\ \A i \in 1 .. c : head[i] = rows[i]
  BY <1>1, <1>4
<1>6. ASSUME NEW i \in DOMAIN rows PROVE rows[i].id \in IdsOf(head) \cup IdsOf(rest)
  <2>1. CASE i <= c
    <3>1. i \in 1 .. c
      BY <1>1, <1>3, <2>1
    <3> QED
      BY <1>5, <3>1 DEF IdsOf
  <2>2. CASE ~(i <= c)
    <3>1. i - c \in 1 .. (k - c) /\ (i - c) + c = i
      BY <1>1, <1>3, <2>2
    <3>2. PICK j \in 1 .. (k - c) : j = i - c /\ j + c = i
      BY <3>1
    <3>3. rest[j] = rows[i] /\ j \in DOMAIN rest
      BY <1>3, <3>2
    <3> QED
      BY <3>3 DEF IdsOf
  <2> QED
    BY <2>1, <2>2
<1>7. ASSUME NEW x \in IdsOf(rows) PROVE x \in IdsOf(head) \cup IdsOf(rest)
  <2>1. PICK i \in DOMAIN rows : x = rows[i].id
    BY DEF IdsOf
  <2> QED
    BY <1>6, <2>1
<1> QED
  BY <1>2, <1>7

(* What is left to show of a step of one worker. *)
LEMMA LostStays ==
  ASSUME TypeInv, NEW w \in Workers, NothingLost,
         \A v \in Workers \ {w} : op'[v] = op[v],
         torn => torn',
         NEW told, told = memory' \cup op'[w].mem,
         NEW rows, rows = Parsed(log'),
         ~torn' => IdsOf(Parsed(log)) \subseteq IdsOf(rows) \cup told,
         ~torn' => memory \cup op[w].mem \subseteq told,
         acked' = acked \/ (acked' = acked \cup {op[w].id} /\ op[w].id \in IdsOf(rows))
  PROVE  NothingLost'
<1>1. SUFFICES ASSUME ~torn', NEW x \in acked'
               PROVE  x \in IdsOf(rows) \cup memory' \cup UNION {op'[v].mem : v \in Workers}
  BY DEF NothingLost, Summarised
<1>2. told \subseteq memory' \cup UNION {op'[v].mem : v \in Workers}
  OBVIOUS
<1>3. CASE x \in acked
  <2>1. x \in IdsOf(Parsed(log)) \cup memory \cup UNION {op[v].mem : v \in Workers}
    BY <1>1, <1>3 DEF NothingLost, Summarised
  <2>2. CASE x \in IdsOf(Parsed(log)) \/ x \in memory
    BY <1>1, <1>2, <2>2
  <2>3. ASSUME NEW v \in Workers, x \in op[v].mem
        PROVE  x \in IdsOf(rows) \cup memory' \cup UNION {op'[u].mem : u \in Workers}
    <3>1. CASE v = w
      BY <1>1, <1>2, <2>3, <3>1
    <3>2. CASE v # w
      BY <2>3, <3>2
    <3> QED
      BY <3>1, <3>2
  <2> QED
    BY <2>1, <2>2, <2>3
<1>4. CASE x \notin acked
  BY <1>1, <1>4
<1> QED
  BY <1>3, <1>4

LEMMA LostStep == IInv /\ [Next]_vars => LostInv'
<1> SUFFICES ASSUME IInv, [Next]_vars, Calm PROVE NothingLost'
  BY OrphansStay DEF LostInv, Calm
<1>0. /\ TypeInv /\ KindInv /\ CountInv /\ LockInv /\ WriteInv /\ TurnInv /\ OrphanInv
      /\ NothingLost /\ KindInv'
  BY KindStep DEF IInv, LostInv
<1>a. PICK rows : rows = Parsed(log)
  OBVIOUS
<1>b. rows \in Seq(Lines)
  BY <1>0, <1>a, LogRows
<1>c. \A w \in Workers : /\ KindOf(op[w], pc[w])
                         /\ op[w].kind \in {"compact", "strip"} =>
                              ~used.orphans /\ Rewrite(op[w], pc[w], rows, memory)
  BY <1>0, <1>a DEF KindInv, TurnInv, Calm, OrphanInv
<1>d. \A w \in Workers : op[w].kind # "compact" => op[w].mem = {}
  BY <1>c DEF KindOf
(* The rows and MEMORY.md stay, and so does what the operation read of it. *)
<1>1. ASSUME NEW w \in Workers, StepBy(w), log' = log, memory' = memory, acked' = acked, torn => torn',
             op'[w].mem = op[w].mem \/ op[w].mem = {} \/ (~torn' => op[w].mem \subseteq memory)
      PROVE  NothingLost'
  <2>1. \A v \in Workers \ {w} : op'[v] = op[v]
    BY <1>0, <1>1, FrameIs
  <2>2. PICK told : told = memory' \cup op'[w].mem
    OBVIOUS
  <2>3. ~torn' => memory \cup op[w].mem \subseteq told
    BY <1>1, <2>2
  <2> QED
    BY <1>0, <1>1, <1>a, <2>1, <2>2, <2>3, LostStays
<1>2. ASSUME NEW w \in Workers, StepBy(w),
             \/ BeginTurn(w) \/ EndTurn(w) \/ CheckLocked(w) \/ AcquireForAppend(w)
             \/ LockSeqMu(w) \/ CheckLockedForSeq(w) \/ AcquireForSeq(w) \/ Abandon(w)
      PROVE  NothingLost'
  <2>1. op' = op /\ log' = log /\ memory' = memory /\ acked' = acked /\ torn' = torn
    BY <1>2 DEF BeginTurn, EndTurn, CheckLocked, AcquireForAppend, LockSeqMu, CheckLockedForSeq,
       AcquireForSeq, Abandon, fileVars, ghosts
  <2> QED
    BY <1>1, <1>2, <2>1
<1>3. ASSUME NEW w \in Workers, StepBy(w),
             \/ StartAppend(w) \/ StartToolEvent(w) \/ StartRead(w) \/ StartCompact(w) \/ StartStrip(w)
             \/ OpenLog(w) \/ PairUp(w)
      PROVE  NothingLost'
  <2>1. log' = log /\ memory' = memory /\ acked' = acked /\ torn' = torn
    BY <1>3 DEF StartAppend, StartToolEvent, StartRead, StartCompact, StartStrip, OpenLog, PairUp,
       fileVars, ghosts
  <2>2. pc[w] \in {"idle", "turn", "open", "pairUp"}
    BY <1>3 DEF StartAppend, StartToolEvent, StartRead, StartCompact, StartStrip, OpenLog, PairUp, Goto
  <2>3. op[w].mem = {}
    BY <1>c, <1>d, <2>2 DEF KindOf, KindAt
  <2> QED
    BY <1>1, <1>3, <2>1, <2>3
<1>4. ASSUME NEW w \in Workers, StepBy(w), ReadBack(w) PROVE NothingLost'
  <2>1. log' = log /\ memory' = memory /\ acked' = acked /\ torn' = torn
    BY <1>4 DEF ReadBack, fileVars, ghosts
  <2>2. PICK o \in Ops, rest \in Seq(Lines) : Becomes(w, o) /\ o = [op[w] EXCEPT !.rest = rest]
    BY <1>0, <1>4, ReadBackIs
  <2>3. op'[w].mem = op[w].mem
    <3>1. op[w] \in Ops
      BY <1>0, OpIs
    <3>2. o.mem = op[w].mem
      BY <2>2, <3>1 DEF Ops
    <3> QED
      BY <1>0, <2>2, <3>2, OthersStay
  <2> QED
    BY <1>1, <1>4, <2>1, <2>3
<1>5. ASSUME NEW w \in Workers, StepBy(w), Allocate(w) PROVE NothingLost'
  <2>1. log' = log /\ memory' = memory /\ acked' = acked /\ torn' = torn
    BY <1>5 DEF Allocate, fileVars, ghosts
  <2>2. op'[w].mem = op[w].mem \/ op[w].mem = {}
    <3>1. CASE op[w].kind = "tool"
      BY <1>d, <3>1
    <3>2. CASE op[w].kind # "tool"
      <4>1. PICK next \in Nat, o \in Ops : Becomes(w, o) /\ o = [op[w] EXCEPT !.seq = next]
        BY <1>0, <1>5, <3>2, AllocateIs
      <4> QED
        BY <1>0, <4>1, OpIs, OthersStay DEF Ops
    <3> QED
      BY <3>1, <3>2
  <2> QED
    BY <1>1, <1>5, <2>1, <2>2
<1>6. ASSUME NEW w \in Workers, StepBy(w), ReadSeq(w) PROVE NothingLost'
  <2>1. log' = log /\ memory' = memory /\ acked' = acked /\ torn' = torn /\ pc[w] = "readSeq"
    BY <1>6 DEF ReadSeq, Return, Goto, fileVars, ghosts
  <2>2. op[w].mem = {}
    BY <1>c, <1>d, <2>1 DEF KindOf, KindAt
  <2> QED
    BY <1>1, <1>6, <2>1, <2>2
<1>7. ASSUME NEW w \in Workers, StepBy(w), SummaryFails(w) \/ RewriteFails(w) PROVE NothingLost'
  <2>1. log' = log /\ memory' = memory /\ acked' = acked /\ torn' = (torn \/ Forgotten(w))
    BY <1>7 DEF SummaryFails, RewriteFails, fileVars
  <2> QED
    BY <1>1, <1>7, <2>1 DEF Forgotten
(* The log grows. *)
<1>8. ASSUME NEW w \in Workers, StepBy(w), WriteLine(w) \/ WriteFails(w) PROVE NothingLost'
  <2>1. pc[w] = "write" /\ memory' = memory /\ torn' = torn
    BY <1>8 DEF WriteLine, WriteFails, Return, Goto
  <2>2. PICK s : s = Parsed(log')
    OBVIOUS
  <2>3. op[w].mem = {} /\ \A v \in Workers \ {w} : op'[v] = op[v]
    BY <1>0, <1>8, <1>c, <1>d, <2>1, FrameIs DEF KindOf, KindAt
  <2>4. ASSUME NEW l, Leaves(w, l, TRUE) PROVE IdsOf(s) = IdsOf(rows) \cup {op[w].id}
    <3>1. s = Append(rows, l) /\ l \in Lines /\ l.id = op[w].id
      BY <1>0, <1>a, <2>2, <2>4, LeavesRow
    <3> QED
      BY <1>b, <3>1, IdsAppend
  <2>5. s = rows \/ \E l : Leaves(w, l, TRUE)
    BY <1>0, <1>8, <1>a, <2>1, <2>2, WriteLineIs, CutShortRows DEF WriteFails
  <2>6. acked' = acked \/ (acked' = acked \cup {op[w].id} /\ op[w].id \in IdsOf(s))
    <3>1. CASE WriteLine(w)
      <4>1. PICK l : Leaves(w, l, TRUE)
        BY <1>0, <3>1, WriteLineIs
      <4> QED
        BY <2>4, <3>1, <4>1 DEF WriteLine
    <3>2. CASE WriteFails(w)
      BY <3>2 DEF WriteFails
    <3> QED
      BY <1>8, <3>1, <3>2
  <2>7. IdsOf(rows) \subseteq IdsOf(s)
    BY <2>4, <2>5
  <2>8. PICK told : told = memory' \cup op'[w].mem
    OBVIOUS
  <2>9. memory \cup op[w].mem \subseteq told
    BY <2>1, <2>3, <2>8
  <2> QED
    BY <1>0, <1>a, <2>1, <2>2, <2>3, <2>6, <2>7, <2>8, <2>9, LostStays
(* MEMORY.md is overwritten by an operation that has read it. *)
<1>9. ASSUME NEW w \in Workers, StepBy(w), TruncateMemory(w) \/ WriteClaims(w) \/ WriteMemory(w)
      PROVE  NothingLost'
  <2>1. op' = op /\ log' = log /\ acked' = acked /\ torn' = torn
    BY <1>9 DEF TruncateMemory, WriteClaims, WriteMemory, fileVars, ghosts
  <2>2. pc[w] \in {"claims", "memTruncate", "claimsWrite", "memWrite"}
    BY <1>9 DEF TruncateMemory, WriteClaims, WriteMemory, Goto
  <2>3. op[w].kind = "compact"
    BY <1>c, <2>2 DEF KindOf, KindAt
  <2>4. memory \in {op[w].mem, {}}
    BY <1>c, <2>2, <2>3 DEF Rewrite
  <2>5. PICK told : told = memory' \cup op'[w].mem
    OBVIOUS
  <2>6. memory \cup op[w].mem \subseteq told
    BY <2>1, <2>4, <2>5
  <2> QED
    BY <1>0, <1>a, <2>1, <2>5, <2>6, LostStays
(* A rename. *)
<1>10. ASSUME NEW w \in Workers, StepBy(w), RewriteCompacted(w) PROVE NothingLost'
  <2>1. ~used.orphans /\ memory' = memory /\ acked' = acked /\ torn' = torn
    BY <1>10, <1>c DEF RewriteCompacted, ghosts
  <2>2. PICK c \in DOMAIN rows :
           /\ op[w].mem \cup IdsOf(SubSeq(rows, 1, c)) \subseteq memory
           /\ LET rest == SubSeq(rows, c + 1, Len(rows)) IN
              \/ Parsed(log') = rest
              \/ \E l \in Lines : Parsed(log') = Append(rest, l)
    BY <1>0, <1>10, <1>a, <2>1, RewriteCompactedIs
  <2>3. PICK rest : rest = SubSeq(rows, c + 1, Len(rows))
    OBVIOUS
  <2>4. PICK s : s = Parsed(log')
    OBVIOUS
  <2>5. c \in 0 .. Len(rows)
    BY <1>b
  <2>6. rest \in Seq(Lines)
    BY <1>b, <2>3, <2>5, TailIs
  <2>7. IdsOf(rest) \subseteq IdsOf(s)
    BY <2>2, <2>3, <2>4, <2>6, IdsAppend
  <2>8. IdsOf(rows) \subseteq IdsOf(SubSeq(rows, 1, c)) \cup IdsOf(rest)
    BY <1>b, <2>3, <2>5, IdsSplit
  <2>9. PICK told : told = memory' \cup op'[w].mem
    OBVIOUS
  <2>10. IdsOf(rows) \subseteq IdsOf(s) \cup told /\ memory \cup op[w].mem \subseteq told
    BY <2>1, <2>2, <2>7, <2>8, <2>9
  <2>11. \A v \in Workers \ {w} : op'[v] = op[v]
    BY <1>0, <1>10, FrameIs
  <2> QED
    BY <1>0, <1>a, <2>1, <2>4, <2>9, <2>10, <2>11, LostStays
<1>11. ASSUME NEW w \in Workers, StepBy(w), RewriteStripped(w) PROVE NothingLost'
  <2>1. op[w].kind = "strip" /\ memory' = memory /\ acked' = acked /\ torn' = torn
    BY <1>11 DEF RewriteStripped, ghosts
  <2>2. Parsed(log') = rows
    BY <1>0, <1>11, <1>a, <1>c, <2>1, RewriteStrippedIs
  <2>3. op[w].mem = {} /\ \A v \in Workers \ {w} : op'[v] = op[v]
    BY <1>0, <1>11, <1>d, <2>1, FrameIs
  <2>4. PICK told : told = memory' \cup op'[w].mem
    OBVIOUS
  <2>5. memory \cup op[w].mem \subseteq told
    BY <2>1, <2>3, <2>4
  <2> QED
    BY <1>0, <1>a, <2>1, <2>2, <2>3, <2>4, <2>5, LostStays
<1>12. ASSUME NEW p \in Procs, Crash(p) PROVE NothingLost'
  <2>1. /\ \A v \in Workers : ProcOf[v] # p => op'[v] = op[v]
        /\ torn' = (torn \/ \E v \in {u \in Workers : ProcOf[u] = p} : Forgotten(v))
        /\ memory' = memory /\ acked' = acked
    BY <1>12 DEF Crash
  <2>2. PICK s : s = Parsed(log')
    OBVIOUS
  <2>3. IdsOf(rows) \subseteq IdsOf(s)
    <3>1. CASE log' = log
      BY <1>a, <2>2, <3>1
    <3>2. CASE log' # log
      <4>1. PICK w \in Workers : pc[w] = "write" /\ CutShort(w)
        BY <1>12, <3>2 DEF Crash
      <4>2. s = rows \/ \E l : Leaves(w, l, TRUE)
        BY <1>0, <1>a, <2>2, <4>1, CutShortRows
      <4>3. ASSUME NEW l, Leaves(w, l, TRUE) PROVE IdsOf(rows) \subseteq IdsOf(s)
        <5>1. s = Append(rows, l) /\ l \in Lines
          BY <1>0, <1>a, <2>2, <4>3, LeavesRow
        <5> QED
          BY <1>b, <5>1, IdsAppend
      <4> QED
        BY <4>2, <4>3
    <3> QED
      BY <3>1, <3>2
  <2>4. SUFFICES ASSUME ~torn', NEW x \in acked'
                 PROVE  x \in IdsOf(s) \cup memory' \cup UNION {op'[v].mem : v \in Workers}
    BY <2>2 DEF NothingLost, Summarised
  <2>5. x \in IdsOf(rows) \cup memory \cup UNION {op[v].mem : v \in Workers}
    BY <1>0, <1>a, <2>1, <2>4 DEF NothingLost, Summarised
  <2>6. ASSUME NEW v \in Workers, x \in op[v].mem
        PROVE  x \in memory' \cup UNION {op'[u].mem : u \in Workers}
    <3>1. CASE ProcOf[v] = p
      BY <2>1, <2>4, <2>6, <3>1 DEF Forgotten
    <3>2. CASE ProcOf[v] # p
      BY <2>1, <2>6, <3>2
    <3> QED
      BY <3>1, <3>2
  <2> QED
    BY <2>1, <2>3, <2>5, <2>6
<1>13. CASE UNCHANGED vars
  BY <1>0, <1>13 DEF NothingLost, Summarised, vars
<1> QED
  BY <1>2, <1>3, <1>4, <1>5, <1>6, <1>7, <1>8, <1>9, <1>10, <1>11, <1>12, <1>13, NextIs
     DEF StepBy, Starting, Appending, Sequencing, Rewriting

-----------------------------------------------------------------------------
(* The initial states. *)

(* The log a session starts from: rows without a seq. *)
LEMMA OldLog ==
  ASSUME NEW n \in 0 .. LegacyRows, NEW lines, lines = [i \in 1 .. n |-> Line(i, 0)]
  PROVE  /\ lines \in Seq(Lines) /\ Len(lines) = n
         /\ \A i \in DOMAIN lines : lines[i].seq = 0
         /\ \A i \in DOMAIN Parsed(lines) : Parsed(lines)[i].seq = 0
         /\ 1 .. n \subseteq IdsOf(Parsed(lines)) /\ 1 .. n \subseteq Ids
<1>1. n \in Nat /\ 1 .. n \subseteq Ids
  BY BoundsAre DEF Ids
<1>2. \A i \in 1 .. n : Line(i, 0) \in Lines
  BY <1>1, LineIs
<1>3. lines \in Seq(Lines) /\ Len(lines) = n /\ DOMAIN lines = 1 .. n
  BY <1>1, <1>2
<1>4. \A i \in 1 .. n : lines[i].seq = 0 /\ lines[i].id = i /\ lines[i].ok
  BY <1>3 DEF Line
<1>5. PICK rows : rows = Parsed(lines)
  OBVIOUS
<1>6. /\ \A i \in DOMAIN rows : \E j \in DOMAIN lines : rows[i] = lines[j]
      /\ \A j \in DOMAIN lines : lines[j].ok => \E i \in DOMAIN rows : rows[i] = lines[j]
  <2>1. PICK old \in Seq(Lines) : old = lines
    BY <1>3
  <2>2. rows = Parsed(old)
    BY <1>5, <2>1
  <2>3. \A i \in DOMAIN rows : \E j \in DOMAIN old : rows[i] = old[j]
    BY <2>2, ParsedHolds
  <2>4. \A j \in DOMAIN old : old[j].ok => \E i \in DOMAIN rows : rows[i] = old[j]
    BY <2>2, ParsedHolds
  <2> QED
    BY <2>1, <2>3, <2>4
<1>7. \A i \in DOMAIN rows : rows[i].seq = 0
  BY <1>3, <1>4, <1>6
<1>8. 1 .. n \subseteq IdsOf(rows)
  BY <1>3, <1>4, <1>6 DEF IdsOf
<1> QED
  BY <1>1, <1>3, <1>4, <1>5, <1>7, <1>8

LEMMA InitIInv == Init => IInv
<1> SUFFICES ASSUME Init PROVE IInv
  OBVIOUS
<1>1. PICK n \in 0 .. LegacyRows, orphans \in {FALSE, Orphans} :
        /\ log = [i \in 1 .. n |-> Line(i, 0)]
        /\ acked = 1 .. n
        /\ used = [turns |-> n, tools |-> 0, orphans |-> orphans,
                   rewrites |-> IF orphans THEN MaxRewrites - OrphanRewrites ELSE 0,
                   faults |-> IF orphans THEN MaxFaults ELSE 0]
  BY DEF Init
<1>2. /\ log \in Seq(Lines) /\ Len(log) = n
      /\ \A i \in DOMAIN log : log[i].seq = 0
      /\ \A i \in DOMAIN Parsed(log) : Parsed(log)[i].seq = 0
      /\ 1 .. n \subseteq IdsOf(Parsed(log)) /\ 1 .. n \subseteq Ids
  BY <1>1, OldLog
<1>3. /\ owner = NoOne /\ hold = [w \in Workers |-> "none"] /\ terminated = TRUE /\ inode = 0
      /\ memory = {} /\ bump = [p \in Procs |-> 0] /\ seqMu = [p \in Procs |-> NoOne]
      /\ pc = [w \in Workers |-> "idle"] /\ op = [w \in Workers |-> NoOp] /\ torn = FALSE
  BY DEF Init
<1>4. orphans \in BOOLEAN /\ n \in 0 .. (LegacyRows + MaxTurns) /\ n \in Nat
  <2>1. orphans \in BOOLEAN
    BY BoundsAre
  <2>2. LegacyRows \in Nat /\ MaxTurns \in Nat
    BY BoundsAre
  <2>3. n \in 0 .. (LegacyRows + MaxTurns) /\ n \in Nat
    BY <2>2
  <2> QED
    BY <2>1, <2>3
<1>5. PICK r, f \in Nat :
        /\ r = (IF orphans THEN MaxRewrites - OrphanRewrites ELSE 0)
        /\ f = (IF orphans THEN MaxFaults ELSE 0)
        /\ r \in 0 .. MaxRewrites /\ f \in 0 .. MaxFaults
  <2>1. /\ MaxRewrites - OrphanRewrites \in 0 .. MaxRewrites
        /\ MaxRewrites \in Nat /\ MaxFaults \in Nat
    BY BoundsAre
  <2>2. CASE orphans
    <3>1. PICK r \in Nat : r = MaxRewrites - OrphanRewrites /\ r \in 0 .. MaxRewrites
      BY <2>1
    <3> QED
      BY <2>1, <2>2, <3>1
  <2>3. CASE ~orphans
    <3>1. 0 \in Nat /\ 0 \in 0 .. MaxRewrites /\ 0 \in 0 .. MaxFaults
      BY <2>1
    <3> QED
      BY <2>3, <3>1
  <2> QED
    BY <2>2, <2>3
<1>6. used = [turns |-> n, tools |-> 0, orphans |-> orphans, rewrites |-> r, faults |-> f]
  BY <1>1, <1>5
<1>7. used \in Uses
  BY <1>4, <1>5, <1>6, BoundsAre DEF Uses
<1>8. TypeInv
  BY <1>1, <1>2, <1>3, <1>7, NoOpIs DEF TypeInv, Steps
<1>9. KindOf(NoOp, "idle")
  BY NoOpIs DEF KindOf, KindAt
<1>10. KindInv
  BY <1>3, <1>9 DEF KindInv
<1>11. LockInv
  <2>1. OwnerInv
    BY <1>3, BoundsAre DEF OwnerInv
  <2>2. HoldInv
    BY <1>3 DEF HoldInv, HoldOf
  <2>3. MuInv
    BY <1>3, BoundsAre DEF MuInv
  <2> QED
    BY <2>1, <2>2, <2>3 DEF LockInv
<1>12. CountInv
  <2>1. Due = {} /\ Pending = {}
    BY <1>3, NoOpIs DEF Due, Pending
  <2>2. Cardinality({}) = 0 /\ IsFiniteSet({})
    BY FS_EmptySet
  <2>3. Spent = n + r
    BY <1>4, <1>5, <1>6 DEF Spent
  <2>4. PICK m \in Nat : m = Room /\ m = Numbers /\ n <= m
    BY <1>4, <1>5, <2>1, <2>2, <2>3 DEF Room, Numbers
  <2>5. Fits(log, m, m) /\ Fits(<<>>, m, m)
    BY <1>2, <2>4, FitsEmpty DEF Fits
  <2>6. \A w \in Workers : op[w].seq = 0 /\ op[w].snap = <<>> /\ op[w].rest = <<>>
    BY <1>3 DEF NoOp
  <2> QED
    BY <1>3, <2>1, <2>2, <2>4, <2>5, <2>6 DEF CountInv
<1>13. OrphanInv
  <2>1. orphans => r = MaxRewrites - OrphanRewrites /\ f = MaxFaults
    BY <1>5
  <2>2. used.orphans = orphans /\ used.rewrites = r /\ used.faults = f
    BY <1>6
  <2> QED
    BY <1>3, <2>1, <2>2, NoOpIs, BoundsAre DEF OrphanInv
<1>14. WriteInv
  BY <1>3 DEF WriteInv
<1>15. TurnInv
  <2>1. Sorted(Parsed(log))
    BY <1>2 DEF Sorted
  <2> QED
    BY <1>3, <1>9, <2>1, AtRest DEF TurnInv
<1>16. LostInv
  BY <1>1, <1>2 DEF LostInv, NothingLost
<1> QED
  BY <1>8, <1>10, <1>11, <1>12, <1>13, <1>14, <1>15, <1>16 DEF IInv

LEMMA StepIInv == IInv /\ [Next]_vars => IInv'
  BY TypeStep, KindStep, LockStep, CountStep, OrphanStep, WriteStep, TurnStep, LostStep DEF IInv

-----------------------------------------------------------------------------
(* The theorems about states. *)

(***************************************************************************)
(* The inductive invariant, whatever the processes, workers and bounds: an *)
(* operation holds the locks its step needs (seq.go, session_store.go:     *)
(* 253-279), the numbers taken stay within what was spent, a line is only  *)
(* written with a number above all others, and a rewrite knows the rows it *)
(* replaces.                                                               *)
(***************************************************************************)
THEOREM Invariance == Spec => []IInv
<1> QED
  BY InitIInv, StepIInv, PTL DEF Spec

LEMMA TypesHold == IInv => TypeOK
<1> SUFFICES ASSUME IInv PROVE TypeOK
  OBVIOUS
<1>0. TypeInv /\ CountInv
  BY DEF IInv
<1>1. Numbers \in Nat /\ \A n \in Nat : n <= Numbers => n \in Seqs
  <2>1. PICK c \in Nat : c = Cardinality(Pending)
    BY <1>0, CountsAre
  <2>2. PICK t, l, r \in Nat : /\ t = used.turns /\ l = used.tools /\ r = used.rewrites
                               /\ t <= LegacyRows + MaxTurns /\ l <= MaxToolEvents /\ r <= MaxRewrites
    BY <1>0, UsedIs
  <2>3. Numbers \in Nat /\ Numbers = t + l + r - c
    <3>1. Numbers \in Nat
      BY <1>0, CountsAre
    <3>2. Spent = t + l + r
      BY <2>2 DEF Spent
    <3>3. Numbers = Spent - Cardinality(Pending)
      BY DEF Numbers
    <3>4. Numbers = t + l + r - c
      BY <2>1, <3>2, <3>3
    <3> QED
      BY <3>1, <3>4
  <2>4. LegacyRows \in Nat /\ MaxTurns \in Nat /\ MaxRewrites \in Nat /\ MaxToolEvents \in Nat
    BY BoundsAre
  <2>5. Numbers <= LegacyRows + MaxTurns + MaxRewrites + MaxToolEvents
    BY <2>1, <2>2, <2>3, <2>4
  <2> QED
    BY <2>3, <2>4, <2>5 DEF Seqs
<1>2. \A i \in DOMAIN log : log[i] \in LineSet
  <2>1. ASSUME NEW i \in DOMAIN log PROVE log[i] \in LineSet
    <3>1. log[i] \in Lines /\ log[i].seq <= Numbers
      BY <1>0, <2>1 DEF TypeInv, CountInv, Fits
    <3>2. log[i].seq \in Seqs
      BY <1>1, <3>1 DEF Lines
    <3> QED
      BY <3>1, <3>2 DEF Lines, LineSet
  <2> QED
    BY <2>1
<1>3. bump \in [Procs -> Seqs]
  <2>1. \A p \in Procs : bump[p] \in Seqs
    BY <1>0, <1>1 DEF TypeInv, CountInv
  <2> QED
    BY <1>0, <2>1 DEF TypeInv
<1>4. \A w \in Workers : op[w].kind \in Kinds /\ op[w].seq \in Seqs
  BY <1>0, <1>1, OpIs DEF CountInv
<1> QED
  BY <1>0, <1>2, <1>3, <1>4 DEF TypeInv, TypeOK

LEMMA LocksAreReturned == IInv => LocksReturned
<1> SUFFICES ASSUME IInv, NEW w \in Workers, pc[w] = "idle" PROVE owner # w /\ seqMu[ProcOf[w]] # w
  BY DEF LocksReturned
<1>1. hold[w] = "none"
  BY DEF IInv, TypeInv, LockInv, HoldInv, HoldOf
<1>2. owner # w
  BY <1>1 DEF IInv, LockInv, OwnerInv
<1>3. seqMu[ProcOf[w]] # w
  BY BoundsAre DEF IInv, LockInv, MuInv, InSeqMu
<1> QED
  BY <1>2, <1>3

LEMMA NumbersAreSound == IInv /\ ~used.orphans => TailHoldsMax /\ UniqueSeqs
<1> SUFFICES ASSUME IInv, ~used.orphans PROVE TailHoldsMax /\ UniqueSeqs
  OBVIOUS
<1>0. TypeInv /\ CountInv /\ log \in Seq(Lines)
  BY DEF IInv, TypeInv
<1>1. PICK rows \in Seq(Lines) : rows = Parsed(log)
  BY <1>0, LogRows
<1>2. Sorted(rows)
  BY <1>1 DEF IInv, TurnInv
<1>3. TailHoldsMax
  <2>1. Len(log) <= Room /\ Len(log) \in Nat
    BY <1>0 DEF CountInv, Fits
  <2>2. Numbers \in Nat /\ Len(log) <= Numbers
    BY <1>0, <2>1, CountsAre
  <2>3. \A i \in DOMAIN log : log[i].seq <= Numbers
    BY <1>0 DEF CountInv, Fits
  <2>4. \A i \in DOMAIN rows : rows[i].seq <= TailMaxSeq(log)
    BY <1>0, <1>1, <1>2, <2>2, <2>3, TailMaxHighest
  <2>5. \A j \in DOMAIN log : log[j].ok => \E i \in DOMAIN Parsed(log) : Parsed(log)[i] = log[j]
    BY <1>0, ParsedHolds
  <2> QED
    BY <1>1, <2>4, <2>5 DEF TailHoldsMax
<1>4. ASSUME NEW i \in DOMAIN rows, NEW j \in DOMAIN rows,
             rows[i].seq = rows[j].seq, rows[i].seq > 0
      PROVE  i = j
  <2>1. rows[i] \in Lines /\ rows[j] \in Lines /\ i \in Nat /\ j \in Nat
    BY <1>4
  <2>2. rows[i].seq \in Nat
    BY <2>1 DEF Lines
  <2>3. ~(i < j) /\ ~(j < i)
    BY <1>2, <1>4, <2>2 DEF Sorted
  <2> QED
    BY <2>1, <2>3
<1> QED
  BY <1>1, <1>3, <1>4 DEF UniqueSeqs

(***************************************************************************)
(* For every number of processes and handlers and every bound: each path   *)
(* out of an append and of NextSeq gives back the locks it took, even when *)
(* the handler has left first; and as long as handlers outlive their       *)
(* streams, no number is given twice and the last line tells the highest   *)
(* (seq.go:111-117, 215-225, session_store.go:253-279).                    *)
(***************************************************************************)
THEOREM LogIsSound == Spec => []LogSound
<1>1. IInv => LogSound
  BY TypesHold, LocksAreReturned, NumbersAreSound DEF LogSound
<1> QED
  BY <1>1, Invariance, PTL

(***************************************************************************)
(* A turn whose append reported success is in the log or in MEMORY.md,     *)
(* unless an overwrite of MEMORY.md ended half-way (compaction.go:257), in *)
(* every execution in which no stream that was left behind meets a         *)
(* rewrite.                                                                *)
(***************************************************************************)
THEOREM AckedTurnsStay == Spec => [](~used.orphans \/ OrphanRewrites = 0 => NothingLost)
<1>1. IInv => (~used.orphans \/ OrphanRewrites = 0 => NothingLost)
  BY DEF IInv, LostInv, Calm
<1> QED
  BY <1>1, Invariance, PTL

-----------------------------------------------------------------------------
(* The session implements TurnLog. *)

(* What is in front of a line that was appended. *)
LEMMA HeadIs ==
  ASSUME NEW rows \in Seq(Lines), NEW l \in Lines
  PROVE  SubSeq(Append(rows, l), 1, Len(rows)) = rows
<1>1. PICK k \in Nat : k = Len(rows)
  OBVIOUS
<1>2. PICK more : more = Append(rows, l)
  OBVIOUS
<1>3. /\ more \in Seq(Lines) /\ Len(more) = k + 1
      /\ \A i \in 1 .. k : more[i] = rows[i]
  BY <1>1, <1>2, AppendIs
<1>4. PICK head : head = SubSeq(more, 1, k)
  OBVIOUS
<1>5. k \in 0 .. Len(more) /\ 1 \in Nat /\ 1 >= 1
  BY <1>1, <1>3
<1>6. /\ head \in Seq(Lines) /\ Len(head) = (IF 1 <= k THEN k - 1 + 1 ELSE 0)
      /\ \A i \in 1 .. Len(head) : head[i] = more[1 + i - 1]
  BY <1>3, <1>4, <1>5, SubSeqIs
<1>7. Len(head) = k /\ \A i \in 1 .. k : head[i] = more[i]
  BY <1>1, <1>6
<1>8. head = rows
  BY <1>1, <1>3, <1>6, <1>7, SeqEqual
<1> QED
  BY <1>1, <1>2, <1>4, <1>8

LEMMA CommitIs ==
  ASSUME NEW rows \in Seq(Lines), rows = Parsed(log), NEW l \in Lines, Above(l.seq, rows),
         Parsed(log') = Append(rows, l), Summarised' = Summarised
  PROVE  Session!Commit
<1>1. PICK k \in Nat : k = Len(rows)
  OBVIOUS
<1>2. PICK more : more = Append(rows, l)
  OBVIOUS
<1>3. Len(more) = k + 1 /\ more[k + 1] = l
  BY <1>1, <1>2, AppendIs
<1>4. SubSeq(more, 1, Len(rows)) = rows
  BY <1>2, HeadIs
<1>5. Len(more) = Len(rows) + 1 /\ more[Len(more)] = l
  BY <1>1, <1>3
<1>6. \A i \in DOMAIN rows : rows[i].seq < l.seq
  BY DEF Above
<1> QED
  BY <1>2, <1>4, <1>5, <1>6 DEF Session!Commit, Session!Above

LEMMA ArchiveIs ==
  ASSUME NEW rows \in Seq(Lines), rows = Parsed(log), NEW n \in DOMAIN rows,
         IdsOf(SubSeq(rows, 1, n)) \subseteq Summarised, Summarised' = Summarised,
         NEW rest, rest = SubSeq(rows, n + 1, Len(rows)),
         \/ Parsed(log') = rest
         \/ \E l \in Lines : Parsed(log') = Append(rest, l) /\ Above(l.seq, rows)
  PROVE  Session!Archive
<1>1. n \in 0 .. Len(rows)
  OBVIOUS
<1>2. rest \in Seq(Lines)
  BY <1>1, TailIs
<1>3. Session!IdsOf(SubSeq(rows, 1, n)) \subseteq Summarised
  BY DEF IdsOf, Session!IdsOf
<1>4. CASE Parsed(log') = rest
  BY <1>3, <1>4 DEF Session!Archive
<1>5. ASSUME NEW l \in Lines, Parsed(log') = Append(rest, l), Above(l.seq, rows)
      PROVE  Session!Archive
  <2>1. PICK k \in Nat : k = Len(rest)
    BY <1>2
  <2>2. PICK more : more = Append(rest, l)
    OBVIOUS
  <2>3. Len(more) = k + 1 /\ more[k + 1] = l
    BY <1>2, <2>1, <2>2, AppendIs
  <2>4. SubSeq(more, 1, Len(rest)) = rest
    BY <1>2, <2>2, HeadIs
  <2>5. Len(more) = Len(rest) + 1 /\ more[Len(more)] = l
    BY <2>1, <2>3
  <2>6. \A i \in DOMAIN rows : rows[i].seq < l.seq
    BY <1>5 DEF Above
  <2> QED
    BY <1>3, <1>5, <2>2, <2>4, <2>5, <2>6 DEF Session!Archive, Session!Above
<1> QED
  BY <1>4, <1>5

(* Only the worker whose turn it is has MEMORY.md in its hands. *)
LEMMA SummarisedIs ==
  ASSUME TypeInv, KindInv, LockInv, CountInv, ~used.orphans,
         NEW w \in Workers, pc[w] \notin {"idle", "readSeq"}
  PROVE  /\ \A v \in Workers \ {w} : op[v].mem = {}
         /\ Summarised = memory \cup op[w].mem
         /\ StepBy(w) => Summarised' = memory' \cup op'[w].mem
<1>1. ASSUME NEW v \in Workers \ {w} PROVE op[v].mem = {}
  <2>1. pc[v] \in {"idle", "readSeq"} /\ KindOf(op[v], pc[v])
    BY <1>1, Alone DEF KindInv
  <2> QED
    BY <2>1, AtRest
<1>2. Summarised = memory \cup op[w].mem
  BY <1>1 DEF Summarised
<1>3. ASSUME StepBy(w) PROVE Summarised' = memory' \cup op'[w].mem
  <2>1. \A v \in Workers \ {w} : op'[v].mem = {}
    BY <1>1, <1>3, FrameIs
  <2> QED
    BY <2>1 DEF Summarised
<1> QED
  BY <1>1, <1>2, <1>3

(* What MEMORY.md told is in the operation's hands only, or still in the file. *)
LEMMA InHand ==
  ASSUME TypeInv, KindInv, TurnInv, ~used.orphans, NEW w \in Workers
  PROVE  op[w].mem \subseteq memory \/ memory = {}
<1>1. Rewrite(op[w], pc[w], Parsed(log), memory) /\ KindOf(op[w], pc[w])
  BY DEF TurnInv, KindInv
<1>2. CASE op[w].kind # "compact"
  BY <1>1, <1>2 DEF KindOf
<1>3. CASE op[w].kind = "compact"
  <2>1. \/ pc[w] \in {"claims", "memTruncate", "claimsWrite", "memWrite"}
        \/ pc[w] \in Behind \cup {"readBack"}
    <3>1. pc[w] \in Steps
      BY DEF TypeInv
    <3>2. pc[w] \notin {"idle", "turn", "readSeq", "check", "acquire", "open", "write", "pairUp"}
      BY <1>1, <1>3 DEF KindOf, KindAt
    <3> QED
      BY <3>1, <3>2 DEF Behind, Steps
  <2> QED
    BY <1>1, <1>3, <2>1 DEF Rewrite
<1> QED
  BY <1>2, <1>3

(* The operation lets go of it. *)
LEMMA LetGo ==
  ASSUME TypeInv, KindInv, TurnInv, ~used.orphans, NEW w \in Workers,
         Parsed(log') = Parsed(log), Summarised = memory \cup op[w].mem, Summarised' = memory
  PROVE  Session!Forget \/ UNCHANGED <<Parsed(log), Summarised>>
<1>1. CASE op[w].mem \subseteq memory
  BY <1>1
<1>2. CASE memory = {}
  BY <1>2 DEF Session!Forget
<1> QED
  BY <1>1, <1>2, InHand
LEMMA TurnLogStep ==
  ASSUME IInv, [Next]_vars, ~used.orphans
  PROVE  Session!Next \/ UNCHANGED <<Parsed(log), Summarised>>
<1>0. /\ TypeInv /\ KindInv /\ CountInv /\ LockInv /\ WriteInv /\ TurnInv /\ Calm
  BY DEF IInv, Calm
<1>a. PICK rows : rows = Parsed(log)
  OBVIOUS
<1>b. rows \in Seq(Lines)
  BY <1>0, <1>a, LogRows
<1>c. \A w \in Workers : /\ KindOf(op[w], pc[w])
                         /\ Rewrite(op[w], pc[w], rows, memory)
                         /\ Numbered(op[w], pc[w]) => Above(op[w].seq, rows)
                         /\ op[w].kind # "compact" => op[w].mem = {}
  BY <1>0, <1>a DEF KindInv, TurnInv, KindOf
(* What the steps of an operation change. *)
<1>1. ASSUME NEW w \in Workers, StepBy(w), pc[w] \notin {"idle", "readSeq"}
      PROVE  Session!Next \/ UNCHANGED <<Parsed(log), Summarised>>
  <2>0. /\ Summarised = memory \cup op[w].mem
        /\ Summarised' = memory' \cup op'[w].mem
    BY <1>0, <1>1, SummarisedIs
  <2>1. CASE \/ BeginTurn(w) \/ EndTurn(w) \/ CheckLocked(w) \/ AcquireForAppend(w)
             \/ LockSeqMu(w) \/ CheckLockedForSeq(w) \/ AcquireForSeq(w) \/ Abandon(w)
    <3>1. op' = op /\ log' = log /\ memory' = memory
      BY <2>1 DEF BeginTurn, EndTurn, CheckLocked, AcquireForAppend, LockSeqMu, CheckLockedForSeq,
         AcquireForSeq, Abandon, fileVars
    <3> QED
      BY <2>0, <3>1
  <2>2. CASE StartAppend(w) \/ StartToolEvent(w) \/ StartRead(w) \/ OpenLog(w) \/ PairUp(w) \/ ReadBack(w)
    <3>1. log' = log /\ memory' = memory
      BY <2>2 DEF StartAppend, StartToolEvent, StartRead, OpenLog, PairUp, ReadBack, fileVars
    <3>2. op[w] \in Ops
      BY <1>0, OpIs
    <3>3. op'[w].mem = op[w].mem
      <4>1. CASE StartAppend(w)
        <5>1. PICK o \in Ops, k \in {"user", "event"} :
                Becomes(w, o) /\ o = [op[w] EXCEPT !.kind = k, !.id = used.turns + 1]
          BY <1>0, <4>1, StartAppendIs
        <5>2. o.mem = op[w].mem
          BY <3>2, <5>1 DEF Ops
        <5> QED
          BY <1>0, <5>1, <5>2, OthersStay
      <4>2. CASE StartToolEvent(w)
        BY <1>0, <3>2, <4>2, StartToolEventIs, OthersStay DEF Ops
      <4>3. CASE StartRead(w)
        BY <1>0, <3>2, <4>3, StartReadIs, OthersStay DEF Ops
      <4>4. CASE OpenLog(w)
        BY <1>0, <3>2, <4>4, OpenLogIs, OthersStay DEF Ops
      <4>5. CASE PairUp(w)
        <5>1. PICK o \in Ops, rest \in Seq(Lines) : Becomes(w, o) /\ o = [op[w] EXCEPT !.rest = rest]
          BY <1>0, <4>5, PairUpIs
        <5> QED
          BY <1>0, <3>2, <5>1, OthersStay DEF Ops
      <4>6. CASE ReadBack(w)
        <5>1. PICK o \in Ops, rest \in Seq(Lines) : Becomes(w, o) /\ o = [op[w] EXCEPT !.rest = rest]
          BY <1>0, <4>6, ReadBackIs
        <5> QED
          BY <1>0, <3>2, <5>1, OthersStay DEF Ops
      <4> QED
        BY <2>2, <4>1, <4>2, <4>3, <4>4, <4>5, <4>6
    <3> QED
      BY <2>0, <3>1, <3>3
  <2>3. CASE Allocate(w) \/ ReadSeq(w)
    <3>1. log' = log /\ memory' = memory
      BY <2>3 DEF Allocate, ReadSeq, fileVars
    <3>2. op'[w].mem = op[w].mem
      <4>1. CASE ReadSeq(w)
        BY <1>1, <4>1 DEF ReadSeq, Return, Goto
      <4>2. CASE Allocate(w) /\ op[w].kind = "tool"
        <5>1. Becomes(w, NoOp)
          BY <1>0, <4>2, AllocateIs
        <5> QED
          BY <1>0, <1>c, <4>2, <5>1, NoOpIs, OthersStay
      <4>3. CASE Allocate(w) /\ op[w].kind # "tool"
        <5>1. PICK next \in Nat, o \in Ops : Becomes(w, o) /\ o = [op[w] EXCEPT !.seq = next]
          BY <1>0, <4>3, AllocateIs
        <5> QED
          BY <1>0, <5>1, OpIs, OthersStay DEF Ops
      <4> QED
        BY <2>3, <4>1, <4>2, <4>3
    <3> QED
      BY <2>0, <3>1, <3>2
  <2>4. CASE StartCompact(w) \/ StartStrip(w)
    <3>1. log' = log /\ memory' = memory /\ pc[w] = "turn"
      BY <2>4 DEF StartCompact, StartStrip, Goto, fileVars
    <3>2. op[w].mem = {}
      BY <1>c, <3>1 DEF KindOf, KindAt
    <3>3. op'[w].mem \subseteq memory
      <4>1. CASE StartCompact(w)
        <5>1. PICK o \in Ops, n \in DOMAIN Parsed(log) :
                /\ Becomes(w, o)
                /\ o = [NoOp EXCEPT !.kind = "compact", !.cut = n, !.snap = Parsed(log), !.mem = memory]
          BY <1>0, <4>1, StartCompactIs
        <5>2. o.mem = memory
          BY <5>1 DEF NoOp
        <5> QED
          BY <1>0, <5>1, <5>2, OthersStay
      <4>2. CASE StartStrip(w)
        <5>1. PICK o, s : Becomes(w, o) /\ o = [NoOp EXCEPT !.kind = "strip", !.snap = s]
          BY <1>0, <4>2, StartStripIs
        <5>2. o.mem = {}
          BY <5>1 DEF NoOp
        <5> QED
          BY <1>0, <5>1, <5>2, OthersStay
      <4> QED
        BY <2>4, <4>1, <4>2
    <3> QED
      BY <2>0, <3>1, <3>2, <3>3
  <2>5. CASE TruncateMemory(w) \/ WriteClaims(w)
    <3>1. /\ op' = op /\ log' = log /\ memory' \in {{}, op[w].mem}
          /\ pc[w] \in {"claims", "memTruncate", "claimsWrite"}
      <4>1. CASE TruncateMemory(w)
        BY <4>1 DEF TruncateMemory, fileVars, Goto
      <4>2. CASE WriteClaims(w)
        <5>1. pc[w] = "claimsWrite"
          BY <4>2 DEF WriteClaims, Goto
        <5>2. memory = {}
          BY <1>c, <5>1 DEF Rewrite, KindOf, KindAt
        <5> QED
          BY <4>2, <5>1, <5>2 DEF WriteClaims, fileVars
      <4> QED
        BY <2>5, <4>1, <4>2
    <3>2. memory \in {{}, op[w].mem}
      BY <1>c, <3>1 DEF Rewrite, KindOf, KindAt
    <3> QED
      BY <2>0, <3>1, <3>2
  <2>6. CASE WriteMemory(w)
    <3>1. /\ op' = op /\ log' = log /\ pc[w] = "memWrite"
          /\ memory' = op[w].mem \cup IdsOf(SubSeq(op[w].snap, 1, op[w].cut))
      BY <2>6 DEF WriteMemory, fileVars, Goto
    <3>2. memory = {} /\ op[w].snap = rows /\ op[w].cut \in DOMAIN rows
      BY <1>c, <3>1 DEF Rewrite, KindOf, KindAt
    <3>3. PICK n \in DOMAIN rows : n = op[w].cut
      BY <3>2
    <3>4. Summarised' = Summarised \cup Session!IdsOf(SubSeq(rows, 1, n))
      BY <2>0, <3>1, <3>2, <3>3 DEF IdsOf, Session!IdsOf
    <3>5. Session!Remember
      BY <1>a, <3>1, <3>4 DEF Session!Remember
    <3> QED
      BY <3>5 DEF Session!Next
  <2>7. CASE WriteLine(w) \/ WriteFails(w)
    <3>1. memory' = memory /\ Return(w, "write")
      BY <2>7 DEF WriteLine, WriteFails
    <3>2. pc[w] = "write" /\ op'[w] = NoOp
      BY <1>0, <3>1, ReturnIs, OthersStay
    <3>3. Summarised' = Summarised /\ Above(op[w].seq, rows)
      BY <1>c, <2>0, <3>1, <3>2, NoOpIs DEF KindOf, KindAt, Numbered
    <3>4. Parsed(log') = rows \/ \E l : Leaves(w, l, TRUE)
      BY <1>0, <1>a, <2>7, <3>2, WriteLineIs, CutShortRows DEF WriteFails
    <3>5. ASSUME NEW l, Leaves(w, l, TRUE) PROVE Session!Commit
      <4>1. Parsed(log') = Append(rows, l) /\ l \in Lines /\ l.seq = op[w].seq
        BY <1>0, <1>a, <3>5, LeavesRow
      <4> QED
        BY <1>a, <1>b, <3>3, <4>1, CommitIs
    <3> QED
      BY <1>a, <3>3, <3>4, <3>5 DEF Session!Next
  <2>8. CASE RewriteCompacted(w)
    <3>1. memory' = memory /\ op'[w] = NoOp
      BY <1>0, <2>8, ReturnIs, OthersStay DEF RewriteCompacted
    <3>2. PICK c \in DOMAIN rows :
             /\ op[w].mem \cup IdsOf(SubSeq(rows, 1, c)) \subseteq memory
             /\ LET rest == SubSeq(rows, c + 1, Len(rows)) IN
                \/ Parsed(log') = rest
                \/ \E l \in Lines : Parsed(log') = Append(rest, l) /\ Above(l.seq, rows)
      BY <1>0, <1>a, <2>8, RewriteCompactedIs
    <3>3. Summarised = memory /\ Summarised' = Summarised
      BY <2>0, <3>1, <3>2, NoOpIs
    <3>4. PICK rest : rest = SubSeq(rows, c + 1, Len(rows))
      OBVIOUS
    <3>5. /\ IdsOf(SubSeq(rows, 1, c)) \subseteq Summarised
          /\ \/ Parsed(log') = rest
             \/ \E l \in Lines : Parsed(log') = Append(rest, l) /\ Above(l.seq, rows)
      BY <3>2, <3>3, <3>4
    <3>6. Session!Archive
      BY <1>a, <1>b, <3>3, <3>4, <3>5, ArchiveIs
    <3> QED
      BY <3>6 DEF Session!Next
  <2>9. CASE RewriteStripped(w)
    <3>1. memory' = memory /\ op[w].kind = "strip" /\ op'[w] = NoOp
      BY <1>0, <2>9, ReturnIs, OthersStay DEF RewriteStripped
    <3>2. Parsed(log') = Parsed(log)
      BY <1>0, <2>9, RewriteStrippedIs
    <3> QED
      BY <1>c, <2>0, <3>1, <3>2, NoOpIs
  <2>10. CASE SummaryFails(w) \/ RewriteFails(w)
    <3>1. /\ log' = log /\ memory' = memory
          /\ \E from : Return(w, from)
      BY <2>10 DEF SummaryFails, RewriteFails, fileVars
    <3>2. op'[w] = NoOp
      BY <1>0, <3>1, ReturnIs, OthersStay
    <3>3. Summarised' = memory /\ Parsed(log') = Parsed(log)
      BY <2>0, <3>1, <3>2, NoOpIs
    <3> QED
      BY <1>0, <2>0, <3>3, LetGo DEF Session!Next
  <2> QED
    BY <1>1, <2>1, <2>2, <2>3, <2>4, <2>5, <2>6, <2>7, <2>8, <2>9, <2>10
       DEF StepBy, Starting, Appending, Sequencing, Rewriting
<1>2. ASSUME NEW w \in Workers, StepBy(w), pc[w] \in {"idle", "readSeq"}
      PROVE  UNCHANGED <<Parsed(log), Summarised>>
  <2>1. log' = log /\ memory' = memory /\ op[w].mem = {} /\ op'[w].mem = {}
    BY <1>0, <1>2, IdleSteps
  <2>2. \A v \in Workers \ {w} : op'[v] = op[v]
    BY <1>0, <1>2, FrameIs
  <2>3. \A v \in Workers : op'[v].mem = op[v].mem
    BY <2>1, <2>2
  <2> QED
    BY <2>1, <2>3 DEF Summarised
(* A process dies, perhaps with a line half written or MEMORY.md in its hands. *)
<1>3. ASSUME NEW p \in Procs, Crash(p)
      PROVE  Session!Next \/ UNCHANGED <<Parsed(log), Summarised>>
  <2>1. /\ \A v \in Workers : op'[v] = IF ProcOf[v] = p THEN NoOp ELSE op[v]
        /\ memory' = memory
    BY <1>3 DEF Crash
  <2>2. CASE \A v \in Workers : op[v].mem = {}
    <3>1. \A v \in Workers : op'[v].mem = op[v].mem
      BY <2>1, <2>2, NoOpIs
    <3>2. Summarised' = Summarised
      BY <2>1, <3>1 DEF Summarised
    <3>3. CASE log' = log
      BY <3>2, <3>3
    <3>4. CASE log' # log
      <4>1. PICK w \in Workers : pc[w] = "write" /\ CutShort(w)
        BY <1>3, <3>4 DEF Crash
      <4>2. Above(op[w].seq, rows)
        BY <1>c, <4>1 DEF Numbered
      <4>3. Parsed(log') = rows \/ \E l : Leaves(w, l, TRUE)
        BY <1>0, <1>a, <4>1, CutShortRows
      <4>4. ASSUME NEW l, Leaves(w, l, TRUE) PROVE Session!Commit
        <5>1. Parsed(log') = Append(rows, l) /\ l \in Lines /\ l.seq = op[w].seq
          BY <1>0, <1>a, <4>4, LeavesRow
        <5> QED
          BY <1>a, <1>b, <3>2, <4>2, <5>1, CommitIs
      <4> QED
        BY <1>a, <3>2, <4>3, <4>4 DEF Session!Next
    <3> QED
      BY <3>3, <3>4
  <2>3. ASSUME NEW w \in Workers, op[w].mem # {}
        PROVE  Session!Next \/ UNCHANGED <<Parsed(log), Summarised>>
    <3>1. op[w].kind = "compact"
      BY <1>c, <2>3
    <3>2. pc[w] \notin {"idle", "readSeq", "write"}
      BY <1>c, <3>1 DEF KindOf, KindAt
    <3>3. /\ \A v \in Workers \ {w} : op[v].mem = {}
          /\ Summarised = memory \cup op[w].mem
      BY <1>0, <3>2, SummarisedIs
    <3>4. Parsed(log') = Parsed(log)
      <4>1. \A v \in Workers : pc[v] # "write"
        <5>1. \A v \in Workers \ {w} : pc[v] \in {"idle", "readSeq"}
          BY <1>0, <3>2, Alone
        <5> QED
          BY <3>2, <5>1
      <4>2. log' = log
        BY <1>3, <4>1 DEF Crash
      <4> QED
        BY <4>2
    <3>5. \A v \in Workers \ {w} : op'[v].mem = {}
      BY <2>1, <3>3, NoOpIs
    <3>6. CASE ProcOf[w] = p
      <4>1. op'[w].mem = {}
        BY <2>1, <3>6, NoOpIs
      <4>2. Summarised' = memory
        BY <2>1, <3>5, <4>1 DEF Summarised
      <4> QED
        BY <1>0, <3>3, <3>4, <4>2, LetGo DEF Session!Next
    <3>7. CASE ProcOf[w] # p
      <4>1. op'[w].mem = op[w].mem
        BY <2>1, <3>7
      <4>2. Summarised' = memory \cup op[w].mem
        BY <2>1, <3>5, <4>1 DEF Summarised
      <4> QED
        BY <3>3, <3>4, <4>2
    <3> QED
      BY <3>6, <3>7
  <2> QED
    BY <2>2, <2>3
<1>4. CASE UNCHANGED vars
  BY <1>4 DEF vars, Summarised
<1> QED
  BY <1>1, <1>2, <1>3, <1>4, NextIs

LEMMA TurnLogInit == Init => Session!Init
<1> SUFFICES ASSUME Init PROVE Session!Init
  OBVIOUS
<1>1. PICK n \in 0 .. LegacyRows : log = [i \in 1 .. n |-> Line(i, 0)]
  BY DEF Init
<1>2. \A i \in DOMAIN Parsed(log) : Parsed(log)[i].seq = 0
  BY <1>1, OldLog
<1>3. memory = {} /\ \A w \in Workers : op[w].mem = {}
  BY NoOpIs DEF Init
<1>4. Summarised = {}
  BY <1>3 DEF Summarised
<1> QED
  BY <1>2, <1>4 DEF Session!Init

(***************************************************************************)
(* The session implements TurnLog for every number of processes, handlers  *)
(* and every bound, as long as no stream outlives the lock of its handler: *)
(* through torn writes, healing newlines, renames, restarts and failed     *)
(* summaries, rows only enter at the tail with a higher seq, keep their    *)
(* seq across a rewrite (compaction.go, session_store.go:124-194), and     *)
(* leave from the head after MEMORY.md covers them.                        *)
(***************************************************************************)
THEOREM ImplementsTurnLog == Spec => TurnLogSpec
<1>1. IInv /\ [Next]_vars => [used.orphans \/ Session!Next]_<<Parsed(log), Summarised>>
  BY TurnLogStep
<1> QED
  BY <1>1, TurnLogInit, Invariance, PTL DEF Spec, TurnLogSpec
=============================================================================
