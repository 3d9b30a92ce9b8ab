------------------------- MODULE SessionWatch_proofs -------------------------
(***************************************************************************)
(* Safety of subscriptions and of polling, for any log, cursors, batch     *)
(* size and channel capacity.                                              *)
(***************************************************************************)
EXTENDS SessionWatch, SequenceTheorems, WellFoundedInduction, TLAPS

Rows == [seq : Nat, id : Nat, by : {"local", "remote"}, ok : BOOLEAN]

(* The highest number there can be, and the subscriptions by their phases. *)
Top == used.turns + History
Polling == spc \in {"off", "polled"}
Past == spc \in {"latest", "loop", "reading"}

Increasing(s) == \A i, j \in 1 .. Len(s) : i < j => s[i].seq < s[j].seq
Within(s, n) == \A i \in 1 .. Len(s) : s[i].seq \in 1 .. n

(* Every list is made of lines, and every number is below Top. *)
ListInv ==
  /\ {lines, snap, pending, sent} \subseteq Seq(Rows)
  /\ \A i \in 1 .. Len(lines) : lines[i].id <= MaxTurns + History
  /\ Within(lines, Top) /\ Within(snap, Top) /\ Within(pending, Top) /\ Within(sent, Top)
  /\ owed \subseteq Rows /\ archived \subseteq Nat /\ lastSeq \in 0 .. Top

(* The counters, the stats and the writer. *)
StateInv ==
  /\ used \in [turns : 0 .. MaxTurns, rewrites : 0 .. MaxRewrites, faults : Nat]
  /\ inode \in 0 .. used.rewrites + 1 /\ (inode = 0 => lines = <<>>)
  /\ terminated \in BOOLEAN /\ (~terminated => lines # <<>>)
  /\ bump \in 0 .. Top
  /\ writer \in [by : {"none", "local", "remote"}, stage : {"none", "write", "notify"},
                  seq : Nat, id : Nat]
  /\ writer.stage = "write" =>
       writer.by # "none" /\ writer.seq \in 1 .. Top /\ writer.id <= MaxTurns
  /\ Len(lines) + (IF writer.stage = "write" THEN 1 ELSE 0) <= Top
  /\ {seen, fi} \subseteq [inode : 0 .. inode, size : 0 .. 2 * Top]
  /\ offset \in 0 .. 2 * Top
  /\ wake \in 0 .. WakeCap /\ told \in BOOLEAN /\ blind \in BOOLEAN

(* What a consumer has while it is where it is. *)
PhaseInv ==
  /\ spc \in {"off", "polled", "registered", "snapshot", "latest", "loop", "reading"}
  /\ cursor.n \in Nat
  /\ cursor.mode = "since" => cursor.n # 0
  /\ spc = "off" => cursor.mode \in {"none", "poll"}
  /\ cursor = NoCursor \/ cursor.mode = "poll" => Polling
  /\ spc = "polled" => cursor.mode = "poll"
  /\ cursor.mode = "none" => cursor = NoCursor /\ sent = <<>>
  /\ spc \notin {"loop", "reading"} => pending = <<>> /\ lastSeq = 0
  /\ spc \in {"registered", "snapshot", "latest"} => sent = <<>>
  /\ spc = "reading" => pending = <<>>
  /\ spc \notin {"polled", "latest"} => snap = <<>>
  /\ owed # {} => Past

(* Lines that parse carry increasing numbers, the writer's above them. *)
OrderInv ==
  /\ \A i, j \in 1 .. Len(lines) :
       i < j /\ lines[i].ok /\ lines[j].ok => lines[i].seq < lines[j].seq
  /\ writer.stage = "write" =>
       \A i \in 1 .. Len(lines) : lines[i].ok => lines[i].seq < writer.seq

(* What was sent is below what was asked for last; what is pending is above. *)
SentInv ==
  /\ Increasing(snap) /\ Increasing(pending) /\ Increasing(sent)
  /\ \A i \in 1 .. Len(pending) : lastSeq < pending[i].seq
  /\ \A i \in 1 .. Len(sent) : sent[i].seq <= (IF Polling THEN cursor.n ELSE lastSeq)

Unsent(l) == l.seq > lastSeq /\ l.seq > LastSeqOf(pending)

(* A line that is owed is in the log, in full, and is pending, or behind all of it. *)
OwedInv ==
  /\ \A l \in owed : \E i \in 1 .. Len(lines) : l = lines[i] /\ l.ok
  /\ ~terminated => lines[Len(lines)] \notin owed
  /\ spc = "latest" => \A l \in owed : l.seq > LastSeqOf(snap)
  /\ ~blind => \A l \in owed :
       l.seq > lastSeq => Unsent(l) \/ \E i \in 1 .. Len(pending) : pending[i] = l

(* In the file that was stated the line is behind what was stated and what was
   read; another file is another inode. *)
OffsetInv ==
  /\ spc \in {"snapshot", "latest", "loop", "reading"} /\ ~blind /\ seen.inode = inode =>
       /\ offset <= 2 * Len(lines) /\ seen.size <= 2 * Len(lines)
       /\ \A i \in 1 .. Len(lines) : lines[i] \in owed /\ Unsent(lines[i]) =>
            offset <= 2 * (i - 1) /\ seen.size <= 2 * (i - 1)
  /\ fi.inode = inode => fi.size <= 2 * Len(lines)

WakeInv ==
  spc \in {"latest", "loop"} /\ writer.stage # "notify" /\ ~blind =>
    \A l \in owed : l.by = "local" /\ Unsent(l) => wake > 0

(* What was archived is below what was left, as long as anything was left. *)
ArchiveInv ==
  0 \notin archived =>
    /\ Polling \/ spc \in {"registered", "snapshot"} =>
         /\ archived # {} => \E i \in 1 .. Len(lines) : lines[i].ok
         /\ \A s \in archived, i \in 1 .. Len(lines) : lines[i].ok => s < lines[i].seq
    /\ spc = "latest" => \A s \in archived : s < FirstSeq(snap)

Has(s, n) == \E i \in 1 .. Len(s) : s[i].seq = n

(* The cursor of a poll, and what became of the lines since they were read. *)
PollInv ==
  Polling /\ 0 \notin archived =>
    /\ \A s \in archived : s <= cursor.n => Has(sent, s)
    /\ \A i \in 1 .. Len(lines) :
         lines[i].ok /\ lines[i].seq <= cursor.n => Has(sent, lines[i].seq)
    /\ cursor.n > 0 => \E i \in 1 .. Len(lines) : lines[i].ok /\ cursor.n <= lines[i].seq
    /\ spc = "polled" =>
         /\ snap # <<>> => \E i \in 1 .. Len(lines) : lines[i].ok /\ LastSeqOf(snap) <= lines[i].seq
         /\ \A s \in archived : s < FirstSeq(snap) \/ Has(snap, s) \/ s > LastSeqOf(snap)
         /\ \A i \in 1 .. Len(lines) :
              lines[i].ok => Has(snap, lines[i].seq) \/ lines[i].seq > LastSeqOf(snap)

IInv ==
  ListInv /\ StateInv /\ PhaseInv /\ OrderInv /\ SentInv /\ OwedInv /\ OffsetInv /\ WakeInv
  /\ ArchiveInv /\ PollInv /\ NoGap /\ ToldOfRewind

-----------------------------------------------------------------------------
(* Lemmas about numbers and sequences. *)

LEMMA LeastNat == ASSUME NEW T \in SUBSET Nat, T # {} PROVE \E m \in T : \A k \in T : m <= k
<1>1. OpToRel(<, Nat) = {p \in Nat \X Nat : p[1] < p[2]}
  BY DEF OpToRel
<1>2. PICK m \in T : \A k \in T : ~ (<<k, m>> \in OpToRel(<, Nat))
  BY NatLessThanWellFounded, WFMin
<1>3. ASSUME NEW k \in T PROVE m <= k
  <2>1. ~ (<<k, m>> \in {p \in Nat \X Nat : p[1] < p[2]})
    BY <1>1, <1>2
  <2> QED
    BY <2>1
<1> QED
  BY <1>3

(* A bounded set of numbers has its Max. *)
LEMMA MaxIs ==
  ASSUME NEW S \in SUBSET Nat, S # {}, NEW b \in Nat, \A n \in S : n <= b
  PROVE  Max(S) \in S /\ \A n \in S : n <= Max(S)
<1> DEFINE T == {u \in Nat : \A n \in S : n <= u}
<1>1. PICK u \in T : \A k \in T : u <= k
  <2>1. b \in T
    OBVIOUS
  <2> QED
    BY <2>1, LeastNat
<1>2. u \in S
  <2>1. SUFFICES ASSUME u \notin S PROVE FALSE
    OBVIOUS
  <2>2. \A n \in S : n < u
    BY <1>1, <2>1
  <2>3. u > 0 /\ u - 1 \in Nat
    <3>1. PICK n \in S : n < u
      BY <2>2
    <3>2. n \in Nat /\ u \in Nat
      BY <1>1
    <3> QED
      BY <3>1, <3>2
  <2>4. u - 1 \in T
    BY <2>2, <2>3, <1>1
  <2>5. u <= u - 1
    BY <1>1, <2>4
  <2> QED
    BY <2>3, <2>5, <1>1
<1>3. \A n \in S : u >= n
  BY <1>1
<1>4. \E x \in S : \A y \in S : x >= y
  BY <1>2, <1>3
<1>5. Max(S) \in S /\ \A y \in S : Max(S) >= y
  BY <1>4 DEF Max
<1> QED
  BY <1>5

LEMMA AppendIs ==
  ASSUME NEW L, NEW s \in Seq(L), NEW x \in L
  PROVE  /\ Append(s, x) \in Seq(L)
         /\ Len(Append(s, x)) = Len(s) + 1
         /\ \A i \in 1 .. Len(s) : Append(s, x)[i] = s[i]
         /\ Append(s, x)[Len(s) + 1] = x
         /\ DOMAIN Append(s, x) = 1 .. (Len(s) + 1)
  OBVIOUS

LEMMA MaxOfTwo ==
  ASSUME NEW m \in Nat, NEW n \in Nat
  PROVE  Max({m, n}) \in Nat /\ Max({m, n}) >= m /\ Max({m, n}) >= n /\ Max({m, n}) \in {m, n}
<1>1. \E x \in {m, n} : \A y \in {m, n} : x >= y
  OBVIOUS
<1> QED
  BY <1>1 DEF Max

LEMMA MinOfTwo ==
  ASSUME NEW m \in Nat, NEW n \in Nat
  PROVE  Min({m, n}) \in Nat /\ Min({m, n}) <= m /\ Min({m, n}) <= n /\ Min({m, n}) \in {m, n}
<1>1. \E x \in {m, n} : \A y \in {m, n} : x <= y
  OBVIOUS
<1> QED
  BY <1>1 DEF Min

-----------------------------------------------------------------------------
(* Kept: a subsequence of the members of a set. *)

IsKept(f, s, S, n) ==
  f = [k \in 0 .. n |-> IF k = 0 THEN <<>>
                        ELSE IF s[k] \in S THEN Append(f[k - 1], s[k]) ELSE f[k - 1]]

KeptFun(s, S, n) ==
  CHOOSE f : f = [k \in 0 .. n |->
                    IF k = 0 THEN <<>>
                    ELSE IF s[k] \in S THEN Append(f[k - 1], s[k]) ELSE f[k - 1]]

LEMMA KeptIsFun == ASSUME NEW s, NEW S PROVE Kept(s, S) = KeptFun(s, S, Len(s))[Len(s)]
  BY DEF Kept, KeptFun

LEMMA KeptExists ==
  ASSUME NEW s, NEW S, NEW n \in Nat
  PROVE  \E f : IsKept(f, s, S, n)
<1> DEFINE T == {m \in Nat : ~ \E f : IsKept(f, s, S, m)}
<1>1. SUFFICES ASSUME T # {} PROVE FALSE
  OBVIOUS
<1>2. PICK m \in T : \A k \in T : m <= k
  BY <1>1, LeastNat
<1>3. CASE m = 0
  <2>1. IsKept([k \in 0 .. 0 |-> <<>>], s, S, 0)
    BY DEF IsKept
  <2> QED
    BY <1>2, <1>3, <2>1
<1>4. CASE m # 0
  <2>1. m - 1 \in Nat /\ m - 1 \notin T
    BY <1>2, <1>4
  <2>2. PICK g : IsKept(g, s, S, m - 1)
    BY <2>1
  <2> DEFINE h == [k \in 0 .. m |->
                     IF k < m THEN g[k]
                     ELSE IF s[m] \in S THEN Append(g[m - 1], s[m]) ELSE g[m - 1]]
  <2>3. \A k \in 0 .. (m - 1) : h[k] = g[k]
    BY <1>2, <2>1
  <2>4. \A k \in 0 .. (m - 1) :
          g[k] = IF k = 0 THEN <<>>
                 ELSE IF s[k] \in S THEN Append(g[k - 1], s[k]) ELSE g[k - 1]
    BY <2>2 DEF IsKept
  <2>5. \A k \in 0 .. m :
          h[k] = IF k = 0 THEN <<>>
                 ELSE IF s[k] \in S THEN Append(h[k - 1], s[k]) ELSE h[k - 1]
    <3>1. SUFFICES ASSUME NEW k \in 0 .. m
                   PROVE h[k] = IF k = 0 THEN <<>>
                                ELSE IF s[k] \in S THEN Append(h[k - 1], s[k]) ELSE h[k - 1]
      OBVIOUS
    <3>2. CASE k = m
      <4>1. h[k] = IF s[m] \in S THEN Append(g[m - 1], s[m]) ELSE g[m - 1]
        BY <1>2, <3>2
      <4>2. h[m - 1] = g[m - 1]
        BY <2>1, <2>3
      <4> HIDE DEF h
      <4> QED
        BY <1>4, <3>2, <4>1, <4>2
    <3>3. CASE k # m
      <4>1. k \in 0 .. (m - 1) /\ (k # 0 => k - 1 \in 0 .. (m - 1))
        BY <1>2, <2>1, <3>1, <3>3
      <4>2. h[k] = g[k] /\ (k # 0 => h[k - 1] = g[k - 1])
        BY <2>3, <4>1
      <4> HIDE DEF h
      <4> QED
        BY <2>4, <4>1, <4>2
    <3> QED
      BY <3>2, <3>3
  <2>6. h = [k \in 0 .. m |-> h[k]]
    OBVIOUS
  <2>7. IsKept(h, s, S, m)
    <3> HIDE DEF h
    <3> QED
      BY <2>5, <2>6 DEF IsKept
  <2> QED
    BY <1>2, <2>7
<1> QED
  BY <1>3, <1>4

LEMMA KeptStep ==
  ASSUME NEW s, NEW S, NEW n \in Nat
  PROVE  \A k \in 0 .. n :
           KeptFun(s, S, n)[k] =
             IF k = 0 THEN <<>>
             ELSE IF s[k] \in S THEN Append(KeptFun(s, S, n)[k - 1], s[k])
             ELSE KeptFun(s, S, n)[k - 1]
<1>0. \E f : IsKept(f, s, S, n)
  BY KeptExists
<1>1. IsKept(KeptFun(s, S, n), s, S, n)
  BY <1>0 DEF IsKept, KeptFun
<1>2. PICK f : f = KeptFun(s, S, n)
  OBVIOUS
<1>3. IsKept(f, s, S, n)
  BY <1>1, <1>2
<1>4. \A k \in 0 .. n :
           f[k] = IF k = 0 THEN <<>>
                  ELSE IF s[k] \in S THEN Append(f[k - 1], s[k]) ELSE f[k - 1]
  BY <1>3 DEF IsKept
<1> QED
  BY <1>2, <1>4

(* r holds the members of S among the first n elements of s, in their order. *)
Holds(r, s, S, n, T) ==
  /\ r \in Seq(T)
  /\ Len(r) <= n
  /\ \A i \in 1 .. Len(r) : r[i] \in S
  /\ \A k \in 1 .. n : s[k] \in S => \E i \in 1 .. Len(r) : r[i] = s[k]
  /\ \A i \in 1 .. Len(r) : \E k \in 1 .. n : r[i] = s[k]
  /\ \A i, j \in 1 .. Len(r) : i < j =>
       \E k, m \in 1 .. n : k < m /\ r[i] = s[k] /\ r[j] = s[m]

LEMMA HoldsMore ==
  ASSUME NEW T, NEW s \in Seq(T), NEW S, NEW n \in 1 .. Len(s), NEW r, NEW q,
         Holds(r, s, S, n - 1, T), q = IF s[n] \in S THEN Append(r, s[n]) ELSE r
  PROVE  Holds(q, s, S, n, T)
<1>1. n \in Nat /\ n > 0 /\ n - 1 \in Nat /\ Len(s) \in Nat /\ s[n] \in T
  OBVIOUS
<1>2. \A k \in 1 .. n : k = n \/ k \in 1 .. (n - 1)
  BY <1>1
<1>3. \A k \in 1 .. (n - 1) : k \in 1 .. n /\ k < n
  BY <1>1
<1>4. /\ r \in Seq(T) /\ Len(r) \in Nat /\ Len(r) <= n - 1
      /\ \A i \in 1 .. Len(r) : r[i] \in S
      /\ \A k \in 1 .. (n - 1) : s[k] \in S => \E i \in 1 .. Len(r) : r[i] = s[k]
      /\ \A i \in 1 .. Len(r) : \E k \in 1 .. (n - 1) : r[i] = s[k]
      /\ \A i, j \in 1 .. Len(r) : i < j =>
           \E k, m \in 1 .. (n - 1) : k < m /\ r[i] = s[k] /\ r[j] = s[m]
  BY DEF Holds
<1>5. CASE s[n] \notin S
  <2>1. q = r
    BY <1>5
  <2>2. Len(q) <= n
    BY <1>1, <1>4, <2>1
  <2>3. \A k \in 1 .. n : s[k] \in S => \E i \in 1 .. Len(q) : q[i] = s[k]
    BY <1>2, <1>4, <1>5, <2>1
  <2>4. \A i \in 1 .. Len(q) : \E k \in 1 .. n : q[i] = s[k]
    BY <1>3, <1>4, <2>1
  <2>5. \A i, j \in 1 .. Len(q) : i < j =>
           \E k, m \in 1 .. n : k < m /\ q[i] = s[k] /\ q[j] = s[m]
    BY <1>3, <1>4, <2>1
  <2> QED
    BY <1>4, <2>1, <2>2, <2>3, <2>4, <2>5 DEF Holds
<1>6. CASE s[n] \in S
  <2>1. /\ q \in Seq(T) /\ Len(q) = Len(r) + 1
        /\ q[Len(r) + 1] = s[n] /\ \A i \in 1 .. Len(r) : q[i] = r[i]
    BY <1>1, <1>4, <1>6, AppendIs
  <2>2. \A i \in 1 .. Len(q) : i \in 1 .. Len(r) \/ i = Len(r) + 1
    BY <1>4, <2>1
  <2>3. Len(q) <= n /\ n \in 1 .. n /\ Len(r) + 1 \in 1 .. Len(q)
    BY <1>1, <1>4, <2>1
  <2>4. \A i \in 1 .. Len(q) : q[i] \in S
    BY <1>4, <1>6, <2>1, <2>2
  <2>5. ASSUME NEW k \in 1 .. n, s[k] \in S PROVE \E i \in 1 .. Len(q) : q[i] = s[k]
    <3>1. CASE k = n
      BY <2>1, <2>3, <3>1
    <3>2. CASE k \in 1 .. (n - 1)
      <4>1. PICK i \in 1 .. Len(r) : r[i] = s[k]
        BY <1>4, <2>5, <3>2
      <4>2. i \in 1 .. Len(q) /\ q[i] = r[i]
        BY <1>4, <2>1
      <4> QED
        BY <4>1, <4>2
    <3> QED
      BY <1>2, <3>1, <3>2
  <2>6. ASSUME NEW i \in 1 .. Len(q) PROVE \E k \in 1 .. n : q[i] = s[k]
    BY <1>3, <1>4, <2>1, <2>2, <2>3
  <2>7. ASSUME NEW i \in 1 .. Len(q), NEW j \in 1 .. Len(q), i < j
        PROVE  \E k, m \in 1 .. n : k < m /\ q[i] = s[k] /\ q[j] = s[m]
    <3>1. i \in 1 .. Len(r)
      BY <1>4, <2>1, <2>7
    <3>2. CASE j \in 1 .. Len(r)
      BY <1>3, <1>4, <2>1, <2>7, <3>1, <3>2
    <3>3. CASE j = Len(r) + 1
      <4>1. PICK k \in 1 .. (n - 1) : r[i] = s[k]
        BY <1>4, <3>1
      <4>2. k \in 1 .. n /\ k < n /\ q[i] = s[k] /\ q[j] = s[n]
        BY <1>3, <2>1, <3>1, <3>3, <4>1
      <4> QED
        BY <2>3, <4>2
    <3> QED
      BY <2>2, <3>2, <3>3
  <2> QED
    BY <2>1, <2>3, <2>4, <2>5, <2>6, <2>7 DEF Holds
<1> QED
  BY <1>5, <1>6

LEMMA KeptHolds ==
  ASSUME NEW T, NEW s \in Seq(T), NEW S
  PROVE  Holds(Kept(s, S), s, S, Len(s), T)
<1>1. Len(s) \in Nat
  OBVIOUS
<1>2. PICK f : f = KeptFun(s, S, Len(s))
  OBVIOUS
<1>3. \A k \in 0 .. Len(s) :
        f[k] = IF k = 0 THEN <<>>
               ELSE IF s[k] \in S THEN Append(f[k - 1], s[k]) ELSE f[k - 1]
  BY <1>1, <1>2, KeptStep
<1> DEFINE U == {n \in 0 .. Len(s) : ~Holds(f[n], s, S, n, T)}
<1>4. U = {}
  <2>1. SUFFICES ASSUME U # {} PROVE FALSE
    OBVIOUS
  <2>2. PICK m \in U : \A n \in U : m <= n
    <3>1. U \in SUBSET Nat
      BY <1>1
    <3> HIDE DEF U
    <3> QED
      BY <2>1, <3>1, LeastNat
  <2>3. m \in 0 .. Len(s) /\ ~Holds(f[m], s, S, m, T) /\ m \in Nat
    BY <1>1
  <2>4. CASE m = 0
    <3>1. f[m] = <<>>
      BY <1>1, <1>3, <2>4
    <3>2. Holds(<<>>, s, S, 0, T)
      BY DEF Holds
    <3> QED
      BY <2>3, <2>4, <3>1, <3>2
  <2>5. CASE m # 0
    <3>1. m - 1 \in 0 .. Len(s) /\ m \in 1 .. Len(s) /\ ~ (m <= m - 1)
      BY <1>1, <2>3, <2>5
    <3>2. m - 1 \notin U
      <4> HIDE DEF U
      <4> QED
        BY <2>2, <3>1
    <3>3. Holds(f[m - 1], s, S, m - 1, T)
      BY <3>1, <3>2
    <3>4. f[m] = IF s[m] \in S THEN Append(f[m - 1], s[m]) ELSE f[m - 1]
      BY <1>3, <2>3, <2>5
    <3>5. Holds(f[m], s, S, m, T)
      BY <3>1, <3>3, <3>4, HoldsMore
    <3> QED
      BY <2>3, <3>5
  <2> QED
    BY <2>4, <2>5
<1>5. Holds(f[Len(s)], s, S, Len(s), T)
  <2>1. Len(s) \in 0 .. Len(s) /\ Len(s) \notin U
    BY <1>1, <1>4
  <2> QED
    BY <2>1
<1> QED
  BY <1>2, <1>5, KeptIsFun

-----------------------------------------------------------------------------
(* The operators of the model. *)

LEMMA ConstantsAre ==
  /\ BatchSize \in Nat \ {0} /\ WakeCap \in Nat \ {0}
  /\ History \in Nat /\ MaxTurns \in Nat /\ MaxRewrites \in Nat /\ MaxFaults \in Nat
  /\ \A c \in Cursors :
       /\ c \in [mode : {"all", "since", "last", "live", "poll"}, n : Nat]
       /\ c.mode \in {"since", "last"} <=> c.n # 0
  BY SessionWatchAssumption

LEMMA BasicsAre ==
  ASSUME IInv
  PROVE  /\ Top \in Nat /\ used.turns \in 0 .. MaxTurns
         /\ lines \in Seq(Rows) /\ Len(lines) \in Nat /\ Len(lines) <= Top
         /\ snap \in Seq(Rows) /\ pending \in Seq(Rows) /\ sent \in Seq(Rows)
         /\ Within(lines, Top) /\ Within(snap, Top) /\ Within(pending, Top) /\ Within(sent, Top)
         /\ lastSeq \in Nat /\ lastSeq <= Top /\ owed \subseteq Rows /\ archived \subseteq Nat
         /\ inode \in Nat /\ bump \in 0 .. Top
<1>1. used.turns \in 0 .. MaxTurns /\ used.rewrites \in Nat
  BY ConstantsAre DEF IInv, StateInv
<1>2. Top \in Nat
  BY <1>1, ConstantsAre DEF Top
<1>3. lines \in Seq(Rows) /\ snap \in Seq(Rows) /\ pending \in Seq(Rows) /\ sent \in Seq(Rows)
  BY DEF IInv, ListInv
<1>4. Len(lines) \in Nat /\ Len(lines) <= Top
  <2>0. Len(lines) \in Nat
    BY <1>3
  <2>1. Len(lines) <= Top \/ Len(lines) + 1 <= Top
    BY <2>0 DEF IInv, StateInv
  <2> QED
    BY <1>2, <2>0, <2>1
<1>5. lastSeq \in Nat /\ lastSeq <= Top
  BY <1>2 DEF IInv, ListInv
<1>6. inode \in Nat
  BY <1>1 DEF IInv, StateInv
<1> QED
  BY <1>1, <1>2, <1>3, <1>4, <1>5, <1>6 DEF IInv, ListInv, StateInv

LEMMA WithinMore ==
  ASSUME NEW s, NEW m \in Nat, NEW n \in Nat, m <= n, Within(s, m)
  PROVE  Within(s, n)
  BY DEF Within

LEMMA RangeIs ==
  ASSUME NEW T, NEW s \in Seq(T), NEW x
  PROVE  x \in Range(s) <=> \E i \in 1 .. Len(s) : s[i] = x
  BY DEF Range

LEMMA LastIs ==
  ASSUME NEW s \in Seq(Rows)
  PROVE  /\ LastSeqOf(s) \in Nat /\ FirstSeq(s) \in Nat
         /\ s = <<>> => LastSeqOf(s) = 0 /\ FirstSeq(s) = 0
         /\ s # <<>> => /\ Len(s) \in 1 .. Len(s) /\ LastSeqOf(s) = s[Len(s)].seq
                        /\ 1 \in 1 .. Len(s) /\ FirstSeq(s) = s[1].seq
         /\ Increasing(s) => \A i \in 1 .. Len(s) :
              s[i].seq <= LastSeqOf(s) /\ FirstSeq(s) <= s[i].seq
<1>1. CASE s = <<>>
  BY <1>1 DEF LastSeqOf, FirstSeq
<1>2. CASE s # <<>>
  <2>1. Len(s) \in Nat /\ Len(s) > 0
    BY <1>2
  <2>2. \A i \in 1 .. Len(s) : s[i].seq \in Nat
    <3>1. \A i \in 1 .. Len(s) : s[i] \in Rows
      OBVIOUS
    <3> QED
      BY <3>1 DEF Rows
  <2>3. LastSeqOf(s) = s[Len(s)].seq /\ FirstSeq(s) = s[1].seq
    BY <1>2 DEF LastSeqOf, FirstSeq, Last
  <2>4. ASSUME Increasing(s), NEW i \in 1 .. Len(s)
        PROVE  s[i].seq <= s[Len(s)].seq /\ s[1].seq <= s[i].seq
    <3>1. i < Len(s) => s[i].seq < s[Len(s)].seq
      BY <2>1, <2>4 DEF Increasing
    <3>2. 1 < i => s[1].seq < s[i].seq
      BY <2>1, <2>4 DEF Increasing
    <3>3. (i < Len(s) \/ i = Len(s)) /\ (1 < i \/ i = 1)
      BY <2>1
    <3> QED
      BY <2>1, <2>2, <3>1, <3>2, <3>3
  <2> QED
    BY <1>2, <2>1, <2>2, <2>3, <2>4
<1> QED
  BY <1>1, <1>2

(* Every line that parses, in the order of the log. *)
LEMMA EventsAre ==
  ASSUME IInv
  PROVE  /\ AllEvents \in Seq(Rows) /\ Len(AllEvents) <= Len(lines)
         /\ \A i \in 1 .. Len(AllEvents) :
              AllEvents[i].ok /\ \E k \in 1 .. Len(lines) : AllEvents[i] = lines[k]
         /\ \A k \in 1 .. Len(lines) :
              lines[k].ok => \E i \in 1 .. Len(AllEvents) : AllEvents[i] = lines[k]
         /\ Increasing(AllEvents) /\ Within(AllEvents, Top)
<1>1. PICK e : e = AllEvents
  OBVIOUS
<1>2. lines \in Seq(Rows) /\ Within(lines, Top)
  BY DEF IInv, ListInv
<1>3. Holds(e, lines, Parsed, Len(lines), Rows)
  BY <1>1, <1>2, KeptHolds DEF AllEvents
<1>4. \A x : x \in Parsed <=> x.ok /\ \E k \in 1 .. Len(lines) : lines[k] = x
  BY <1>2, RangeIs DEF Parsed
<1>5. \A i \in 1 .. Len(e) : e[i].ok /\ \E k \in 1 .. Len(lines) : e[i] = lines[k]
  BY <1>3, <1>4 DEF Holds
<1>6. \A k \in 1 .. Len(lines) : lines[k].ok => \E i \in 1 .. Len(e) : e[i] = lines[k]
  BY <1>3, <1>4 DEF Holds
<1>7. Increasing(e)
  <2>1. SUFFICES ASSUME NEW i \in 1 .. Len(e), NEW j \in 1 .. Len(e), i < j
                 PROVE  e[i].seq < e[j].seq
    BY DEF Increasing
  <2>2. PICK k, m \in 1 .. Len(lines) : k < m /\ e[i] = lines[k] /\ e[j] = lines[m]
    BY <1>3, <2>1 DEF Holds
  <2>3. lines[k].ok /\ lines[m].ok
    BY <1>5, <2>2
  <2> QED
    BY <2>2, <2>3 DEF IInv, OrderInv
<1>8. Within(e, Top)
  BY <1>2, <1>5 DEF Within
<1>9. e \in Seq(Rows) /\ Len(e) <= Len(lines)
  BY <1>3 DEF Holds
<1> QED
  BY <1>1, <1>5, <1>6, <1>7, <1>8, <1>9

LEMMA AboveIs ==
  ASSUME NEW e \in Seq(Rows), Increasing(e), NEW n \in Nat, NEW top, Within(e, top)
  PROVE  /\ Above(e, n) \in Seq(Rows) /\ Increasing(Above(e, n)) /\ Within(Above(e, n), top)
         /\ \A i \in 1 .. Len(Above(e, n)) :
              Above(e, n)[i].seq > n /\ \E k \in 1 .. Len(e) : Above(e, n)[i] = e[k]
         /\ \A k \in 1 .. Len(e) :
              e[k].seq > n => \E i \in 1 .. Len(Above(e, n)) : Above(e, n)[i] = e[k]
<1>1. PICK a : a = Above(e, n)
  OBVIOUS
<1>2. PICK S : S = {l \in Range(e) : l.seq > n}
  OBVIOUS
<1>3. Holds(a, e, S, Len(e), Rows)
  BY <1>1, <1>2, KeptHolds DEF Above
<1>4. \A x : x \in S <=> x.seq > n /\ \E k \in 1 .. Len(e) : e[k] = x
  BY <1>2, RangeIs
<1>5. \A i \in 1 .. Len(a) : a[i].seq > n /\ \E k \in 1 .. Len(e) : a[i] = e[k]
  BY <1>3, <1>4 DEF Holds
<1>6. \A k \in 1 .. Len(e) : e[k].seq > n => \E i \in 1 .. Len(a) : a[i] = e[k]
  BY <1>3, <1>4 DEF Holds
<1>7. Increasing(a)
  <2>1. SUFFICES ASSUME NEW i \in 1 .. Len(a), NEW j \in 1 .. Len(a), i < j
                 PROVE  a[i].seq < a[j].seq
    BY DEF Increasing
  <2>2. PICK k, m \in 1 .. Len(e) : k < m /\ a[i] = e[k] /\ a[j] = e[m]
    BY <1>3, <2>1 DEF Holds
  <2> QED
    BY <2>2 DEF Increasing
<1>8. Within(a, top) /\ a \in Seq(Rows)
  BY <1>3, <1>5 DEF Within, Holds
<1> QED
  BY <1>1, <1>5, <1>6, <1>7, <1>8

(* A line that begins at an offset or behind it is read from there. *)
LEMMA EventsFromAre ==
  ASSUME IInv, NEW off \in Nat
  PROVE  /\ EventsFrom(off) \in Seq(Rows)
         /\ Increasing(EventsFrom(off)) /\ Within(EventsFrom(off), Top)
         /\ \A k \in 1 .. Len(lines) :
              k <= WholeLines /\ off <= 2 * (k - 1) /\ lines[k].ok =>
                \E i \in 1 .. Len(EventsFrom(off)) : EventsFrom(off)[i] = lines[k]
<1>1. PICK e : e = EventsFrom(off)
  OBVIOUS
<1>2. lines \in Seq(Rows) /\ Within(lines, Top) /\ Len(lines) \in Nat
  BY DEF IInv, ListInv
<1>3. WholeLines \in Nat /\ WholeLines <= Len(lines)
  <2>1. ~terminated => Len(lines) > 0
    BY <1>2 DEF IInv, StateInv
  <2> QED
    BY <1>2, <2>1 DEF WholeLines
<1>4. PICK m : m = (off + 1) \div 2 + 1
  OBVIOUS
<1>5. m \in Nat /\ m >= 1 /\ \A k \in Nat : off <= 2 * (k - 1) => m <= k
  BY <1>4
<1>6. PICK w : w = WholeLines
  OBVIOUS
<1>7. PICK s : s = SubSeq(lines, m, w)
  OBVIOUS
<1>8. /\ s \in Seq(Rows) /\ Len(s) = (IF m <= w THEN w - m + 1 ELSE 0)
      /\ \A i \in 1 .. Len(s) : s[i] = lines[m + i - 1] /\ m + i - 1 \in 1 .. Len(lines)
  <2>1. CASE m <= w
    <3>1. m \in 1 .. Len(lines) + 1 /\ w \in (m - 1) .. Len(lines) /\ w \in Nat
      BY <1>2, <1>3, <1>5, <1>6, <2>1
    <3>2. s \in Seq(Rows) /\ Len(s) = w - m + 1 /\ \A i \in 1 .. (w - m + 1) : s[i] = lines[m + i - 1]
      BY <1>2, <1>7, <3>1, SubSeqProperties
    <3> QED
      BY <1>2, <1>5, <2>1, <3>1, <3>2
  <2>2. CASE ~ (m <= w)
    <3>1. s = <<>>
      BY <1>2, <1>3, <1>5, <1>6, <1>7, <2>2
    <3> QED
      BY <2>2, <3>1
  <2> QED
    BY <2>1, <2>2
<1>9. Holds(e, s, Parsed, Len(s), Rows)
  BY <1>1, <1>4, <1>6, <1>7, <1>8, KeptHolds DEF EventsFrom
<1>10. \A x : x \in Parsed <=> x.ok /\ \E k \in 1 .. Len(lines) : lines[k] = x
  BY <1>2, RangeIs DEF Parsed
<1>11. e \in Seq(Rows) /\ Within(e, Top)
  <2>1. \A i \in 1 .. Len(e) : \E k \in 1 .. Len(lines) : e[i] = lines[k]
    BY <1>9, <1>10 DEF Holds
  <2> QED
    BY <1>2, <1>9, <2>1 DEF Within, Holds
<1>12. Increasing(e)
  <2>1. SUFFICES ASSUME NEW i \in 1 .. Len(e), NEW j \in 1 .. Len(e), i < j
                 PROVE  e[i].seq < e[j].seq
    BY DEF Increasing
  <2>2. PICK k, n \in 1 .. Len(s) : k < n /\ e[i] = s[k] /\ e[j] = s[n]
    BY <1>9, <2>1 DEF Holds
  <2>3. e[i].ok /\ e[j].ok
    BY <1>9, <1>10 DEF Holds
  <2>4. /\ e[i] = lines[m + k - 1] /\ m + k - 1 \in 1 .. Len(lines)
        /\ e[j] = lines[m + n - 1] /\ m + n - 1 \in 1 .. Len(lines)
        /\ m + k - 1 < m + n - 1
    BY <1>5, <1>8, <2>2
  <2> QED
    BY <2>3, <2>4 DEF IInv, OrderInv
<1>13. ASSUME NEW k \in 1 .. Len(lines), k <= w, off <= 2 * (k - 1), lines[k].ok
       PROVE  \E i \in 1 .. Len(e) : e[i] = lines[k]
  <2>1. m <= k /\ k \in Nat
    BY <1>2, <1>5, <1>13
  <2>2. k - m + 1 \in 1 .. Len(s) /\ m + (k - m + 1) - 1 = k
    BY <1>3, <1>5, <1>6, <1>8, <1>13, <2>1
  <2>3. s[k - m + 1] = lines[k]
    BY <1>8, <2>2
  <2>4. s[k - m + 1] \in Parsed
    BY <1>10, <1>13, <2>3
  <2> QED
    BY <1>9, <2>2, <2>3, <2>4 DEF Holds
<1> QED
  BY <1>1, <1>6, <1>11, <1>12, <1>13

LEMMA TailIs ==
  ASSUME IInv
  PROVE  /\ TailSeq \in 0 .. Top
         /\ \A i \in 1 .. Len(lines) : lines[i].ok => lines[i].seq <= TailSeq
<1>1. /\ lines \in Seq(Rows) /\ Within(lines, Top) /\ Top \in Nat
  BY BasicsAre
<1> DEFINE S == {0} \cup {lines[i].seq : i \in {j \in DOMAIN lines : lines[j].ok}}
<1>2. S \in SUBSET Nat /\ S # {} /\ \A n \in S : n <= Top
  <2>1. \A i \in DOMAIN lines : lines[i].seq \in 1 .. Top
    BY <1>1 DEF Within
  <2> QED
    BY <1>1, <2>1
<1>3. Max(S) \in S /\ \A n \in S : n <= Max(S)
  <2> HIDE DEF S
  <2> QED
    BY <1>1, <1>2, MaxIs
<1>4. TailSeq = Max(S)
  BY DEF TailSeq
<1>5. \A i \in 1 .. Len(lines) : lines[i].ok => lines[i].seq \in S
  BY <1>1
<1>6. PICK m : m = Max(S)
  OBVIOUS
<1> HIDE DEF S
<1>7. m \in Nat /\ m <= Top /\ \A n \in S : n <= m
  BY <1>2, <1>3, <1>6
<1> QED
  BY <1>1, <1>4, <1>5, <1>6, <1>7

LEMMA LatestIs ==
  ASSUME IInv
  PROVE  LatestSeq \in 0 .. Top
<1>1. snap \in Seq(Rows) /\ Within(snap, Top) /\ Top \in Nat /\ bump \in 0 .. Top
  BY BasicsAre
<1>2. LastSeqOf(snap) \in 0 .. Top
  BY <1>1, LastIs DEF Within
<1>3. TailSeq \in 0 .. Top
  BY TailIs
<1>4. PICK a, b, c : a = LastSeqOf(snap) /\ b = TailSeq /\ c = bump
  OBVIOUS
<1>5. {a, b, c} \in SUBSET Nat /\ {a, b, c} # {} /\ \A n \in {a, b, c} : n <= Top
  BY <1>1, <1>2, <1>3, <1>4
<1>6. Max({a, b, c}) \in {a, b, c}
  BY <1>1, <1>5, MaxIs
<1> QED
  BY <1>1, <1>2, <1>3, <1>4, <1>6 DEF LatestSeq

LEMMA StatIs ==
  ASSUME IInv
  PROVE  /\ Stat \in [inode : 0 .. inode, size : 0 .. 2 * Top]
         /\ Stat.inode = inode
         /\ Stat.size <= 2 * Len(lines) /\ Stat.size >= 2 * Len(lines) - 1
<1>1. /\ Len(lines) \in Nat /\ Len(lines) <= Top /\ Top \in Nat /\ inode \in Nat
  BY BasicsAre
<1>2. terminated \in BOOLEAN /\ (~terminated => Len(lines) > 0)
  <2>1. lines \in Seq(Rows) /\ terminated \in BOOLEAN /\ (~terminated => lines # <<>>)
    BY BasicsAre DEF IInv, StateInv
  <2> QED
    BY <2>1
<1> QED
  BY <1>1, <1>2 DEF Stat

(* Who is due a line is past its snapshot, and the line above all it has. *)
LEMMA DueIs ==
  ASSUME IInv, NEW l \in Rows
  PROVE  Due(l) => Past /\ Unsent(l) /\ l.seq > LastSeqOf(snap)
<1>1. lastSeq \in Nat /\ snap \in Seq(Rows) /\ pending \in Seq(Rows) /\ l.seq \in Nat
  BY BasicsAre DEF Rows
<1>2. PICK a, b, c : a = lastSeq /\ b = LastSeqOf(snap) /\ c = LastSeqOf(pending)
  OBVIOUS
<1>3. a \in Nat /\ b \in Nat /\ c \in Nat
  BY <1>1, <1>2, LastIs
<1>4. Max({a, b, c}) \in Nat /\ Max({a, b, c}) >= a /\ Max({a, b, c}) >= b /\ Max({a, b, c}) >= c
  <2>1. /\ {a, b, c} \in SUBSET Nat /\ {a, b, c} # {} /\ a + b + c \in Nat
        /\ \A n \in {a, b, c} : n <= a + b + c
    BY <1>3
  <2>2. Max({a, b, c}) \in {a, b, c} /\ \A n \in {a, b, c} : n <= Max({a, b, c})
    BY <1>3, <2>1, MaxIs
  <2> QED
    BY <1>3, <2>2
<1> QED
  BY <1>1, <1>2, <1>3, <1>4 DEF Due, Past, Unsent

-----------------------------------------------------------------------------
(* The writers. *)

LEMMA InitIInv == Init => IInv
<1> SUFFICES ASSUME Init PROVE IInv
  OBVIOUS
<1>1. PICK n \in {0, History} :
        lines = [i \in 1 .. n |-> Line(i, MaxTurns + i, "remote")] /\ inode = Min({n, 1})
  BY DEF Init
<1>2. n \in Nat /\ n <= History
  BY ConstantsAre
<1>3. \A i \in 1 .. n : lines[i] \in Rows /\ lines[i].seq = i /\ lines[i].id = MaxTurns + i
  BY <1>1, <1>2, ConstantsAre DEF Line, Rows
<1>4. lines \in Seq(Rows) /\ Len(lines) = n
  BY <1>1, <1>2, <1>3
<1>5. inode \in {0, 1} /\ (inode = 0 => n = 0)
  BY <1>1, <1>2, MinOfTwo
<1>6. /\ used = [turns |-> 0, rewrites |-> 0, faults |-> 0] /\ Top = History
      /\ History \in Nat /\ MaxTurns \in Nat /\ MaxRewrites \in Nat
  BY ConstantsAre DEF Init, Top
<1>7. /\ snap = <<>> /\ pending = <<>> /\ sent = <<>> /\ owed = {} /\ archived = {} /\ lastSeq = 0
      /\ terminated = TRUE /\ bump = 0 /\ writer = Resting /\ wake = 0 /\ spc = "off"
      /\ cursor = NoCursor /\ told = FALSE /\ seen = NoFile /\ fi = NoFile /\ offset = 0
      /\ blind = FALSE
  BY DEF Init
<1>8. ListInv
  <2>1. Within(lines, Top) /\ \A i \in 1 .. Len(lines) : lines[i].id <= MaxTurns + History
    BY <1>2, <1>3, <1>4, <1>6 DEF Within
  <2>2. <<>> \in Seq(Rows) /\ Within(<<>>, Top)
    BY DEF Within
  <2> QED
    BY <1>4, <1>6, <1>7, <2>1, <2>2 DEF ListInv
<1>9. StateInv
  <2>1. Len(lines) <= Top /\ (inode = 0 => lines = <<>>)
    BY <1>2, <1>4, <1>5, <1>6
  <2>2. NoFile \in [inode : 0 .. inode, size : 0 .. 2 * Top]
    BY <1>5, <1>6 DEF NoFile
  <2>3. used \in [turns : 0 .. MaxTurns, rewrites : 0 .. MaxRewrites, faults : Nat]
    BY <1>6
  <2>4. inode \in 0 .. used.rewrites + 1 /\ bump \in 0 .. Top /\ offset \in 0 .. 2 * Top
        /\ wake \in 0 .. WakeCap
    BY <1>5, <1>6, <1>7, ConstantsAre
  <2>5. /\ writer \in [by : {"none", "local", "remote"}, stage : {"none", "write", "notify"},
                       seq : Nat, id : Nat]
        /\ writer.stage = "none"
    BY <1>7 DEF Resting
  <2>6. Len(lines) + 0 <= Top
    BY <1>4, <1>6, <2>1
  <2> QED
    BY <1>7, <2>1, <2>2, <2>3, <2>4, <2>5, <2>6 DEF StateInv
<1>10. PhaseInv
  BY <1>7 DEF PhaseInv, NoCursor, Polling
<1>11. OrderInv /\ SentInv
  BY <1>3, <1>4, <1>7 DEF OrderInv, SentInv, Increasing, Resting
<1>12. OwedInv /\ WakeInv /\ NoGap /\ ToldOfRewind
  BY <1>7 DEF OwedInv, WakeInv, NoGap, ToldOfRewind
<1>13. OffsetInv
  BY <1>4, <1>7 DEF OffsetInv, NoFile
<1>14. ArchiveInv /\ PollInv
  BY <1>3, <1>4, <1>7 DEF ArchiveInv, PollInv, NoCursor, Polling
<1> QED
  BY <1>8, <1>9, <1>10, <1>11, <1>12, <1>13, <1>14 DEF IInv

(* What no writer changes. *)
ReaderStays ==
  UNCHANGED <<spc, cursor, told, snap, seen, fi, offset, pending, lastSeq, sent, blind>>

LEMMA WritersLeave ==
  ASSUME IInv, ReaderStays, used' \in [turns : 0 .. MaxTurns, rewrites : 0 .. MaxRewrites, faults : Nat],
         used'.turns >= used.turns, inode' \in Nat, inode' >= inode
  PROVE  /\ SentInv'
         /\ Top' \in Nat /\ Top' >= Top
         /\ Within(snap, Top)' /\ Within(pending, Top)' /\ Within(sent, Top)' /\ (lastSeq \in 0 .. Top)'
         /\ ({seen, fi} \subseteq [inode : 0 .. inode, size : 0 .. 2 * Top])'
         /\ (offset \in 0 .. 2 * Top)'
<1>1. Top \in Nat /\ Top' \in Nat /\ Top' >= Top
  <2>1. used'.turns \in Nat /\ used.turns \in Nat /\ History \in Nat
    BY BasicsAre, ConstantsAre
  <2> QED
    BY <2>1 DEF Top
<1>0. \A m, n \in Nat : m <= n => 2 * m \in Nat /\ 2 * n \in Nat /\ 2 * m <= 2 * n
  OBVIOUS
<1>2. SentInv'
  BY DEF IInv, SentInv, ReaderStays, Polling, Increasing
<1>3. Within(snap, Top)' /\ Within(pending, Top)' /\ Within(sent, Top)'
  <2>1. Within(snap, Top') /\ Within(pending, Top') /\ Within(sent, Top')
    BY <1>1, BasicsAre, WithinMore
  <2> QED
    BY <2>1 DEF ReaderStays
<1>4. lastSeq' \in 0 .. Top'
  BY <1>1, BasicsAre DEF ReaderStays
<1>5. ASSUME NEW x \in {seen, fi} PROVE x \in [inode : 0 .. inode', size : 0 .. 2 * Top']
  <2>1. x \in [inode : 0 .. inode, size : 0 .. 2 * Top]
    BY DEF IInv, StateInv
  <2>2. inode \in Nat /\ 2 * Top \in Nat /\ 2 * Top' \in Nat /\ 2 * Top <= 2 * Top'
    BY <1>1, <1>0, BasicsAre
  <2>3. x.inode \in 0 .. inode' /\ x.size \in 0 .. 2 * Top'
    BY <2>1, <2>2
  <2>4. x = [inode |-> x.inode, size |-> x.size]
    BY <2>1
  <2> QED
    BY <2>3, <2>4
<1>6. offset' \in 0 .. 2 * Top'
  <2>1. offset \in 0 .. 2 * Top
    BY DEF IInv, StateInv
  <2>2. offset' = offset /\ 2 * Top \in Nat /\ 2 * Top' \in Nat /\ 2 * Top <= 2 * Top'
    BY <1>1, <1>0 DEF ReaderStays
  <2> QED
    BY <2>1, <2>2
<1> QED
  BY <1>1, <1>2, <1>3, <1>4, <1>5, <1>6 DEF ReaderStays

LEMMA AllocateStep ==
  ASSUME IInv, NEW by \in {"local", "remote"}, Allocate(by)
  PROVE  IInv'
<1>1. PICK next : next = (IF by = "local" THEN Max({TailSeq, bump}) ELSE TailSeq) + 1
  OBVIOUS
<1>2. /\ writer = Resting /\ used.turns < MaxTurns
      /\ used' = [used EXCEPT !.turns = @ + 1]
      /\ writer' = [by |-> by, stage |-> "write", seq |-> next, id |-> used.turns + 1]
      /\ bump' = IF by = "local" THEN next ELSE bump
      /\ ReaderStays
      /\ UNCHANGED <<lines, terminated, inode, wake, owed, archived>>
  BY <1>1 DEF Allocate, fileVars, pollVars, outVars, ghosts, ReaderStays
<1>3. next \in 1 .. Top + 1 /\ next > TailSeq /\ TailSeq \in Nat
  <2>1. TailSeq \in 0 .. Top /\ bump \in 0 .. Top /\ Top \in Nat
    BY TailIs, BasicsAre
  <2>2. PICK a, b : a = TailSeq /\ b = bump
    OBVIOUS
  <2>3. Max({a, b}) \in 0 .. Top /\ Max({a, b}) >= a
    BY <2>1, <2>2, MaxOfTwo
  <2> QED
    BY <1>1, <2>1, <2>2, <2>3
<1>4. /\ used' \in [turns : 0 .. MaxTurns, rewrites : 0 .. MaxRewrites, faults : Nat]
      /\ used'.turns = used.turns + 1 /\ used'.rewrites = used.rewrites
  <2>1. used \in [turns : 0 .. MaxTurns, rewrites : 0 .. MaxRewrites, faults : Nat]
    BY DEF IInv, StateInv
  <2>2. used.turns + 1 \in 0 .. MaxTurns
    BY <1>2, <2>1, ConstantsAre
  <2> QED
    BY <1>2, <2>1, <2>2
<1>5. Top' = Top + 1 /\ Top \in Nat
  <2>1. used.turns \in Nat /\ History \in Nat /\ Top \in Nat
    BY BasicsAre, ConstantsAre
  <2> QED
    BY <1>4, <2>1 DEF Top
<1>6. inode' = inode /\ inode' \in Nat /\ used.turns \in Nat
  BY <1>2, BasicsAre
<1>7. /\ SentInv'
      /\ Within(snap, Top)' /\ Within(pending, Top)' /\ Within(sent, Top)' /\ (lastSeq \in 0 .. Top)'
      /\ ({seen, fi} \subseteq [inode : 0 .. inode, size : 0 .. 2 * Top])'
      /\ (offset \in 0 .. 2 * Top)'
  BY <1>2, <1>4, <1>6, WritersLeave
<1>8. ListInv'
  <2>1. Within(lines, Top)'
    BY <1>2, <1>5, BasicsAre DEF Within
  <2> QED
    BY <1>2, <1>7, <2>1, BasicsAre DEF IInv, ListInv, ReaderStays
<1>9. StateInv'
  <2>1. Len(lines) <= Top
    BY BasicsAre
  <2>2. /\ writer' \in [by : {"none", "local", "remote"}, stage : {"none", "write", "notify"},
                  seq : Nat, id : Nat]
        /\ writer'.by # "none" /\ writer'.seq \in 1 .. Top' /\ writer'.id <= MaxTurns
        /\ writer'.stage = "write"
    BY <1>2, <1>3, <1>5, <1>6, ConstantsAre
  <2>3. bump' \in 0 .. Top'
    BY <1>2, <1>3, <1>5, BasicsAre
  <2>4. Len(lines') + 1 <= Top'
    BY <1>2, <1>5, <2>1, BasicsAre
  <2>5. inode' \in 0 .. used'.rewrites + 1
    BY <1>2, <1>4 DEF IInv, StateInv
  <2> QED
    BY <1>2, <1>4, <1>7, <2>2, <2>3, <2>4, <2>5 DEF IInv, StateInv, ReaderStays
<1>10. PhaseInv'
  BY <1>2 DEF IInv, PhaseInv, ReaderStays, Polling, Past
<1>11. OrderInv'
  <2>1. \A i \in 1 .. Len(lines) : lines[i].ok => lines[i].seq < next
    <3>1. \A i \in 1 .. Len(lines) : lines[i].seq \in Nat
      BY BasicsAre DEF Within
    <3> QED
      BY <1>3, <3>1, TailIs
  <2> QED
    BY <1>2, <2>1 DEF IInv, OrderInv
<1>12. OwedInv' /\ OffsetInv'
  BY <1>2 DEF IInv, OwedInv, OffsetInv, ReaderStays, Unsent
<1>13. WakeInv'
  BY <1>2 DEF IInv, WakeInv, ReaderStays, Unsent, Resting
<1>14. ArchiveInv' /\ PollInv'
  BY <1>2 DEF IInv, ArchiveInv, PollInv, ReaderStays, Polling
<1>15. NoGap' /\ ToldOfRewind'
  BY <1>2 DEF IInv, NoGap, ToldOfRewind, ReaderStays
<1> QED
  BY <1>7, <1>8, <1>9, <1>10, <1>11, <1>12, <1>13, <1>14, <1>15 DEF IInv

(* The lock is given back, or a token is left first. *)
LEMMA RestStep ==
  ASSUME IInv, Forgo \/ Notify
  PROVE  IInv'
<1>1. /\ writer.stage \in {"write", "notify"} /\ writer' = Resting
      /\ writer.stage = "write" => wake' = wake
      /\ writer.stage = "notify" => wake' = IF spc = "off" THEN 0 ELSE Min({wake + 1, WakeCap})
      /\ ReaderStays
      /\ UNCHANGED <<lines, terminated, inode, bump, used, owed, archived>>
  BY DEF Forgo, Notify, fileVars, pollVars, outVars, ghosts, ReaderStays
<1>2. wake' \in 0 .. WakeCap /\ (writer.stage = "notify" /\ spc # "off" => wake' > 0)
  <2>1. wake \in 0 .. WakeCap /\ WakeCap \in Nat \ {0}
    BY ConstantsAre DEF IInv, StateInv
  <2>2. PICK a : a = wake + 1
    OBVIOUS
  <2>3. Min({a, WakeCap}) \in Nat /\ Min({a, WakeCap}) <= WakeCap /\ Min({a, WakeCap}) \in {a, WakeCap}
    BY <2>1, <2>2, MinOfTwo
  <2>4. Min({a, WakeCap}) > 0
    BY <2>1, <2>2, <2>3
  <2> QED
    BY <1>1, <2>1, <2>2, <2>3, <2>4
<1>3. Top' = Top
  BY <1>1 DEF Top
<1>4. ListInv' /\ SentInv'
  BY <1>1, <1>3 DEF IInv, ListInv, SentInv, ReaderStays, Polling, Within, Increasing
<1>5. StateInv'
  <2>1. /\ writer' \in [by : {"none", "local", "remote"}, stage : {"none", "write", "notify"},
                       seq : Nat, id : Nat]
        /\ writer'.stage = "none"
    BY <1>1 DEF Resting
  <2>2. Len(lines') <= Top'
    BY <1>1, <1>3, BasicsAre
  <2>3. Len(lines') \in Nat /\ Len(lines') + 0 = Len(lines')
    BY <1>1, BasicsAre
  <2> QED
    BY <1>1, <1>2, <1>3, <2>1, <2>2, <2>3 DEF IInv, StateInv, ReaderStays
<1>6. PhaseInv'
  BY <1>1 DEF IInv, PhaseInv, ReaderStays, Polling, Past
<1>7. OrderInv'
  BY <1>1 DEF IInv, OrderInv, Resting
<1>8. OwedInv' /\ OffsetInv'
  BY <1>1 DEF IInv, OwedInv, OffsetInv, ReaderStays, Unsent
<1>9. WakeInv'
  BY <1>1, <1>2 DEF IInv, WakeInv, ReaderStays, Unsent, Resting
<1>10. ArchiveInv' /\ PollInv'
  BY <1>1 DEF IInv, ArchiveInv, PollInv, ReaderStays, Polling
<1>11. NoGap' /\ ToldOfRewind'
  BY <1>1 DEF IInv, NoGap, ToldOfRewind, ReaderStays
<1> QED
  BY <1>4, <1>5, <1>6, <1>7, <1>8, <1>9, <1>10, <1>11 DEF IInv

(* A line is put behind the others.  It is owed or not; if it is, and is of the
   subscriber's process, a notification is on its way. *)
LEMMA AppendStep ==
  ASSUME IInv, writer.stage = "write", ReaderStays,
         NEW line \in Rows, line.seq = writer.seq, line.id = writer.id,
         lines' = Append(lines, line), inode' = Max({inode, 1}),
         used'.turns = used.turns, used'.rewrites = used.rewrites,
         used' \in [turns : 0 .. MaxTurns, rewrites : 0 .. MaxRewrites, faults : Nat],
         writer' \in [by : {"none", "local", "remote"}, stage : {"none", "notify"},
                      seq : Nat, id : Nat],
         UNCHANGED <<bump, wake, archived>>,
         terminated' \in BOOLEAN,
         owed' = owed \/ (/\ owed' = owed \cup {line} /\ Due(line) /\ terminated' /\ line.ok
                          /\ line.by = "local" => writer'.stage = "notify")
  PROVE  IInv'
<1>1. /\ lines \in Seq(Rows) /\ Len(lines) \in Nat /\ Len(lines) <= Top /\ Top \in Nat
      /\ inode \in Nat /\ Within(lines, Top) /\ owed \subseteq Rows
  BY BasicsAre
<1>2. /\ lines' \in Seq(Rows) /\ Len(lines') = Len(lines) + 1
      /\ \A i \in 1 .. Len(lines) : lines'[i] = lines[i]
      /\ lines'[Len(lines) + 1] = line
  BY <1>1, AppendIs
<1>3. \A i \in 1 .. Len(lines') : i \in 1 .. Len(lines) \/ i = Len(lines) + 1
  BY <1>1, <1>2
<1>4. \A i \in 1 .. Len(lines) : i \in 1 .. Len(lines') /\ i < Len(lines) + 1
  BY <1>1, <1>2
<1>5. Len(lines) + 1 \in 1 .. Len(lines')
  BY <1>1, <1>2
<1>6. inode' \in Nat /\ inode' >= inode /\ inode' # 0 /\ (inode # 0 => inode' = inode)
  BY <1>1, MaxOfTwo
<1>7. Top' = Top
  BY DEF Top
<1>8. /\ writer.seq \in 1 .. Top /\ writer.id <= MaxTurns /\ writer.id \in Nat
      /\ \A i \in 1 .. Len(lines) : lines[i].ok => lines[i].seq < writer.seq
  BY DEF IInv, StateInv, OrderInv
<1>9. used.turns \in Nat /\ used'.turns >= used.turns
  BY BasicsAre
<1>10. /\ SentInv'
       /\ Within(snap, Top)' /\ Within(pending, Top)' /\ Within(sent, Top)' /\ (lastSeq \in 0 .. Top)'
       /\ ({seen, fi} \subseteq [inode : 0 .. inode, size : 0 .. 2 * Top])'
       /\ (offset \in 0 .. 2 * Top)'
  BY <1>6, <1>9, WritersLeave
<1>11. ListInv'
  <2>1. Within(lines', Top)
    BY <1>1, <1>2, <1>3, <1>8 DEF Within
  <2>2. \A i \in 1 .. Len(lines') : lines'[i].id <= MaxTurns + History
    <3>1. writer.id <= MaxTurns + History
      BY <1>8, ConstantsAre
    <3>2. \A i \in 1 .. Len(lines) : lines[i].id <= MaxTurns + History
      BY DEF IInv, ListInv
    <3> QED
      BY <1>2, <1>3, <3>1, <3>2
  <2>3. owed' \subseteq Rows
    BY <1>1
  <2> QED
    BY <1>2, <1>7, <1>10, <2>1, <2>2, <2>3, BasicsAre DEF IInv, ListInv, ReaderStays
<1>12. StateInv'
  <2>1. Len(lines') + 0 <= Top'
    <3>1. Len(lines) + 1 <= Top
      BY DEF IInv, StateInv
    <3> QED
      BY <1>1, <1>2, <1>7, <3>1
  <2>2. inode' \in 0 .. used'.rewrites + 1
    <3>1. used.rewrites \in Nat /\ inode <= used.rewrites + 1
      BY ConstantsAre DEF IInv, StateInv
    <3>2. inode = 0 => inode' = 1
      BY MaxOfTwo
    <3> QED
      BY <1>1, <1>6, <3>1, <3>2
  <2>3. lines' # <<>>
    BY <1>1, <1>2
  <2>4. writer'.stage # "write"
    OBVIOUS
  <2>5. /\ writer' \in [by : {"none", "local", "remote"}, stage : {"none", "write", "notify"},
                       seq : Nat, id : Nat]
    OBVIOUS
  <2>6. /\ bump' \in 0 .. Top' /\ wake' \in 0 .. WakeCap /\ told' \in BOOLEAN
        /\ blind' \in BOOLEAN
    BY <1>7 DEF IInv, StateInv, ReaderStays
  <2>7. Len(lines') + (IF writer'.stage = "write" THEN 1 ELSE 0) <= Top'
    BY <2>1, <2>4
  <2> QED
    BY <1>6, <1>10, <2>2, <2>3, <2>4, <2>5, <2>6, <2>7 DEF StateInv
<1>13. PhaseInv'
  <2>1. owed' # {} => Past
    <3>1. Due(line) => Past
      BY DueIs
    <3> QED
      BY <3>1 DEF IInv, PhaseInv
  <2> QED
    BY <2>1 DEF IInv, PhaseInv, ReaderStays, Polling, Past
<1>14. OrderInv'
  BY <1>2, <1>3, <1>4, <1>8 DEF IInv, OrderInv
<1>15. \A l \in owed : l.seq < writer.seq /\ l # line
  <2>1. \A l \in owed : \E i \in 1 .. Len(lines) : l = lines[i] /\ l.ok
    BY DEF IInv, OwedInv
  <2>2. \A l \in owed : l.seq < writer.seq /\ l.seq \in Nat
    <3>1. ASSUME NEW l \in owed PROVE l.seq < writer.seq /\ l.seq \in Nat
      <4>1. PICK i \in 1 .. Len(lines) : l = lines[i] /\ l.ok
        BY <2>1
      <4>2. l \in Rows
        BY <1>1
      <4> QED
        BY <1>8, <4>1, <4>2 DEF Rows
    <3> QED
      BY <3>1
  <2> QED
    BY <1>8, <2>2
<1>16. Due(line) => Past /\ Unsent(line) /\ line.seq > LastSeqOf(snap)
  BY DueIs
<1>17. OwedInv'
  <2>1. ASSUME NEW l \in owed' PROVE \E i \in 1 .. Len(lines') : l = lines'[i] /\ l.ok
    <3>1. CASE l \in owed
      BY <1>2, <1>4, <3>1 DEF IInv, OwedInv
    <3>2. CASE l = line /\ line.ok
      BY <1>2, <1>5, <3>2
    <3> QED
      BY <3>1, <3>2
  <2>2. ~terminated' => lines'[Len(lines')] \notin owed'
    BY <1>2, <1>15
  <2>3. spc' = "latest" => \A l \in owed' : l.seq > LastSeqOf(snap')
    BY <1>16 DEF IInv, OwedInv, ReaderStays
  <2>4. ~blind' => \A l \in owed' :
          l.seq > lastSeq' => Unsent(l)' \/ \E i \in 1 .. Len(pending') : pending'[i] = l
    BY <1>16 DEF IInv, OwedInv, ReaderStays, Unsent
  <2> QED
    BY <2>1, <2>2, <2>3, <2>4 DEF OwedInv
<1>18. OffsetInv'
  <2>1. \A i \in 1 .. Len(lines') : 2 * (i - 1) <= 2 * Len(lines)
    BY <1>1, <1>2
  <2>2. 2 * Len(lines) <= 2 * Len(lines') /\ Len(lines) + 1 - 1 = Len(lines)
    BY <1>1, <1>2
  <2>3. inode = 0 => seen.inode # inode' /\ fi.inode # inode'
    BY <1>6 DEF IInv, StateInv
  <2>4. {seen, fi} \subseteq [inode : 0 .. inode, size : 0 .. 2 * Top] /\ offset \in 0 .. 2 * Top
    BY DEF IInv, StateInv
  <2>5. seen.size \in Nat /\ fi.size \in Nat /\ offset \in Nat
    BY <1>1, <2>4
  <2>6. fi'.inode = inode' => fi'.size <= 2 * Len(lines')
    <3>1. fi.inode = inode => fi.size <= 2 * Len(lines)
      BY DEF IInv, OffsetInv
    <3> QED
      BY <1>1, <1>2, <1>6, <2>2, <2>3, <2>5, <3>1 DEF ReaderStays
  <2>7. ASSUME spc \in {"snapshot", "latest", "loop", "reading"}, ~blind, seen.inode = inode'
        PROVE  /\ offset <= 2 * Len(lines') /\ seen.size <= 2 * Len(lines')
               /\ \A i \in 1 .. Len(lines') : lines'[i] \in owed' /\ Unsent(lines'[i]) =>
                    offset <= 2 * (i - 1) /\ seen.size <= 2 * (i - 1)
    <3>1. seen.inode = inode
      BY <1>6, <2>3, <2>7
    <3>2. /\ offset <= 2 * Len(lines) /\ seen.size <= 2 * Len(lines)
          /\ \A i \in 1 .. Len(lines) : lines[i] \in owed /\ Unsent(lines[i]) =>
               offset <= 2 * (i - 1) /\ seen.size <= 2 * (i - 1)
      BY <2>7, <3>1 DEF IInv, OffsetInv
    <3>3. offset <= 2 * Len(lines') /\ seen.size <= 2 * Len(lines')
      BY <1>1, <1>2, <2>2, <2>5, <3>2
    <3>4. ASSUME NEW i \in 1 .. Len(lines'), lines'[i] \in owed', Unsent(lines'[i])
          PROVE  offset <= 2 * (i - 1) /\ seen.size <= 2 * (i - 1)
      <4>1. CASE i \in 1 .. Len(lines)
        <5>1. lines'[i] = lines[i] /\ lines[i] # line
          <6>1. lines[i].ok => lines[i].seq < line.seq
            BY <1>8, <4>1
          <6>2. lines[i] \in owed => lines[i] # line
            BY <1>15
          <6>3. lines[i].seq \in Nat /\ line.seq \in Nat
            <7>1. lines[i].seq \in 1 .. Top
              BY <1>1, <4>1 DEF Within
            <7>2. line.seq \in Nat /\ Top \in Nat
              BY <1>1 DEF Rows
            <7> QED
              BY <7>1, <7>2
          <6>4. lines[i] = line => line.ok
            BY <1>2, <3>4, <4>1, <6>2
          <6> QED
            BY <1>2, <4>1, <6>1, <6>3, <6>4
        <5>2. lines[i] \in owed
          BY <3>4, <5>1
        <5> QED
          BY <3>2, <3>4, <4>1, <5>1, <5>2
      <4>2. CASE i = Len(lines) + 1
        BY <2>2, <3>2, <4>2
      <4> QED
        BY <1>3, <4>1, <4>2
    <3> QED
      BY <3>3, <3>4
  <2> QED
    BY <2>6, <2>7 DEF OffsetInv, ReaderStays, Unsent
<1>19. WakeInv'
  <2>1. SUFFICES ASSUME spc \in {"latest", "loop"}, writer'.stage # "notify", ~blind,
                        NEW l \in owed', l.by = "local", Unsent(l)
                 PROVE  wake > 0
    BY DEF WakeInv, ReaderStays, Unsent
  <2>2. l \in owed
    BY <2>1
  <2> QED
    BY <2>1, <2>2 DEF IInv, WakeInv
<1>20. ArchiveInv'
  <2>1. SUFFICES ASSUME 0 \notin archived PROVE ArchiveInv'
    BY DEF ArchiveInv
  <2>2. ASSUME Polling \/ spc \in {"registered", "snapshot"}
        PROVE  /\ archived # {} => \E i \in 1 .. Len(lines') : lines'[i].ok
               /\ \A s \in archived : \A i \in 1 .. Len(lines') : lines'[i].ok => s < lines'[i].seq
    <3>1. /\ archived # {} => \E i \in 1 .. Len(lines) : lines[i].ok
          /\ \A s \in archived, i \in 1 .. Len(lines) : lines[i].ok => s < lines[i].seq
      BY <2>1, <2>2 DEF IInv, ArchiveInv
    <3>2. ASSUME NEW s \in archived PROVE s < writer.seq
      <4>1. PICK k \in 1 .. Len(lines) : lines[k].ok
        BY <3>1
      <4>2. s < lines[k].seq /\ lines[k].seq < writer.seq
        BY <1>8, <3>1, <4>1
      <4>3. s \in Nat /\ lines[k].seq \in Nat /\ writer.seq \in Nat
        <5>1. archived \subseteq Nat
          BY BasicsAre
        <5>2. lines[k].seq \in 1 .. Top
          BY <1>1 DEF Within
        <5> QED
          BY <1>1, <1>8, <5>1, <5>2
      <4> QED
        BY <4>2, <4>3
    <3> QED
      BY <1>2, <1>3, <1>4, <3>1, <3>2
  <2> QED
    BY <2>1, <2>2 DEF IInv, ArchiveInv, ReaderStays, Polling
<1>21. PollInv'
  <2>1. SUFFICES ASSUME Polling, 0 \notin archived PROVE PollInv'
    BY DEF PollInv, ReaderStays, Polling
  <2>2. /\ \A s \in archived : s <= cursor.n => Has(sent, s)
        /\ \A i \in 1 .. Len(lines) :
             lines[i].ok /\ lines[i].seq <= cursor.n => Has(sent, lines[i].seq)
        /\ cursor.n > 0 => \E i \in 1 .. Len(lines) : lines[i].ok /\ cursor.n <= lines[i].seq
        /\ spc = "polled" =>
             /\ snap # <<>> => \E i \in 1 .. Len(lines) : lines[i].ok /\ LastSeqOf(snap) <= lines[i].seq
             /\ \A s \in archived : s < FirstSeq(snap) \/ Has(snap, s) \/ s > LastSeqOf(snap)
             /\ \A i \in 1 .. Len(lines) :
                  lines[i].ok => Has(snap, lines[i].seq) \/ lines[i].seq > LastSeqOf(snap)
    BY <2>1 DEF IInv, PollInv
  <2>3. \A n \in Nat : (\E i \in 1 .. Len(lines) : lines[i].ok /\ n <= lines[i].seq) => n < writer.seq
    <3>1. \A i \in 1 .. Len(lines) : lines[i].seq \in Nat
      BY <1>1 DEF Within
    <3> QED
      BY <1>8, <3>1
  <2>4. cursor.n < writer.seq /\ cursor.n \in Nat
    <3>1. cursor.n \in Nat
      BY DEF IInv, PhaseInv
    <3> QED
      BY <1>8, <2>2, <2>3, <3>1
  <2>5. spc = "polled" => LastSeqOf(snap) < writer.seq
    <3>1. LastSeqOf(snap) \in Nat /\ (snap = <<>> => LastSeqOf(snap) = 0)
      BY BasicsAre, LastIs
    <3> QED
      BY <1>8, <2>2, <2>3, <3>1
  <2>6. \A i \in 1 .. Len(lines') :
          lines'[i].ok /\ lines'[i].seq <= cursor.n => Has(sent, lines'[i].seq)
    BY <1>2, <1>3, <1>8, <2>2, <2>4
  <2>7. cursor.n > 0 => \E i \in 1 .. Len(lines') : lines'[i].ok /\ cursor.n <= lines'[i].seq
    BY <1>2, <1>4, <2>2
  <2>8. spc = "polled" =>
          /\ snap # <<>> =>
               \E i \in 1 .. Len(lines') : lines'[i].ok /\ LastSeqOf(snap) <= lines'[i].seq
          /\ \A i \in 1 .. Len(lines') :
               lines'[i].ok => Has(snap, lines'[i].seq) \/ lines'[i].seq > LastSeqOf(snap)
    BY <1>2, <1>3, <1>4, <1>8, <2>2, <2>5
  <2>9. UNCHANGED <<spc, cursor, snap, sent, archived>>
    BY DEF ReaderStays
  <2> QED
    BY <2>2, <2>6, <2>7, <2>8, <2>9 DEF PollInv, Has
<1>22. NoGap' /\ ToldOfRewind'
  <2>1. Unsent(line) => line.seq > lastSeq
    BY DEF Unsent
  <2>2. lastSeq \in Nat /\ line.seq \in Nat
    BY BasicsAre DEF Rows
  <2> QED
    BY <1>16, <2>1, <2>2 DEF IInv, NoGap, ToldOfRewind, ReaderStays
<1> QED
  BY <1>10, <1>11, <1>12, <1>13, <1>14, <1>17, <1>18, <1>19, <1>20, <1>21, <1>22 DEF IInv

LEMMA WriteTurnStep == ASSUME IInv, WriteTurn PROVE IInv'
<1>1. PICK line : line = Line(writer.seq, writer.id, writer.by)
  OBVIOUS
<1>2. /\ writer.stage = "write" /\ writer.by \in {"local", "remote"} /\ writer.seq \in Nat
      /\ writer.id \in Nat
      /\ writer \in [by : {"none", "local", "remote"}, stage : {"none", "write", "notify"},
                     seq : Nat, id : Nat]
  BY DEF IInv, StateInv, WriteTurn
<1>3. /\ line \in Rows /\ line.seq = writer.seq /\ line.id = writer.id /\ line.ok
      /\ line.by = writer.by
  BY <1>1, <1>2 DEF Line, Rows
<1>4. /\ ReaderStays /\ lines' = Append(lines, line) /\ terminated' = TRUE
      /\ inode' = Max({inode, 1}) /\ Written /\ Owing({line})
      /\ UNCHANGED <<bump, wake, archived, used>>
  BY <1>1 DEF WriteTurn, ReaderStays, pollVars, outVars
<1>5. /\ writer' \in [by : {"none", "local", "remote"}, stage : {"none", "notify"},
                      seq : Nat, id : Nat]
      /\ line.by = "local" => writer'.stage = "notify"
  BY <1>2, <1>3, <1>4 DEF Written, Resting
<1>6. owed' = owed \/ (owed' = owed \cup {line} /\ Due(line))
  BY <1>4 DEF Owing
<1>7. used \in [turns : 0 .. MaxTurns, rewrites : 0 .. MaxRewrites, faults : Nat]
  BY DEF IInv, StateInv
<1> QED
  BY <1>2, <1>3, <1>4, <1>5, <1>6, <1>7, AppendStep

LEMMA CutShortStep == ASSUME IInv, CutShort PROVE IInv'
<1>1. PICK ok \in BOOLEAN :
        lines' = Append(lines, [Line(writer.seq, writer.id, writer.by) EXCEPT !.ok = ok])
  BY DEF CutShort
<1>2. PICK line : line = [Line(writer.seq, writer.id, writer.by) EXCEPT !.ok = ok]
  OBVIOUS
<1>3. /\ writer.stage = "write" /\ writer.by \in {"local", "remote"} /\ writer.seq \in Nat
      /\ writer.id \in Nat
  BY DEF IInv, StateInv, CutShort
<1>4. line \in Rows /\ line.seq = writer.seq /\ line.id = writer.id
  BY <1>2, <1>3 DEF Line, Rows
<1>5. /\ ReaderStays /\ terminated' = FALSE /\ inode' = Max({inode, 1}) /\ writer' = Resting
      /\ UNCHANGED <<bump, wake, archived, owed>> /\ used' = [used EXCEPT !.faults = @ + 1]
  BY DEF CutShort, ReaderStays, pollVars, outVars, ghosts
<1>6. /\ used' \in [turns : 0 .. MaxTurns, rewrites : 0 .. MaxRewrites, faults : Nat]
      /\ used'.turns = used.turns /\ used'.rewrites = used.rewrites
  <2>1. used \in [turns : 0 .. MaxTurns, rewrites : 0 .. MaxRewrites, faults : Nat]
    BY DEF IInv, StateInv
  <2> QED
    BY <1>5, <2>1
<1>7. writer' \in [by : {"none", "local", "remote"}, stage : {"none", "notify"},
                   seq : Nat, id : Nat]
  BY <1>5 DEF Resting
<1> QED
  BY <1>1, <1>2, <1>3, <1>4, <1>5, <1>6, <1>7, AppendStep

(* Another file is renamed over the log: lines of it, and maybe a notice that is
   due.  No stat or offset is about the new file. *)
LEMMA RenameStep ==
  ASSUME IInv, ReaderStays, writer.stage # "notify",
         NEW new \in Seq(Rows), lines' = new, Len(new) <= Top, Within(new, Top),
         Increasing(new), \A i \in 1 .. Len(new) : new[i].ok /\ new[i].id <= MaxTurns + History,
         terminated' = TRUE, inode' = inode + 1,
         used.rewrites < MaxRewrites, used' = [used EXCEPT !.rewrites = @ + 1],
         writer' \in [by : {"none", "local", "remote"}, stage : {"none", "notify"},
                      seq : Nat, id : Nat],
         UNCHANGED <<bump, wake>>,
         \A l \in owed' : /\ \E i \in 1 .. Len(new) : l = new[i]
                          /\ \/ l \in owed
                             \/ Due(l) /\ (l.by = "local" => writer'.stage = "notify"),
         archived' \in SUBSET Nat, Past => archived' = archived,
         ArchiveInv', PollInv'
  PROVE  IInv'
<1>1. /\ used' \in [turns : 0 .. MaxTurns, rewrites : 0 .. MaxRewrites, faults : Nat]
      /\ used'.turns = used.turns /\ used'.rewrites = used.rewrites + 1 /\ used.turns \in Nat
      /\ used.rewrites \in Nat
  <2>1. used \in [turns : 0 .. MaxTurns, rewrites : 0 .. MaxRewrites, faults : Nat]
    BY DEF IInv, StateInv
  <2>2. used.rewrites + 1 \in 0 .. MaxRewrites /\ used.turns \in Nat /\ used.rewrites \in Nat
    BY <2>1, ConstantsAre
  <2> QED
    BY <2>1, <2>2
<1>2. inode \in Nat /\ inode' \in Nat /\ inode' >= inode /\ inode' # 0 /\ Top \in Nat
  BY BasicsAre
<1>3. /\ SentInv'
      /\ Within(snap, Top)' /\ Within(pending, Top)' /\ Within(sent, Top)' /\ (lastSeq \in 0 .. Top)'
      /\ ({seen, fi} \subseteq [inode : 0 .. inode, size : 0 .. 2 * Top])'
      /\ (offset \in 0 .. 2 * Top)'
  BY <1>1, <1>2, WritersLeave
<1>4. Top' = Top
  BY <1>1 DEF Top
<1>5. \A l \in owed' : l \in Rows
  OBVIOUS
<1>6. ListInv'
  <2>1. Within(lines', Top')
    BY <1>4
  <2>2. snap' \in Seq(Rows) /\ pending' \in Seq(Rows) /\ sent' \in Seq(Rows) /\ lines' \in Seq(Rows)
    BY BasicsAre DEF ReaderStays
  <2> QED
    BY <1>3, <1>5, <2>1, <2>2 DEF ListInv
<1>7. StateInv'
  <2>1. inode' \in 0 .. used'.rewrites + 1
    <3>1. inode <= used.rewrites + 1
      BY <1>1 DEF IInv, StateInv
    <3> QED
      BY <1>1, <1>2, <3>1
  <2>2. /\ bump' \in 0 .. Top' /\ wake' \in 0 .. WakeCap /\ told' \in BOOLEAN
        /\ blind' \in BOOLEAN
    BY <1>4 DEF IInv, StateInv, ReaderStays
  <2>3. Len(lines') \in Nat /\ Len(lines') + 0 <= Top' /\ writer'.stage # "write"
    BY <1>2, <1>4
  <2>4. Len(lines') + (IF writer'.stage = "write" THEN 1 ELSE 0) <= Top'
    BY <2>3
  <2>5. /\ writer' \in [by : {"none", "local", "remote"}, stage : {"none", "write", "notify"},
                       seq : Nat, id : Nat]
    OBVIOUS
  <2> QED
    BY <1>1, <1>2, <1>3, <2>1, <2>2, <2>3, <2>4, <2>5 DEF StateInv
<1>8. \A l \in owed' : l \notin owed => Past /\ Unsent(l) /\ l.seq > LastSeqOf(snap)
  BY <1>5, DueIs
<1>9. PhaseInv'
  <2>1. owed' # {} => Past
    BY <1>8 DEF IInv, PhaseInv
  <2> QED
    BY <2>1 DEF IInv, PhaseInv, ReaderStays, Polling, Past
<1>10. OrderInv'
  BY DEF OrderInv, Increasing
<1>11. OwedInv'
  <2>1. \A l \in owed' : \E i \in 1 .. Len(lines') : l = lines'[i] /\ l.ok
    OBVIOUS
  <2>2. spc' = "latest" => \A l \in owed' : l.seq > LastSeqOf(snap')
    BY <1>8 DEF IInv, OwedInv, ReaderStays
  <2>3. ~blind' => \A l \in owed' :
          l.seq > lastSeq' => Unsent(l)' \/ \E i \in 1 .. Len(pending') : pending'[i] = l
    BY <1>8 DEF IInv, OwedInv, ReaderStays, Unsent
  <2> QED
    BY <2>1, <2>2, <2>3 DEF OwedInv
<1>12. OffsetInv'
  <2>1. seen.inode # inode' /\ fi.inode # inode'
    <3>1. seen.inode <= inode /\ fi.inode <= inode /\ seen.inode \in Nat /\ fi.inode \in Nat
      BY <1>2 DEF IInv, StateInv
    <3> QED
      BY <1>2, <3>1
  <2> QED
    BY <2>1 DEF OffsetInv, ReaderStays
<1>13. WakeInv'
  BY DEF IInv, WakeInv, ReaderStays, Unsent
<1>14. NoGap'
  <2>1. \A l \in owed' : l \notin owed => ~ (l.seq <= lastSeq)
    <3>1. \A l \in Rows : l.seq \in Nat
      BY DEF Rows
    <3>2. \A l \in owed' : l \notin owed => l.seq > lastSeq
      BY <1>8 DEF Unsent
    <3> QED
      BY <1>5, <3>1, <3>2, BasicsAre
  <2> QED
    BY <2>1 DEF IInv, NoGap, ReaderStays
<1>15. ToldOfRewind'
  BY DEF IInv, ToldOfRewind, ReaderStays, Past
<1> QED
  BY <1>3, <1>6, <1>7, <1>9, <1>10, <1>11, <1>12, <1>13, <1>14, <1>15 DEF IInv

(* A new seq is above whatever a consumer asks from or has just read. *)
LEMMA NewSeqIsAbove ==
  ASSUME IInv, writer.stage = "write", Polling, 0 \notin archived
  PROVE  cursor.n < writer.seq /\ (spc = "polled" => LastSeqOf(snap) < writer.seq)
<1>1. /\ writer.seq \in Nat /\ writer.seq > 0
      /\ \A i \in 1 .. Len(lines) : lines[i].ok => lines[i].seq < writer.seq
  <2>1. Top \in Nat
    BY BasicsAre
  <2> QED
    BY <2>1 DEF IInv, StateInv, OrderInv
<1>2. /\ cursor.n > 0 => \E i \in 1 .. Len(lines) : lines[i].ok /\ cursor.n <= lines[i].seq
      /\ spc = "polled" /\ snap # <<>> =>
           \E i \in 1 .. Len(lines) : lines[i].ok /\ LastSeqOf(snap) <= lines[i].seq
  BY DEF IInv, PollInv
<1>3. \A i \in 1 .. Len(lines) : lines[i].seq \in Nat
  BY BasicsAre DEF Within
<1>4. /\ cursor.n \in Nat /\ LastSeqOf(snap) \in Nat /\ (snap = <<>> => LastSeqOf(snap) = 0)
  BY BasicsAre, LastIs DEF IInv, PhaseInv
<1>5. \A n \in Nat : (\E i \in 1 .. Len(lines) : lines[i].ok /\ n <= lines[i].seq) => n < writer.seq
  BY <1>1, <1>3
<1> QED
  BY <1>1, <1>2, <1>4, <1>5

LEMMA StripStep ==
  ASSUME IInv, NEW by \in {"local", "remote"}, Strip(by)
  PROVE  IInv'
<1>1. PICK e : e = AllEvents
  OBVIOUS
<1>2. /\ writer = Resting /\ used.rewrites < MaxRewrites
      /\ used' = [used EXCEPT !.rewrites = @ + 1]
      /\ lines' = e /\ terminated' = TRUE /\ inode' = inode + 1
      /\ writer' = IF by = "local" THEN [Resting EXCEPT !.by = by, !.stage = "notify"] ELSE Resting
      /\ ReaderStays /\ UNCHANGED <<bump, wake, owed, archived>>
  BY <1>1 DEF Strip, Rename, pollVars, outVars, ReaderStays
<1>3. /\ e \in Seq(Rows) /\ Len(e) <= Len(lines) /\ Increasing(e) /\ Within(e, Top)
      /\ \A i \in 1 .. Len(e) : e[i].ok /\ \E k \in 1 .. Len(lines) : e[i] = lines[k]
      /\ \A k \in 1 .. Len(lines) : lines[k].ok => \E i \in 1 .. Len(e) : e[i] = lines[k]
  BY <1>1, EventsAre
<1>4. Len(e) <= Top
  BY <1>3, BasicsAre
<1>5. \A i \in 1 .. Len(e) : e[i].id <= MaxTurns + History
  BY <1>3 DEF IInv, ListInv
<1>6. writer' \in [by : {"none", "local", "remote"}, stage : {"none", "notify"},
                   seq : Nat, id : Nat] /\ writer.stage = "none"
  BY <1>2 DEF Resting
<1>7. \A l \in owed' : (\E i \in 1 .. Len(e) : l = e[i]) /\ l \in owed
  BY <1>2, <1>3 DEF IInv, OwedInv
<1>8. ArchiveInv'
  <2>1. ASSUME archived # {} => \E i \in 1 .. Len(lines) : lines[i].ok,
               \A s \in archived, i \in 1 .. Len(lines) : lines[i].ok => s < lines[i].seq
        PROVE  /\ archived # {} => \E i \in 1 .. Len(e) : e[i].ok
               /\ \A s \in archived, i \in 1 .. Len(e) : e[i].ok => s < e[i].seq
    BY <1>3, <2>1
  <2> QED
    BY <1>2, <2>1 DEF IInv, ArchiveInv, ReaderStays, Polling
<1>9. PollInv'
  <2>1. SUFFICES ASSUME Polling, 0 \notin archived PROVE PollInv'
    BY <1>2 DEF PollInv, ReaderStays, Polling
  <2>2. \A n : (\E i \in 1 .. Len(lines) : lines[i].ok /\ n <= lines[i].seq)
               => \E i \in 1 .. Len(e) : e[i].ok /\ n <= e[i].seq
    BY <1>3
  <2>3. \A i \in 1 .. Len(e) : e[i].ok /\ e[i].seq <= cursor.n => Has(sent, e[i].seq)
    BY <1>3, <2>1 DEF IInv, PollInv
  <2>4. spc = "polled" => \A i \in 1 .. Len(e) :
          e[i].ok => Has(snap, e[i].seq) \/ e[i].seq > LastSeqOf(snap)
    BY <1>3, <2>1 DEF IInv, PollInv
  <2> QED
    BY <1>2, <2>1, <2>2, <2>3, <2>4 DEF IInv, PollInv, ReaderStays, Polling, Has
<1> QED
  BY <1>2, <1>3, <1>4, <1>5, <1>6, <1>7, <1>8, <1>9, RenameStep, BasicsAre

LEMMA CompactStep == ASSUME IInv, Compact PROVE IInv'
<1> DEFINE e == AllEvents
<1>1. PICK notice : notice = Line(writer.seq, writer.id, writer.by)
  OBVIOUS
<1>2. /\ e \in Seq(Rows) /\ Len(e) <= Len(lines) /\ Increasing(e) /\ Within(e, Top)
      /\ \A i \in 1 .. Len(e) : e[i].ok /\ \E k \in 1 .. Len(lines) : e[i] = lines[k]
      /\ \A k \in 1 .. Len(lines) : lines[k].ok => \E i \in 1 .. Len(e) : e[i] = lines[k]
      /\ Len(e) \in Nat /\ DOMAIN e = 1 .. Len(e)
  BY EventsAre
<1>3. PICK n \in DOMAIN e, noticed \in BOOLEAN :
        LET rest == SubSeq(e, n + 1, Len(e))
            new == IF noticed THEN Append(rest, notice) ELSE rest
            gone == {e[i].seq : i \in 1 .. n} \cup (IF rest = <<>> THEN {0} ELSE {})
        IN  /\ noticed => rest # <<>>
            /\ Rename(new)
            /\ owed' = {l \in owed : l \in Range(rest)}
                       \cup {l \in {notice} : noticed /\ Due(l)}
            /\ archived' = IF spc \in {"off", "polled", "registered", "snapshot"}
                           THEN archived \cup gone ELSE archived
  BY <1>1 DEF Compact
<1>4. PICK rest : rest = SubSeq(e, n + 1, Len(e))
  OBVIOUS
<1>5. PICK new, gone :
        /\ new = IF noticed THEN Append(rest, notice) ELSE rest
        /\ gone = {e[i].seq : i \in 1 .. n} \cup (IF rest = <<>> THEN {0} ELSE {})
  OBVIOUS
<1>6. /\ noticed => rest # <<>>
      /\ used.rewrites < MaxRewrites /\ used' = [used EXCEPT !.rewrites = @ + 1]
      /\ lines' = new /\ terminated' = TRUE /\ inode' = inode + 1
      /\ owed' = {l \in owed : l \in Range(rest)} \cup {l \in {notice} : noticed /\ Due(l)}
      /\ archived' = IF spc \in {"off", "polled", "registered", "snapshot"}
                     THEN archived \cup gone ELSE archived
      /\ writer.stage = "write" /\ Written
      /\ ReaderStays /\ UNCHANGED <<bump, wake>>
  BY <1>3, <1>4, <1>5 DEF Compact, Rename, pollVars, outVars, ReaderStays
<1>7. /\ writer \in [by : {"none", "local", "remote"}, stage : {"none", "write", "notify"},
                     seq : Nat, id : Nat]
      /\ writer.by # "none" /\ writer.seq \in 1 .. Top /\ writer.id <= MaxTurns
      /\ \A i \in 1 .. Len(lines) : lines[i].ok => lines[i].seq < writer.seq
      /\ Len(lines) + 1 <= Top /\ Top \in Nat
  BY <1>6, BasicsAre DEF IInv, StateInv, OrderInv
<1>8. notice \in Rows /\ notice.seq = writer.seq /\ notice.id = writer.id /\ notice.ok
      /\ notice.by = writer.by
  BY <1>1, <1>7 DEF Line, Rows
<1>9. /\ rest \in Seq(Rows) /\ Len(rest) = Len(e) - n /\ n >= 1 /\ n <= Len(e) /\ n \in Nat
      /\ \A i \in 1 .. Len(rest) : rest[i] = e[n + i] /\ n + i \in 1 .. Len(e)
  <2>1. n \in 1 .. Len(e) /\ n + 1 \in 1 .. Len(e) + 1 /\ Len(e) \in (n + 1 - 1) .. Len(e)
    BY <1>2
  <2>2. PICK m : m = n + 1
    OBVIOUS
  <2>3. m \in 1 .. Len(e) + 1 /\ Len(e) \in (m - 1) .. Len(e) /\ rest = SubSeq(e, m, Len(e))
    BY <1>4, <2>1, <2>2
  <2>4. /\ rest \in Seq(Rows) /\ Len(rest) = Len(e) - m + 1
        /\ \A i \in 1 .. (Len(e) - m + 1) : rest[i] = e[m + i - 1]
    BY <1>2, <2>3, SubSeqProperties
  <2>5. Len(e) - m + 1 = Len(e) - n /\ \A i \in 1 .. (Len(e) - n) : m + i - 1 = n + i
    <3>1. PICK k : k = Len(e)
      OBVIOUS
    <3>2. k \in Nat /\ n \in Nat
      BY <1>2, <3>1
    <3>3. k - (n + 1) + 1 = k - n /\ \A i \in 1 .. (k - n) : n + 1 + i - 1 = n + i
      BY <3>2
    <3> QED
      BY <2>2, <3>1, <3>3
  <2> QED
    BY <1>2, <2>1, <2>4, <2>5
<1>10. \A i \in 1 .. Len(rest) : rest[i].ok /\ rest[i].seq < writer.seq
                                 /\ \E k \in 1 .. Len(lines) : rest[i] = lines[k]
  <2>1. SUFFICES ASSUME NEW i \in 1 .. Len(rest)
                 PROVE  /\ rest[i].ok /\ rest[i].seq < writer.seq
                        /\ \E k \in 1 .. Len(lines) : rest[i] = lines[k]
    OBVIOUS
  <2>2. PICK j \in 1 .. Len(e) : rest[i] = e[j]
    BY <1>9
  <2>3. e[j].ok
    BY <1>2
  <2>4. PICK k \in 1 .. Len(lines) : e[j] = lines[k]
    BY <1>2
  <2> QED
    BY <1>7, <2>2, <2>3, <2>4
<1>11. Increasing(rest)
  <2>1. SUFFICES ASSUME NEW i \in 1 .. Len(rest), NEW j \in 1 .. Len(rest), i < j
                 PROVE  rest[i].seq < rest[j].seq
    BY DEF Increasing
  <2>2. n + i < n + j
    BY <1>9, <2>1
  <2> QED
    BY <1>2, <1>9, <2>2 DEF Increasing
<1>12. /\ new \in Seq(Rows) /\ Len(new) \in Nat
       /\ Len(new) = IF noticed THEN Len(rest) + 1 ELSE Len(rest)
       /\ \A i \in 1 .. Len(new) : IF i = Len(rest) + 1 THEN noticed /\ new[i] = notice
                                   ELSE i \in 1 .. Len(rest) /\ new[i] = rest[i]
       /\ \A i \in 1 .. Len(rest) : i \in 1 .. Len(new) /\ new[i] = rest[i]
       /\ noticed => Len(rest) + 1 \in 1 .. Len(new) /\ new[Len(rest) + 1] = notice
  <2>1. CASE noticed
    <3>1. /\ new \in Seq(Rows) /\ Len(new) = Len(rest) + 1 /\ Len(rest) \in Nat
          /\ \A i \in 1 .. Len(rest) : new[i] = rest[i]
          /\ new[Len(rest) + 1] = notice
      BY <1>5, <1>8, <1>9, <2>1, AppendIs
    <3>2. \A i \in 1 .. Len(new) : i = Len(rest) + 1 \/ (i \in 1 .. Len(rest) /\ i # Len(rest) + 1)
      BY <3>1
    <3> QED
      BY <2>1, <3>1, <3>2
  <2>2. CASE ~noticed
    <3>1. new = rest /\ Len(rest) \in Nat
      BY <1>5, <1>9, <2>2
    <3> QED
      BY <1>9, <2>2, <3>1
  <2> QED
    BY <2>1, <2>2
<1>13. Increasing(new)
  <2>1. SUFFICES ASSUME NEW i \in 1 .. Len(new), NEW j \in 1 .. Len(new), i < j
                 PROVE  new[i].seq < new[j].seq
    BY DEF Increasing
  <2>2. i # Len(rest) + 1
    BY <1>9, <1>12, <2>1
  <2>3. CASE j = Len(rest) + 1
    BY <1>8, <1>10, <1>12, <2>2, <2>3
  <2>4. CASE j # Len(rest) + 1
    BY <1>11, <1>12, <2>1, <2>2, <2>4 DEF Increasing
  <2> QED
    BY <2>3, <2>4
<1>14. /\ Len(new) <= Top /\ Within(new, Top)
       /\ \A i \in 1 .. Len(new) : new[i].ok /\ new[i].id <= MaxTurns + History
  <2>1. Len(new) <= Top
    <3>0. Len(lines) \in Nat
      BY BasicsAre
    <3>1. Len(rest) + 1 <= Len(e) /\ Len(e) <= Top
      BY <1>2, <1>7, <1>9, <3>0
    <3> QED
      BY <1>7, <1>9, <1>12, <3>1
  <2>2. ASSUME NEW i \in 1 .. Len(new)
        PROVE  new[i].seq \in 1 .. Top /\ new[i].ok /\ new[i].id <= MaxTurns + History
    <3>1. CASE i = Len(rest) + 1
      <4>1. writer.id <= MaxTurns + History
        BY <1>7, ConstantsAre
      <4> QED
        BY <1>7, <1>8, <1>12, <3>1, <4>1
    <3>2. CASE i # Len(rest) + 1
      <4>1. i \in 1 .. Len(rest) /\ new[i] = rest[i]
        BY <1>12, <3>2
      <4>2. PICK k \in 1 .. Len(lines) : new[i] = lines[k] /\ new[i].ok
        BY <1>10, <4>1
      <4>3. lines[k].seq \in 1 .. Top /\ lines[k].id <= MaxTurns + History
        BY BasicsAre DEF Within, IInv, ListInv
      <4> QED
        BY <4>2, <4>3
    <3> QED
      BY <3>1, <3>2
  <2> QED
    BY <2>1, <2>2 DEF Within
<1>15. /\ writer' \in [by : {"none", "local", "remote"}, stage : {"none", "notify"},
                       seq : Nat, id : Nat]
       /\ notice.by = "local" => writer'.stage = "notify"
  BY <1>6, <1>7, <1>8 DEF Written, Resting
<1>16. ASSUME NEW l \in owed'
       PROVE  /\ \E i \in 1 .. Len(new) : l = new[i]
              /\ \/ l \in owed
                 \/ Due(l) /\ (l.by = "local" => writer'.stage = "notify")
  <2>1. CASE l \in owed /\ l \in Range(rest)
    <3>1. PICK i \in 1 .. Len(rest) : rest[i] = l
      BY <1>9, <2>1, RangeIs
    <3> QED
      BY <1>12, <2>1, <3>1
  <2>2. CASE l = notice /\ noticed /\ Due(l)
    BY <1>12, <1>15, <2>2
  <2> QED
    BY <1>6, <2>1, <2>2
<1>17. \A s \in gone : s = 0 \/ \E k \in 1 .. Len(lines) : lines[k].ok /\ lines[k].seq = s
  <2>1. \A i \in 1 .. n : i \in 1 .. Len(e)
    BY <1>2, <1>9
  <2>2. \A s \in gone : s = 0 \/ \E i \in 1 .. n : s = e[i].seq
    BY <1>5
  <2>3. \A i \in 1 .. Len(e) : \E k \in 1 .. Len(lines) : lines[k].ok /\ lines[k].seq = e[i].seq
    BY <1>2
  <2> QED
    BY <2>1, <2>2, <2>3
<1>18. /\ archived' \in SUBSET Nat /\ (Past => archived' = archived)
       /\ ~Past => archived' = archived \cup gone
  <2>1. \A s \in gone : s \in Nat
    <3>1. \A k \in 1 .. Len(lines) : lines[k].seq \in Nat
      BY <1>7, BasicsAre DEF Within
    <3> QED
      BY <1>17, <3>1
  <2>2. Past <=> ~ (spc \in {"off", "polled", "registered", "snapshot"})
    BY DEF IInv, PhaseInv, Past
  <2> QED
    BY <1>6, <2>1, <2>2, BasicsAre
<1>19. 0 \notin gone =>
         /\ rest # <<>> /\ Len(rest) \in 1 .. Len(rest)
         /\ \A s \in gone, i \in 1 .. Len(rest) : s < rest[i].seq
         /\ \A k \in 1 .. Len(lines) : lines[k].ok => lines[k].seq <= rest[Len(rest)].seq
  <2>1. SUFFICES ASSUME 0 \notin gone
                 PROVE  /\ rest # <<>> /\ Len(rest) \in 1 .. Len(rest)
                        /\ \A s \in gone, i \in 1 .. Len(rest) : s < rest[i].seq
                        /\ \A k \in 1 .. Len(lines) : lines[k].ok => lines[k].seq <= rest[Len(rest)].seq
    OBVIOUS
  <2>2. rest # <<>>
    BY <1>5, <2>1
  <2>3. Len(rest) \in 1 .. Len(rest) /\ n + Len(rest) = Len(e)
    <3>1. Len(rest) \in Nat /\ Len(rest) > 0
      BY <1>9, <2>2
    <3> QED
      BY <1>2, <1>9, <3>1
  <2>4. \A i \in 1 .. Len(rest), j \in 1 .. n : j < n + i /\ j \in 1 .. Len(e)
    BY <1>2, <1>9
  <2>5. ASSUME NEW s \in gone, NEW i \in 1 .. Len(rest) PROVE s < rest[i].seq
    <3>1. PICK j \in 1 .. n : s = e[j].seq
      BY <1>5, <2>2
    <3> QED
      BY <1>2, <1>9, <2>4, <3>1 DEF Increasing
  <2>6. ASSUME NEW k \in 1 .. Len(lines), lines[k].ok
        PROVE  lines[k].seq <= rest[Len(rest)].seq
    <3>1. PICK i \in 1 .. Len(e) : e[i] = lines[k]
      BY <1>2, <2>6
    <3>2. e # <<>>
      BY <1>2, <1>9
    <3>3. e[i].seq <= LastSeqOf(e) /\ LastSeqOf(e) = e[Len(e)].seq
      BY <1>2, <3>2, LastIs
    <3>4. rest[Len(rest)] = e[Len(e)]
      BY <1>9, <2>3
    <3> QED
      BY <3>1, <3>3, <3>4
  <2> QED
    BY <2>2, <2>3, <2>5, <2>6
<1>20. ArchiveInv'
  <2>1. SUFFICES ASSUME 0 \notin archived' PROVE ArchiveInv'
    BY DEF ArchiveInv
  <2>2. ASSUME ~Past
        PROVE  /\ archived' # {} => \E i \in 1 .. Len(new) : new[i].ok
               /\ \A s \in archived', i \in 1 .. Len(new) : new[i].ok => s < new[i].seq
    <3>1. 0 \notin gone /\ 0 \notin archived /\ archived' = archived \cup gone
      BY <1>18, <2>1, <2>2
    <3>2. \A s \in archived, i \in 1 .. Len(lines) : lines[i].ok => s < lines[i].seq
      BY <2>2, <3>1 DEF IInv, ArchiveInv, PhaseInv, Past, Polling
    <3>3. \A s \in archived, i \in 1 .. Len(rest) : s < rest[i].seq
      BY <1>10, <3>2
    <3>4. \A s \in archived', i \in 1 .. Len(rest) : s < rest[i].seq
      BY <1>19, <3>1, <3>3
    <3>5. ASSUME NEW s \in archived' PROVE s < writer.seq
      <4>1. s < rest[Len(rest)].seq /\ rest[Len(rest)].seq < writer.seq /\ s \in Nat
        BY <1>10, <1>18, <1>19, <3>1, <3>4
      <4>2. rest[Len(rest)] \in Rows
        BY <1>9, <1>19, <3>1
      <4> QED
        BY <1>7, <4>1, <4>2 DEF Rows
    <3> QED
      BY <1>8, <1>12, <1>14, <1>19, <3>1, <3>4, <3>5
  <2>3. ASSUME spc = "latest" PROVE \A s \in archived' : s < FirstSeq(snap)
    BY <1>18, <2>1, <2>3 DEF IInv, ArchiveInv, Past
  <2>4. ~Past \/ ~ (Polling \/ spc \in {"registered", "snapshot"})
    BY DEF Past, Polling
  <2> QED
    BY <1>6, <2>1, <2>2, <2>3, <2>4 DEF ArchiveInv, ReaderStays, Polling
<1>21. PollInv'
  <2>1. SUFFICES ASSUME Polling, 0 \notin archived' PROVE PollInv'
    BY <1>6 DEF PollInv, ReaderStays, Polling
  <2>2. 0 \notin archived /\ 0 \notin gone /\ archived' = archived \cup gone
    BY <1>18, <2>1 DEF Polling, Past
  <2>3. /\ \A s \in archived : s <= cursor.n => Has(sent, s)
        /\ \A i \in 1 .. Len(lines) :
             lines[i].ok /\ lines[i].seq <= cursor.n => Has(sent, lines[i].seq)
        /\ cursor.n > 0 => \E i \in 1 .. Len(lines) : lines[i].ok /\ cursor.n <= lines[i].seq
        /\ spc = "polled" =>
             /\ snap # <<>> => \E i \in 1 .. Len(lines) : lines[i].ok /\ LastSeqOf(snap) <= lines[i].seq
             /\ \A s \in archived : s < FirstSeq(snap) \/ Has(snap, s) \/ s > LastSeqOf(snap)
             /\ \A i \in 1 .. Len(lines) :
                  lines[i].ok => Has(snap, lines[i].seq) \/ lines[i].seq > LastSeqOf(snap)
    BY <2>1, <2>2 DEF IInv, PollInv
  <2>4. cursor.n < writer.seq /\ (spc = "polled" => LastSeqOf(snap) < writer.seq)
    BY <1>6, <2>1, <2>2, NewSeqIsAbove
  <2>5. \A m \in Nat : (\E i \in 1 .. Len(lines) : lines[i].ok /\ m <= lines[i].seq)
               => \E i \in 1 .. Len(new) : new[i].ok /\ m <= new[i].seq
    <3>1. SUFFICES ASSUME NEW m \in Nat, NEW k \in 1 .. Len(lines), lines[k].ok, m <= lines[k].seq
                   PROVE  \E i \in 1 .. Len(new) : new[i].ok /\ m <= new[i].seq
      OBVIOUS
    <3>2. lines[k].seq <= rest[Len(rest)].seq /\ Len(rest) \in 1 .. Len(rest)
      BY <1>19, <2>2, <3>1
    <3>3. rest[Len(rest)] \in Rows /\ lines[k] \in Rows
      <4>1. lines \in Seq(Rows)
        BY BasicsAre
      <4> QED
        BY <1>9, <3>2, <4>1
    <3>4. m <= rest[Len(rest)].seq
      BY <3>1, <3>2, <3>3 DEF Rows
    <3> QED
      BY <1>12, <1>14, <3>2, <3>4
  <2>6. cursor.n \in Nat /\ LastSeqOf(snap) \in Nat /\ writer.seq \in Nat
    BY <1>7, BasicsAre, LastIs DEF IInv, PhaseInv
  <2>7. \A i \in 1 .. Len(new) : new[i].seq <= cursor.n => Has(sent, new[i].seq)
    <3>1. SUFFICES ASSUME NEW i \in 1 .. Len(new), new[i].seq <= cursor.n PROVE Has(sent, new[i].seq)
      OBVIOUS
    <3>2. i # Len(rest) + 1
      BY <1>8, <1>12, <2>4, <2>6, <3>1
    <3> QED
      BY <1>10, <1>12, <2>3, <3>1, <3>2
  <2>8. \A s \in archived' : s <= cursor.n => Has(sent, s)
    BY <1>17, <2>2, <2>3
  <2>9. ASSUME spc = "polled"
        PROVE  /\ snap # <<>> => \E i \in 1 .. Len(new) : new[i].ok /\ LastSeqOf(snap) <= new[i].seq
               /\ \A s \in archived' : s < FirstSeq(snap) \/ Has(snap, s) \/ s > LastSeqOf(snap)
               /\ \A i \in 1 .. Len(new) : Has(snap, new[i].seq) \/ new[i].seq > LastSeqOf(snap)
    <3>1. \A s \in gone : Has(snap, s) \/ s > LastSeqOf(snap)
      BY <1>17, <2>2, <2>3, <2>9
    <3>2. ASSUME NEW i \in 1 .. Len(new)
          PROVE  Has(snap, new[i].seq) \/ new[i].seq > LastSeqOf(snap)
      <4>1. CASE i = Len(rest) + 1
        BY <1>8, <1>12, <2>4, <2>6, <2>9, <4>1
      <4>2. CASE i # Len(rest) + 1
        BY <1>10, <1>12, <2>3, <2>9, <4>2
      <4> QED
        BY <4>1, <4>2
    <3> QED
      BY <2>2, <2>3, <2>5, <2>6, <2>9, <3>1, <3>2
  <2>10. cursor.n > 0 => \E i \in 1 .. Len(new) : new[i].ok /\ cursor.n <= new[i].seq
    BY <2>3, <2>5, <2>6
  <2>11. UNCHANGED <<spc, cursor, snap, sent>> /\ lines' = new
    BY <1>6 DEF ReaderStays
  <2> QED
    BY <2>7, <2>8, <2>9, <2>10, <2>11 DEF PollInv, Has
<1> QED
  BY <1>6, <1>12, <1>13, <1>14, <1>15, <1>16, <1>18, <1>20, <1>21, RenameStep

-----------------------------------------------------------------------------
(* The consumer. *)

(* What no consumer changes. *)
WritersStay ==
  /\ UNCHANGED <<lines, terminated, inode, bump, writer>>
  /\ used' \in [turns : 0 .. MaxTurns, rewrites : 0 .. MaxRewrites, faults : Nat]
  /\ used'.turns = used.turns /\ used'.rewrites = used.rewrites
  /\ owed' \subseteq owed

LEMMA ReadersLeave ==
  ASSUME IInv, WritersStay, archived' \in SUBSET Nat,
         snap' \in Seq(Rows), pending' \in Seq(Rows), sent' \in Seq(Rows),
         Within(snap', Top), Within(pending', Top), Within(sent', Top), lastSeq' \in 0 .. Top,
         seen' \in [inode : 0 .. inode, size : 0 .. 2 * Top],
         fi' \in [inode : 0 .. inode, size : 0 .. 2 * Top],
         offset' \in 0 .. 2 * Top, wake' \in 0 .. WakeCap, told' \in BOOLEAN, blind' \in BOOLEAN
  PROVE  /\ ListInv' /\ StateInv' /\ OrderInv'
         /\ \A l \in owed' : \E i \in 1 .. Len(lines') : l = lines'[i] /\ l.ok
         /\ ~terminated' => lines'[Len(lines')] \notin owed'
<1>1. Top' = Top
  BY DEF WritersStay, Top
<1>2. lines' \in Seq(Rows) /\ owed' \subseteq Rows /\ Within(lines', Top)
  BY BasicsAre DEF WritersStay
<1>3. ListInv'
  BY <1>1, <1>2 DEF IInv, ListInv, WritersStay
<1>4. StateInv'
  BY <1>1 DEF IInv, StateInv, WritersStay
<1>5. OrderInv'
  BY DEF IInv, OrderInv, WritersStay
<1>6. /\ \A l \in owed' : \E i \in 1 .. Len(lines') : l = lines'[i] /\ l.ok
      /\ ~terminated' => lines'[Len(lines')] \notin owed'
  BY DEF IInv, OwedInv, WritersStay
<1> QED
  BY <1>3, <1>4, <1>5, <1>6

LEMMA TypesAre ==
  ASSUME IInv
  PROVE  /\ used \in [turns : 0 .. MaxTurns, rewrites : 0 .. MaxRewrites, faults : Nat]
         /\ seen \in [inode : 0 .. inode, size : 0 .. 2 * Top]
         /\ fi \in [inode : 0 .. inode, size : 0 .. 2 * Top]
         /\ offset \in 0 .. 2 * Top /\ wake \in 0 .. WakeCap
         /\ told \in BOOLEAN /\ blind \in BOOLEAN
         /\ lastSeq \in 0 .. Top /\ archived \in SUBSET Nat
         /\ cursor.n \in Nat
  BY DEF IInv, StateInv, ListInv, PhaseInv

LEMMA NoneIs == <<>> \in Seq(Rows) /\ Increasing(<<>>) /\ \A n : Within(<<>>, n)
  BY DEF Increasing, Within

LEMMA SubscribeStep ==
  ASSUME IInv, NEW c \in Cursors, SubscribeSession(c)
  PROVE  IInv'
<1>1. /\ spc = "off" /\ cursor = NoCursor /\ c.mode # "poll" /\ spc' = "registered" /\ cursor' = c
      /\ UNCHANGED <<lines, terminated, inode, bump, writer, wake, told, snap, seen, fi, offset,
                     pending, lastSeq, sent, used, owed, archived, blind>>
  BY DEF SubscribeSession, fileVars, writerVars, pollVars, ghosts
<1>2. WritersStay
  BY <1>1, TypesAre DEF WritersStay
<1>3. /\ sent = <<>> /\ snap = <<>> /\ pending = <<>> /\ lastSeq = 0 /\ owed = {}
  BY <1>1 DEF IInv, PhaseInv, NoCursor, Past
<1>4. /\ c.n \in Nat /\ c.mode \in {"all", "since", "last", "live", "poll"}
      /\ c.mode = "since" => c.n # 0
  BY ConstantsAre
<1>5. ListInv' /\ StateInv' /\ OrderInv'
  BY <1>1, <1>2, <1>3, TypesAre, BasicsAre, NoneIs, ReadersLeave
<1>6. PhaseInv'
  BY <1>1, <1>3, <1>4 DEF PhaseInv, NoCursor, Polling, Past
<1>7. SentInv'
  BY <1>1, <1>3, NoneIs DEF SentInv
<1>8. OwedInv' /\ WakeInv' /\ NoGap' /\ ToldOfRewind' /\ PollInv'
  BY <1>1, <1>3 DEF OwedInv, WakeInv, NoGap, ToldOfRewind, PollInv, Polling
<1>9. OffsetInv'
  BY <1>1 DEF IInv, OffsetInv
<1>10. ArchiveInv'
  BY <1>1 DEF IInv, ArchiveInv, Polling
<1> QED
  BY <1>5, <1>6, <1>7, <1>8, <1>9, <1>10 DEF IInv

LEMMA StatFirstStep == ASSUME IInv, StatFirst PROVE IInv'
<1>1. /\ spc = "registered" /\ spc' = "snapshot" /\ seen' = Stat /\ offset' = Stat.size
      /\ UNCHANGED <<lines, terminated, inode, bump, writer, wake, cursor, told, snap, fi,
                     pending, lastSeq, sent, used, owed, archived, blind>>
  BY DEF StatFirst, fileVars, writerVars, outVars, ghosts
<1>2. WritersStay
  BY <1>1, TypesAre DEF WritersStay
<1>3. /\ sent = <<>> /\ snap = <<>> /\ pending = <<>> /\ lastSeq = 0 /\ owed = {}
  BY <1>1 DEF IInv, PhaseInv, Past
<1>4. /\ Stat \in [inode : 0 .. inode, size : 0 .. 2 * Top] /\ Stat.size <= 2 * Len(lines)
      /\ Stat.size \in 0 .. 2 * Top
  BY StatIs
<1>5. ListInv' /\ StateInv' /\ OrderInv'
  BY <1>1, <1>2, <1>3, <1>4, TypesAre, BasicsAre, NoneIs, ReadersLeave
<1>6. PhaseInv'
  BY <1>1, <1>3 DEF IInv, PhaseInv, Polling, Past
<1>7. SentInv'
  BY <1>1, <1>3, NoneIs DEF SentInv
<1>8. OwedInv' /\ WakeInv' /\ NoGap' /\ ToldOfRewind' /\ PollInv'
  BY <1>1, <1>3 DEF OwedInv, WakeInv, NoGap, ToldOfRewind, PollInv, Polling
<1>9. OffsetInv'
  BY <1>1, <1>3, <1>4 DEF IInv, OffsetInv
<1>10. ArchiveInv'
  BY <1>1 DEF IInv, ArchiveInv, Polling
<1> QED
  BY <1>5, <1>6, <1>7, <1>8, <1>9, <1>10 DEF IInv

(* The first event there is comes from the log, behind what was archived. *)
LEMMA ArchivedIsBefore ==
  ASSUME IInv, 0 \notin archived, Polling \/ spc \in {"registered", "snapshot"},
         NEW s \in archived
  PROVE  AllEvents # <<>> /\ s < FirstSeq(AllEvents)
<1>1. PICK e : e = AllEvents
  OBVIOUS
<1>2. /\ \A i \in 1 .. Len(e) : e[i].ok /\ \E k \in 1 .. Len(lines) : e[i] = lines[k]
      /\ \A k \in 1 .. Len(lines) : lines[k].ok => \E i \in 1 .. Len(e) : e[i] = lines[k]
      /\ e \in Seq(Rows)
  BY <1>1, EventsAre
<1>3. /\ \E i \in 1 .. Len(lines) : lines[i].ok
      /\ \A i \in 1 .. Len(lines) : lines[i].ok => s < lines[i].seq
  BY DEF IInv, ArchiveInv
<1>4. e # <<>>
  BY <1>2, <1>3
<1>5. 1 \in 1 .. Len(e) /\ FirstSeq(e) = e[1].seq
  BY <1>2, <1>4, LastIs
<1>6. s < e[1].seq
  BY <1>2, <1>3, <1>5
<1> QED
  BY <1>1, <1>4, <1>5, <1>6

LEMMA ReadSnapshotStep == ASSUME IInv, ReadSnapshot PROVE IInv'
<1>1. PICK e : e = AllEvents
  OBVIOUS
<1>2. /\ spc = "snapshot" /\ spc' = "latest" /\ snap' = e
      /\ UNCHANGED <<lines, terminated, inode, bump, writer, wake, cursor, told, seen, fi, offset,
                     pending, lastSeq, sent, used, owed, archived, blind>>
  BY <1>1 DEF ReadSnapshot, fileVars, writerVars, pollVars, ghosts
<1>3. WritersStay
  BY <1>2, TypesAre DEF WritersStay
<1>4. /\ sent = <<>> /\ pending = <<>> /\ lastSeq = 0 /\ owed = {}
  BY <1>2 DEF IInv, PhaseInv, Past
<1>5. e \in Seq(Rows) /\ Increasing(e) /\ Within(e, Top)
  BY <1>1, EventsAre
<1>6. ListInv' /\ StateInv' /\ OrderInv'
  BY <1>2, <1>3, <1>5, TypesAre, BasicsAre, ReadersLeave
<1>7. PhaseInv'
  BY <1>2, <1>4 DEF IInv, PhaseInv, Polling, Past
<1>8. SentInv'
  BY <1>2, <1>4, <1>5, NoneIs DEF SentInv
<1>9. OwedInv' /\ WakeInv' /\ NoGap' /\ ToldOfRewind' /\ PollInv'
  BY <1>2, <1>4 DEF OwedInv, WakeInv, NoGap, ToldOfRewind, PollInv, Polling
<1>10. OffsetInv'
  BY <1>2, <1>4 DEF IInv, OffsetInv
<1>11. ArchiveInv'
  <2>1. 0 \notin archived => \A s \in archived : s < FirstSeq(e)
    BY <1>1, <1>2, ArchivedIsBefore
  <2> QED
    BY <1>2, <2>1 DEF ArchiveInv, Polling
<1> QED
  BY <1>6, <1>7, <1>8, <1>9, <1>10, <1>11 DEF IInv

(* What is replayed is a part of the snapshot, in its order. *)
LEMMA ReplayedIs ==
  ASSUME IInv
  PROVE  Replayed \in Seq(Rows) /\ Increasing(Replayed) /\ Within(Replayed, Top)
<1>1. snap \in Seq(Rows) /\ Within(snap, Top) /\ Increasing(snap) /\ cursor.n \in Nat
      /\ Len(snap) \in Nat
  BY BasicsAre, TypesAre DEF IInv, SentInv
<1>2. /\ Above(snap, cursor.n) \in Seq(Rows) /\ Increasing(Above(snap, cursor.n))
      /\ Within(Above(snap, cursor.n), Top)
  BY <1>1, AboveIs
<1>3. ASSUME cursor.n < Len(snap), NEW s, s = SubSeq(snap, Len(snap) - cursor.n + 1, Len(snap))
      PROVE  s \in Seq(Rows) /\ Increasing(s) /\ Within(s, Top)
  <2>1. PICK m : m = Len(snap) - cursor.n + 1
    OBVIOUS
  <2>2. /\ m \in 1 .. Len(snap) + 1 /\ Len(snap) \in (m - 1) .. Len(snap)
        /\ s = SubSeq(snap, m, Len(snap))
    BY <1>1, <1>3, <2>1
  <2>3. /\ s \in Seq(Rows) /\ Len(s) = Len(snap) - m + 1
        /\ \A i \in 1 .. (Len(snap) - m + 1) : s[i] = snap[m + i - 1]
    BY <1>1, <2>2, SubSeqProperties
  <2>4. \A i \in 1 .. Len(s) : m + i - 1 \in 1 .. Len(snap) /\ s[i] = snap[m + i - 1]
    BY <1>1, <2>2, <2>3
  <2>5. \A i, j \in 1 .. Len(s) : i < j => m + i - 1 < m + j - 1
    BY <2>2
  <2> QED
    BY <1>1, <2>3, <2>4, <2>5 DEF Increasing, Within
<1>4. CASE cursor.mode = "live"
  BY <1>4, NoneIs DEF Replayed
<1>5. CASE cursor.mode # "live"
  <2>1. \/ Replayed = Above(snap, cursor.n) \/ Replayed = snap
        \/ /\ cursor.n < Len(snap)
           /\ Replayed = SubSeq(snap, Len(snap) - cursor.n + 1, Len(snap))
    BY <1>5 DEF Replayed
  <2> QED
    BY <1>1, <1>2, <1>3, <2>1
<1> QED
  BY <1>4, <1>5

LEMMA ReplayStep == ASSUME IInv, Replay PROVE IInv'
<1>1. PICK r : r = Replayed
  OBVIOUS
<1>2. /\ spc = "latest" /\ spc' = "loop" /\ told' = Rewound /\ sent' = r /\ snap' = <<>>
      /\ lastSeq' = IF cursor.mode = "live" THEN LatestSeq ELSE LastSeqOf(r)
      /\ owed' = {l \in owed : cursor.mode # "live" /\ l.seq > lastSeq'}
      /\ UNCHANGED <<lines, terminated, inode, bump, writer, wake, cursor, seen, fi, offset,
                     pending, used, archived, blind>>
  BY <1>1 DEF Replay, fileVars, writerVars, pollVars
<1>3. /\ r \in Seq(Rows) /\ Increasing(r) /\ Within(r, Top)
      /\ cursor.mode = "live" => r = <<>>
  BY <1>1, ReplayedIs DEF Replayed
<1>4. WritersStay
  BY <1>2, TypesAre DEF WritersStay
<1>5. /\ pending = <<>> /\ lastSeq = 0 /\ cursor.mode \notin {"none", "poll"} /\ LastSeqOf(pending) = 0
  BY <1>2 DEF IInv, PhaseInv, Polling, LastSeqOf
<1>6. lastSeq' \in 0 .. Top
  <2>1. LastSeqOf(r) \in 0 .. Top
    <3>1. CASE r = <<>>
      BY <3>1, BasicsAre DEF LastSeqOf
    <3>2. CASE r # <<>>
      <4>1. Len(r) \in 1 .. Len(r) /\ LastSeqOf(r) = r[Len(r)].seq
        BY <1>3, <3>2, LastIs
      <4>2. r[Len(r)].seq \in 1 .. Top
        BY <1>3, <4>1 DEF Within
      <4> QED
        BY <4>1, <4>2, BasicsAre
    <3> QED
      BY <3>1, <3>2
  <2> QED
    BY <1>2, <2>1, LatestIs
<1>7. told' \in BOOLEAN
  <2>1. CASE cursor.mode = "since" /\ cursor.n > 0
    BY <1>2, <2>1 DEF Rewound
  <2>2. CASE cursor.mode = "all"
    BY <1>2, <2>2 DEF Rewound
  <2>3. CASE ~ (cursor.mode = "since" /\ cursor.n > 0) /\ cursor.mode # "all"
    BY <1>2, <2>3 DEF Rewound
  <2> QED
    BY <2>1, <2>2, <2>3
<1>8. ListInv' /\ StateInv' /\ OrderInv'
  BY <1>2, <1>3, <1>4, <1>6, <1>7, TypesAre, BasicsAre, NoneIs, ReadersLeave
<1>9. PhaseInv'
  BY <1>2, <1>5 DEF IInv, PhaseInv, Polling, Past
<1>10. SentInv'
  <2>1. \A i \in 1 .. Len(r) : r[i].seq <= LastSeqOf(r)
    BY <1>3, LastIs
  <2>2. \A i \in 1 .. Len(sent') : sent'[i].seq <= lastSeq'
    BY <1>2, <1>3, <2>1
  <2> QED
    BY <1>2, <1>3, <1>5, <2>2, NoneIs DEF SentInv, Polling
<1>11. \A l \in owed : Unsent(l)
  <2>1. \A l \in owed : l.seq \in 1 .. Top
    BY BasicsAre DEF IInv, OwedInv, Within
  <2> QED
    BY <1>5, <2>1, BasicsAre DEF Unsent
<1>12. OwedInv'
  <2>1. LastSeqOf(pending') = 0 /\ \A l \in owed' : l.seq \in Nat /\ l.seq > 0 /\ l.seq > lastSeq'
    BY <1>2, <1>5, <1>11, BasicsAre DEF Unsent, Rows
  <2>2. /\ \A l \in owed' : \E i \in 1 .. Len(lines') : l = lines'[i] /\ l.ok
        /\ ~terminated' => lines'[Len(lines')] \notin owed'
    BY <1>2 DEF IInv, OwedInv
  <2> QED
    BY <1>2, <2>1, <2>2 DEF OwedInv, Unsent
<1>13. OffsetInv'
  BY <1>2, <1>11 DEF IInv, OffsetInv
<1>14. WakeInv'
  BY <1>2, <1>11 DEF IInv, WakeInv
<1>15. NoGap'
  <2>1. \A l \in owed' : l.seq \in Nat /\ l.seq > lastSeq' /\ lastSeq' \in Nat
    BY <1>2, <1>6, BasicsAre DEF Rows
  <2> QED
    BY <2>1 DEF NoGap
<1>16. ToldOfRewind'
  <2>1. SUFFICES ASSUME cursor.mode = "since", ~Rewound, 0 \notin archived, NEW s \in archived
                 PROVE  s <= cursor.n
    BY <1>2 DEF ToldOfRewind
  <2>2. cursor.n \in Nat /\ cursor.n # 0 /\ cursor.n > 0
    BY <2>1 DEF IInv, PhaseInv
  <2>3. ~ (cursor.n < FirstSeq(snap))
    BY <2>1, <2>2 DEF Rewound
  <2>4. s < FirstSeq(snap) /\ s \in Nat /\ FirstSeq(snap) \in Nat
    BY <1>2, <2>1, BasicsAre, LastIs DEF IInv, ArchiveInv
  <2> QED
    BY <2>2, <2>3, <2>4
<1>17. ArchiveInv' /\ PollInv'
  BY <1>2 DEF ArchiveInv, PollInv, Polling
<1> QED
  BY <1>8, <1>9, <1>10, <1>12, <1>13, <1>14, <1>15, <1>16, <1>17 DEF IInv

(* A poll that finds nothing has nothing to find, and may consume a token. *)
LEMMA PollStep == ASSUME IInv, Wake \/ Tick PROVE IInv'
<1>1. /\ spc = "loop" /\ pending = <<>>
      /\ fi' = IF Changed THEN Stat ELSE fi
      /\ spc' = IF Changed THEN "reading" ELSE "loop"
      /\ UNCHANGED <<lines, terminated, inode, bump, writer, cursor, told, snap, seen, offset,
                     pending, lastSeq, sent, used, owed, archived, blind>>
      /\ wake' = wake \/ (wake > 0 /\ wake' = wake - 1)
  <2>1. Poll /\ (wake' = wake \/ (wake > 0 /\ wake' = wake - 1))
    BY DEF Wake, Tick
  <2> QED
    BY <2>1 DEF Poll, fileVars, writerVars, outVars, ghosts
<1>2. WritersStay /\ wake' \in 0 .. WakeCap
  <2>1. wake \in 0 .. WakeCap /\ WakeCap \in Nat
    BY TypesAre, ConstantsAre
  <2>2. wake' \in 0 .. WakeCap
    BY <1>1, <2>1
  <2> QED
    BY <1>1, <2>2, TypesAre DEF WritersStay
<1>3. fi' \in [inode : 0 .. inode, size : 0 .. 2 * Top]
      /\ (fi'.inode = inode => fi'.size <= 2 * Len(lines))
  BY <1>1, StatIs, TypesAre DEF IInv, OffsetInv
<1>4. ListInv' /\ StateInv' /\ OrderInv'
  BY <1>1, <1>2, <1>3, TypesAre, BasicsAre, ReadersLeave
<1>5. PhaseInv'
  BY <1>1 DEF IInv, PhaseInv, Polling, Past
<1>6. SentInv'
  BY <1>1 DEF IInv, SentInv, Polling
<1>7. OwedInv'
  BY <1>1 DEF IInv, OwedInv, Unsent
<1>8. OffsetInv'
  <2>1. ~blind' /\ seen'.inode = inode' =>
           /\ offset <= 2 * Len(lines) /\ seen.size <= 2 * Len(lines)
           /\ \A i \in 1 .. Len(lines) : lines[i] \in owed /\ Unsent(lines[i]) =>
                offset <= 2 * (i - 1) /\ seen.size <= 2 * (i - 1)
    BY <1>1 DEF IInv, OffsetInv
  <2> QED
    BY <1>1, <1>3, <2>1 DEF OffsetInv, Unsent
<1>9. ASSUME ~Changed, ~blind, NEW l \in owed, Unsent(l) PROVE FALSE
  <2>1. PICK i \in 1 .. Len(lines) : l = lines[i] /\ l.ok
    BY DEF IInv, OwedInv
  <2>2. inode # 0
    <3>1. lines # <<>>
      BY <2>1
    <3> QED
      BY <3>1 DEF IInv, StateInv
  <2>3. seen = Stat
    BY <1>9, <2>2 DEF Changed
  <2>4. seen.inode = inode /\ seen.size >= 2 * Len(lines) - 1 /\ Len(lines) \in Nat
    BY <2>3, StatIs, BasicsAre
  <2>5. seen.size <= 2 * (i - 1) /\ seen.size \in Nat
    <3>1. seen.size \in 0 .. 2 * Top /\ Top \in Nat
      BY TypesAre, BasicsAre
    <3> QED
      BY <1>1, <1>9, <2>1, <2>4, <3>1 DEF IInv, OffsetInv
  <2> QED
    BY <2>4, <2>5
<1>10. WakeInv'
  BY <1>1, <1>9 DEF WakeInv, Unsent
<1>11. NoGap' /\ ToldOfRewind'
  BY <1>1 DEF IInv, NoGap, ToldOfRewind
<1>12. ArchiveInv' /\ PollInv'
  BY <1>1 DEF ArchiveInv, PollInv, Polling
<1> QED
  BY <1>4, <1>5, <1>6, <1>7, <1>8, <1>10, <1>11, <1>12 DEF IInv

(* What is read and above what was sent is pending.  If the poll is not blind no
   line that is owed is left out. *)
LEMMA DeliverStep ==
  ASSUME IInv, NEW e \in Seq(Rows), Increasing(e), Within(e, Top), Deliver(e),
         used' \in [turns : 0 .. MaxTurns, rewrites : 0 .. MaxRewrites, faults : Nat],
         used'.turns = used.turns, used'.rewrites = used.rewrites,
         blind' \in BOOLEAN, blind => blind', offset' \in 0 .. 2 * Top,
         ~blind' /\ fi.inode = inode => offset' <= 2 * Len(lines),
         ~blind' => \A l \in owed : Unsent(l) => \E i \in 1 .. Len(e) : e[i] = l
  PROVE  IInv'
<1>1. PICK p : p = Above(e, lastSeq)
  OBVIOUS
<1>2. /\ spc = "reading" /\ spc' = "loop" /\ seen' = fi /\ fi' = NoFile /\ pending' = p
      /\ UNCHANGED <<lines, terminated, inode, bump, writer, wake, cursor, told, snap, lastSeq,
                     sent, owed, archived>>
  BY <1>1 DEF Deliver, fileVars, writerVars, outVars
<1>3. WritersStay
  BY <1>2 DEF WritersStay
<1>4. /\ p \in Seq(Rows) /\ Increasing(p) /\ Within(p, Top)
      /\ \A i \in 1 .. Len(p) : p[i].seq > lastSeq
      /\ \A k \in 1 .. Len(e) : e[k].seq > lastSeq => \E i \in 1 .. Len(p) : p[i] = e[k]
      /\ Top \in Nat
  <2>1. lastSeq \in Nat /\ Top \in Nat
    BY BasicsAre
  <2> QED
    BY <1>1, <2>1, AboveIs
<1>5. NoFile \in [inode : 0 .. inode, size : 0 .. 2 * Top]
  BY BasicsAre DEF NoFile
<1>6. ListInv' /\ StateInv' /\ OrderInv'
  BY <1>2, <1>3, <1>4, <1>5, TypesAre, BasicsAre, ReadersLeave
<1>7. pending = <<>> /\ LastSeqOf(pending) = 0
  BY <1>2 DEF IInv, PhaseInv, LastSeqOf
<1>8. PhaseInv'
  BY <1>2 DEF IInv, PhaseInv, Polling, Past
<1>9. SentInv'
  <2>1. \A i \in 1 .. Len(p) : p[i].seq \in Nat
    BY <1>4 DEF Within
  <2> QED
    BY <1>2, <1>4, <2>1, BasicsAre DEF IInv, SentInv, Polling
<1>10. \A l \in owed : l.seq > lastSeq => Unsent(l)
  <2>1. \A l \in owed : l.seq \in 1 .. Top
    BY BasicsAre DEF IInv, OwedInv, Within
  <2> QED
    BY <1>7, <2>1, BasicsAre DEF Unsent
<1>11. ~blind' => \A l \in owed : l.seq > lastSeq => \E i \in 1 .. Len(p) : p[i] = l
  BY <1>4, <1>10
<1>12. OwedInv'
  BY <1>2, <1>11 DEF IInv, OwedInv
<1>13. ~blind' => \A l \in owed' : ~Unsent(l)'
  <2>1. SUFFICES ASSUME ~blind', NEW l \in owed, l.seq > lastSeq
                 PROVE  ~ (l.seq > LastSeqOf(p))
    BY <1>2 DEF Unsent
  <2>2. PICK i \in 1 .. Len(p) : p[i] = l
    BY <1>11, <2>1
  <2>3. l.seq <= LastSeqOf(p) /\ LastSeqOf(p) \in Nat
    BY <1>4, <2>2, LastIs
  <2>4. l.seq \in Nat
    BY BasicsAre DEF Rows
  <2> QED
    BY <2>3, <2>4
<1>14. OffsetInv'
  <2>1. fi.inode = inode => fi.size <= 2 * Len(lines)
    BY DEF IInv, OffsetInv
  <2>2. fi'.inode = inode' => fi'.size <= 2 * Len(lines')
    BY <1>2, BasicsAre DEF NoFile
  <2>3. ~blind' => \A i \in 1 .. Len(lines') : ~ (lines'[i] \in owed' /\ Unsent(lines[i])')
    BY <1>2, <1>13 DEF Unsent
  <2> QED
    BY <1>2, <2>1, <2>2, <2>3 DEF OffsetInv
<1>15. WakeInv'
  BY <1>13 DEF WakeInv
<1>16. NoGap'
  BY <1>2 DEF IInv, NoGap
<1>17. ToldOfRewind' /\ ArchiveInv' /\ PollInv'
  BY <1>2 DEF IInv, ToldOfRewind, ArchiveInv, PollInv, Polling
<1> QED
  BY <1>6, <1>8, <1>9, <1>12, <1>14, <1>15, <1>16, <1>17 DEF IInv

LEMMA ReadStep == ASSUME IInv, Read PROVE IInv'
<1>1. /\ blind \in BOOLEAN /\ fi.size \in 0 .. 2 * Top /\ offset \in 0 .. 2 * Top
      /\ used \in [turns : 0 .. MaxTurns, rewrites : 0 .. MaxRewrites, faults : Nat]
      /\ Top \in Nat /\ Len(lines) \in Nat /\ Len(lines) <= Top
  BY TypesAre, BasicsAre
<1>2. CASE ReadAppended
  <2>1. /\ Appended /\ Deliver(EventsFrom(offset)) /\ offset' = OffsetFrom(offset)
        /\ blind' = (blind \/ inode # fi.inode) /\ used' = used
    BY <1>2 DEF ReadAppended
  <2>2. spc = "reading" /\ pending = <<>>
    BY <2>1 DEF Deliver, IInv, PhaseInv
  <2>3. PICK e : e = EventsFrom(offset)
    OBVIOUS
  <2>4. /\ e \in Seq(Rows) /\ Increasing(e) /\ Within(e, Top)
        /\ \A k \in 1 .. Len(lines) :
             k <= WholeLines /\ offset <= 2 * (k - 1) /\ lines[k].ok =>
               \E i \in 1 .. Len(e) : e[i] = lines[k]
    <3>1. offset \in Nat
      BY <1>1
    <3> QED
      BY <2>3, <3>1, EventsFromAre
  <2>5. WholeLines \in Nat /\ WholeLines <= Len(lines) /\ (~terminated => WholeLines = Len(lines) - 1)
        /\ (terminated => WholeLines = Len(lines))
    <3>1. lines \in Seq(Rows) /\ terminated \in BOOLEAN /\ (~terminated => lines # <<>>)
      BY BasicsAre DEF IInv, StateInv
    <3>2. ~terminated => Len(lines) > 0
      BY <3>1
    <3> QED
      BY <1>1, <3>1, <3>2 DEF WholeLines
  <2>6. offset' \in Nat /\ offset' \in {offset, 2 * WholeLines}
    <3>1. PICK m : m = 2 * WholeLines
      OBVIOUS
    <3>2. m \in Nat /\ offset \in Nat
      BY <1>1, <2>5, <3>1
    <3> QED
      BY <2>1, <3>1, <3>2, MaxOfTwo DEF OffsetFrom
  <2>7. offset' \in 0 .. 2 * Top
    BY <1>1, <2>5, <2>6
  <2>8. ASSUME ~blind' PROVE ~blind /\ seen.inode = inode
    BY <2>1, <2>8 DEF Appended
  <2>9. ~blind' => offset' <= 2 * Len(lines)
    <3>1. ~blind' => offset <= 2 * Len(lines)
      BY <2>2, <2>8 DEF IInv, OffsetInv
    <3> QED
      BY <1>1, <2>5, <2>6, <3>1
  <2>10. ASSUME ~blind', NEW l \in owed, Unsent(l) PROVE \E i \in 1 .. Len(e) : e[i] = l
    <3>1. PICK k \in 1 .. Len(lines) : l = lines[k] /\ l.ok
      BY DEF IInv, OwedInv
    <3>2. offset <= 2 * (k - 1)
      BY <2>2, <2>8, <2>10, <3>1 DEF IInv, OffsetInv
    <3>3. ~terminated => k # Len(lines)
      BY <3>1 DEF IInv, OwedInv
    <3>4. k <= WholeLines
      <4>1. terminated \in BOOLEAN
        BY DEF IInv, StateInv
      <4>2. k \in Nat /\ k <= Len(lines) /\ (~terminated => k < Len(lines))
        BY <1>1, <3>3
      <4> QED
        BY <1>1, <2>5, <4>1, <4>2
    <3> QED
      BY <2>4, <3>1, <3>2, <3>4
  <2>11. blind' \in BOOLEAN /\ (blind => blind')
    BY <1>1, <2>1
  <2> QED
    BY <1>1, <2>1, <2>3, <2>4, <2>7, <2>9, <2>10, <2>11, DeliverStep
<1>3. CASE ReadReplaced \/ ReadAgain
  <2>1. /\ Deliver(AllEvents) /\ offset' = fi.size /\ blind' = blind
        /\ used' = used \/ used' = [used EXCEPT !.faults = @ + 1]
    BY <1>3 DEF ReadReplaced, ReadAgain
  <2>2. PICK e : e = AllEvents
    OBVIOUS
  <2>3. /\ e \in Seq(Rows) /\ Increasing(e) /\ Within(e, Top)
        /\ \A k \in 1 .. Len(lines) : lines[k].ok => \E i \in 1 .. Len(e) : e[i] = lines[k]
    BY <2>2, EventsAre
  <2>4. \A l \in owed : \E i \in 1 .. Len(e) : e[i] = l
    BY <2>3 DEF IInv, OwedInv
  <2>5. /\ used' \in [turns : 0 .. MaxTurns, rewrites : 0 .. MaxRewrites, faults : Nat]
        /\ used'.turns = used.turns /\ used'.rewrites = used.rewrites
    BY <1>1, <2>1
  <2>6. fi.inode = inode => offset' <= 2 * Len(lines)
    BY <2>1 DEF IInv, OffsetInv
  <2>7. blind' \in BOOLEAN /\ (blind => blind') /\ offset' \in 0 .. 2 * Top
    BY <1>1, <2>1
  <2> QED
    BY <2>1, <2>2, <2>3, <2>4, <2>5, <2>6, <2>7, DeliverStep
<1>4. CASE ReadFails
  <2>1. /\ Deliver(<<>>) /\ offset' = offset /\ blind' = TRUE
        /\ used' = [used EXCEPT !.faults = @ + 1]
    BY <1>4 DEF ReadFails
  <2>2. /\ used' \in [turns : 0 .. MaxTurns, rewrites : 0 .. MaxRewrites, faults : Nat]
        /\ used'.turns = used.turns /\ used'.rewrites = used.rewrites
    BY <1>1, <2>1
  <2>3. PICK e : e = <<>>
    OBVIOUS
  <2>4. e \in Seq(Rows) /\ Increasing(e) /\ Within(e, Top) /\ Deliver(e)
    BY <2>1, <2>3, NoneIs
  <2>5. blind' \in BOOLEAN /\ blind' /\ offset' \in 0 .. 2 * Top
    BY <1>1, <2>1
  <2> QED
    BY <2>2, <2>4, <2>5, DeliverStep
<1> QED
  BY <1>2, <1>3, <1>4 DEF Read

(* A batch: the head of what is pending, which is above all that was sent. *)
LEMMA EmitStep == ASSUME IInv, Emit PROVE IInv'
<1>1. PICK n, first, rest :
        /\ n = Min({Len(pending), BatchSize})
        /\ first = SubSeq(pending, 1, n) /\ rest = SubSeq(pending, n + 1, Len(pending))
  OBVIOUS
<1>2. /\ spc = "loop" /\ pending # <<>>
      /\ sent' = sent \o first /\ pending' = rest
      /\ lastSeq' = Max({lastSeq} \cup {pending[i].seq : i \in 1 .. n})
      /\ UNCHANGED <<lines, terminated, inode, bump, writer, wake, spc, cursor, told, snap, seen,
                     fi, offset, used, owed, archived, blind>>
  BY <1>1 DEF Emit, fileVars, writerVars, ghosts
<1>3. WritersStay
  BY <1>2, TypesAre DEF WritersStay
<1>4. /\ pending \in Seq(Rows) /\ Len(pending) \in Nat /\ Len(pending) > 0
      /\ sent \in Seq(Rows) /\ Len(sent) \in Nat
      /\ Increasing(pending) /\ Increasing(sent)
      /\ Within(pending, Top) /\ Within(sent, Top) /\ Top \in Nat
      /\ lastSeq \in Nat
      /\ \A i \in 1 .. Len(pending) : lastSeq < pending[i].seq /\ pending[i].seq \in 1 .. Top
      /\ \A i \in 1 .. Len(sent) : sent[i].seq <= lastSeq /\ sent[i].seq \in 1 .. Top
  <2>1. pending \in Seq(Rows) /\ pending # <<>> /\ sent \in Seq(Rows)
    BY <1>2, BasicsAre
  <2> QED
    BY <1>2, <2>1, BasicsAre DEF IInv, SentInv, Within, Polling
<1>5. n \in 1 .. Len(pending)
  <2>1. PICK m : m = Len(pending)
    OBVIOUS
  <2>2. BatchSize \in Nat /\ BatchSize > 0 /\ m \in Nat /\ m > 0
    BY <1>4, <2>1, ConstantsAre
  <2>3. Min({m, BatchSize}) \in Nat /\ Min({m, BatchSize}) <= m /\ Min({m, BatchSize}) \in {m, BatchSize}
    BY <2>2, MinOfTwo
  <2> QED
    BY <1>1, <2>1, <2>2, <2>3
<1>6. /\ first \in Seq(Rows) /\ Len(first) = n /\ \A i \in 1 .. n : first[i] = pending[i]
  <2>1. PICK m : m = 1
    OBVIOUS
  <2>2. m \in 1 .. Len(pending) + 1 /\ n \in (m - 1) .. Len(pending) /\ first = SubSeq(pending, m, n)
    BY <1>1, <1>4, <1>5, <2>1
  <2>3. first \in Seq(Rows) /\ Len(first) = n - m + 1 /\ \A i \in 1 .. (n - m + 1) : first[i] = pending[m + i - 1]
    BY <1>4, <2>2, SubSeqProperties
  <2>4. n - m + 1 = n /\ \A i \in 1 .. n : m + i - 1 = i
    BY <1>4, <1>5, <2>1
  <2> QED
    BY <2>3, <2>4
<1>7. /\ rest \in Seq(Rows) /\ Len(rest) = Len(pending) - n
      /\ \A i \in 1 .. Len(rest) : rest[i] = pending[n + i] /\ n + i \in 1 .. Len(pending)
  <2>1. PICK m, k : m = n + 1 /\ k = Len(pending)
    OBVIOUS
  <2>2. /\ k \in Nat /\ n \in 1 .. k /\ m \in 1 .. k + 1 /\ k \in (m - 1) .. k
        /\ rest = SubSeq(pending, m, k)
    BY <1>1, <1>4, <1>5, <2>1
  <2>3. rest \in Seq(Rows) /\ Len(rest) = k - m + 1 /\ \A i \in 1 .. (k - m + 1) : rest[i] = pending[m + i - 1]
    BY <1>4, <2>1, <2>2, SubSeqProperties
  <2>4. k - m + 1 = k - n /\ \A i \in 1 .. (k - n) : m + i - 1 = n + i /\ n + i \in 1 .. k
    BY <2>1, <2>2
  <2> QED
    BY <2>1, <2>3, <2>4
<1>8. lastSeq' = pending[n].seq
  <2> DEFINE S == {lastSeq} \cup {pending[i].seq : i \in 1 .. n}
  <2>1. S \in SUBSET Nat /\ S # {} /\ \A x \in S : x <= Top
    <3>1. \A i \in 1 .. n : pending[i].seq \in 1 .. Top
      BY <1>4, <1>5
    <3>2. lastSeq \in S /\ \A x \in S : x = lastSeq \/ x \in 1 .. Top
      BY <3>1
    <3> HIDE DEF S
    <3>3. lastSeq <= Top
      BY BasicsAre
    <3> QED
      BY <1>4, <3>2, <3>3
  <2>2. \A x \in S : x <= pending[n].seq
    <3>1. ASSUME NEW i \in 1 .. n PROVE pending[i].seq <= pending[n].seq
      <4>1. i = n \/ i < n
        BY <1>5
      <4>2. i \in 1 .. Len(pending)
        BY <1>4, <1>5
      <4> QED
        BY <1>4, <1>5, <4>1, <4>2 DEF Increasing
    <3>2. lastSeq <= pending[n].seq
      BY <1>4, <1>5
    <3> QED
      BY <3>1, <3>2
  <2>3. pending[n].seq \in S /\ pending[n].seq \in Nat
    BY <1>4, <1>5
  <2>4. Max(S) \in S /\ \A x \in S : x <= Max(S)
    <3> HIDE DEF S
    <3> QED
      BY <1>4, <2>1, MaxIs
  <2>5. PICK m : m = Max(S)
    OBVIOUS
  <2>6. lastSeq' = m
    BY <1>2, <2>5
  <2> HIDE DEF S
  <2>7. m \in Nat /\ m <= pending[n].seq /\ pending[n].seq <= m
    BY <2>1, <2>2, <2>3, <2>4, <2>5
  <2> QED
    BY <2>3, <2>6, <2>7
<1>9. PICK s : s = sent \o first
  OBVIOUS
<1>10. /\ s \in Seq(Rows) /\ Len(s) = Len(sent) + n
       /\ \A i \in 1 .. Len(sent) : s[i] = sent[i] /\ i \in 1 .. Len(s)
       /\ \A i \in 1 .. n : s[Len(sent) + i] = pending[i] /\ Len(sent) + i \in 1 .. Len(s)
       /\ \A i \in 1 .. Len(s) : i \in 1 .. Len(sent) \/ (i - Len(sent) \in 1 .. n
                                  /\ s[i] = pending[i - Len(sent)] /\ i > Len(sent))
  <2>1. PICK k : k = Len(sent)
    OBVIOUS
  <2>2. /\ s \in Seq(Rows) /\ Len(s) = k + n
        /\ \A i \in 1 .. k + n : s[i] = IF i <= k THEN sent[i] ELSE first[i - k]
    BY <1>4, <1>6, <1>9, <2>1, ConcatProperties
  <2>3. k \in Nat /\ n \in Nat
    BY <1>4, <1>5, <2>1
  <2>4. \A i \in 1 .. k : s[i] = sent[i] /\ i \in 1 .. k + n
    BY <2>2, <2>3
  <2>5. \A i \in 1 .. n : s[k + i] = pending[i] /\ k + i \in 1 .. k + n
    <3>1. SUFFICES ASSUME NEW i \in 1 .. n PROVE s[k + i] = pending[i] /\ k + i \in 1 .. k + n
      OBVIOUS
    <3>2. PICK j : j = k + i
      OBVIOUS
    <3>3. j \in 1 .. k + n /\ ~ (j <= k) /\ j - k = i
      BY <2>3, <3>2
    <3> QED
      BY <1>6, <2>2, <3>2, <3>3
  <2>6. \A i \in 1 .. k + n : i \in 1 .. k \/ (i - k \in 1 .. n /\ s[i] = pending[i - k] /\ i > k)
    <3>1. \A i \in 1 .. k + n : i \in 1 .. k \/ (i - k \in 1 .. n /\ i > k /\ ~ (i <= k))
      BY <2>3
    <3> QED
      BY <1>6, <2>2, <3>1
  <2> QED
    BY <2>1, <2>2, <2>4, <2>5, <2>6
<1>11. /\ \A i \in 1 .. n : i \in 1 .. Len(pending) /\ pending[i].seq <= lastSeq'
       /\ lastSeq' \in 1 .. Top /\ lastSeq < lastSeq'
  <2>1. \A i \in 1 .. n : i \in 1 .. Len(pending) /\ (i = n \/ i < n)
    BY <1>4, <1>5
  <2> QED
    BY <1>4, <1>5, <1>8, <2>1 DEF Increasing
<1>12. Increasing(s) /\ Within(s, Top) /\ \A i \in 1 .. Len(s) : s[i].seq <= lastSeq'
  <2>1. ASSUME NEW i \in 1 .. Len(s), NEW j \in 1 .. Len(s), i < j PROVE s[i].seq < s[j].seq
    <3>1. CASE j \in 1 .. Len(sent)
      <4>1. i \in 1 .. Len(sent)
        BY <1>4, <2>1, <3>1
      <4> QED
        BY <1>4, <1>10, <2>1, <3>1, <4>1 DEF Increasing
    <3>2. CASE j \notin 1 .. Len(sent)
      <4>1. j - Len(sent) \in 1 .. n /\ s[j] = pending[j - Len(sent)]
        BY <1>10, <3>2
      <4>2. CASE i \in 1 .. Len(sent)
        <5>1. s[i] = sent[i] /\ sent[i].seq <= lastSeq /\ sent[i].seq \in Nat
          BY <1>4, <1>10, <4>2
        <5>2. lastSeq < s[j].seq /\ s[j].seq \in Nat
          BY <1>4, <1>11, <4>1
        <5> QED
          BY <1>4, <5>1, <5>2
      <4>3. CASE i \notin 1 .. Len(sent)
        <5>1. i - Len(sent) \in 1 .. n /\ s[i] = pending[i - Len(sent)]
          BY <1>10, <4>3
        <5>2. i - Len(sent) < j - Len(sent)
          BY <1>4, <1>10, <2>1
        <5> QED
          BY <1>4, <1>11, <4>1, <5>1, <5>2 DEF Increasing
      <4> QED
        BY <4>2, <4>3
    <3> QED
      BY <3>1, <3>2
  <2>2. ASSUME NEW i \in 1 .. Len(s) PROVE s[i].seq \in 1 .. Top /\ s[i].seq <= lastSeq'
    <3>1. CASE i \in 1 .. Len(sent)
      BY <1>4, <1>10, <1>11, <3>1
    <3>2. CASE i \notin 1 .. Len(sent)
      BY <1>4, <1>10, <1>11, <3>2
    <3> QED
      BY <3>1, <3>2
  <2> QED
    BY <2>1, <2>2 DEF Increasing, Within
<1>13. Increasing(rest) /\ Within(rest, Top) /\ \A i \in 1 .. Len(rest) : lastSeq' < rest[i].seq
  <2>1. \A i, j \in 1 .. Len(rest) : i < j => n + i < n + j
    BY <1>4, <1>5
  <2>2. \A i \in 1 .. Len(rest) : n < n + i
    BY <1>4, <1>5
  <2> QED
    BY <1>4, <1>5, <1>7, <1>8, <2>1, <2>2 DEF Increasing, Within
<1>14. LastSeqOf(pending) = IF rest = <<>> THEN lastSeq' ELSE LastSeqOf(rest)
  <2>1. LastSeqOf(pending) = pending[Len(pending)].seq
    BY <1>2, <1>4, LastIs
  <2>2. CASE rest = <<>>
    <3>1. n = Len(pending)
      <4>1. Len(rest) = 0
        BY <2>2
      <4> QED
        BY <1>4, <1>5, <1>7, <4>1
    <3> QED
      BY <1>8, <2>1, <2>2, <3>1
  <2>3. CASE rest # <<>>
    <3>1. Len(rest) \in 1 .. Len(rest) /\ LastSeqOf(rest) = rest[Len(rest)].seq
      BY <1>7, <2>3, LastIs
    <3>2. n + Len(rest) = Len(pending)
      BY <1>4, <1>5, <1>7
    <3> QED
      BY <1>7, <2>1, <2>3, <3>1, <3>2
  <2> QED
    BY <2>2, <2>3
<1>15. ListInv' /\ StateInv' /\ OrderInv'
  <2>1. sent' = s /\ snap' \in Seq(Rows) /\ Within(snap', Top) /\ archived' \in SUBSET Nat
    BY <1>2, <1>9, BasicsAre
  <2>2. lastSeq' \in 0 .. Top
    BY <1>4, <1>11
  <2> QED
    BY <1>2, <1>3, <1>7, <1>10, <1>12, <1>13, <2>1, <2>2, TypesAre, ReadersLeave
<1>16. PhaseInv'
  BY <1>2 DEF IInv, PhaseInv, Polling, Past
<1>17. SentInv'
  <2>1. snap' = snap /\ sent' = s /\ pending' = rest /\ ~Polling'
    BY <1>2, <1>9 DEF Polling
  <2> QED
    BY <1>12, <1>13, <2>1 DEF IInv, SentInv
<1>18. \A l \in owed : l.seq \in 1 .. Top
  BY BasicsAre DEF IInv, OwedInv, Within
<1>19. LastSeqOf(rest) \in Nat /\ LastSeqOf(pending) \in Nat /\ (rest = <<>> => LastSeqOf(rest) = 0)
  BY <1>4, <1>7, LastIs
<1>20. \A l \in owed : Unsent(l) => l.seq > lastSeq' \/ rest # <<>>
  BY <1>14 DEF Unsent
<1>21. \A l \in owed : Unsent(l)' => Unsent(l)
  BY <1>2, <1>4, <1>11, <1>14, <1>18, <1>19 DEF Unsent
<1>22. OwedInv'
  <2>1. ASSUME ~blind', NEW l \in owed', l.seq > lastSeq'
        PROVE  Unsent(l)' \/ \E i \in 1 .. Len(pending') : pending'[i] = l
    <3>1. l \in owed /\ l.seq > lastSeq /\ ~blind /\ l.seq \in Nat
      BY <1>2, <1>4, <1>11, <1>18, <2>1
    <3>2. CASE Unsent(l)
      BY <1>2, <1>14, <1>18, <1>19, <2>1, <3>1, <3>2 DEF Unsent
    <3>3. CASE \E i \in 1 .. Len(pending) : pending[i] = l
      <4>1. PICK i \in 1 .. Len(pending) : pending[i] = l
        BY <3>3
      <4>2. ~ (i \in 1 .. n)
        BY <1>11, <2>1, <3>1, <4>1
      <4>3. i - n \in 1 .. Len(rest) /\ n + (i - n) = i
        BY <1>4, <1>5, <1>7, <4>2
      <4>4. rest[i - n] = l
        BY <1>7, <4>1, <4>3
      <4> QED
        BY <1>2, <4>3, <4>4
    <3> QED
      BY <3>1, <3>2, <3>3 DEF IInv, OwedInv
  <2>2. /\ \A l \in owed' : \E i \in 1 .. Len(lines') : l = lines'[i] /\ l.ok
        /\ ~terminated' => lines'[Len(lines')] \notin owed'
    BY <1>2 DEF IInv, OwedInv
  <2> QED
    BY <1>2, <2>1, <2>2 DEF OwedInv
<1>23. OffsetInv'
  BY <1>2, <1>21 DEF IInv, OffsetInv
<1>24. WakeInv'
  BY <1>2, <1>21 DEF IInv, WakeInv
<1>25. NoGap'
  <2>1. SUFFICES ASSUME ~blind, NEW l \in owed, l.seq <= lastSeq' PROVE l \in Range(s)
    BY <1>2, <1>9 DEF NoGap
  <2>2. l.seq \in Nat /\ l.seq \in 1 .. Top
    BY <1>4, <1>18
  <2>3. CASE l.seq <= lastSeq
    <3>1. l \in Range(sent)
      BY <2>1, <2>3 DEF IInv, NoGap
    <3>2. PICK i \in 1 .. Len(sent) : sent[i] = l
      BY <1>4, <3>1, RangeIs
    <3> QED
      BY <1>10, <3>2, RangeIs
  <2>4. CASE l.seq > lastSeq
    <3>1. ~Unsent(l)
      <4>1. lastSeq' <= LastSeqOf(pending)
        <5>1. pending[n].seq <= LastSeqOf(pending)
          BY <1>4, <1>5, LastIs
        <5> QED
          BY <1>8, <5>1
      <4> QED
        BY <1>11, <1>19, <2>1, <2>2, <4>1 DEF Unsent
    <3>2. PICK i \in 1 .. Len(pending) : pending[i] = l
      BY <2>1, <2>4, <3>1 DEF IInv, OwedInv
    <3>3. i \in 1 .. n
      <4>1. SUFFICES ASSUME i \notin 1 .. n PROVE FALSE
        OBVIOUS
      <4>2. n < i
        BY <1>4, <1>5, <4>1
      <4>3. pending[n].seq < pending[i].seq
        BY <1>4, <1>5, <4>2 DEF Increasing
      <4> QED
        BY <1>8, <1>11, <2>1, <2>2, <3>2, <4>3
    <3>4. s[Len(sent) + i] = l /\ Len(sent) + i \in 1 .. Len(s)
      BY <1>10, <3>2, <3>3
    <3> QED
      BY <1>10, <3>4, RangeIs
  <2> QED
    BY <1>4, <2>2, <2>3, <2>4
<1>26. ToldOfRewind' /\ ArchiveInv' /\ PollInv'
  BY <1>2 DEF IInv, ToldOfRewind, ArchiveInv, PollInv, Polling
<1> QED
  BY <1>15, <1>16, <1>17, <1>22, <1>23, <1>24, <1>25, <1>26 DEF IInv

-----------------------------------------------------------------------------
(* Asking again and again. *)

LEMMA PollReadsStep == ASSUME IInv, ReadSessionEvents PROVE IInv'
<1>1. PICK e : e = AllEvents
  OBVIOUS
<1>2. /\ spc = "off" /\ spc' = "polled" /\ snap' = e
      /\ cursor' \in IF cursor = NoCursor THEN {c \in Cursors : c.mode = "poll"}
                                          ELSE {cursor} \cap [mode : {"poll"}, n : Nat]
      /\ UNCHANGED <<lines, terminated, inode, bump, writer, wake, told, seen, fi, offset,
                     pending, lastSeq, sent, used, owed, archived, blind>>
  BY <1>1 DEF ReadSessionEvents, fileVars, writerVars, pollVars, ghosts
<1>3. cursor'.mode = "poll" /\ cursor'.n = cursor.n
  <2>1. CASE cursor = NoCursor
    <3>1. cursor' \in Cursors /\ cursor'.mode = "poll"
      BY <1>2, <2>1
    <3>2. cursor'.n = 0
      BY <3>1, ConstantsAre
    <3> QED
      BY <2>1, <3>1, <3>2 DEF NoCursor
  <2>2. CASE cursor # NoCursor
    BY <1>2, <2>2
  <2> QED
    BY <2>1, <2>2
<1>4. WritersStay
  BY <1>2, TypesAre DEF WritersStay
<1>5. /\ e \in Seq(Rows) /\ Increasing(e) /\ Within(e, Top)
      /\ \A i \in 1 .. Len(e) : e[i].ok /\ \E k \in 1 .. Len(lines) : e[i] = lines[k]
      /\ \A k \in 1 .. Len(lines) : lines[k].ok => \E i \in 1 .. Len(e) : e[i] = lines[k]
  BY <1>1, EventsAre
<1>6. ListInv' /\ StateInv' /\ OrderInv'
  BY <1>2, <1>4, <1>5, TypesAre, BasicsAre, ReadersLeave
<1>7. pending = <<>> /\ lastSeq = 0 /\ owed = {} /\ cursor.n \in Nat
  BY <1>2 DEF IInv, PhaseInv, Past
<1>8. PhaseInv'
  BY <1>2, <1>3, <1>7 DEF PhaseInv, Polling, Past
<1>9. SentInv'
  BY <1>2, <1>3, <1>5 DEF IInv, SentInv, Polling
<1>10. OwedInv' /\ WakeInv' /\ NoGap' /\ ToldOfRewind'
  BY <1>2, <1>7 DEF OwedInv, WakeInv, NoGap, ToldOfRewind
<1>11. OffsetInv'
  BY <1>2 DEF IInv, OffsetInv
<1>12. ArchiveInv'
  BY <1>2 DEF IInv, ArchiveInv, Polling
<1>13. PollInv'
  <2>1. SUFFICES ASSUME 0 \notin archived PROVE PollInv'
    BY <1>2 DEF PollInv
  <2>2. /\ \A s \in archived : s <= cursor.n => Has(sent, s)
        /\ \A i \in 1 .. Len(lines) :
             lines[i].ok /\ lines[i].seq <= cursor.n => Has(sent, lines[i].seq)
        /\ cursor.n > 0 => \E i \in 1 .. Len(lines) : lines[i].ok /\ cursor.n <= lines[i].seq
    BY <1>2, <2>1 DEF IInv, PollInv, Polling
  <2>3. e # <<>> => \E i \in 1 .. Len(lines) : lines[i].ok /\ LastSeqOf(e) <= lines[i].seq
    <3>1. SUFFICES ASSUME e # <<>>
                   PROVE  \E i \in 1 .. Len(lines) : lines[i].ok /\ LastSeqOf(e) <= lines[i].seq
      OBVIOUS
    <3>2. Len(e) \in 1 .. Len(e) /\ LastSeqOf(e) = e[Len(e)].seq /\ LastSeqOf(e) \in Nat
      BY <1>5, <3>1, LastIs
    <3>3. PICK k \in 1 .. Len(lines) : e[Len(e)] = lines[k]
      BY <1>5, <3>2
    <3>4. lines[k].ok /\ LastSeqOf(e) = lines[k].seq
      BY <1>5, <3>2, <3>3
    <3> QED
      BY <3>2, <3>4
  <2>4. \A s \in archived : s < FirstSeq(e)
    BY <1>1, <1>2, <2>1, ArchivedIsBefore DEF Polling
  <2>5. \A i \in 1 .. Len(lines) : lines[i].ok => Has(e, lines[i].seq)
    BY <1>5 DEF Has
  <2> QED
    BY <1>2, <1>3, <2>2, <2>3, <2>4, <2>5 DEF PollInv, Has
<1> QED
  BY <1>6, <1>8, <1>9, <1>10, <1>11, <1>12, <1>13 DEF IInv

(* What is given is above the cursor, or the consumer starts over. *)
LEMMA AnswerStep ==
  ASSUME IInv, NEW by \in {"since", "from"}, AnswerEvents(by)
  PROVE  IInv'
<1>1. PICK rewound \in BOOLEAN : rewound = (Behind(by) \/ RolledBack)
  OBVIOUS
<1>2. PICK given : given = IF rewound THEN snap ELSE Above(snap, cursor.n)
  OBVIOUS
<1>3. /\ spc = "polled" /\ spc' = "off" /\ told' = rewound /\ snap' = <<>>
      /\ sent' = IF rewound THEN given ELSE sent \o given
      /\ cursor' = [cursor EXCEPT !.n = IF rewound \/ given # <<>> THEN LastSeqOf(given) ELSE @]
      /\ archived' = IF rewound THEN archived \cap {0} ELSE archived
      /\ UNCHANGED <<lines, terminated, inode, bump, writer, wake, seen, fi, offset, pending,
                     lastSeq, used, owed, blind>>
  BY <1>1, <1>2 DEF AnswerEvents, fileVars, writerVars, pollVars
<1>4. WritersStay
  BY <1>3, TypesAre DEF WritersStay
<1>5. /\ snap \in Seq(Rows) /\ Increasing(snap) /\ Within(snap, Top) /\ cursor.n \in Nat
      /\ sent \in Seq(Rows) /\ Increasing(sent) /\ Within(sent, Top)
      /\ \A i \in 1 .. Len(sent) : sent[i].seq <= cursor.n
      /\ pending = <<>> /\ lastSeq = 0 /\ owed = {} /\ cursor.mode = "poll"
  BY <1>3, BasicsAre DEF IInv, SentInv, PhaseInv, Polling, Past
<1>6. /\ Above(snap, cursor.n) \in Seq(Rows) /\ Increasing(Above(snap, cursor.n))
      /\ Within(Above(snap, cursor.n), Top)
      /\ \A i \in 1 .. Len(Above(snap, cursor.n)) :
           /\ Above(snap, cursor.n)[i].seq > cursor.n
           /\ \E k \in 1 .. Len(snap) : Above(snap, cursor.n)[i] = snap[k]
      /\ \A k \in 1 .. Len(snap) : snap[k].seq > cursor.n =>
           \E i \in 1 .. Len(Above(snap, cursor.n)) : Above(snap, cursor.n)[i] = snap[k]
  BY <1>5, AboveIs
<1>7. /\ given \in Seq(Rows) /\ Increasing(given) /\ Within(given, Top)
      /\ \A i \in 1 .. Len(given) : \E k \in 1 .. Len(snap) : given[i] = snap[k]
      /\ ~rewound => /\ \A i \in 1 .. Len(given) : given[i].seq > cursor.n
                     /\ \A k \in 1 .. Len(snap) : snap[k].seq > cursor.n =>
                          \E i \in 1 .. Len(given) : given[i] = snap[k]
  <2>1. CASE rewound
    BY <1>2, <1>5, <2>1
  <2>2. CASE ~rewound
    <3>1. given = Above(snap, cursor.n)
      BY <1>2, <2>2
    <3> QED
      BY <1>6, <2>2, <3>1
  <2> QED
    BY <2>1, <2>2
<1>8. PICK n : n = cursor'.n
  OBVIOUS
<1>9. /\ cursor'.mode = "poll" /\ n \in Nat
      /\ n = IF rewound \/ given # <<>> THEN LastSeqOf(given) ELSE cursor.n
  <2>1. LastSeqOf(given) \in Nat
    BY <1>7, LastIs
  <2>2. IInv => cursor = NoCursor \/ cursor.mode = "poll"
    BY <1>5
  <2> QED
    BY <1>3, <1>5, <1>8, <2>1
<1>10. ~rewound => cursor.n <= n
  <2>1. SUFFICES ASSUME ~rewound, given # <<>> PROVE cursor.n <= LastSeqOf(given)
    BY <1>5, <1>9
  <2>2. Len(given) \in 1 .. Len(given) /\ LastSeqOf(given) = given[Len(given)].seq
        /\ LastSeqOf(given) \in Nat
    BY <1>7, <2>1, LastIs
  <2>3. LastSeqOf(given) > cursor.n
    BY <1>7, <2>1, <2>2
  <2> QED
    BY <1>5, <2>2, <2>3
<1>11. PICK s : s = sent'
  OBVIOUS
<1>12. /\ s \in Seq(Rows) /\ Increasing(s) /\ Within(s, Top) /\ \A i \in 1 .. Len(s) : s[i].seq <= n
       /\ \A i \in 1 .. Len(given) : Has(s, given[i].seq)
       /\ ~rewound => \A i \in 1 .. Len(sent) : Has(s, sent[i].seq)
  <2>1. CASE rewound
    <3>1. s = given /\ n = LastSeqOf(given)
      BY <1>3, <1>9, <1>11, <2>1
    <3> QED
      BY <1>7, <2>1, <3>1, LastIs DEF Has
  <2>2. CASE ~rewound
    <3>1. PICK k, m : k = Len(sent) /\ m = Len(given)
      OBVIOUS
    <3>2. k \in Nat /\ m \in Nat
      BY <1>5, <1>7, <3>1
    <3>3. /\ s \in Seq(Rows) /\ Len(s) = k + m
          /\ \A i \in 1 .. k + m : s[i] = IF i <= k THEN sent[i] ELSE given[i - k]
      BY <1>3, <1>5, <1>7, <1>11, <2>2, <3>1, ConcatProperties
    <3>4. \A i \in 1 .. k : s[i] = sent[i] /\ i \in 1 .. k + m
      BY <3>2, <3>3
    <3>5. ASSUME NEW i \in 1 .. m PROVE k + i \in 1 .. k + m /\ s[k + i] = given[i]
      <4>1. PICK j : j = k + i
        OBVIOUS
      <4>2. j \in 1 .. k + m /\ ~ (j <= k) /\ j - k = i
        BY <3>2, <4>1
      <4> QED
        BY <3>3, <4>1, <4>2
    <3>6. ASSUME NEW i \in 1 .. k + m
          PROVE  \/ i \in 1 .. k /\ s[i] = sent[i]
                 \/ i > k /\ i - k \in 1 .. m /\ s[i] = given[i - k]
      <4>1. CASE i <= k
        BY <3>2, <3>3, <4>1
      <4>2. CASE ~ (i <= k)
        BY <3>2, <3>3, <4>2
      <4> QED
        BY <4>1, <4>2
    <3>7. \A i \in 1 .. m : given[i].seq > cursor.n /\ given[i].seq \in 1 .. Top /\ given[i].seq <= n
      <4>1. given # <<>> => n = LastSeqOf(given)
        BY <1>9
      <4>2. ASSUME NEW i \in 1 .. m PROVE given # <<>>
        BY <3>1, <3>2
      <4> QED
        BY <1>7, <2>2, <3>1, <4>1, <4>2, LastIs DEF Within
    <3>8. \A i \in 1 .. k : sent[i].seq <= cursor.n /\ sent[i].seq \in 1 .. Top
      BY <1>5, <3>1 DEF Within
    <3>9. Top \in Nat
      BY BasicsAre
    <3>10. ASSUME NEW i \in 1 .. k + m PROVE s[i].seq \in 1 .. Top /\ s[i].seq <= n
      <4>1. CASE i \in 1 .. k /\ s[i] = sent[i]
        BY <1>5, <1>9, <1>10, <2>2, <3>8, <3>9, <4>1
      <4>2. CASE i > k /\ i - k \in 1 .. m /\ s[i] = given[i - k]
        BY <3>7, <4>2
      <4> QED
        BY <3>6, <4>1, <4>2
    <3>11. ASSUME NEW i \in 1 .. k + m, NEW j \in 1 .. k + m, i < j PROVE s[i].seq < s[j].seq
      <4>1. CASE i \in 1 .. k /\ j \in 1 .. k
        BY <1>5, <3>1, <3>4, <3>11, <4>1 DEF Increasing
      <4>2. CASE i \in 1 .. k /\ j \notin 1 .. k
        <5>1. s[i] = sent[i] /\ j - k \in 1 .. m /\ s[j] = given[j - k]
          BY <3>4, <3>6, <4>2
        <5>2. sent[i].seq \in Nat /\ sent[i].seq <= cursor.n
          BY <3>8, <3>9, <4>2
        <5>3. given[j - k].seq \in Nat /\ given[j - k].seq > cursor.n
          BY <3>7, <3>9, <5>1
        <5> QED
          BY <1>5, <5>1, <5>2, <5>3
      <4>3. CASE i \notin 1 .. k
        <5>1. i - k \in 1 .. m /\ s[i] = given[i - k] /\ i > k
          BY <3>6, <4>3
        <5>2. j \notin 1 .. k
          BY <3>2, <3>11, <5>1
        <5>3. j - k \in 1 .. m /\ s[j] = given[j - k] /\ i - k < j - k
          BY <3>2, <3>6, <3>11, <5>2
        <5> QED
          BY <1>7, <3>1, <5>1, <5>3 DEF Increasing
      <4> QED
        BY <4>1, <4>2, <4>3
    <3>12. Increasing(s) /\ Within(s, Top) /\ \A i \in 1 .. Len(s) : s[i].seq <= n
      BY <3>3, <3>10, <3>11 DEF Increasing, Within
    <3>13. /\ \A i \in 1 .. Len(given) : Has(s, given[i].seq)
           /\ \A i \in 1 .. Len(sent) : Has(s, sent[i].seq)
      BY <3>1, <3>3, <3>4, <3>5 DEF Has
    <3> QED
      BY <3>3, <3>12, <3>13
  <2> QED
    BY <2>1, <2>2
<1>13. archived' \in SUBSET Nat /\ (rewound /\ 0 \notin archived' => archived' = {} /\ 0 \notin archived)
  BY <1>3, TypesAre
<1>14. ListInv' /\ StateInv' /\ OrderInv'
  BY <1>3, <1>4, <1>5, <1>11, <1>12, <1>13, TypesAre, BasicsAre, NoneIs, ReadersLeave
<1>15. PhaseInv'
  BY <1>3, <1>5, <1>8, <1>9 DEF PhaseInv, Polling, Past
<1>16. SentInv'
  BY <1>3, <1>5, <1>8, <1>11, <1>12, NoneIs DEF SentInv, Polling
<1>17. OwedInv' /\ WakeInv' /\ NoGap' /\ ToldOfRewind'
  BY <1>3, <1>5 DEF OwedInv, WakeInv, NoGap, ToldOfRewind
<1>18. OffsetInv'
  BY <1>3 DEF IInv, OffsetInv
<1>19. ArchiveInv'
  <2>1. SUFFICES ASSUME 0 \notin archived'
                 PROVE  /\ archived' # {} => \E i \in 1 .. Len(lines) : lines[i].ok
                        /\ \A x \in archived', i \in 1 .. Len(lines) : lines[i].ok => x < lines[i].seq
    BY <1>3 DEF ArchiveInv
  <2>2. CASE rewound
    BY <1>13, <2>1, <2>2
  <2>3. CASE ~rewound
    BY <1>3, <2>1, <2>3 DEF IInv, ArchiveInv, Polling
  <2> QED
    BY <2>2, <2>3
<1>20. PollInv'
  <2>1. SUFFICES ASSUME 0 \notin archived'
                 PROVE  /\ \A x \in archived' : x <= n => Has(s, x)
                        /\ \A i \in 1 .. Len(lines) :
                             lines[i].ok /\ lines[i].seq <= n => Has(s, lines[i].seq)
                        /\ n > 0 => \E i \in 1 .. Len(lines) : lines[i].ok /\ n <= lines[i].seq
    <3>1. lines' = lines /\ spc' = "off" /\ sent' = s /\ cursor'.n = n
      BY <1>3, <1>8, <1>11
    <3> QED
      BY <3>1 DEF PollInv, Has
  <2>2. 0 \notin archived
    BY <1>3, <1>13, <2>1
  <2>3. /\ \A x \in archived : x <= cursor.n => Has(sent, x)
        /\ \A i \in 1 .. Len(lines) :
             lines[i].ok /\ lines[i].seq <= cursor.n => Has(sent, lines[i].seq)
        /\ cursor.n > 0 => \E i \in 1 .. Len(lines) : lines[i].ok /\ cursor.n <= lines[i].seq
        /\ snap # <<>> => \E i \in 1 .. Len(lines) : lines[i].ok /\ LastSeqOf(snap) <= lines[i].seq
        /\ \A x \in archived : x < FirstSeq(snap) \/ Has(snap, x) \/ x > LastSeqOf(snap)
        /\ \A i \in 1 .. Len(lines) :
             lines[i].ok => Has(snap, lines[i].seq) \/ lines[i].seq > LastSeqOf(snap)
    BY <1>3, <2>2 DEF IInv, PollInv, Polling
  <2>4. LastSeqOf(snap) \in Nat /\ FirstSeq(snap) \in Nat /\ LastSeqOf(given) \in Nat
        /\ (given = <<>> => LastSeqOf(given) = 0)
    BY <1>5, <1>7, LastIs
  <2>5. given # <<>> => snap # <<>> /\ LastSeqOf(given) <= LastSeqOf(snap)
    <3>1. SUFFICES ASSUME given # <<>> PROVE snap # <<>> /\ LastSeqOf(given) <= LastSeqOf(snap)
      OBVIOUS
    <3>2. Len(given) \in 1 .. Len(given) /\ LastSeqOf(given) = given[Len(given)].seq
      BY <1>7, <3>1, LastIs
    <3>3. PICK k \in 1 .. Len(snap) : given[Len(given)] = snap[k]
      BY <1>7, <3>2
    <3>4. snap[k].seq <= LastSeqOf(snap)
      BY <1>5, LastIs
    <3> QED
      BY <3>2, <3>3, <3>4
  <2>6. \A i \in 1 .. Len(lines) : lines[i].seq \in Nat
    BY BasicsAre DEF Within
  <2>7. n > 0 => \E i \in 1 .. Len(lines) : lines[i].ok /\ n <= lines[i].seq
    <3>1. CASE given # <<>>
      <4>1. PICK i \in 1 .. Len(lines) : lines[i].ok /\ LastSeqOf(snap) <= lines[i].seq
        BY <2>3, <2>5, <3>1
      <4>2. n <= lines[i].seq
        BY <1>9, <2>4, <2>5, <2>6, <3>1, <4>1
      <4> QED
        BY <4>1, <4>2
    <3>2. CASE given = <<>>
      BY <1>9, <2>3, <2>4, <3>2
    <3> QED
      BY <3>1, <3>2
  <2>8. CASE rewound
    <3>1. n <= LastSeqOf(snap) /\ given = snap /\ archived' = {}
      BY <1>2, <1>9, <1>13, <2>1, <2>4, <2>8
    <3>2. \A x : Has(snap, x) => Has(s, x)
      BY <1>12, <3>1 DEF Has
    <3>3. \A i \in 1 .. Len(lines) : lines[i].ok /\ lines[i].seq <= n => Has(s, lines[i].seq)
      BY <1>9, <2>3, <2>4, <2>6, <3>1, <3>2
    <3> QED
      BY <2>7, <3>1, <3>3
  <2>9. CASE ~rewound
    <3>1. \A x : Has(sent, x) => Has(s, x)
      BY <1>12, <2>9 DEF Has
    <3>2. \A x \in Nat : x > cursor.n /\ Has(snap, x) => Has(s, x)
      <4>1. SUFFICES ASSUME NEW k \in 1 .. Len(snap), snap[k].seq > cursor.n
                     PROVE  Has(s, snap[k].seq)
        BY DEF Has
      <4>2. PICK i \in 1 .. Len(given) : given[i] = snap[k]
        BY <1>7, <2>9, <4>1
      <4>3. Has(s, given[i].seq)
        BY <1>12
      <4> QED
        BY <4>2, <4>3
    <3>3. ASSUME NEW x \in Nat, x > cursor.n, x <= n PROVE x <= LastSeqOf(snap)
      <4>1. given # <<>> /\ n = LastSeqOf(given)
        BY <1>5, <1>9, <2>9, <3>3
      <4> QED
        BY <2>4, <2>5, <3>3, <4>1
    <3>4. ASSUME NEW i \in 1 .. Len(lines), lines[i].ok, lines[i].seq <= n
          PROVE  Has(s, lines[i].seq)
      <4>1. CASE lines[i].seq <= cursor.n
        BY <2>3, <3>1, <3>4, <4>1
      <4>2. CASE lines[i].seq > cursor.n
        BY <2>3, <2>4, <2>6, <3>2, <3>3, <3>4, <4>2
      <4> QED
        BY <1>5, <2>6, <4>1, <4>2
    <3>5. ~ (cursor.n + 1 < FirstSeq(snap)) \/ ~ (cursor.n < FirstSeq(snap))
      BY <1>1, <2>9 DEF Behind
    <3>6. ASSUME NEW x \in archived, x <= n PROVE Has(s, x)
      <4>1. x \in Nat
        BY TypesAre
      <4>2. CASE x <= cursor.n
        BY <2>3, <3>1, <4>2
      <4>3. CASE x > cursor.n
        <5>1. ~ (x < FirstSeq(snap))
          BY <1>5, <2>4, <3>5, <4>1, <4>3
        <5>2. ~ (x > LastSeqOf(snap))
          BY <2>4, <3>3, <3>6, <4>1, <4>3
        <5> QED
          BY <2>3, <3>2, <4>1, <4>3, <5>1, <5>2
      <4> QED
        BY <1>5, <4>1, <4>2, <4>3
    <3> QED
      BY <1>3, <2>7, <2>9, <3>4, <3>6
  <2> QED
    BY <2>8, <2>9
<1> QED
  BY <1>14, <1>15, <1>16, <1>17, <1>18, <1>19, <1>20 DEF IInv

-----------------------------------------------------------------------------
(* The theorem. *)

LEMMA StutterStep == ASSUME IInv, UNCHANGED vars PROVE IInv'
<1>1. UNCHANGED <<lines, terminated, inode, bump, writer, wake, spc, cursor, told, snap, seen, fi,
                  offset, pending, lastSeq, sent, used, owed, archived, blind>>
  BY DEF vars
<1>2. WritersStay
  BY <1>1, TypesAre DEF WritersStay
<1>3. ListInv' /\ StateInv' /\ OrderInv'
  BY <1>1, <1>2, TypesAre, BasicsAre, ReadersLeave
<1>4. PhaseInv' /\ SentInv' /\ OwedInv'
  BY <1>1 DEF IInv, PhaseInv, SentInv, OwedInv, Unsent, Polling, Past
<1>5. OffsetInv' /\ WakeInv'
  BY <1>1 DEF IInv, OffsetInv, WakeInv, Unsent
<1>6. ArchiveInv' /\ PollInv'
  BY <1>1 DEF IInv, ArchiveInv, PollInv, Polling
<1>7. NoGap' /\ ToldOfRewind'
  BY <1>1 DEF IInv, NoGap, ToldOfRewind
<1> QED
  BY <1>3, <1>4, <1>5, <1>6, <1>7 DEF IInv

LEMMA StepIInv == ASSUME IInv, [Next]_vars PROVE IInv'
<1>1. CASE Writing
  <2>1. ASSUME NEW by \in {"local", "remote"}, Allocate(by) PROVE IInv'
    BY <2>1, AllocateStep
  <2>2. ASSUME NEW by \in {"local", "remote"}, Strip(by) PROVE IInv'
    BY <2>2, StripStep
  <2> QED
    BY <1>1, <2>1, <2>2, RestStep, WriteTurnStep, CutShortStep, CompactStep DEF Writing
<1>2. CASE Watching
  <2>1. ASSUME NEW c \in Cursors, SubscribeSession(c) PROVE IInv'
    BY <2>1, SubscribeStep
  <2>2. ASSUME NEW by \in {"since", "from"}, AnswerEvents(by) PROVE IInv'
    BY <2>2, AnswerStep
  <2> QED
    BY <1>2, <2>1, <2>2, StatFirstStep, ReadSnapshotStep, ReplayStep, PollStep, ReadStep,
       EmitStep, PollReadsStep DEF Watching
<1> QED
  BY <1>1, <1>2, StutterStep DEF Next

(* What a subscriber is sent is the session: in order, without a gap, with no
   wakeup lost, and never resumed over a compaction in silence. *)
LEMMA IInvIsFaithful == IInv => StreamFaithful
<1> SUFFICES ASSUME IInv PROVE StreamFaithful
  OBVIOUS
<1>1. /\ lines \in Seq(Rows) /\ sent \in Seq(Rows) /\ Top \in Nat /\ Top <= MaxTurns + History
      /\ inode \in 0 .. MaxRewrites + 1 /\ MaxTurns \in Nat /\ History \in Nat
  <2>1. /\ used.turns \in 0 .. MaxTurns /\ used.rewrites \in 0 .. MaxRewrites
        /\ inode \in 0 .. used.rewrites + 1
    BY DEF IInv, StateInv
  <2>2. MaxRewrites \in Nat /\ MaxTurns \in Nat /\ History \in Nat
    BY ConstantsAre
  <2>3. Top <= MaxTurns + History
    BY <2>1, <2>2 DEF Top
  <2>4. inode \in 0 .. MaxRewrites + 1
    BY <2>1, <2>2
  <2> QED
    BY <2>2, <2>3, <2>4, BasicsAre
<1>2. TypeOK
  <2>1. \A i \in DOMAIN lines : {lines[i].id, lines[i].seq} \subseteq Ids
    <3>1. ASSUME NEW i \in 1 .. Len(lines) PROVE lines[i].id \in Ids /\ lines[i].seq \in Ids
      <4>1. lines[i] \in Rows /\ lines[i].seq \in 1 .. Top /\ lines[i].id <= MaxTurns + History
        BY <1>1, BasicsAre DEF IInv, ListInv, Within
      <4> QED
        BY <1>1, <4>1 DEF Ids, Rows
    <3> QED
      BY <1>1, <3>1
  <2>2. bump \in Ids /\ lastSeq \in Ids
    BY <1>1, BasicsAre DEF Ids
  <2>3. offset \in 0 .. 2 * (MaxTurns + History)
    <3>1. offset \in 0 .. 2 * Top
      BY TypesAre
    <3> QED
      BY <1>1, <3>1
  <2>4. seen \in Stats /\ fi \in Stats
    <3>1. ASSUME NEW x \in {seen, fi} PROVE x \in Stats
      <4>1. x \in [inode : 0 .. inode, size : 0 .. 2 * Top]
        BY TypesAre
      <4>2. x.inode \in 0 .. MaxRewrites + 1 /\ x.size \in 0 .. 2 * (MaxTurns + History)
        BY <1>1, <4>1, ConstantsAre
      <4>3. x = [inode |-> x.inode, size |-> x.size]
        BY <4>1
      <4> QED
        BY <4>2, <4>3 DEF Stats
    <3> QED
      BY <3>1
  <2> QED
    BY <1>1, <2>1, <2>2, <2>3, <2>4 DEF IInv, StateInv, PhaseInv, TypeOK
<1>3. InOrder
  BY <1>1 DEF IInv, SentInv, Increasing, InOrder
<1>4. NoLostWakeup
  <2>1. SUFFICES ASSUME spc = "loop", pending = <<>>, writer.stage # "notify", ~blind,
                        NEW l \in owed, l.by = "local", l.seq > lastSeq
                 PROVE  wake > 0
    BY DEF NoLostWakeup
  <2>2. Unsent(l)
    <3>1. ~ \E i \in 1 .. Len(pending) : pending[i] = l
      BY <2>1
    <3> QED
      BY <2>1, <3>1 DEF IInv, OwedInv
  <2> QED
    BY <2>1, <2>2 DEF IInv, WakeInv
<1>5. PollMissesNothing
  <2>1. SUFFICES ASSUME spc = "off", 0 \notin archived,
                        NEW s \in archived \cup {AllEvents[i].seq : i \in DOMAIN AllEvents},
                        s <= cursor.n
                 PROVE  \E i \in DOMAIN sent : sent[i].seq = s
    BY DEF PollMissesNothing
  <2>2. Has(sent, s)
    <3>1. CASE s \in archived
      BY <2>1, <3>1 DEF IInv, PollInv, Polling
    <3>2. CASE s \in {AllEvents[i].seq : i \in DOMAIN AllEvents}
      <4>1. AllEvents \in Seq(Rows)
        BY EventsAre
      <4>2. PICK i \in 1 .. Len(AllEvents) : s = AllEvents[i].seq
        BY <3>2, <4>1
      <4>3. PICK k \in 1 .. Len(lines) : AllEvents[i] = lines[k] /\ lines[k].ok
        BY EventsAre
      <4> QED
        BY <2>1, <4>2, <4>3 DEF IInv, PollInv, Polling
    <3> QED
      BY <2>1, <3>1, <3>2
  <2> QED
    BY <1>1, <2>2 DEF Has
<1> QED
  BY <1>2, <1>3, <1>4, <1>5 DEF IInv, StreamFaithful

(* The invariant: the stat that a subscriber keeps is of a file it knows all of,
   and what it is owed lies behind it; a poll keeps what was there to be read. *)
THEOREM WatchInvariant == Spec => []IInv
<1>1. IInv /\ [Next]_vars => IInv'
  BY StepIInv
<1> QED
  BY InitIInv, <1>1, PTL DEF Spec

(* What a subscriber or a poller is given is the session (events.go:425-491,
   326-357), whatever is appended, cut short, compacted or stripped meanwhile,
   by its own process or another, and whatever reads fail. *)
THEOREM StreamIsFaithful == Spec => []StreamFaithful
  BY WatchInvariant, IInvIsFaithful, PTL
=============================================================================
