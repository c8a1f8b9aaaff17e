--------------------------- MODULE FileSinkProofs ---------------------------
(***************************************************************************)
(* Proofs about FileSink: what it writes is well formed, in order and      *)
(* there to stay, for every batch size and block size, any number of       *)
(* events and any number of failures, crashes and losses of power.         *)
(***************************************************************************)
EXTENDS FileSink, SequenceTheorems, NaturalsInduction, WellFoundedInduction, TLAPS

-----------------------------------------------------------------------------
(* find_last_complete_line_end *)

\* A set of naturals has a least element.
LEMMA LeastOf ==
    ASSUME NEW S \in SUBSET Nat, S # {}
    PROVE  \E m \in S : \A s \in S : m <= s
<1>1. \E x \in S : \A y \in S : ~(<<y, x>> \in OpToRel(<, Nat))
  BY NatLessThanWellFounded, WFMin, ZenonT(30)
<1>2. PICK x \in S : \A y \in S : ~(y < x)
  BY <1>1, ZenonT(30) DEF OpToRel
<1> QED
  BY <1>2

\* A bounded set of naturals has a greatest element.
LEMMA GreatestOf ==
    ASSUME NEW S \in SUBSET Nat, S # {}, NEW b \in Nat, \A s \in S : s <= b
    PROVE  Max(S) \in S /\ \A s \in S : Max(S) >= s
<1> DEFINE T == {n \in Nat : \A s \in S : s <= n}
<1>1. T \in SUBSET Nat /\ T # {}
  OBVIOUS
<1>2. PICK x \in T : \A y \in T : x <= y
  BY <1>1, LeastOf, ZenonT(30)
<1>3. x \in S
  <2> SUFFICES ASSUME x \notin S PROVE FALSE
    OBVIOUS
  <2>1. x # 0
    <3>1. PICK s \in S : s <= x
      BY <1>2, ZenonT(30)
    <3> QED
      BY <3>1
  <2>2. x - 1 \in T
    BY <1>2, <2>1
  <2> QED
    BY <1>2, <2>2
<1>4. \E m \in S : \A s \in S : m >= s
  BY <1>2, <1>3
<1> QED
  BY <1>4, ZenonT(30) DEF Max

\* The end of the last complete line among the first pos cells.
IsLineEnd(s, pos, n) ==
    /\ n \in 0..pos
    /\ n = 0 \/ s[n].newline
    /\ \A m \in (n + 1)..pos : ~s[m].newline

\* There is exactly one.
LEMMA LineEndUnique ==
    ASSUME NEW s, NEW pos \in Nat
    PROVE  /\ \E n \in 0..pos : IsLineEnd(s, pos, n)
           /\ \A n, m : IsLineEnd(s, pos, n) /\ IsLineEnd(s, pos, m) => n = m
<1> DEFINE E == {n \in 0..pos : n = 0 \/ s[n].newline}
<1>1. E \in SUBSET Nat /\ E # {} /\ \A n \in E : n <= pos
  OBVIOUS
<1>2. Max(E) \in E /\ \A n \in E : Max(E) >= n
  BY <1>1, GreatestOf, ZenonT(30)
<1>3. PICK k \in E : \A n \in E : k >= n
  BY <1>2
<1>4. IsLineEnd(s, pos, k)
  BY <1>3 DEF IsLineEnd
<1>5. ASSUME NEW n, NEW m, IsLineEnd(s, pos, n), IsLineEnd(s, pos, m) PROVE n = m
  BY <1>5 DEF IsLineEnd
<1> QED
  BY <1>4, <1>5

\* Reading backwards in blocks of any size finds the end of the last complete
\* line of any file: whatever solves the equation of the scan agrees with it at
\* every position, and the first position where it did not would be one block
\* after another one.
LEMMA TailScan ==
    ASSUME NEW s \in Seq(Cell), NEW block \in Nat \ {0}
    PROVE  find_last_complete_line_end(s, block) = LastLineEnd(s)
           /\ IsLineEnd(s, Len(s), LastLineEnd(s))
<1> DEFINE L == Len(s)
           Chunk(pos) == IF pos < block THEN pos ELSE block
           Ends(pos) == {i \in (pos - Chunk(pos) + 1)..pos : s[i].newline}
           Body(f, pos) == IF pos = 0 THEN 0
                           ELSE IF Ends(pos) # {} THEN Max(Ends(pos))
                           ELSE f[pos - Chunk(pos)]
           Solves(f) == f = [pos \in 0..L |-> Body(f, pos)]
           End(pos) == CHOOSE n \in 0..pos : IsLineEnd(s, pos, n)
           F == [pos \in 0..L |-> End(pos)]
<1>0. L \in Nat /\ block \in Nat \ {0}
  OBVIOUS
<1>1. \A pos \in 0..L : IsLineEnd(s, pos, End(pos))
  BY <1>0, LineEndUnique
<1>2. ASSUME NEW pos \in 0..L, NEW n, IsLineEnd(s, pos, n) PROVE n = End(pos)
  BY <1>0, <1>1, <1>2, LineEndUnique
<1>3. ASSUME NEW pos \in 0..L, pos # 0
      PROVE  /\ Chunk(pos) \in 1..pos /\ pos - Chunk(pos) \in 0..L
             /\ pos - Chunk(pos) < pos
  BY <1>0, <1>3
<1> HIDE DEF End
<1>4. ASSUME NEW pos \in 0..L, pos # 0, Ends(pos) # {} PROVE Max(Ends(pos)) = End(pos)
  <2>1. Ends(pos) \in SUBSET Nat /\ \A i \in Ends(pos) : i <= pos
    BY <1>0, <1>3, <1>4
  <2>2. PICK S : S = Ends(pos)
    BY ZenonT(30)
  <2>a. S \in SUBSET Nat /\ S # {} /\ \A i \in S : i <= pos
    BY <1>4, <2>1, <2>2
  <2>0. pos \in Nat
    BY <1>0, <1>4
  <2>b. Max(S) \in S /\ \A i \in S : Max(S) >= i
    BY <2>0, <2>a, GreatestOf, ZenonT(30)
  <2>3. PICK k \in Ends(pos) : k = Max(Ends(pos)) /\ \A i \in Ends(pos) : k >= i
    BY <2>2, <2>b, Zenon
  <2>c. PICK q : q = pos - Chunk(pos)
    OBVIOUS
  <2>d. /\ q \in 0..L /\ q < pos /\ k \in (q + 1)..pos /\ s[k].newline
        /\ \A i \in (q + 1)..pos : s[i].newline => k >= i
    BY <1>3, <1>4, <2>3, <2>c
  <2>4. IsLineEnd(s, pos, k)
    BY <1>0, <2>0, <2>d DEF IsLineEnd
  <2> QED
    BY <1>2, <2>3, <2>4
<1>5. ASSUME NEW pos \in 0..L, pos # 0, Ends(pos) = {}
      PROVE  End(pos - Chunk(pos)) = End(pos)
  <2>1. IsLineEnd(s, pos - Chunk(pos), End(pos - Chunk(pos)))
    BY <1>1, <1>3, <1>5
  <2>2. PICK q : q = pos - Chunk(pos)
    OBVIOUS
  <2>3. q \in 0..L /\ q < pos /\ \A i \in (q + 1)..pos : ~s[i].newline
    BY <1>3, <1>5, <2>2
  <2>4. IsLineEnd(s, pos, End(q))
    BY <1>0, <2>1, <2>2, <2>3 DEF IsLineEnd
  <2> QED
    BY <1>2, <2>2, <2>4
<1>6. End(0) = 0
  BY <1>0, <1>1 DEF IsLineEnd

<1>7. Solves(F)
  <2>1. ASSUME NEW pos \in 0..L PROVE End(pos) = Body(F, pos)
    <3>1. CASE pos = 0
      BY <1>6, <3>1
    <3>2. CASE pos # 0 /\ Ends(pos) # {}
      BY <1>4, <3>2
    <3>3. CASE pos # 0 /\ Ends(pos) = {}
      <4>1. pos - Chunk(pos) \in 0..L
        BY <1>3, <3>3
      <4>2. F[pos - Chunk(pos)] = End(pos - Chunk(pos))
        BY <4>1
      <4>3. Body(F, pos) = F[pos - Chunk(pos)]
        BY <3>3
      <4> QED
        BY <1>5, <3>3, <4>2, <4>3
    <3> QED
      BY <3>1, <3>2, <3>3
  <2> QED
    BY <2>1
<1>8. ASSUME NEW f, Solves(f) PROVE f[L] = End(L)
  <2>1. \A pos \in 0..L : f[pos] = Body(f, pos)
    BY <1>8, ZenonT(30)
  <2> DEFINE Bad == {pos \in 0..L : f[pos] # End(pos)}
  <2>2. Bad = {}
    <3> SUFFICES ASSUME Bad # {} PROVE FALSE
      OBVIOUS
    <3>1. Bad \in SUBSET Nat
      BY <1>0
    <3>2. PICK p \in Bad : \A q \in Bad : p <= q
      BY <3>1, LeastOf, ZenonT(30)
    <3>3. p \in 0..L /\ f[p] # End(p) /\ f[p] = Body(f, p)
      BY <2>1, <3>2, ZenonT(30)
    <3>4. p # 0 /\ Ends(p) = {}
      BY <1>4, <1>6, <3>3
    <3>5. /\ p - Chunk(p) \in 0..L /\ p - Chunk(p) < p
          /\ f[p] = f[p - Chunk(p)]
      BY <1>3, <3>3, <3>4
    <3>6. p - Chunk(p) \notin Bad
      BY <1>0, <3>2, <3>3, <3>5
    <3>7. f[p - Chunk(p)] = End(p - Chunk(p))
      BY <3>5, <3>6
    <3> QED
      BY <1>5, <3>3, <3>4, <3>5, <3>7
  <2> QED
    BY <1>0, <2>2
<1>9. find_last_complete_line_end(s, block) = (CHOOSE f : Solves(f))[L]
  BY DEF find_last_complete_line_end
<1>10. Solves(CHOOSE f : Solves(f))
  BY <1>7
<1>11. find_last_complete_line_end(s, block) = End(L)
  <2> DEFINE G == CHOOSE f : Solves(f)
  <2>1. Solves(G) /\ find_last_complete_line_end(s, block) = G[L]
    BY <1>9, <1>10, ZenonT(30)
  <2> HIDE DEF G, Solves
  <2> QED
    BY <1>8, <2>1, SMTT(30)
<1>12. LastLineEnd(s) = End(L)
  BY DEF LastLineEnd, End, IsLineEnd
<1> QED
  BY <1>0, <1>1, <1>11, <1>12

-----------------------------------------------------------------------------
(* Contents of files *)

\* Text and Newline are cells, and no cell is both.
LEMMA CellFacts ==
    ASSUME NEW e \in 1..MaxEvent
    PROVE  /\ Text(e) \in Cell /\ Newline(e) \in Cell
           /\ ~Text(e).newline /\ Newline(e).newline
           /\ Text(e).event = e /\ Newline(e).event = e
  BY DEF Text, Newline, Cell

\* What a truncation leaves (ftruncate, SetEndOfFile).
LEMMA CutFacts ==
    ASSUME NEW s \in Seq(Cell), NEW n \in 0..Len(s)
    PROVE  /\ Cut(s, n) \in Seq(Cell) /\ Len(Cut(s, n)) = n
           /\ \A i \in 1..n : Cut(s, n)[i] = s[i]
           /\ Prefix(Cut(s, n), s)
<1>1. Len(s) \in Nat
  OBVIOUS
<1>2. Cut(s, n) \in Seq(Cell) /\ Len(Cut(s, n)) = n
  BY <1>1 DEF Cut
<1>3. \A i \in 1..n : Cut(s, n)[i] = s[i]
  BY <1>1 DEF Cut
<1> QED
  BY <1>1, <1>2, <1>3 DEF Prefix

\* What appending leaves.
LEMMA ConcatFacts ==
    ASSUME NEW s \in Seq(Cell), NEW t \in Seq(Cell)
    PROVE  /\ s \o t \in Seq(Cell) /\ Len(s \o t) = Len(s) + Len(t)
           /\ Len(s) \in Nat /\ Len(t) \in Nat
           /\ \A i \in 1..Len(s) : (s \o t)[i] = s[i]
           /\ \A i \in 1..Len(t) : (s \o t)[Len(s) + i] = t[i]
           /\ Prefix(s, s \o t)
           /\ t = <<>> => s \o t = s
<1>1. /\ s \o t \in Seq(Cell) /\ Len(s \o t) = Len(s) + Len(t)
      /\ Len(s) \in Nat /\ Len(t) \in Nat
  OBVIOUS
<1>2. \A i \in 1..Len(s) : (s \o t)[i] = s[i]
  BY <1>1
<1>3. \A i \in 1..Len(t) : (s \o t)[Len(s) + i] = t[i]
  BY <1>1
<1>4. t = <<>> => s \o t = s
  BY ConcatEmptySeq
<1> QED
  BY <1>1, <1>2, <1>3, <1>4 DEF Prefix

\* One content that begins another.
LEMMA PrefixFacts ==
    ASSUME NEW s \in Seq(Cell), NEW t \in Seq(Cell), NEW u \in Seq(Cell)
    PROVE  /\ Prefix(s, s)
           /\ Prefix(s, t) /\ Prefix(t, u) => Prefix(s, u)
           /\ Prefix(s, t) /\ Len(s) = Len(t) => s = t
           /\ \A e : Prefix(s, t) /\ LineOf(e, s) => LineOf(e, t)
<1>1. Len(s) \in Nat /\ Len(t) \in Nat /\ Len(u) \in Nat
  OBVIOUS
<1>2. Prefix(s, s) /\ (Prefix(s, t) /\ Prefix(t, u) => Prefix(s, u))
  BY <1>1 DEF Prefix
<1>3. ASSUME Prefix(s, t), Len(s) = Len(t) PROVE s = t
  BY <1>3, SeqEqual DEF Prefix
<1>4. ASSUME NEW e, Prefix(s, t), LineOf(e, s) PROVE LineOf(e, t)
  BY <1>1, <1>4 DEF Prefix, LineOf
<1> QED
  BY <1>2, <1>3, <1>4

\* Any part that begins a well-formed file is well formed: cutting tears at most
\* the last line.
LEMMA PrefixWellFormed ==
    ASSUME NEW s \in Seq(Cell), NEW t \in Seq(Cell), Prefix(s, t), WellFormed(t)
    PROVE  WellFormed(s)
<1>1. Len(s) \in Nat /\ Len(t) \in Nat /\ Len(s) <= Len(t)
  BY DEF Prefix
<1>2. \A i \in 1..Len(s) : s[i] = t[i] /\ i \in 1..Len(t)
  BY <1>1 DEF Prefix
<1> SUFFICES ASSUME NEW i \in 1..Len(s)
             PROVE  /\ ~s[i].newline /\ i < Len(s) => s[i + 1] = Newline(s[i].event)
                    /\ s[i].newline => i > 1 /\ s[i - 1] = Text(s[i].event)
  BY DEF WellFormed
<1>3. /\ ~t[i].newline /\ i < Len(t) => t[i + 1] = Newline(t[i].event)
      /\ t[i].newline => i > 1 /\ t[i - 1] = Text(t[i].event)
  BY <1>2 DEF WellFormed
<1>4. i < Len(s) => i < Len(t) /\ s[i + 1] = t[i + 1]
  BY <1>1, <1>2
<1>5. i > 1 => s[i - 1] = t[i - 1]
  BY <1>1, <1>2
<1> QED
  BY <1>2, <1>3, <1>4, <1>5

\* Ordered without Cut.
LEMMA OrderedMeaning ==
    ASSUME NEW s \in Seq(Cell)
    PROVE  Ordered(s) <=>
             \A i \in 1..Len(s) : \A e \in 1..(s[i].event - 1) :
               \E j \in 1..i : s[j] = Newline(e)
<1>1. ASSUME NEW i \in 1..Len(s), NEW e
      PROVE  LineOf(e, Cut(s, i)) <=> \E j \in 1..i : s[j] = Newline(e)
  <2>1. i \in 0..Len(s)
    OBVIOUS
  <2>2. Len(Cut(s, i)) = i /\ \A j \in 1..i : Cut(s, i)[j] = s[j]
    BY <2>1, CutFacts
  <2> QED
    BY <2>2 DEF LineOf
<1> QED
  BY <1>1 DEF Ordered

\* Any part that begins a file in order is in order.
LEMMA PrefixOrdered ==
    ASSUME NEW s \in Seq(Cell), NEW t \in Seq(Cell), Prefix(s, t), Ordered(t)
    PROVE  Ordered(s)
<1>1. Len(s) \in Nat /\ Len(t) \in Nat /\ Len(s) <= Len(t)
  BY DEF Prefix
<1>2. \A i \in 1..Len(s) : s[i] = t[i] /\ i \in 1..Len(t)
  BY <1>1 DEF Prefix
<1>3. ASSUME NEW i \in 1..Len(s), NEW e \in 1..(s[i].event - 1)
      PROVE  \E j \in 1..i : s[j] = Newline(e)
  <2>1. PICK j \in 1..i : t[j] = Newline(e)
    BY <1>2, OrderedMeaning
  <2>2. j \in 1..Len(s)
    BY <1>1
  <2> QED
    BY <1>2, <2>1, <2>2
<1> QED
  BY <1>3, OrderedMeaning

\* A line written after whole lines: complete, whole lines again; its text
\* alone, a file with a fragment at its end (write, the append of one event).
LEMMA WholeExtends ==
    ASSUME NEW s \in Seq(Cell), Whole(s), NEW e \in 1..MaxEvent
    PROVE  /\ Whole(s \o <<Text(e), Newline(e)>>)
           /\ WellFormed(s \o <<Text(e)>>)
<1> DEFINE L == Len(s)
           t == s \o <<Text(e), Newline(e)>>
           u == s \o <<Text(e)>>
<1>1. L \in Nat /\ Text(e) \in Cell /\ Newline(e) \in Cell
  BY CellFacts
<1>2. /\ t \in Seq(Cell) /\ Len(t) = L + 2
      /\ \A i \in 1..L : t[i] = s[i]
      /\ t[L + 1] = Text(e) /\ t[L + 2] = Newline(e)
  BY <1>1
<1>3. /\ u \in Seq(Cell) /\ Len(u) = L + 1
      /\ \A i \in 1..L : u[i] = s[i]
      /\ u[L + 1] = Text(e)
  BY <1>1
<1>4. ASSUME NEW v \in Seq(Cell), \A j \in 1..L : v[j] = s[j], NEW i \in 1..L
      PROVE  /\ ~v[i].newline /\ i < Len(v) => v[i + 1] = Newline(v[i].event)
             /\ v[i].newline => i > 1 /\ v[i - 1] = Text(v[i].event)
  <2>1. /\ ~s[i].newline /\ i < L => s[i + 1] = Newline(s[i].event)
        /\ s[i].newline => i > 1 /\ s[i - 1] = Text(s[i].event)
    BY DEF Whole, WellFormed
  <2>2. i = L => s[i].newline
    BY <1>1 DEF Whole
  <2>3. i < L => v[i + 1] = s[i + 1]
    BY <1>1, <1>4
  <2>4. i > 1 => v[i - 1] = s[i - 1]
    BY <1>1, <1>4
  <2>5. v[i] = s[i]
    BY <1>4
  <2>6. i < L \/ i = L
    BY <1>1
  <2> QED
    BY <2>1, <2>2, <2>3, <2>4, <2>5, <2>6
<1> HIDE DEF t, u
<1>5. WellFormed(u)
  <2> SUFFICES ASSUME NEW i \in 1..Len(u)
               PROVE  /\ ~u[i].newline /\ i < Len(u) => u[i + 1] = Newline(u[i].event)
                      /\ u[i].newline => i > 1 /\ u[i - 1] = Text(u[i].event)
    BY DEF WellFormed
  <2>1. CASE i \in 1..L
    <3>1. u \in Seq(Cell) /\ \A j \in 1..L : u[j] = s[j]
      BY <1>3
    <3> QED
      BY <1>4, <2>1, <3>1, Zenon
  <2>2. CASE i = L + 1
    BY <1>1, <1>3, <2>2, CellFacts
  <2> QED
    BY <1>1, <1>3, <2>1, <2>2
<1>6. WellFormed(t)
  <2> SUFFICES ASSUME NEW i \in 1..Len(t)
               PROVE  /\ ~t[i].newline /\ i < Len(t) => t[i + 1] = Newline(t[i].event)
                      /\ t[i].newline => i > 1 /\ t[i - 1] = Text(t[i].event)
    BY DEF WellFormed
  <2>1. CASE i \in 1..L
    <3>1. t \in Seq(Cell) /\ \A j \in 1..L : t[j] = s[j]
      BY <1>2
    <3> QED
      BY <1>4, <2>1, <3>1, Zenon
  <2>2. CASE i = L + 1
    <3>1. i + 1 = L + 2
      BY <1>1, <2>2
    <3> QED
      BY <1>2, <2>2, <3>1, CellFacts
  <2>3. CASE i = L + 2
    <3>1. i - 1 = L + 1 /\ i > 1 /\ ~(i < Len(t))
      BY <1>1, <1>2, <2>3
    <3> QED
      BY <1>2, <2>3, <3>1, CellFacts
  <2> QED
    BY <1>1, <1>2, <2>1, <2>2, <2>3
<1>7. t[Len(t)].newline
  BY <1>2, CellFacts
<1> QED
  BY <1>5, <1>6, <1>7 DEF t, u, Whole

\* A line, or its text, after a line of every earlier event keeps the order.
LEMMA OrderedExtends ==
    ASSUME NEW s \in Seq(Cell), Ordered(s), NEW e \in 1..MaxEvent,
           \A d \in 1..(e - 1) : LineOf(d, s)
    PROVE  /\ Ordered(s \o <<Text(e), Newline(e)>>)
           /\ Ordered(s \o <<Text(e)>>)
<1> DEFINE L == Len(s)
<1>1. L \in Nat /\ Text(e) \in Cell /\ Newline(e) \in Cell
  BY CellFacts
<1>2. ASSUME NEW v \in Seq(Cell), Len(v) \in L..(L + 2), \A i \in 1..L : v[i] = s[i],
             \A i \in (L + 1)..Len(v) : v[i].event = e
      PROVE  Ordered(v)
  <2> SUFFICES ASSUME NEW i \in 1..Len(v), NEW d \in 1..(v[i].event - 1)
               PROVE  \E j \in 1..i : v[j] = Newline(d)
    BY OrderedMeaning
  <2>1. CASE i \in 1..L
    <3>1. PICK j \in 1..i : s[j] = Newline(d)
      BY <1>2, <2>1, OrderedMeaning
    <3>2. j \in 1..L
      BY <1>1, <2>1
    <3> QED
      BY <1>2, <3>1, <3>2
  <2>2. CASE i \in (L + 1)..Len(v)
    <3>1. PICK j \in 1..L : s[j] = Newline(d)
      BY <1>2, <2>2, ZenonT(30) DEF LineOf
    <3>2. j \in 1..i /\ v[j] = Newline(d)
      BY <1>1, <1>2, <2>2, <3>1
    <3> QED
      BY <3>2
  <2> QED
    BY <1>1, <2>1, <2>2
<1> DEFINE t == s \o <<Text(e), Newline(e)>>
           u == s \o <<Text(e)>>
<1>3. /\ t \in Seq(Cell) /\ Len(t) = L + 2
      /\ \A i \in 1..L : t[i] = s[i]
      /\ t[L + 1] = Text(e) /\ t[L + 2] = Newline(e)
  BY <1>1
<1>4. /\ u \in Seq(Cell) /\ Len(u) = L + 1
      /\ \A i \in 1..L : u[i] = s[i]
      /\ u[L + 1] = Text(e)
  BY <1>1
<1> HIDE DEF t, u
<1>5. Ordered(t)
  <2>1. \A i \in (L + 1)..Len(t) : t[i].event = e
    <3>1. \A i \in (L + 1)..Len(t) : i = L + 1 \/ i = L + 2
      BY <1>1, <1>3
    <3> QED
      BY <1>3, <3>1, CellFacts
  <2>2. Len(t) \in L..(L + 2)
    BY <1>1, <1>3
  <2> QED
    BY <1>2, <1>3, <2>1, <2>2
<1>6. Ordered(u)
  <2>1. \A i \in (L + 1)..Len(u) : u[i].event = e
    <3>1. \A i \in (L + 1)..Len(u) : i = L + 1
      BY <1>1, <1>4
    <3> QED
      BY <1>4, <3>1, CellFacts
  <2>2. Len(u) \in L..(L + 2)
    BY <1>1, <1>4
  <2> QED
    BY <1>2, <1>4, <2>1, <2>2
<1> QED
  BY <1>5, <1>6 DEF t, u

\* The cut of repair_tail leaves whole lines and takes none away.
LEMMA RepairedFacts ==
    ASSUME NEW s \in Seq(Cell), WellFormed(s)
    PROVE  LET n == find_last_complete_line_end(s, kBlock)
           IN  /\ n \in 0..Len(s) /\ Whole(Cut(s, n))
               /\ \A i \in 1..Len(s) : s[i].newline => i <= n
<1> DEFINE n == find_last_complete_line_end(s, kBlock)
<1>1. IsLineEnd(s, Len(s), n)
  BY TailScan, FileSinkAssumption
<1>2. n \in 0..Len(s) /\ (n = 0 \/ s[n].newline) /\ Len(s) \in Nat
  BY <1>1 DEF IsLineEnd
<1> HIDE DEF n
<1>3. \A i \in 1..Len(s) : s[i].newline => i <= n
  BY <1>1, <1>2 DEF IsLineEnd
<1>4. /\ Cut(s, n) \in Seq(Cell) /\ Len(Cut(s, n)) = n
      /\ \A i \in 1..n : Cut(s, n)[i] = s[i] /\ Prefix(Cut(s, n), s)
      /\ Prefix(Cut(s, n), s)
  BY <1>2, CutFacts
<1>5. WellFormed(Cut(s, n))
  BY <1>4, PrefixWellFormed
<1>6. Cut(s, n) # <<>> => n # 0
  BY <1>4
<1>7. n # 0 => n \in 1..n
  BY <1>2
<1>8. Whole(Cut(s, n))
  BY <1>2, <1>4, <1>5, <1>6, <1>7 DEF Whole
<1> QED
  BY <1>2, <1>3, <1>8 DEF n

-----------------------------------------------------------------------------
(* The steps of the sink *)

\* The shape of the state that the steps are argued from.
LEMMA SinkFacts ==
    ASSUME SinkInv
    PROVE  /\ buffer \in Seq(Cell) /\ file \in Seq(Cell) /\ disk \in Seq(Cell)
           /\ before \in Seq(Cell) /\ Stream \in Seq(Cell) /\ Kept \in Seq(Cell)
           /\ Prefix(file, Stream)
           /\ buffer = <<>> => Stream = file
           /\ Prefix(Kept, file) /\ Prefix(Kept, Stream)
           /\ WellFormed(file)
           /\ emptied \/ Ordered(file)
<1>1. /\ buffer \in Seq(Cell) /\ file \in Seq(Cell) /\ disk \in Seq(Cell)
      /\ before \in Seq(Cell)
  BY DEF SinkInv, SinkTypeOK
<1>2. /\ Stream \in Seq(Cell) /\ Prefix(file, Stream)
      /\ buffer = <<>> => Stream = file
  BY <1>1, ConcatFacts DEF Stream
<1>3. Kept \in Seq(Cell) /\ Prefix(Kept, file)
  <2>1. CASE pc \in Tentative
    BY <1>1, <2>1 DEF Kept, SinkInv, PlaceInv
  <2>2. CASE pc \notin Tentative
    BY <1>1, <2>2, PrefixFacts DEF Kept
  <2> QED
    BY <2>1, <2>2
<1>4. Prefix(Kept, Stream)
  BY <1>1, <1>2, <1>3, PrefixFacts
<1>5. WellFormed(file)
  BY <1>1, <1>2, PrefixWellFormed DEF SinkInv, LinesInv
<1>6. emptied \/ Ordered(file)
  BY <1>1, <1>2, PrefixOrdered DEF SinkInv, WrittenInv
<1> QED
  BY <1>1, <1>2, <1>3, <1>4, <1>5, <1>6, Zenon

\* A batch ends with one of the events there are.
LEMMA BatchFacts ==
    ASSUME SinkTypeOK
    PROVE  /\ LastOfBatch \in 0..MaxEvent /\ MaxEvent \in Nat
           /\ next - 1 <= LastOfBatch
           /\ next \in Nat /\ next >= 1 /\ todo \in Nat /\ todo >= 1
  BY FileSinkAssumption DEF SinkTypeOK, LastOfBatch

\* Most steps leave the contents of the stream as they are, however the boundary
\* between the buffer and the file moves.
LEMMA StreamKept ==
    ASSUME SinkInv,
           \/ Write \/ RepairSync \/ SeekToEnd \/ Spill \/ Sync \/ RollSync
           \/ FlushNow \/ RequestCancel \/ Acknowledge
           \/ Flush /\ file' = file \o buffer
    PROVE  Stream' = Stream
<1>1. CASE \/ Write \/ RepairSync \/ SeekToEnd \/ Sync \/ RollSync
           \/ FlushNow \/ RequestCancel \/ Acknowledge
  <2>1. UNCHANGED <<file, buffer>>
    BY <1>1, Zenon DEF Write, RepairSync, SeekToEnd, Sync, RollSync, FlushNow,
       RequestCancel, Acknowledge
  <2> QED
    BY <2>1 DEF Stream
<1>2. CASE Spill
  <2>1. /\ buffer # <<>> /\ file' = Append(file, Head(buffer))
        /\ buffer' = Tail(buffer)
    BY <1>2 DEF Spill
  <2>2. buffer \in Seq(Cell) /\ file \in Seq(Cell)
    BY SinkFacts
  <2> DEFINE s == file \o buffer
             t == Append(file, Head(buffer)) \o Tail(buffer)
  <2>3. Head(buffer) \in Cell /\ Tail(buffer) \in Seq(Cell)
    BY <2>1, <2>2
  <2>4. /\ s \in Seq(Cell) /\ t \in Seq(Cell) /\ Len(s) = Len(t)
    BY <2>1, <2>2, <2>3
  <2>5. \A i \in 1..Len(s) : s[i] = t[i]
    BY <2>1, <2>2, <2>3
  <2>6. s = t
    <3> HIDE DEF s, t
    <3> QED
      BY <2>4, <2>5, SeqEqual
  <2> QED
    BY <2>1, <2>6 DEF Stream
<1>3. CASE Flush /\ file' = file \o buffer
  <2>1. file' = file \o buffer /\ buffer' = <<>>
    BY <1>3 DEF Flush
  <2>2. buffer \in Seq(Cell) /\ file \in Seq(Cell) /\ file \o buffer \in Seq(Cell)
    BY SinkFacts, ConcatFacts
  <2>3. file' \o buffer' = file'
    BY <2>1, <2>2, ConcatEmptySeq
  <2> QED
    BY <2>1, <2>3 DEF Stream
<1> QED
  BY <1>1, <1>2, <1>3, Zenon

\* A flush that fails, and the closing of a stream, write a part of the buffer
\* and drop the rest.
LEMMA PartWritten ==
    ASSUME SinkInv, NEW n \in 0..Len(buffer),
           file' = file \o Cut(buffer, n), buffer' = <<>>
    PROVE  /\ file' \in Seq(Cell) /\ Stream' = file'
           /\ Prefix(file, file') /\ Prefix(file', Stream)
<1>1. buffer \in Seq(Cell) /\ file \in Seq(Cell)
  BY SinkFacts
<1>2. /\ Cut(buffer, n) \in Seq(Cell) /\ Len(Cut(buffer, n)) = n
      /\ \A i \in 1..n : Cut(buffer, n)[i] = buffer[i]
  BY <1>1, CutFacts
<1>3. PICK c : c = Cut(buffer, n)
  OBVIOUS
<1>4. /\ c \in Seq(Cell) /\ Len(c) = n /\ file' = file \o c
      /\ \A i \in 1..n : c[i] = buffer[i]
  BY <1>2, <1>3
<1>5. file' \in Seq(Cell) /\ Prefix(file, file') /\ Len(file') = Len(file) + n
  BY <1>1, <1>4, ConcatFacts, ZenonT(30)
<1>6. Stream' = file'
  BY <1>5, ConcatEmptySeq DEF Stream
<1>7. Prefix(file', Stream)
  <2>1. /\ Len(Stream) = Len(file) + Len(buffer)
        /\ Len(file) \in Nat /\ Len(buffer) \in Nat /\ n \in Nat /\ n <= Len(buffer)
        /\ \A i \in 1..Len(file) : Stream[i] = file[i]
        /\ \A i \in 1..Len(buffer) : Stream[Len(file) + i] = buffer[i]
    BY <1>1, ConcatFacts DEF Stream
  <2>2. /\ \A i \in 1..Len(file) : (file')[i] = file[i]
        /\ \A i \in 1..n : (file')[Len(file) + i] = buffer[i]
    BY <1>1, <1>4, ConcatFacts
  <2>3. ASSUME NEW i \in 1..Len(file') PROVE (file')[i] = Stream[i]
    <3>1. CASE i <= Len(file)
      BY <2>1, <2>2, <1>5, <3>1
    <3>2. CASE i > Len(file)
      <4>1. PICK j \in 1..n : i = Len(file) + j
        <5>1. i - Len(file) \in 1..n /\ i = Len(file) + (i - Len(file))
          BY <2>1, <1>5, <3>2
        <5> QED
          BY <5>1, ZenonT(30)
      <4>2. j \in 1..Len(buffer)
        BY <2>1
      <4> QED
        BY <2>1, <2>2, <4>1, <4>2
    <3> QED
      BY <2>1, <3>1, <3>2
  <2> QED
    BY <1>5, <2>1, <2>3 DEF Prefix
<1> QED
  BY <1>5, <1>6, <1>7

\* The steps that end with an empty buffer and part of what was in it written.
LEMMA GiveUpFacts ==
    ASSUME SinkInv,
           \/ GiveUp
           \/ Flush /\ pc' = "rollBack"
    PROVE  /\ file' \in Seq(Cell) /\ Stream' = file' /\ buffer' = <<>>
           /\ Prefix(file, file') /\ Prefix(file', Stream)
           /\ buffer = <<>> => file' = file
<1>1. buffer' = <<>> /\ \E n \in 0..Len(buffer) : file' = file \o Cut(buffer, n)
  <2>1. CASE GiveUp
    BY <2>1, Zenon DEF GiveUp, FailHard
  <2>2. CASE Flush /\ pc' = "rollBack"
    BY <2>2 DEF Flush, WriteReturnsOk
  <2> QED
    BY <2>1, <2>2, ZenonT(30)
<1>2. PICK n \in 0..Len(buffer) : file' = file \o Cut(buffer, n)
  BY <1>1
<1>3. /\ file' \in Seq(Cell) /\ Stream' = file'
      /\ Prefix(file, file') /\ Prefix(file', Stream)
  BY <1>1, <1>2, PartWritten, ZenonT(30)
<1>4. ASSUME buffer = <<>> PROVE file' = file
  <2>1. Stream = file /\ file \in Seq(Cell)
    BY <1>4, SinkFacts
  <2>2. Len(file') = Len(file)
    BY <1>3, <2>1 DEF Prefix
  <2> QED
    BY <1>3, <2>1, <2>2, PrefixFacts
<1> QED
  BY <1>1, <1>3, <1>4

\* The cut of roll_back leaves the file as the batch found it.
LEMMA RollBackFacts ==
    ASSUME SinkInv, RollBack
    PROVE  file' = before /\ Stream' = before /\ buffer' = <<>>
<1>1. /\ file \in Seq(Cell) /\ before \in Seq(Cell) /\ start = Len(before)
      /\ Prefix(before, file) /\ start \in 0..Len(file)
  BY SinkFacts DEF RollBack, SinkInv, PlaceInv, Tentative, SinkTypeOK
<1>2. file' = Cut(file, start) /\ buffer' = <<>>
  BY DEF RollBack
<1>3. /\ Cut(file, start) \in Seq(Cell) /\ Len(Cut(file, start)) = start
      /\ \A i \in 1..start : Cut(file, start)[i] = file[i]
  BY <1>1, CutFacts, ZenonT(30)
<1>4. \A i \in 1..start : Cut(file, start)[i] = before[i]
  BY <1>1, <1>3 DEF Prefix
<1>5. file' = before
  <2>1. PICK c : c = Cut(file, start)
    OBVIOUS
  <2>2. c \in Seq(Cell) /\ Len(c) = Len(before) /\ \A i \in 1..Len(c) : c[i] = before[i]
    BY <1>1, <1>3, <1>4, <2>1
  <2> QED
    BY <1>1, <1>2, <2>1, <2>2, SeqEqual
<1>6. file' \o buffer' = before
  BY <1>1, <1>2, <1>5, ConcatEmptySeq
<1> QED
  BY <1>2, <1>5, <1>6 DEF Stream

\* What a loss of power leaves begins with what disk and file have in common.
LEMMA SurvivorFacts ==
    ASSUME SinkInv, NEW f \in Survivors
    PROVE  /\ f \in Seq(Cell)
           /\ \/ f = disk
              \/ /\ Prefix(f, file)
                 /\ \A i \in 1..Len(disk) :
                      i <= Len(file) /\ (\A j \in 1..i : disk[j] = file[j])
                        => i <= Len(f)
<1>1. file \in Seq(Cell) /\ disk \in Seq(Cell) /\ Len(file) \in Nat /\ Len(disk) \in Nat
  BY SinkFacts
<1> DEFINE C == {n \in 0..Len(disk) : n <= Len(file) /\ Cut(disk, n) = Cut(file, n)}
<1>2. Cut(disk, 0) = <<>> /\ Cut(file, 0) = <<>>
  BY <1>1 DEF Cut
<1>3. C \in SUBSET Nat /\ C # {} /\ \A n \in C : n <= Len(disk)
  BY <1>1, <1>2
<1>4. PICK m : m = Max(C)
  BY ZenonT(30)
<1>5. m \in C /\ \A n \in C : m >= n
  <2> HIDE DEF C
  <2> QED
    BY <1>1, <1>3, <1>4, GreatestOf, ZenonT(30)
<1>6. f = disk \/ \E n \in m..Len(file) : f = Cut(file, n)
  BY <1>4 DEF Survivors
<1>7. CASE f = disk
  BY <1>1, <1>7
<1>8. CASE \E n \in m..Len(file) : f = Cut(file, n)
  <2>1. PICK n \in m..Len(file) : f = Cut(file, n)
    BY <1>8
  <2>2. m \in Nat /\ n \in 0..Len(file)
    BY <1>1, <1>5
  <2>3. f \in Seq(Cell) /\ Len(f) = n /\ Prefix(f, file)
    BY <1>1, <2>1, <2>2, CutFacts
  <2>4. ASSUME NEW i \in 1..Len(disk), i <= Len(file), \A j \in 1..i : disk[j] = file[j]
        PROVE  i <= Len(f)
    <3>1. i \in 0..Len(disk) /\ i \in 0..Len(file)
      BY <1>1, <2>4
    <3>2. PICK a, b : a = Cut(disk, i) /\ b = Cut(file, i)
      OBVIOUS
    <3>3. /\ a \in Seq(Cell) /\ Len(a) = i /\ \A j \in 1..i : a[j] = disk[j]
          /\ b \in Seq(Cell) /\ Len(b) = i /\ \A j \in 1..i : b[j] = file[j]
      BY <1>1, <3>1, <3>2, CutFacts, ZenonT(30)
    <3>4. a = b
      BY <2>4, <3>3, SeqEqual
    <3>5. i \in C
      BY <2>4, <3>1, <3>2, <3>4, ZenonT(30)
    <3> QED
      BY <1>5, <2>1, <2>2, <2>3, <3>5
  <2> QED
    BY <2>3, <2>4
<1> QED
  BY <1>6, <1>7, <1>8

\* The contents keep their type, and the rollback point stays within the file.
LEMMA ContentsStep ==
    ASSUME SinkInv, SinkNext
    PROVE  /\ buffer' \in Seq(Cell) /\ file' \in Seq(Cell) /\ disk' \in Seq(Cell)
           /\ before' \in Seq(Cell) /\ start' \in 0..Len(file')
<1>t. /\ buffer \in Seq(Cell) /\ file \in Seq(Cell) /\ disk \in Seq(Cell)
      /\ before \in Seq(Cell) /\ start \in 0..Len(file) /\ Len(file) \in Nat
  BY DEF SinkInv, SinkTypeOK
<1>1. CASE \/ Write \/ RepairSync \/ Sync \/ RollSync \/ FlushNow
           \/ RequestCancel \/ Acknowledge
  <2>1. UNCHANGED <<buffer, file, before, start>> /\ disk' \in {disk, file}
    BY <1>1, Zenon DEF Write, RepairSync, Sync, RollSync, FlushNow, RequestCancel,
       Acknowledge, historyVars
  <2> QED
    BY <1>t, <2>1
<1>2. CASE Open
  <2>1. UNCHANGED <<buffer, disk, before>> /\ file' \in {file, <<>>} /\ start' = 0
    BY <1>2, Zenon DEF Open
  <2>a. <<>> \in Seq(Cell)
    OBVIOUS
  <2>2. file' \in Seq(Cell)
    BY <1>t, <2>1, <2>a, Zenon
  <2>3. Len(file') \in Nat
    BY <2>2
  <2> QED
    BY <1>t, <2>1, <2>2, <2>3
<1>3. CASE Repair
  <2>1. UNCHANGED <<buffer, disk, before, start>> /\ start = 0
    BY <1>3 DEF Repair, historyVars, SinkInv, PlaceInv
  <2>2. file' = file \/ file' = Cut(file, find_last_complete_line_end(file, kBlock))
    BY <1>3 DEF Repair
  <2>3. file' \in Seq(Cell)
    BY <1>t, <2>2, RepairedFacts, CutFacts, SinkFacts
  <2> QED
    BY <1>t, <2>1, <2>3
<1>4. CASE SeekToEnd
  BY <1>t, <1>4 DEF SeekToEnd, EndOfFile
<1>5. CASE Append1
  <2>1. UNCHANGED <<file, disk, before, start>>
    BY <1>5 DEF Append1, historyVars
  <2>2. \/ buffer' = buffer
        \/ /\ todo \in 1..MaxEvent
           /\ \/ buffer' = buffer \o <<Text(todo), Newline(todo)>>
              \/ buffer' = Append(buffer, Text(todo))
    <3>1. \/ buffer' = buffer
          \/ /\ ~(todo > LastOfBatch)
             /\ \/ buffer' = buffer \o <<Text(todo), Newline(todo)>>
                \/ buffer' = Append(buffer, Text(todo))
      BY <1>5, Zenon DEF Append1
    <3>2. ~(todo > LastOfBatch) => todo \in 1..MaxEvent
      BY BatchFacts DEF SinkInv
    <3> QED
      BY <3>1, <3>2, SMTT(30)
  <2>3. buffer' \in Seq(Cell)
    <3>1. CASE buffer' = buffer
      BY <1>t, <3>1
    <3>2. CASE todo \in 1..MaxEvent /\ buffer' = buffer \o <<Text(todo), Newline(todo)>>
      <4>1. Text(todo) \in Cell /\ Newline(todo) \in Cell
        BY <3>2, CellFacts
      <4>2. <<Text(todo), Newline(todo)>> \in Seq(Cell)
        BY <4>1
      <4> QED
        BY <1>t, <3>2, <4>2, ConcatFacts
    <3>3. CASE todo \in 1..MaxEvent /\ buffer' = Append(buffer, Text(todo))
      <4>1. Text(todo) \in Cell
        BY <3>3, CellFacts
      <4> QED
        BY <1>t, <3>3, <4>1
    <3> QED
      BY <2>2, <3>1, <3>2, <3>3, SMTT(30)
  <2> QED
    BY <1>t, <2>1, <2>3
<1>6. CASE Spill
  <2>1. UNCHANGED <<disk, before, start>> /\ buffer # <<>>
        /\ file' = Append(file, Head(buffer)) /\ buffer' = Tail(buffer)
    BY <1>6 DEF Spill, historyVars
  <2>2. Head(buffer) \in Cell /\ Tail(buffer) \in Seq(Cell)
    BY <1>t, <2>1
  <2> QED
    BY <1>t, <2>1, <2>2
<1>7. CASE Flush
  <2>1. UNCHANGED <<disk, before, start>> /\ buffer' = <<>>
    BY <1>7 DEF Flush
  <2>2. CASE file' = file \o buffer
    BY <1>t, <2>1, <2>2
  <2>3. CASE pc' = "rollBack"
    <3>1. file' \in Seq(Cell) /\ Prefix(file, file')
      BY <1>7, <2>3, GiveUpFacts
    <3> QED
      BY <1>t, <2>1, <3>1 DEF Prefix
  <2> QED
    BY <1>7, <2>2, <2>3 DEF Flush
<1>8. CASE RollBack
  <2>1. UNCHANGED <<disk, before, start>> /\ file' = before /\ buffer' = <<>>
        /\ start = Len(before)
    BY <1>8, RollBackFacts DEF RollBack, historyVars, SinkInv, PlaceInv, Tentative
  <2> QED
    BY <1>t, <2>1
<1>9. CASE GiveUp
  <2>1. start' = 0 /\ UNCHANGED before /\ disk' \in {disk, file}
    BY <1>9, Zenon DEF GiveUp, FailHard, historyVars
  <2>2. file' \in Seq(Cell) /\ buffer' = <<>>
    BY <1>9, GiveUpFacts
  <2> QED
    BY <1>t, <2>1, <2>2
<1>10. CASE Crash
  <2>1. start' = 0 /\ UNCHANGED before /\ buffer' = <<>>
    BY <1>10 DEF Crash, historyVars
  <2>2. \/ UNCHANGED <<file, disk>>
        \/ file' \in Survivors /\ disk' = file'
    BY <1>10, Zenon DEF Crash
  <2>3. file' \in Seq(Cell) /\ disk' \in Seq(Cell)
    BY <1>t, <2>2, SurvivorFacts
  <2> QED
    BY <1>t, <2>1, <2>3
<1> QED
  BY <1>1, <1>2, <1>3, <1>4, <1>5, <1>6, <1>7, <1>8, <1>9, <1>10, Zenon DEF SinkNext

\* All state keeps its type.
LEMMA SinkTypeStep ==
    ASSUME SinkInv, SinkNext
    PROVE  SinkTypeOK'
<1>t. /\ durableSync \in BOOLEAN /\ opened \in BOOLEAN /\ failure \in BOOLEAN
      /\ cancelled \in BOOLEAN /\ emptied \in BOOLEAN
      /\ todo \in 1..(MaxEvent + 1) /\ next \in 1..(MaxEvent + 1)
      /\ setbacks \in 0..MaxSetbacks /\ written \subseteq 1..MaxEvent
  BY DEF SinkInv, SinkTypeOK
<1>b. /\ LastOfBatch \in 0..MaxEvent /\ MaxEvent \in Nat /\ MaxSetbacks \in Nat
      /\ next..LastOfBatch \subseteq 1..MaxEvent
  <2>1. LastOfBatch \in 0..MaxEvent /\ MaxEvent \in Nat /\ next \in Nat /\ next >= 1
    BY BatchFacts DEF SinkInv
  <2> QED
    BY <2>1, FileSinkAssumption
<1>1. /\ durableSync' \in BOOLEAN /\ opened' \in BOOLEAN /\ failure' \in BOOLEAN
      /\ cancelled' \in BOOLEAN /\ emptied' \in BOOLEAN
  <2>1. CASE Write \/ Open \/ Repair \/ RepairSync \/ SeekToEnd \/ Append1
    BY <1>t, <2>1, ZenonT(30) DEF Write, Open, Repair, RepairSync, SeekToEnd, Append1,
       streamVars, historyVars
  <2>2. CASE Spill \/ Flush \/ Sync \/ RollBack \/ RollSync \/ FlushNow
    BY <1>t, <2>2, ZenonT(30) DEF Spill, Flush, Sync, RollBack, RollSync, FlushNow,
       streamVars, historyVars
  <2>3. CASE GiveUp \/ RequestCancel \/ Acknowledge \/ Crash
    BY <1>t, <2>3, ZenonT(30) DEF GiveUp, FailHard, RequestCancel, Acknowledge, Crash,
       streamVars, historyVars
  <2> QED
    BY <2>1, <2>2, <2>3, Zenon DEF SinkNext
<1>2. pc' \in {"idle", "open", "repair", "repairSync", "seek", "append",
               "flush", "sync", "rollBack", "rollSync", "ok"}
  <2>0. pc \in {"idle", "open", "repair", "repairSync", "seek", "append",
                "flush", "sync", "rollBack", "rollSync", "ok"}
    BY SMTT(30) DEF SinkInv, SinkTypeOK
  <2>1. CASE Write \/ Open \/ Repair \/ RepairSync \/ SeekToEnd \/ Append1
    BY <2>0, <2>1, SMTT(30) DEF Write, Open, Repair, RepairSync, SeekToEnd, Append1
  <2>2. CASE Spill \/ Flush \/ Sync \/ RollBack \/ RollSync \/ FlushNow
    BY <2>0, <2>2, SMTT(30)
       DEF Spill, Flush, Sync, RollBack, RollSync, FlushNow, WriteReturnsOk
  <2>3. CASE GiveUp \/ RequestCancel \/ Acknowledge \/ Crash
    BY <2>0, <2>3 DEF GiveUp, FailHard, RequestCancel, Acknowledge, Crash
  <2> QED
    BY <2>1, <2>2, <2>3, Zenon DEF SinkNext
<1>3. todo' \in 1..(MaxEvent + 1) /\ next' \in 1..(MaxEvent + 1)
  <2>1. CASE Write
    BY <1>t, <2>1 DEF Write
  <2>2. CASE Append1
    BY <1>t, <1>b, <2>2 DEF Append1
  <2>3. CASE Acknowledge
    BY <1>t, <1>b, <2>3 DEF Acknowledge
  <2>4. CASE Open \/ Repair \/ RepairSync \/ SeekToEnd \/ Spill \/ Flush \/ Sync \/ RollBack
    BY <1>t, <2>4, ZenonT(30)
       DEF Open, Repair, RepairSync, SeekToEnd, Spill, Flush, Sync, RollBack
  <2>5. CASE RollSync \/ FlushNow \/ GiveUp \/ RequestCancel \/ Crash
    BY <1>t, <2>5, ZenonT(30) DEF RollSync, FlushNow, GiveUp, FailHard, RequestCancel, Crash
  <2> QED
    BY <2>1, <2>2, <2>3, <2>4, <2>5, Zenon DEF SinkNext
<1>4. setbacks' \in 0..MaxSetbacks
  <2>1. CASE Crash \/ Acknowledge
    BY <1>t, <1>b, <2>1 DEF Crash, Acknowledge
  <2>2. CASE \/ Write \/ Open \/ Repair \/ RepairSync \/ SeekToEnd \/ Append1 \/ Spill
             \/ Flush \/ Sync \/ RollBack \/ RollSync \/ GiveUp \/ FlushNow
             \/ RequestCancel
    <3>1. UNCHANGED setbacks
      BY <2>2, ZenonT(30) DEF Write, Open, Repair, RepairSync, SeekToEnd, Append1, Spill,
         Flush, Sync, RollBack, RollSync, GiveUp, FailHard, FlushNow, RequestCancel
    <3> QED
      BY <1>t, <3>1
  <2> QED
    BY <2>1, <2>2, Zenon DEF SinkNext
<1>5. written' \subseteq 1..MaxEvent
  <2>1. written' = written \/ written' = written \cup next..LastOfBatch
    <3>1. CASE Flush \/ Sync
      BY <3>1, ZenonT(30) DEF Flush, Sync, WriteReturnsOk
    <3>2. CASE \/ Write \/ Open \/ Repair \/ RepairSync \/ SeekToEnd \/ Append1 \/ Spill
               \/ RollBack \/ RollSync \/ GiveUp \/ FlushNow
               \/ RequestCancel \/ Acknowledge \/ Crash
      BY <3>2, ZenonT(30) DEF Write, Open, Repair, RepairSync, SeekToEnd, Append1, Spill,
         RollBack, RollSync, GiveUp, FailHard, FlushNow, RequestCancel, Acknowledge,
         Crash, historyVars
    <3> QED
      BY <3>1, <3>2, Zenon DEF SinkNext
  <2> QED
    BY <1>t, <1>b, <2>1, ZenonT(30)
<1> QED
  BY <1>1, <1>2, <1>3, <1>4, <1>5, ContentsStep DEF SinkTypeOK

\* PlaceInv after a step that returns from write() with nothing in the buffer.
LEMMA IdlePlace ==
    ASSUME pc' \in {"idle", "ok"}, buffer' = <<>>
    PROVE  PlaceInv'
  BY DEF PlaceInv, Tentative

\* What goes with a place holds when write() gets there.
LEMMA PlaceStep ==
    ASSUME SinkInv, SinkNext
    PROVE  PlaceInv'
<1>p. PlaceInv
  BY DEF SinkInv
<1>b. /\ next \in Nat /\ todo \in Nat /\ LastOfBatch \in Nat /\ next - 1 <= LastOfBatch
  BY BatchFacts DEF SinkInv
<1>s. /\ file \in Seq(Cell) /\ before \in Seq(Cell) /\ buffer \in Seq(Cell)
      /\ file' \in Seq(Cell)
  BY SinkFacts, ContentsStep
<1>1. CASE Write
  <2>1. /\ pc = "idle" /\ pc' = (IF opened THEN "seek" ELSE "open") /\ todo' = next
        /\ UNCHANGED <<buffer, next, opened>>
    BY <1>1 DEF Write, streamVars
  <2> QED
    BY <1>p, <2>1 DEF PlaceInv, Tentative
<1>2. CASE Open
  <2>1. /\ pc = "open" /\ pc' \in {"repair", "idle"} /\ start' = 0
        /\ UNCHANGED <<buffer, next, todo>>
    BY <1>2, Zenon DEF Open
  <2> QED
    BY <1>p, <2>1 DEF PlaceInv, Tentative
<1>3. CASE Repair
  <2>1. /\ pc = "repair" /\ pc' \in {"seek", "repairSync"}
        /\ UNCHANGED <<buffer, next, todo, start>>
    BY <1>3, Zenon DEF Repair
  <2> QED
    BY <1>p, <2>1 DEF PlaceInv, Tentative
<1>4. CASE RepairSync
  <2>1. /\ pc = "repairSync" /\ pc' = "seek"
        /\ UNCHANGED <<buffer, next, todo, start>>
    BY <1>4, Zenon DEF RepairSync
  <2> QED
    BY <1>p, <2>1 DEF PlaceInv, Tentative
<1>5. CASE SeekToEnd
  <2>1. /\ pc = "seek" /\ pc' = "append" /\ start' = Len(file) /\ before' = file
        /\ UNCHANGED <<buffer, next, todo, file>>
    BY <1>5, Zenon DEF SeekToEnd, EndOfFile
  <2>2. buffer = <<>> /\ todo = next
    BY <1>p, <2>1 DEF PlaceInv
  <2>3. Whole(file)
    BY <2>1, <2>2, SinkFacts DEF SinkInv, LinesInv
  <2>4. Prefix(file, file)
    BY <1>s, PrefixFacts
  <2>5. LastOfBatch' = LastOfBatch
    BY <2>1 DEF LastOfBatch
  <2>6. todo' \in next'..(LastOfBatch' + 1)
    BY <1>b, <2>1, <2>2, <2>5, SMTT(30)
  <2> QED
    BY <2>1, <2>2, <2>3, <2>4, <2>6, SMTT(30) DEF PlaceInv, Tentative
<1>6. CASE Append1
  <2>1. /\ pc = "append" /\ UNCHANGED <<next, start, before, file>>
    BY <1>6, Zenon DEF Append1, historyVars
  <2>2. /\ start = Len(before) /\ Prefix(before, file) /\ Whole(before)
        /\ todo \in next..(LastOfBatch + 1)
    BY <1>p, <2>1 DEF PlaceInv, Tentative
  <2>3. \/ todo > LastOfBatch /\ pc' = "flush" /\ todo' = todo
        \/ ~(todo > LastOfBatch) /\ pc' = "append" /\ todo' = todo + 1
        \/ pc' = "rollBack"
    BY <1>6, <2>1, Zenon DEF Append1
  <2>4. LastOfBatch' = LastOfBatch
    BY <2>1 DEF LastOfBatch
  <2>5. /\ pc' \in {"flush", "append", "rollBack"}
        /\ pc' = "flush" => todo' = LastOfBatch' + 1
        /\ pc' = "append" => todo' \in next'..(LastOfBatch' + 1)
    BY <1>b, <2>1, <2>2, <2>3, <2>4, SMTT(30)
  <2> QED
    BY <2>1, <2>2, <2>5 DEF PlaceInv, Tentative
<1>7. CASE Spill
  <2>1. /\ pc = "append" /\ UNCHANGED <<pc, next, start, before, todo>>
        /\ buffer # <<>> /\ file' = Append(file, Head(buffer))
    BY <1>7, Zenon DEF Spill, historyVars
  <2>2. Prefix(file, file')
    BY <1>s, <2>1 DEF Prefix
  <2>3. Prefix(before, file')
    <3>1. Prefix(before, file)
      BY <1>p, <2>1 DEF PlaceInv, Tentative
    <3> QED
      BY <1>s, <2>2, <3>1, PrefixFacts, SMTT(30)
  <2>4. LastOfBatch' = LastOfBatch
    BY <2>1 DEF LastOfBatch
  <2> QED
    BY <1>p, <2>1, <2>3, <2>4 DEF PlaceInv, Tentative
<1>8. CASE Flush
  <2>1. /\ pc = "flush" /\ UNCHANGED <<next, start, before, todo>> /\ buffer' = <<>>
        /\ pc' \in {"ok", "sync", "rollBack"}
    BY <1>8, Zenon DEF Flush, WriteReturnsOk
  <2>2. Prefix(file, file')
    <3>1. file' = file \o buffer \/ pc' = "rollBack"
      BY <1>8 DEF Flush
    <3> QED
      BY <1>8, <1>s, <3>1, ConcatFacts, GiveUpFacts, ZenonT(30)
  <2>3. Prefix(before, file')
    <3>1. Prefix(before, file)
      BY <1>p, <2>1 DEF PlaceInv, Tentative
    <3> QED
      BY <1>s, <2>2, <3>1, PrefixFacts
  <2>4. LastOfBatch' = LastOfBatch
    BY <2>1 DEF LastOfBatch
  <2> QED
    BY <1>p, <2>1, <2>3, <2>4 DEF PlaceInv, Tentative
<1>9. CASE Sync
  <2>1. /\ pc = "sync" /\ UNCHANGED <<next, start, before, todo, file, buffer>>
        /\ pc' \in {"ok", "rollBack"}
    BY <1>9, Zenon DEF Sync, WriteReturnsOk
  <2> QED
    BY <1>p, <2>1 DEF PlaceInv, Tentative
<1>10. CASE RollBack
  <2>1. pc' = "rollSync" /\ file' = before /\ buffer' = <<>> /\ UNCHANGED before
    BY <1>10, RollBackFacts DEF RollBack, historyVars
  <2> QED
    BY <2>1 DEF PlaceInv, Tentative
<1>11. CASE RollSync \/ Acknowledge \/ GiveUp \/ Crash
  <2>1. pc' = "idle" /\ buffer' = <<>>
    <3>1. CASE RollSync \/ Acknowledge
      BY <1>p, <3>1, SMTT(30) DEF RollSync, Acknowledge, PlaceInv
    <3>2. CASE GiveUp \/ Crash
      BY <3>2, Zenon DEF GiveUp, FailHard, Crash
    <3> QED
      BY <1>11, <3>1, <3>2, SMTT(30)
  <2> QED
    BY <2>1, IdlePlace
<1>12. CASE FlushNow \/ RequestCancel
  <2>1. UNCHANGED <<buffer, pc, opened, start, before, file, todo, next>>
    BY <1>12, Zenon DEF FlushNow, RequestCancel, historyVars, streamVars
  <2> QED
    BY <1>p, <2>1 DEF PlaceInv, Tentative, LastOfBatch
<1> QED
  BY <1>1, <1>2, <1>3, <1>4, <1>5, <1>6, <1>7, <1>8, <1>9, <1>10, <1>11, <1>12, Zenon
     DEF SinkNext

\* What one turn of write's loop appends to the contents of the stream.
LEMMA AppendEffects ==
    ASSUME SinkInv, Append1
    PROVE  \/ Stream' = Stream /\ todo' = todo /\ pc' \in {"flush", "rollBack"}
           \/ /\ todo \in 1..MaxEvent
              /\ \/ /\ Stream' = Stream \o <<Text(todo), Newline(todo)>>
                    /\ todo' = todo + 1 /\ pc' = "append"
                 \/ /\ Stream' = Stream \o <<Text(todo)>>
                    /\ todo' = todo /\ pc' = "rollBack"
<1>s. file \in Seq(Cell) /\ buffer \in Seq(Cell) /\ file' = file
  BY SinkFacts DEF Append1
<1>1. CASE todo > LastOfBatch
  BY <1>1, <1>s DEF Append1, Stream
<1>2. CASE ~(todo > LastOfBatch)
  <2>1. todo \in 1..MaxEvent
    BY <1>2, BatchFacts DEF SinkInv
  <2>2. Text(todo) \in Cell /\ Newline(todo) \in Cell
    BY <2>1, CellFacts
  <2>3. /\ <<Text(todo), Newline(todo)>> \in Seq(Cell)
        /\ <<Text(todo)>> \in Seq(Cell)
    BY <2>2
  <2>4. CASE /\ buffer' = buffer \o <<Text(todo), Newline(todo)>>
             /\ todo' = todo + 1 /\ UNCHANGED pc
    <3>1. file \o (buffer \o <<Text(todo), Newline(todo)>>)
            = (file \o buffer) \o <<Text(todo), Newline(todo)>>
      BY <1>s, <2>3, ConcatAssociative
    <3> QED
      BY <1>s, <2>1, <2>4, <3>1, ZenonT(30) DEF Append1, Stream
  <2>5. CASE buffer' = buffer /\ pc' = "rollBack" /\ UNCHANGED todo
    BY <1>s, <2>5, SMTT(30) DEF Stream
  <2>6. CASE buffer' = Append(buffer, Text(todo)) /\ pc' = "rollBack" /\ UNCHANGED todo
    <3>1. Append(buffer, Text(todo)) = buffer \o <<Text(todo)>>
      BY <1>s, <2>2, AppendIsConcat, SMTT(30)
    <3>2. file \o (buffer \o <<Text(todo)>>) = (file \o buffer) \o <<Text(todo)>>
      BY <1>s, <2>3, ConcatAssociative, SMTT(30)
    <3> QED
      BY <1>s, <2>1, <2>6, <3>1, <3>2, SMTT(30) DEF Stream
  <2> QED
    BY <1>2, <2>4, <2>5, <2>6, ZenonT(30) DEF Append1
<1> QED
  BY <1>1, <1>2, ZenonT(30)

\* repair_tail leaves the file cut at the end of its last complete line, which
\* is the whole of it when no line is torn.
LEMMA RepairFacts ==
    ASSUME SinkInv, Repair
    PROVE  LET n == find_last_complete_line_end(file, kBlock)
           IN  /\ n \in 0..Len(file) /\ file' = Cut(file, n) /\ Stream' = file'
               /\ file' \in Seq(Cell) /\ Len(file') = n /\ Prefix(file', file)
               /\ Whole(file')
               /\ \A i \in 1..Len(file) : file[i].newline => i <= n
<1> DEFINE n == find_last_complete_line_end(file, kBlock)
<1>1. file \in Seq(Cell) /\ WellFormed(file)
  BY SinkFacts
<1>2. /\ n \in 0..Len(file) /\ Whole(Cut(file, n))
      /\ \A i \in 1..Len(file) : file[i].newline => i <= n
  BY <1>1, RepairedFacts
<1>3. (n = Len(file) /\ file' = file) \/ file' = Cut(file, n)
  BY DEF Repair
<1> HIDE DEF n
<1>4. Cut(file, n) \in Seq(Cell) /\ Len(Cut(file, n)) = n /\ Prefix(Cut(file, n), file)
  BY <1>1, <1>2, CutFacts
<1>5. n = Len(file) => Cut(file, n) = file
  BY <1>1, <1>4, PrefixFacts
<1>6. file' = Cut(file, n)
  BY <1>3, <1>5
<1>7. buffer' = <<>>
  BY DEF Repair, SinkInv, PlaceInv
<1>8. Stream' = file'
  BY <1>4, <1>6, <1>7, ConcatEmptySeq DEF Stream
<1> QED
  BY <1>2, <1>4, <1>6, <1>8 DEF n

\* Opening leaves the file or empties it, which is recorded when it had lines.
LEMMA OpenFacts ==
    ASSUME SinkInv, Open
    PROVE  /\ Stream = file /\ Stream' = file' /\ buffer' = <<>>
           /\ \/ file' = file
              \/ file' = <<>> /\ (emptied' \/ file = <<>>)
           /\ \/ pc' = "repair"
              \/ pc' = "idle" /\ ~opened'
<1>1. buffer = <<>> /\ buffer' = <<>> /\ ~opened
  BY DEF Open, SinkInv, PlaceInv
<1>2. file' \in Seq(Cell)
  BY ContentsStep DEF SinkNext
<1>3. Stream = file /\ Stream' = file'
  BY <1>1, <1>2, SinkFacts, ConcatEmptySeq DEF Stream
<1>4. \/ file' = file
      \/ file' = <<>> /\ (emptied' \/ file = <<>>)
  BY ZenonT(30) DEF Open
<1>5. \/ pc' = "repair"
      \/ pc' = "idle" /\ ~opened'
  BY <1>1, ZenonT(30) DEF Open
<1> QED
  BY <1>1, <1>3, <1>4, <1>5, ZenonT(30)

\* After a crash the file holds what it did or, after a loss of power, what
\* survives; there is nothing in the stream.
LEMMA CrashFacts ==
    ASSUME SinkInv, Crash
    PROVE  /\ Stream' = file' /\ file' \in Seq(Cell) /\ UNCHANGED historyVars
           /\ pc' = "idle" /\ ~opened' /\ UNCHANGED durableSync
           /\ \/ UNCHANGED <<file, disk>>
              \/ durableSync /\ file' \in Survivors /\ disk' = file'
<1>1. buffer' = <<>> /\ file' \in Seq(Cell)
  BY ContentsStep, ZenonT(30) DEF Crash, SinkNext
<1>2. Stream' = file'
  BY <1>1, ConcatEmptySeq DEF Stream
<1> QED
  BY <1>1, <1>2, ZenonT(30) DEF Crash

\* An empty file.
LEMMA EmptyFacts ==
    /\ <<>> \in Seq(Cell) /\ WellFormed(<<>>) /\ Ordered(<<>>) /\ Whole(<<>>)
<1>1. <<>> \in Seq(Cell) /\ WellFormed(<<>>) /\ Ordered(<<>>)
  BY DEF WellFormed, Ordered
<1> QED
  BY <1>1 DEF Whole

\* The places where LinesInv promises whole lines.
Lined ==
    \/ pc \in {"repairSync", "seek", "append", "flush", "sync", "ok", "rollSync"}
    \/ pc = "idle" /\ opened

\* Lines stay well formed, and whole where that is promised.
LEMMA LinesStep ==
    ASSUME SinkInv, SinkNext
    PROVE  LinesInv'
<1>f. /\ file \in Seq(Cell) /\ disk \in Seq(Cell) /\ Stream \in Seq(Cell)
      /\ WellFormed(file) /\ Prefix(file, Stream) /\ before \in Seq(Cell)
  BY SinkFacts
<1>l. WellFormed(Stream) /\ WellFormed(disk) /\ (Lined => Whole(Stream))
  BY DEF SinkInv, LinesInv, Lined
<1>p. PlaceInv
  BY DEF SinkInv
<1> SUFFICES WellFormed(Stream') /\ WellFormed(disk') /\ (Lined' => Whole(Stream'))
  BY DEF LinesInv, Lined
<1>e. ASSUME disk' \in {disk, file} PROVE WellFormed(disk')
  BY <1>e, <1>f, <1>l
<1>1. CASE \/ Write \/ RepairSync \/ SeekToEnd \/ Spill \/ Sync \/ RollSync
           \/ FlushNow \/ RequestCancel \/ Acknowledge
           \/ Flush /\ file' = file \o buffer
  <2>1. Stream' = Stream
    BY <1>1, StreamKept, Zenon
  <2>2. disk' \in {disk, file}
    BY <1>1, ZenonT(30) DEF Write, RepairSync, SeekToEnd, Spill, Flush, Sync, RollSync,
       FlushNow, RequestCancel, Acknowledge
  <2>3. Lined' => Lined
    <3>1. CASE Write \/ FlushNow \/ RequestCancel
      BY <3>1 DEF Write, FlushNow, RequestCancel, Lined, streamVars
    <3>2. CASE RepairSync \/ SeekToEnd \/ Spill \/ Sync
      BY <3>2 DEF RepairSync, SeekToEnd, Spill, Sync, Lined
    <3>3. CASE RollSync \/ Acknowledge \/ Flush
      BY <3>3 DEF RollSync, Acknowledge, Flush, Lined
    <3> QED
      BY <1>1, <3>1, <3>2, <3>3, Zenon
  <2> QED
    BY <1>e, <1>l, <2>1, <2>2, <2>3
<1>2. CASE Open
  <2>1. ~Lined'
    BY <1>2, OpenFacts DEF Lined
  <2>2. disk' \in {disk, file}
    BY <1>2 DEF Open
  <2> QED
    BY <1>2, <1>e, <1>f, <2>1, <2>2, OpenFacts, EmptyFacts, SMTT(30)
<1>3. CASE Repair
  <2>1. disk' \in {disk, file}
    BY <1>3 DEF Repair
  <2>2. Stream' = file' /\ Whole(file')
    BY <1>3, RepairFacts, Zenon
  <2> QED
    BY <1>e, <2>1, <2>2 DEF Whole
<1>4. CASE Append1
  <2>1. disk' \in {disk, file} /\ Whole(Stream)
    BY <1>4, <1>l DEF Append1, Lined
  <2>2. CASE Stream' = Stream
    BY <1>e, <1>l, <2>1, <2>2
  <2>3. CASE todo \in 1..MaxEvent /\ Stream' = Stream \o <<Text(todo), Newline(todo)>>
    <3>1. Whole(Stream')
      BY <1>f, <2>1, <2>3, WholeExtends, Zenon
    <3> QED
      BY <1>e, <2>1, <3>1 DEF Whole
  <2>4. CASE todo \in 1..MaxEvent /\ Stream' = Stream \o <<Text(todo)>> /\ pc' = "rollBack"
    <3>1. WellFormed(Stream')
      BY <1>f, <2>1, <2>4, WholeExtends, Zenon
    <3>2. ~Lined'
      BY <2>4 DEF Lined
    <3> QED
      BY <1>e, <2>1, <3>1, <3>2
  <2> QED
    BY <1>4, <2>2, <2>3, <2>4, AppendEffects, ZenonT(30)
<1>5. CASE GiveUp \/ (Flush /\ pc' = "rollBack")
  <2>1. file' \in Seq(Cell) /\ Stream' = file' /\ Prefix(file', Stream)
    BY <1>5, GiveUpFacts, Zenon
  <2>2. WellFormed(Stream')
    BY <1>f, <1>l, <2>1, PrefixWellFormed
  <2>3. ~Lined' /\ disk' \in {disk, file}
    <3>1. CASE GiveUp
      BY <3>1 DEF GiveUp, FailHard, Lined
    <3>2. CASE Flush /\ pc' = "rollBack"
      BY <3>2 DEF Flush, Lined
    <3> QED
      BY <1>5, <3>1, <3>2, SMTT(30)
  <2> QED
    BY <1>e, <2>2, <2>3
<1>6. CASE RollBack
  <2>1. Stream' = before /\ Whole(before) /\ disk' = disk
    BY <1>6, <1>p, RollBackFacts DEF RollBack, PlaceInv, Tentative
  <2> QED
    BY <1>l, <2>1 DEF Whole
<1>7. CASE Crash
  <2>1. ~Lined'
    BY <1>7, CrashFacts DEF Lined
  <2>2. CASE UNCHANGED <<file, disk>>
    BY <1>7, <1>f, <1>l, <2>1, <2>2, CrashFacts, SMTT(30)
  <2>3. CASE file' \in Survivors /\ disk' = file'
    <3>1. file' \in Seq(Cell) /\ (file' = disk \/ Prefix(file', file))
      BY <2>3, SurvivorFacts, Zenon
    <3>2. WellFormed(file')
      BY <1>f, <1>l, <3>1, PrefixWellFormed
    <3> QED
      BY <1>7, <2>1, <2>3, <3>2, CrashFacts
  <2> QED
    BY <1>7, <2>2, <2>3, CrashFacts, Zenon
<1> QED
  <2>1. Flush => file' = file \o buffer \/ pc' = "rollBack"
    BY DEF Flush
  <2> QED
    BY <1>1, <1>2, <1>3, <1>4, <1>5, <1>6, <1>7, <2>1, ZenonT(30) DEF SinkNext

\* A secured line stays secured when more of the file counts and the disk stays,
\* and whenever the disk has all that counts.
LEMMA SecuredStays ==
    ASSUME NEW e, Kept \in Seq(Cell), Kept' \in Seq(Cell), disk' \in Seq(Cell),
           UNCHANGED durableSync,
           \/ Secured(e) /\ Prefix(Kept, Kept') /\ disk' = disk
           \/ LineOf(e, Kept') /\ (durableSync => disk' = Kept')
    PROVE  Secured(e)'
<1>0. Len(Kept) \in Nat /\ Len(Kept') \in Nat
  BY SMTT(30)
<1>1. CASE Secured(e) /\ Prefix(Kept, Kept') /\ disk' = disk
  <2>1. PICK i \in 1..Len(Kept) :
          /\ Kept[i] = Newline(e)
          /\ durableSync => i <= Len(disk) /\ \A j \in 1..i : disk[j] = Kept[j]
    BY <1>1, SMTT(30) DEF Secured
  <2>2. i \in 1..Len(Kept') /\ \A j \in 1..i : j \in 1..Len(Kept) /\ (Kept')[j] = Kept[j]
    BY <1>0, <1>1 DEF Prefix
  <2>3. (Kept')[i] = Newline(e)
    BY <1>0, <2>1, <2>2, SMTT(30)
  <2>4. durableSync' => i <= Len(disk') /\ \A j \in 1..i : (disk')[j] = (Kept')[j]
    BY <1>1, <2>1, <2>2, SMTT(30)
  <2> QED
    BY <2>2, <2>3, <2>4, SMTT(30) DEF Secured
<1>2. CASE LineOf(e, Kept') /\ (durableSync => disk' = Kept')
  <2>1. PICK i \in 1..Len(Kept') : (Kept')[i] = Newline(e)
    BY <1>2 DEF LineOf
  <2>2. durableSync' => i <= Len(disk') /\ \A j \in 1..i : (disk')[j] = (Kept')[j]
    BY <1>0, <1>2
  <2> QED
    BY <2>1, <2>2 DEF Secured
<1> QED
  BY <1>1, <1>2

\* A secured line is in the file and, with durable sync, on the disk.
LEMMA SecuredLine ==
    ASSUME SinkInv, NEW e, Secured(e)
    PROVE  /\ LineOf(e, Kept) /\ LineOf(e, file) /\ LineOf(e, Stream)
           /\ durableSync => LineOf(e, disk)
<1>1. PICK i \in 1..Len(Kept) :
        /\ Kept[i] = Newline(e)
        /\ durableSync => i <= Len(disk) /\ \A j \in 1..i : disk[j] = Kept[j]
  BY DEF Secured
<1>2. LineOf(e, Kept)
  BY <1>1 DEF LineOf
<1>3. LineOf(e, file) /\ LineOf(e, Stream)
  BY <1>2, SinkFacts, PrefixFacts
<1>4. ASSUME durableSync PROVE LineOf(e, disk)
  <2>1. i \in 1..Len(disk) /\ disk[i] = Newline(e)
    BY <1>1, <1>4, SinkFacts
  <2> QED
    BY <2>1, SMTT(30) DEF LineOf
<1> QED
  BY <1>2, <1>3, <1>4, SMTT(30)

\* Neither a rollback nor a repair, nor a crash or a loss of power, takes away a
\* line that counts.
LEMMA KeptLines ==
    ASSUME SinkInv, SinkNext, ~emptied', NEW e, Secured(e)
    PROVE  Secured(e)'
<1>f. /\ file \in Seq(Cell) /\ disk \in Seq(Cell) /\ before \in Seq(Cell)
      /\ Kept \in Seq(Cell) /\ Prefix(Kept, file) /\ Prefix(Kept, Kept)
      /\ Len(file) \in Nat /\ Len(Kept) \in Nat /\ Len(disk) \in Nat
  BY SinkFacts, PrefixFacts
<1>g. /\ file' \in Seq(Cell) /\ disk' \in Seq(Cell) /\ before' \in Seq(Cell)
  BY ContentsStep
<1>h. Kept' \in Seq(Cell)
  BY <1>g DEF Kept
<1>l. LineOf(e, Kept) /\ LineOf(e, file) /\ LineOf(e, Stream)
  BY SecuredLine
<1>y. UNCHANGED durableSync
  BY ZenonT(30) DEF SinkNext, Write, Open, Repair, RepairSync, SeekToEnd, Append1, Spill,
     Flush, Sync, RollBack, RollSync, GiveUp, FailHard, FlushNow, RequestCancel,
     Acknowledge, Crash, streamVars
<1>1. ASSUME Kept' = Kept, disk' = disk PROVE Secured(e)'
  BY <1>1, <1>f, <1>h, <1>y, SecuredStays, SMTT(30)
<1>2. ASSUME disk' = Kept', LineOf(e, Kept') PROVE Secured(e)'
  BY <1>2, <1>f, <1>g, <1>h, <1>y, SecuredStays, SMTT(30)
<1>3. ASSUME Prefix(Kept, Kept'), disk' = disk PROVE Secured(e)'
  BY <1>3, <1>f, <1>g, <1>h, <1>y, SecuredStays, SMTT(30)
<1>4. CASE Write \/ Acknowledge \/ RequestCancel \/ SeekToEnd \/ Append1
  <2>1. UNCHANGED <<file, disk>>
    BY <1>4, ZenonT(30) DEF Write, Acknowledge, RequestCancel, SeekToEnd, Append1
  <2>2. CASE Write \/ Acknowledge
    BY <1>1, <2>1, <2>2, SMTT(30) DEF Write, Acknowledge, Kept, Tentative
  <2>3. CASE RequestCancel
    BY <1>1, <2>1, <2>3, SMTT(30) DEF RequestCancel, Kept, historyVars
  <2>4. CASE SeekToEnd
    BY <1>1, <2>1, <2>4, SMTT(30) DEF SeekToEnd, Kept, Tentative
  <2>5. CASE Append1
    BY <1>1, <2>1, <2>5, SMTT(30) DEF Append1, Kept, Tentative, historyVars
  <2> QED
    BY <1>4, <2>2, <2>3, <2>4, <2>5
<1>5. CASE Spill
  BY <1>1, <1>5 DEF Spill, Kept, Tentative, historyVars
<1>6. CASE Open
  <2>1. file' = file
    BY <1>6, OpenFacts, Zenon
  <2>2. pc \notin Tentative /\ pc' \notin Tentative /\ disk' = disk
    BY <1>6, OpenFacts, SMTT(30) DEF Open, Tentative
  <2> QED
    BY <1>1, <2>1, <2>2 DEF Kept
<1>7. CASE Repair
  <2>0. pc \notin Tentative /\ pc' \notin Tentative /\ disk' = disk
    BY <1>7 DEF Repair, Tentative
  <2>1. Kept = file /\ Kept' = file'
    BY <2>0 DEF Kept
  <2>2. PICK i \in 1..Len(Kept) :
          /\ Kept[i] = Newline(e)
          /\ durableSync => i <= Len(disk) /\ \A j \in 1..i : disk[j] = Kept[j]
    BY DEF Secured
  <2>3. i <= Len(file') /\ Prefix(file', file)
    <3>1. file[i].newline /\ i \in 1..Len(file)
      BY <2>1, <2>2 DEF Newline
    <3> QED
      BY <1>7, <3>1, RepairFacts
  <2>4. i \in 1..Len(Kept') /\ \A j \in 1..i : (Kept')[j] = Kept[j]
    BY <1>g, <2>1, <2>3 DEF Prefix
  <2>5. (Kept')[i] = Newline(e)
    BY <2>2, <2>4
  <2>6. durableSync' => i <= Len(disk') /\ \A j \in 1..i : (disk')[j] = (Kept')[j]
    BY <1>y, <2>0, <2>2, <2>4
  <2> QED
    BY <2>4, <2>5, <2>6, SMTT(30) DEF Secured
<1>8. CASE RepairSync \/ RollSync \/ FlushNow
  <2>1. disk' = file /\ file' = file /\ pc \notin Tentative /\ pc' \notin Tentative
    BY <1>8 DEF RepairSync, RollSync, FlushNow, Tentative
  <2> QED
    BY <1>2, <1>l, <2>1 DEF Kept
<1>9. CASE RollBack
  <2>1. Kept = before /\ Kept' = file' /\ disk' = disk
    BY <1>9 DEF RollBack, Kept, Tentative
  <2>2. file' = before
    BY <1>9, RollBackFacts
  <2> QED
    BY <1>1, <2>1, <2>2
<1>10. CASE Flush
  <2>1. Kept = before /\ disk' = disk /\ before' = before
    BY <1>10 DEF Flush, Kept, Tentative
  <2>2. CASE pc' \in {"sync", "rollBack"}
    BY <1>1, <2>1, <2>2 DEF Kept, Tentative
  <2>3. CASE pc' = "ok"
    <3>1. Kept' = file' /\ file' = file \o buffer
      BY <1>10, <2>3 DEF Flush, Kept, Tentative
    <3>2. Prefix(Kept, Kept')
      BY <3>1, SinkFacts DEF Stream
    <3> QED
      BY <1>3, <2>1, <3>2
  <2> QED
    BY <1>10, <2>2, <2>3 DEF Flush, WriteReturnsOk
<1>11. CASE Sync
  <2>1. Kept = before /\ before' = before /\ file' = file
    BY <1>11 DEF Sync, Kept, Tentative
  <2>2. CASE pc' = "rollBack" /\ disk' = disk
    BY <1>1, <2>1, <2>2 DEF Kept, Tentative
  <2>3. CASE pc' = "ok" /\ disk' = file
    <3>1. Kept' = file
      BY <2>1, <2>3 DEF Kept, Tentative
    <3> QED
      BY <1>2, <1>l, <2>3, <3>1
  <2> QED
    BY <1>11, <2>2, <2>3 DEF Sync, WriteReturnsOk
<1>12. CASE GiveUp
  <2>1. Kept' = file' /\ disk' \in {disk, file}
    BY <1>12 DEF GiveUp, FailHard, Kept, Tentative
  <2>2. Prefix(file, file') /\ (buffer = <<>> => file' = file)
    BY <1>12, GiveUpFacts, Zenon
  <2>3. CASE disk' = disk
    BY <1>3, <1>f, <1>g, <2>1, <2>2, <2>3, PrefixFacts, SMTT(30)
  <2>4. CASE disk' # disk
    <3>1. disk' = file /\ pc \in {"repairSync", "rollSync"}
      BY <1>12, <2>1, <2>4 DEF GiveUp
    <3>2. buffer = <<>>
      BY <3>1 DEF SinkInv, PlaceInv
    <3> QED
      BY <1>2, <1>l, <2>1, <2>2, <3>1, <3>2
  <2> QED
    BY <2>3, <2>4
<1>13. CASE Crash
  <2>1. Kept' = file'
    BY <1>13 DEF Crash, Kept, Tentative
  <2>2. CASE UNCHANGED <<file, disk>>
    BY <1>3, <1>f, <2>1, <2>2
  <2>3. CASE durableSync /\ file' \in Survivors /\ disk' = file'
    <3>1. PICK i \in 1..Len(Kept) :
            Kept[i] = Newline(e) /\ i <= Len(disk) /\ \A j \in 1..i : disk[j] = Kept[j]
      BY <2>3 DEF Secured
    <3>2. /\ i \in 1..Len(disk) /\ disk[i] = Newline(e)
          /\ i \in 1..Len(file) /\ file[i] = Newline(e)
          /\ \A j \in 1..i : disk[j] = file[j]
      BY <1>f, <3>1, SMTT(30) DEF Prefix
    <3>3. \/ file' = disk
          \/ Prefix(file', file) /\ i <= Len(file')
      BY <2>3, <3>2, SurvivorFacts
    <3>4. LineOf(e, file')
      <4>1. CASE file' = disk
        BY <3>2, <4>1 DEF LineOf
      <4>2. CASE Prefix(file', file) /\ i <= Len(file')
        <5>1. i \in 1..Len(file') /\ (file')[i] = Newline(e)
          BY <1>g, <3>2, <4>2 DEF Prefix
        <5> QED
          BY <5>1 DEF LineOf
      <4> QED
        BY <3>3, <4>1, <4>2
    <3> QED
      BY <1>2, <2>1, <2>3, <3>4
  <2> QED
    BY <1>13, <2>2, <2>3, CrashFacts, Zenon
<1> QED
  BY <1>4, <1>5, <1>6, <1>7, <1>8, <1>9, <1>10, <1>11, <1>12, <1>13, Zenon DEF SinkNext

\* The order of the lines survives every step.
LEMMA OrderStep ==
    ASSUME SinkInv, SinkNext, ~emptied', ~emptied
    PROVE  Ordered(Stream') /\ Ordered(disk')
<1>f. /\ file \in Seq(Cell) /\ disk \in Seq(Cell) /\ Stream \in Seq(Cell)
      /\ before \in Seq(Cell)
      /\ Prefix(file, Stream) /\ Ordered(file) /\ Ordered(Stream) /\ Ordered(disk)
  BY SinkFacts DEF SinkInv, WrittenInv
<1>g. file' \in Seq(Cell) /\ disk' \in Seq(Cell)
  BY ContentsStep
<1>1. disk' \in {disk, file} \/ Crash
  BY ZenonT(30) DEF SinkNext, Write, Open, Repair, RepairSync, SeekToEnd, Append1, Spill,
     Flush, Sync, RollBack, RollSync, GiveUp, FlushNow, RequestCancel, Acknowledge
<1>2. disk' \in {disk, file} => Ordered(disk')
  BY <1>f
<1>3. CASE Crash
  <2>1. CASE UNCHANGED <<file, disk>>
    BY <1>3, <1>f, <2>1, CrashFacts
  <2>2. CASE file' \in Survivors /\ disk' = file'
    <3>1. file' = disk \/ Prefix(file', file)
      BY <2>2, SurvivorFacts, Zenon
    <3>2. Ordered(file')
      BY <1>f, <1>g, <3>1, PrefixOrdered
    <3> QED
      BY <1>3, <2>2, <3>2, CrashFacts
  <2> QED
    BY <1>3, <2>1, <2>2, CrashFacts, Zenon
<1>4. CASE \/ Write \/ RepairSync \/ SeekToEnd \/ Spill \/ Sync \/ RollSync
           \/ FlushNow \/ RequestCancel \/ Acknowledge
           \/ Flush /\ file' = file \o buffer
  <2>1. Stream' = Stream
    BY <1>4, StreamKept, Zenon
  <2>2. disk' \in {disk, file}
    BY <1>4, ZenonT(30) DEF Write, RepairSync, SeekToEnd, Spill, Flush, Sync, RollSync,
       FlushNow, RequestCancel, Acknowledge
  <2> QED
    BY <1>2, <1>f, <2>1, <2>2
<1>5. CASE Open
  BY <1>1, <1>2, <1>3, <1>5, <1>f, OpenFacts, EmptyFacts
<1>6. CASE Repair
  <2>1. Stream' = file' /\ Prefix(file', file)
    BY <1>6, RepairFacts, Zenon
  <2>2. Ordered(file')
    BY <1>f, <1>g, <2>1, PrefixOrdered
  <2> QED
    BY <1>1, <1>2, <1>3, <2>1, <2>2
<1>7. CASE Append1
  <2>1. \A d \in 1..(todo - 1) : LineOf(d, Stream)
    <3> SUFFICES ASSUME NEW d \in 1..(todo - 1) PROVE LineOf(d, Stream)
      OBVIOUS
    <3>1. next \in Nat /\ todo \in Nat
      BY BatchFacts DEF SinkInv
    <3>2. CASE d \in 1..(next - 1)
      <4>1. Secured(d)
        BY <3>2 DEF SinkInv, WrittenInv
      <4> QED
        BY <4>1, SecuredLine
    <3>3. CASE d \in next..(todo - 1)
      BY <1>7, <3>3 DEF Append1, SinkInv, WrittenInv
    <3> QED
      BY <3>1, <3>2, <3>3
  <2>2. CASE Stream' = Stream
    BY <1>1, <1>2, <1>3, <1>f, <2>2
  <2>3. CASE /\ todo \in 1..MaxEvent
             /\ \/ Stream' = Stream \o <<Text(todo), Newline(todo)>>
                \/ Stream' = Stream \o <<Text(todo)>>
    <3>1. Ordered(Stream')
      BY <1>f, <2>1, <2>3, OrderedExtends, ZenonT(30)
    <3> QED
      BY <1>1, <1>2, <1>3, <3>1
  <2> QED
    BY <1>7, <2>2, <2>3, AppendEffects, ZenonT(30)
<1>8. CASE GiveUp \/ (Flush /\ pc' = "rollBack")
  <2>1. Stream' = file' /\ Prefix(file', Stream)
    BY <1>8, GiveUpFacts, Zenon
  <2>2. Ordered(Stream')
    BY <1>f, <1>g, <2>1, PrefixOrdered
  <2> QED
    BY <1>1, <1>2, <1>3, <2>2
<1>9. CASE RollBack
  <2>1. Stream' = before
    BY <1>9, RollBackFacts
  <2>2. Prefix(before, file)
    BY <1>9 DEF RollBack, SinkInv, PlaceInv, Tentative
  <2>3. Ordered(before)
    BY <1>f, <2>2, PrefixOrdered
  <2> QED
    BY <1>1, <1>2, <1>3, <2>1, <2>3
<1> QED
  <2>1. Flush => file' = file \o buffer \/ pc' = "rollBack"
    BY DEF Flush
  <2> QED
    BY <1>3, <1>4, <1>5, <1>6, <1>7, <1>8, <1>9, <2>1, ZenonT(30) DEF SinkNext

\* The events that this step reports as written have their lines, secured.
LEMMA NewlySecured ==
    ASSUME SinkInv, SinkNext, NEW e \in next..LastOfBatch, pc' = "ok", pc # "ok"
    PROVE  Secured(e)'
<1>f. /\ file \in Seq(Cell) /\ disk \in Seq(Cell) /\ Kept \in Seq(Cell)
      /\ Stream \in Seq(Cell)
  BY SinkFacts
<1>g. file' \in Seq(Cell) /\ disk' \in Seq(Cell) /\ before' \in Seq(Cell)
  BY ContentsStep
<1>1. Kept' = file' /\ Kept' \in Seq(Cell)
  BY <1>g DEF Kept, Tentative
<1>2. Flush \/ Sync
  BY ZenonT(30) DEF SinkNext, Write, Open, Repair, RepairSync, SeekToEnd, Append1, Spill,
     RollBack, RollSync, GiveUp, FailHard, FlushNow, RequestCancel, Acknowledge, Crash
<1>3. LineOf(e, Stream)
  <2>1. pc \in {"flush", "sync"} /\ todo = LastOfBatch + 1
    BY <1>2 DEF Flush, Sync, SinkInv, PlaceInv
  <2>2. LastOfBatch \in Nat
    BY BatchFacts DEF SinkInv
  <2>3. todo - 1 = LastOfBatch
    BY <2>1, <2>2
  <2> QED
    BY <2>1, <2>3 DEF SinkInv, WrittenInv
<1>4. CASE Flush
  <2>1. file' = Stream /\ ~durableSync /\ UNCHANGED durableSync
    BY <1>4 DEF Flush, Stream, streamVars
  <2> QED
    BY <1>1, <1>3, <1>f, <1>g, <2>1, SecuredStays, SMTT(30)
<1>5. CASE Sync
  <2>1. disk' = file /\ file' = file /\ UNCHANGED durableSync
    BY <1>5 DEF Sync, streamVars
  <2>2. Stream = file
    BY <1>5, SinkFacts DEF Sync, SinkInv, PlaceInv
  <2> QED
    BY <1>1, <1>3, <1>f, <1>g, <2>1, <2>2, SecuredStays, SMTT(30)
<1> QED
  BY <1>2, <1>4, <1>5

\* What has been reported as written, and the lines of the batch at hand.
LEMMA WrittenStep ==
    ASSUME SinkInv, SinkNext
    PROVE  WrittenInv'
<1>w. WrittenInv /\ PlaceInv
  BY DEF SinkInv
<1>b. /\ LastOfBatch \in Nat /\ next - 1 <= LastOfBatch
      /\ next \in Nat /\ next >= 1 /\ todo \in Nat /\ todo >= 1
  BY BatchFacts DEF SinkInv
<1>1. \/ /\ UNCHANGED <<written, next>>
         /\ pc' = "ok" => pc = "ok"
      \/ /\ written' = written \cup next..LastOfBatch /\ UNCHANGED next
         /\ pc' = "ok" /\ pc # "ok" /\ emptied' = emptied
      \/ /\ pc = "ok" /\ pc' = "idle" /\ UNCHANGED written /\ next' = LastOfBatch + 1
  <2>1. CASE Flush
    BY <2>1 DEF Flush, WriteReturnsOk
  <2>2. CASE Sync
    BY <2>2 DEF Sync, WriteReturnsOk
  <2>3. CASE Acknowledge
    BY <2>3, SMTT(30) DEF Acknowledge, historyVars
  <2>4. CASE Write \/ Open \/ Repair \/ RepairSync \/ SeekToEnd \/ Append1 \/ Spill
    BY <2>4, SMTT(30)
       DEF Write, Open, Repair, RepairSync, SeekToEnd, Append1, Spill, historyVars
  <2>5. CASE RollBack \/ RollSync \/ GiveUp \/ FlushNow \/ RequestCancel \/ Crash
    BY <2>5 DEF RollBack, RollSync, GiveUp, FailHard, FlushNow, RequestCancel, Crash,
       historyVars
  <2> QED
    BY <2>1, <2>2, <2>3, <2>4, <2>5, Zenon DEF SinkNext
<1>2. 1..(next' - 1) \subseteq written'
  <2>0. 1..(next - 1) \subseteq written
    BY <1>w DEF WrittenInv
  <2>1. CASE next' = next
    BY <1>1, <2>0, <2>1
  <2>2. CASE pc = "ok" /\ UNCHANGED written /\ next' = LastOfBatch + 1
    <3>1. next..LastOfBatch \subseteq written
      BY <1>w, <2>2 DEF WrittenInv
    <3>2. \A d \in 1..(next' - 1) : d \in 1..(next - 1) \/ d \in next..LastOfBatch
      BY <1>b, <2>2
    <3> QED
      BY <2>0, <2>2, <3>1, <3>2
  <2> QED
    BY <1>1, <2>1, <2>2
<1>3. ASSUME pc' = "ok" PROVE next'..LastOfBatch' \subseteq written'
  <2>1. next' = next /\ LastOfBatch' = LastOfBatch
    BY <1>1, <1>3 DEF LastOfBatch
  <2> QED
    BY <1>1, <1>3, <1>w, <2>1 DEF WrittenInv
<1>4. ASSUME pc' \in {"append", "flush", "sync"}, NEW d \in next'..(todo' - 1)
      PROVE  LineOf(d, Stream')
  <2>1. CASE SeekToEnd
    <3>1. todo' = next' /\ next' \in Nat
      BY <1>b, <1>w, <2>1 DEF SeekToEnd, PlaceInv
    <3>2. \A n \in Nat : n..(n - 1) = {}
      OBVIOUS
    <3>3. next'..(todo' - 1) = {}
      BY <3>1, <3>2, Zenon
    <3> QED
      BY <1>4, <3>3, Zenon
  <2>2. CASE Spill \/ RequestCancel \/ FlushNow \/ Flush
    <3>1. /\ UNCHANGED <<next, todo>> /\ pc \in {"append", "flush", "sync"}
      <4>1. CASE Spill \/ Flush
        BY <4>1 DEF Spill, Flush
      <4>2. CASE RequestCancel \/ FlushNow
        BY <1>4, <4>2 DEF RequestCancel, FlushNow
      <4> QED
        BY <2>2, <4>1, <4>2
    <3>2. Flush => file' = file \o buffer
      BY <1>4 DEF Flush
    <3>3. Stream' = Stream
      BY <2>2, <3>2, StreamKept, Zenon
    <3> QED
      BY <1>4, <1>w, <3>1, <3>3 DEF WrittenInv
  <2>3. CASE Append1
    <3>0. next' = next /\ pc = "append"
      BY <2>3 DEF Append1
    <3>1. \A i \in next..(todo - 1) : LineOf(i, Stream)
      BY <1>w, <3>0 DEF WrittenInv
    <3>2. CASE Stream' = Stream /\ todo' = todo
      BY <1>4, <3>0, <3>1, <3>2
    <3>3. CASE /\ todo \in 1..MaxEvent
               /\ Stream' = Stream \o <<Text(todo), Newline(todo)>> /\ todo' = todo + 1
      <4>1. Text(todo) \in Cell /\ Newline(todo) \in Cell /\ Stream \in Seq(Cell)
        BY <3>3, CellFacts, SinkFacts
      <4>2. PICK t : t = <<Text(todo), Newline(todo)>>
        BY ZenonT(30)
      <4>3. t \in Seq(Cell) /\ Len(t) = 2 /\ t[2] = Newline(todo) /\ 2 \in 1..Len(t)
        BY <4>1, <4>2
      <4>a. Stream' = Stream \o t
        BY <3>3, <4>2
      <4>b. /\ Stream \o t \in Seq(Cell) /\ Len(Stream \o t) = Len(Stream) + Len(t)
            /\ Len(Stream) \in Nat /\ Prefix(Stream, Stream \o t)
            /\ \A i \in 1..Len(t) : (Stream \o t)[Len(Stream) + i] = t[i]
        BY <4>1, <4>3, ConcatFacts, Zenon
      <4>4. /\ Stream' \in Seq(Cell) /\ Prefix(Stream, Stream')
            /\ Len(Stream') = Len(Stream) + 2 /\ Len(Stream) \in Nat
            /\ (Stream')[Len(Stream) + 2] = Newline(todo)
        BY <4>3, <4>a, <4>b, Zenon
      <4>5. CASE d = todo
        <5>1. Len(Stream) + 2 \in 1..Len(Stream')
          BY <4>4
        <5> QED
          BY <4>4, <4>5, <5>1 DEF LineOf
      <4>6. CASE d \in next..(todo - 1)
        <5>1. LineOf(d, Stream)
          BY <3>1, <4>6
        <5> QED
          BY <4>1, <4>4, <5>1, PrefixFacts
      <4> QED
        BY <1>4, <1>b, <3>0, <3>3, <4>5, <4>6, SMTT(30)
    <3> QED
      BY <1>4, <2>3, <3>2, <3>3, AppendEffects, ZenonT(30)
  <2>4. SeekToEnd \/ Spill \/ RequestCancel \/ FlushNow \/ Flush \/ Append1
    <3>1. ~(Write \/ Open \/ Repair \/ RepairSync)
      BY <1>4, SMTT(30) DEF Write, Open, Repair, RepairSync
    <3>2. ~(Sync \/ RollBack \/ RollSync \/ GiveUp \/ Acknowledge \/ Crash)
      BY <1>4, SMTT(30) DEF Sync, RollBack, RollSync, GiveUp, FailHard, Acknowledge, Crash,
         WriteReturnsOk
    <3> QED
      BY <3>1, <3>2, Zenon DEF SinkNext
  <2> QED
    BY <2>1, <2>2, <2>3, <2>4
<1>5. emptied => emptied'
  BY ZenonT(30) DEF SinkNext, Write, Open, Repair, RepairSync, SeekToEnd, Append1, Spill,
     Flush, Sync, RollBack, RollSync, GiveUp, FailHard, FlushNow, RequestCancel,
     Acknowledge, Crash, historyVars
<1>6. ASSUME ~emptied', NEW e \in written' PROVE Secured(e)'
  <2>1. CASE e \in written
    <3>1. Secured(e)
      BY <1>5, <1>6, <1>w, <2>1 DEF WrittenInv
    <3> QED
      BY <1>6, <3>1, KeptLines
  <2>2. CASE e \notin written
    <3>1. e \in next..LastOfBatch /\ pc' = "ok" /\ pc # "ok"
      BY <1>1, <1>6, <2>2
    <3> QED
      BY <3>1, NewlySecured
  <2> QED
    BY <2>1, <2>2
<1>7. ~emptied' => Ordered(Stream') /\ Ordered(disk')
  BY <1>5, OrderStep
<1> QED
  BY <1>2, <1>3, <1>4, <1>6, <1>7 DEF WrittenInv

\* A step that changes nothing.
LEMMA SinkStutters ==
    ASSUME SinkInv, UNCHANGED vars
    PROVE  SinkInv'
<1>1. UNCHANGED <<buffer, file, disk, durableSync, opened, failure, cancelled, pc, todo,
                  start, next, setbacks, written, before, emptied>>
  BY DEF vars, streamVars, historyVars
<1>2. Stream' = Stream /\ Kept' = Kept /\ LastOfBatch' = LastOfBatch
  BY <1>1, SMTT(30) DEF Stream, Kept, LastOfBatch
<1>3. \A e : Secured(e)' <=> Secured(e)
  BY <1>1, <1>2, SMTT(30) DEF Secured
<1>4. SinkTypeOK' /\ PlaceInv' /\ LinesInv'
  BY <1>1, <1>2, SMTT(30) DEF SinkInv, SinkTypeOK, PlaceInv, LinesInv
<1>5. WrittenInv'
  BY <1>1, <1>2, <1>3 DEF SinkInv, WrittenInv
<1> QED
  BY <1>4, <1>5 DEF SinkInv

\* A sink that has not been used.
LEMMA SinkInitInv ==
    ASSUME SinkInit
    PROVE  SinkInv
<1>1. /\ buffer = <<>> /\ file = <<>> /\ disk = <<>> /\ durableSync \in BOOLEAN
      /\ opened = FALSE /\ failure = FALSE /\ cancelled = FALSE
      /\ pc = "idle" /\ todo = 1 /\ start = 0 /\ next = 1 /\ setbacks = 0
      /\ written = {} /\ before = <<>> /\ emptied = FALSE
  BY DEF SinkInit
<1>2. Stream = <<>>
  BY <1>1, EmptyFacts, ConcatEmptySeq DEF Stream
<1>3. SinkTypeOK
  <2>1. /\ 1 \in 1..(MaxEvent + 1) /\ 0 \in 0..MaxSetbacks /\ Len(<<>>) = 0
    BY FileSinkAssumption
  <2>2. /\ buffer \in Seq(Cell) /\ file \in Seq(Cell) /\ disk \in Seq(Cell)
        /\ before \in Seq(Cell)
    BY <1>1, EmptyFacts, Zenon
  <2>3. start \in 0..Len(file) /\ written \subseteq 1..MaxEvent
    BY <1>1, <2>1
  <2>4. /\ {durableSync, opened, failure, cancelled} \subseteq BOOLEAN
        /\ emptied \in BOOLEAN
    BY <1>1, Zenon
  <2>5. todo \in 1..(MaxEvent + 1) /\ next \in 1..(MaxEvent + 1) /\ setbacks \in 0..MaxSetbacks
    BY <1>1, <2>1, Zenon
  <2> QED
    BY <1>1, <2>2, <2>3, <2>4, <2>5, Zenon DEF SinkTypeOK
<1>4. PlaceInv
  BY <1>1 DEF PlaceInv, Tentative
<1>5. LinesInv
  BY <1>1, <1>2, EmptyFacts DEF LinesInv
<1>6. WrittenInv
  BY <1>1, <1>2, EmptyFacts DEF WrittenInv
<1> QED
  BY <1>3, <1>4, <1>5, <1>6 DEF SinkInv

-----------------------------------------------------------------------------
(* The theorems *)

\* SinkInv holds throughout: through failed writes, rollbacks and repairs, ends
\* of the process and losses of power, in any order and number (FileSink).
THEOREM SinkCorrect == SinkSpec => []SinkInv
<1>1. SinkInit => SinkInv
  BY SinkInitInv
<1>2. SinkInv /\ [SinkNext]_vars => SinkInv'
  <2>1. ASSUME SinkInv, SinkNext PROVE SinkInv'
    BY <2>1, SinkTypeStep, PlaceStep, LinesStep, WrittenStep DEF SinkInv
  <2> QED
    BY <2>1, SinkStutters
<1> QED
  BY <1>1, <1>2, PTL DEF SinkSpec

\* Every completed line is one record, whatever failed before it was written
\* (repair_tail, roll_back, fail_hard).
THEOREM LinesCorrect == SinkSpec => []LinesWellFormed
<1>1. SinkInv => LinesWellFormed
  <2> SUFFICES ASSUME SinkInv PROVE LinesWellFormed
    OBVIOUS
  <2>1. WellFormed(file)
    BY SinkFacts
  <2> QED
    BY <2>1 DEF SinkInv, LinesWellFormed
<1> QED
  BY <1>1, SinkCorrect, PTL

\* An event for which write() returned Ok stays in the file and, with durable
\* sync, on the disk, unless ensure_open empties the file (write, roll_back,
\* repair_tail).
THEOREM OkSurvivesCorrect == SinkSpec => []OkSurvives
<1>1. SinkInv => OkSurvives
  <2> SUFFICES ASSUME SinkInv PROVE OkSurvives
    OBVIOUS
  <2>1. emptied \/ \A e \in written : Secured(e)
    BY DEF SinkInv, WrittenInv
  <2> QED
    BY <2>1, SecuredLine, Zenon DEF OkSurvives
<1> QED
  BY <1>1, SinkCorrect, PTL

\* A rollback leaves the file exactly as the batch found it (roll_back).
THEOREM RollBackCorrect == SinkSpec => []RolledBackExactly
<1>1. SinkInv => RolledBackExactly
  BY DEF SinkInv, PlaceInv, RolledBackExactly
<1> QED
  BY <1>1, SinkCorrect, PTL

\* The file never has a gap: the first line of an event comes after a line of
\* every earlier one, however often batches are repeated (write).
THEOREM OutputCorrect == SinkSpec => []OutputOrdered
<1>1. SinkInv => OutputOrdered
  <2> SUFFICES ASSUME SinkInv PROVE OutputOrdered
    OBVIOUS
  <2> QED
    BY SinkFacts, Zenon DEF OutputOrdered
<1> QED
  BY <1>1, SinkCorrect, PTL

\* Reading backwards finds the end of the last complete line, for every size of
\* block and wherever the blocks begin (find_last_complete_line_end).
THEOREM TailScanCorrect == SinkSpec => []TailScanExact
<1>1. SinkInv => TailScanExact
  <2> SUFFICES ASSUME SinkInv PROVE TailScanExact
    OBVIOUS
  <2>1. file \in Seq(Cell)
    BY SinkFacts
  <2> QED
    BY <2>1, TailScan, FileSinkAssumption DEF TailScanExact
<1> QED
  BY <1>1, SinkCorrect, PTL
=============================================================================
