-------------------------- MODULE InputRulesProofs --------------------------
(***************************************************************************)
(* Proofs about InputRules: the algorithms that read input compute what    *)
(* they are meant to, on texts of any length over any alphabet.            *)
(*                                                                         *)
(* Each loop of the code is a recursive function of the place it has come  *)
(* to.  Recursion shows that such a function satisfies the equation that   *)
(* defines it; what it computes then follows by induction on the place,    *)
(* for which the property is given as a set of places.  SchemaCheckProofs  *)
(* has the last of the algorithms, check_expressions.                      *)
(***************************************************************************)
EXTENDS InputRules, FiniteSetTheorems, SequenceTheorems, NaturalsInduction,
        WellFoundedInduction, TLAPS

-----------------------------------------------------------------------------
(* Induction and recursion *)

\* A set of naturals has a least element.
LEMMA LeastOf ==
    ASSUME NEW S \in SUBSET Nat, S # {}
    PROVE  \E m \in S : \A s \in S : m <= s
<1>1. \E x \in S : \A y \in S : ~(<<y, x>> \in OpToRel(<, Nat))
  BY NatLessThanWellFounded, WFMin, Zenon
<1>2. PICK x \in S : \A y \in S : ~(y < x)
  BY <1>1, Zenon DEF OpToRel
<1> QED
  BY <1>2

\* The naturals are closed under successor.
LEMMA NatSucc == \A k \in Nat : k + 1 \in Nat
OBVIOUS

\* Induction, for a property given as a set.
LEMMA SetInduction ==
    ASSUME NEW S, 0 \in S, \A k \in Nat : k \in S => k + 1 \in S
    PROVE  \A k \in Nat : k \in S
<1> DEFINE T == {k \in Nat : k \notin S}
<1>1. T = {} \/ \E m \in T : \A k \in T : m <= k
  <2>1. T \in SUBSET Nat
    BY Zenon
  <2> QED
    BY <2>1, LeastOf, Zenon
<1>2. ASSUME NEW m \in T, \A k \in T : m <= k PROVE FALSE
  <2>1. m \in Nat /\ m # 0
    BY Zenon
  <2>2. m - 1 \in Nat /\ (m - 1) + 1 = m /\ ~(m <= m - 1)
    BY <2>1
  <2> QED
    BY <1>2, <2>1, <2>2, Zenon
<1> QED
  BY <1>1, <1>2, Zenon

\* Induction from n down to m: what holds at k if it holds above k.
LEMMA DownInduction ==
    ASSUME NEW S, NEW m \in Int, NEW n \in Int,
           \A k \in m..n : (\A j \in (k + 1)..n : j \in S) => k \in S
    PROVE  \A k \in m..n : k \in S
<1> DEFINE T == {d \in Nat : \A k \in m..n : n - k <= d => k \in S}
<1>1. 0 \in T
  <2> SUFFICES ASSUME NEW k \in m..n, n - k <= 0 PROVE k \in S
    BY 0 \in Nat, Zenon
  <2>1. \A j \in (k + 1)..n : j \in S
    OBVIOUS
  <2> QED
    BY <2>1, Zenon
<1>2. ASSUME NEW d \in Nat, d \in T PROVE d + 1 \in T
  <2> SUFFICES ASSUME NEW k \in m..n, n - k <= d + 1 PROVE k \in S
    BY NatSucc, Zenon
  <2>1. \A j \in (k + 1)..n : j \in m..n /\ n - j <= d
    OBVIOUS
  <2> QED
    BY <1>2, <2>1, Zenon
<1>3. \A d \in Nat : d \in T
  <2> HIDE DEF T
  <2> QED
    BY <1>1, <1>2, SetInduction, Zenon
<1> SUFFICES ASSUME NEW k \in m..n PROVE k \in S
  OBVIOUS
<1>4. n - k \in Nat /\ n - k <= n - k
  OBVIOUS
<1> QED
  BY <1>3, <1>4, Zenon

\* Induction from m up to n: what holds at k if it holds from m to below k.
LEMMA UpInduction ==
    ASSUME NEW S, NEW m \in Int, NEW n \in Int,
           \A k \in m..n : (\A j \in m..(k - 1) : j \in S) => k \in S
    PROVE  \A k \in m..n : k \in S
<1> DEFINE T == {d \in Nat : \A k \in m..n : k - m <= d => k \in S}
<1>1. 0 \in T
  <2> SUFFICES ASSUME NEW k \in m..n, k - m <= 0 PROVE k \in S
    BY 0 \in Nat, Zenon
  <2>1. \A j \in m..(k - 1) : j \in S
    OBVIOUS
  <2> QED
    BY <2>1, Zenon
<1>2. ASSUME NEW d \in Nat, d \in T PROVE d + 1 \in T
  <2> SUFFICES ASSUME NEW k \in m..n, k - m <= d + 1 PROVE k \in S
    BY NatSucc, Zenon
  <2>1. \A j \in m..(k - 1) : j \in m..n /\ j - m <= d
    OBVIOUS
  <2> QED
    BY <1>2, <2>1, Zenon
<1>3. \A d \in Nat : d \in T
  <2> HIDE DEF T
  <2> QED
    BY <1>1, <1>2, SetInduction, Zenon
<1> SUFFICES ASSUME NEW k \in m..n PROVE k \in S
  OBVIOUS
<1>4. k - m \in Nat /\ k - m <= k - m
  OBVIOUS
<1> QED
  BY <1>3, <1>4, Zenon

\* F computes a value in V at each place of D, from the values at places of
\* lower rank.
ByRank(D, V, rank, N, F) ==
    /\ V # {}
    /\ rank \in [D -> Nat] /\ N \in Nat /\ \A i \in D : rank[i] < N
    /\ F \in [D \X [D -> V] -> V]
    /\ \A i \in D : \A f, g \in [D -> V] :
         (\A j \in D : rank[j] < rank[i] => f[j] = g[j])
           => F[<<i, f>>] = F[<<i, g>>]

\* The function that F computes.
Defined(D, V, F) == \E f \in [D -> V] : \A i \in D : f[i] = F[<<i, f>>]

\* If F looks only at places of lower rank, it defines a function.
LEMMA Recursion ==
    ASSUME NEW D, NEW V, NEW rank, NEW N, NEW F, ByRank(D, V, rank, N, F)
    PROVE  Defined(D, V, F)
<1> SUFFICES ASSUME V # {}, rank \in [D -> Nat], N \in Nat,
                    \A i \in D : rank[i] < N,
                    F \in [D \X [D -> V] -> V],
                    \A i \in D : \A f, g \in [D -> V] :
                      (\A j \in D : rank[j] < rank[i] => f[j] = g[j])
                        => F[<<i, f>>] = F[<<i, g>>]
             PROVE  \E f \in [D -> V] : \A i \in D : f[i] = F[<<i, f>>]
  BY Zenon DEF ByRank, Defined
<1> DEFINE Solves(k, f) == \A i \in D : rank[i] < k => f[i] = F[<<i, f>>]
           Open == {k \in Nat : ~\E f \in [D -> V] : Solves(k, f)}
<1>1. 0 \notin Open
  <2>1. PICK v \in V : TRUE
    OBVIOUS
  <2>2. [i \in D |-> v] \in [D -> V]
    BY <2>1
  <2>3. \A i \in D : ~(rank[i] < 0)
    OBVIOUS
  <2> QED
    BY <2>2, <2>3, Zenon
<1>2. ASSUME NEW k \in Nat, k \notin Open PROVE k + 1 \notin Open
  <2>1. PICK f \in [D -> V] : Solves(k, f)
    BY <1>2, Zenon
  <2> DEFINE g == [i \in D |-> IF rank[i] = k THEN F[<<i, f>>] ELSE f[i]]
  <2>2. g \in [D -> V]
    OBVIOUS
  <2>3. ASSUME NEW i \in D, rank[i] < k + 1 PROVE g[i] = F[<<i, g>>]
    <3>1. \A j \in D : rank[j] < rank[i] => f[j] = g[j]
      BY <2>3
    <3>2. F[<<i, f>>] = F[<<i, g>>]
      BY <2>2, <3>1, Zenon
    <3>3. g[i] = F[<<i, f>>]
      <4>1. rank[i] < k \/ rank[i] = k
        <5>1. rank[i] \in Nat
          BY Zenon
        <5> QED
          BY <2>3, <5>1
      <4>2. CASE rank[i] = k
        BY <4>2, Zenon
      <4>3. CASE rank[i] < k
        <5>1. rank[i] # k
          BY <4>3
        <5>2. g[i] = f[i]
          BY <5>1, Zenon
        <5> QED
          BY <2>1, <4>3, <5>2, Zenon
      <4> QED
        BY <4>1, <4>2, <4>3, Zenon
    <3> QED
      BY <3>2, <3>3, Zenon
  <2>4. Solves(k + 1, g)
    BY <2>3, Zenon
  <2> QED
    BY <2>2, <2>4, Zenon
<1>3. N \notin Open
  <2> DEFINE Solved == {k \in Nat : k \notin Open}
  <2> HIDE DEF Open
  <2>1. 0 \in Solved
    BY <1>1, 0 \in Nat, Zenon
  <2>2. \A k \in Nat : k \in Solved => k + 1 \in Solved
    BY <1>2, NatSucc, Zenon
  <2> HIDE DEF Solved
  <2>3. N \in Solved
    BY <2>1, <2>2, SetInduction, Zenon
  <2> QED
    BY <2>3, Zenon DEF Solved
<1>4. PICK f \in [D -> V] : Solves(N, f)
  BY <1>3, Zenon
<1> QED
  BY <1>4
\* The distances to either end of an interval.
LEMMA RangeRank ==
    \A m, n \in Int :
      /\ (IF m <= n THEN n - m + 1 ELSE 0) \in Nat
      /\ \A i \in m..n :
           /\ n - i \in Nat /\ n - i < (IF m <= n THEN n - m + 1 ELSE 0)
           /\ i - m \in Nat /\ i - m < (IF m <= n THEN n - m + 1 ELSE 0)
           /\ \A j \in (i + 1)..n : j \in m..n /\ n - j < n - i
           /\ \A j \in m..(i - 1) : j \in m..n /\ j - m < i - m
OBVIOUS

\* F computes the value at i from the values at places after i, as a loop does.
LooksAfter(m, n, V, F) ==
    /\ V # {}
    /\ F \in [(m..n) \X [m..n -> V] -> V]
    /\ \A i \in m..n : \A f, g \in [m..n -> V] :
         (\A j \in (i + 1)..n : f[j] = g[j]) => F[<<i, f>>] = F[<<i, g>>]

\* Then it defines a function.
LEMMA DownRecursion ==
    ASSUME NEW m \in Int, NEW n \in Int, NEW V, NEW F, LooksAfter(m, n, V, F)
    PROVE  Defined(m..n, V, F)
<1> DEFINE D == m..n
           rank == [i \in D |-> n - i]
           N == IF m <= n THEN n - m + 1 ELSE 0
<1>1. rank \in [D -> Nat]
  BY RangeRank, Zenon
<1>2. N \in Nat /\ \A i \in D : rank[i] < N
  BY RangeRank, Zenon
<1>3. \A i \in D : \A f, g \in [D -> V] :
        (\A j \in D : rank[j] < rank[i] => f[j] = g[j])
          => F[<<i, f>>] = F[<<i, g>>]
  <2> SUFFICES ASSUME NEW i \in D, NEW f \in [D -> V], NEW g \in [D -> V],
                      \A j \in D : rank[j] < rank[i] => f[j] = g[j]
               PROVE  F[<<i, f>>] = F[<<i, g>>]
    BY Zenon
  <2>1. \A j \in (i + 1)..n : j \in D /\ n - j < n - i
    BY RangeRank, Zenon
  <2>2. \A j \in (i + 1)..n : f[j] = g[j]
    BY <2>1, Zenon
  <2> QED
    BY <2>2, Zenon DEF LooksAfter
<1>4. V # {} /\ F \in [D \X [D -> V] -> V]
  BY Zenon DEF LooksAfter
<1> HIDE DEF rank, N, D
<1>5. ByRank(D, V, rank, N, F)
  BY <1>1, <1>2, <1>3, <1>4, Zenon DEF ByRank
<1>6. Defined(D, V, F)
  BY <1>5, Recursion, Zenon
<1> QED
  BY <1>6, Zenon DEF D

\* F computes the value at i from the values at places before i.
LooksBefore(m, n, V, F) ==
    /\ V # {}
    /\ F \in [(m..n) \X [m..n -> V] -> V]
    /\ \A i \in m..n : \A f, g \in [m..n -> V] :
         (\A j \in m..(i - 1) : f[j] = g[j]) => F[<<i, f>>] = F[<<i, g>>]

\* Then it defines a function.
LEMMA UpRecursion ==
    ASSUME NEW m \in Int, NEW n \in Int, NEW V, NEW F, LooksBefore(m, n, V, F)
    PROVE  Defined(m..n, V, F)
<1> DEFINE D == m..n
           rank == [i \in D |-> i - m]
           N == IF m <= n THEN n - m + 1 ELSE 0
<1>1. rank \in [D -> Nat]
  BY RangeRank, Zenon
<1>2. N \in Nat /\ \A i \in D : rank[i] < N
  BY RangeRank, Zenon
<1>3. \A i \in D : \A f, g \in [D -> V] :
        (\A j \in D : rank[j] < rank[i] => f[j] = g[j])
          => F[<<i, f>>] = F[<<i, g>>]
  <2> SUFFICES ASSUME NEW i \in D, NEW f \in [D -> V], NEW g \in [D -> V],
                      \A j \in D : rank[j] < rank[i] => f[j] = g[j]
               PROVE  F[<<i, f>>] = F[<<i, g>>]
    BY Zenon
  <2>1. \A j \in m..(i - 1) : j \in D /\ j - m < i - m
    BY RangeRank, Zenon
  <2>2. \A j \in m..(i - 1) : f[j] = g[j]
    BY <2>1, Zenon
  <2> QED
    BY <2>2, Zenon DEF LooksBefore
<1>4. V # {} /\ F \in [D \X [D -> V] -> V]
  BY Zenon DEF LooksBefore
<1> HIDE DEF rank, N, D
<1>5. ByRank(D, V, rank, N, F)
  BY <1>1, <1>2, <1>3, <1>4, Zenon DEF ByRank
<1>6. Defined(D, V, F)
  BY <1>5, Recursion, Zenon
<1> QED
  BY <1>6, Zenon DEF D

-----------------------------------------------------------------------------
(* is_valid_utf8 *)

Byte == 0..255
Tails == 128..191

\* Whatever one turn of the loop accepts lies within the text.
LEMMA AcceptsWithin ==
    ASSUME NEW p \in Seq(Byte), NEW i \in 1..Len(p), Accepts(p, i)
    PROVE  Extra(p[i]) \in 0..3 /\ i + Extra(p[i]) + 1 \in (i + 1)..(Len(p) + 1)
<1>1. Extra(p[i]) \in {-1, 0, 1, 2, 3}
  BY DEF Extra
<1>2. Extra(p[i]) # -1 /\ i + Extra(p[i]) <= Len(p)
  BY Zenon DEF Accepts
<1> QED
  BY <1>1, <1>2

\* The loop, as an equation.
LEMMA ValidEquation ==
    ASSUME NEW p \in Seq(Byte)
    PROVE  \A i \in 1..(Len(p) + 1) :
             ValidFrom(p)[i] =
               (i <= Len(p) => Accepts(p, i) /\ ValidFrom(p)[i + Extra(p[i]) + 1])
<1> DEFINE m == 1
           n == Len(p) + 1
           D == m..n
           V == BOOLEAN
           Body(f, i) ==
             i <= Len(p) => Accepts(p, i) /\ f[i + Extra(p[i]) + 1]
           F == [x \in D \X [D -> V] |-> Body(x[2], x[1])]
           Solves(f) == f = [i \in D |-> Body(f, i)]
<1>1. n \in Int /\ m \in Int
  OBVIOUS
<1>2. ASSUME NEW i \in D, NEW f \in [D -> V] PROVE Body(f, i) \in V
  BY Zenon
<1>3. ASSUME NEW i \in D, NEW f \in [D -> V], NEW g \in [D -> V],
             \A j \in (i + 1)..n : f[j] = g[j]
      PROVE  Body(f, i) = Body(g, i)
  <2>1. i <= Len(p) => i \in 1..Len(p)
    OBVIOUS
  <2>2. i <= Len(p) /\ Accepts(p, i) => i + Extra(p[i]) + 1 \in (i + 1)..n
    BY <2>1, AcceptsWithin, Zenon
  <2> QED
    BY <1>3, <2>2, Zenon
<1>v. V # {}
  BY TRUE \in BOOLEAN, Zenon
<1> HIDE DEF Body, D, m, n, V
<1>4. /\ F \in [D \X [D -> V] -> V]
      /\ \A i \in D : \A f \in [D -> V] : F[<<i, f>>] = Body(f, i)
  BY <1>2, Zenon
<1> HIDE DEF F
<1>5. LooksAfter(m, n, V, F)
  <2>1. \A i \in D : \A f, g \in [D -> V] :
          (\A j \in (i + 1)..n : f[j] = g[j]) => F[<<i, f>>] = F[<<i, g>>]
    <3> SUFFICES ASSUME NEW i \in D, NEW f \in [D -> V], NEW g \in [D -> V],
                        \A j \in (i + 1)..n : f[j] = g[j]
                 PROVE  F[<<i, f>>] = F[<<i, g>>]
      BY Zenon
    <3>1. Body(f, i) = Body(g, i)
      BY <1>3, Zenon
    <3> QED
      BY <1>4, <3>1, Zenon
  <2> QED
    BY <1>4, <1>v, <2>1, Zenon DEF LooksAfter, D
<1>6. Defined(D, V, F)
  BY <1>1, <1>5, DownRecursion, Zenon DEF D
<1>7. PICK f \in [D -> V] : \A i \in D : f[i] = F[<<i, f>>]
  BY <1>6, Zenon DEF Defined
<1>8. Solves(f)
  <2>1. \A i \in D : f[i] = Body(f, i)
    BY <1>4, <1>7, Zenon
  <2> QED
    BY <1>7, <2>1, Zenon
<1>9. ValidFrom(p) = CHOOSE g : Solves(g)
  BY Zenon DEF ValidFrom, Body, D, m, n
<1>10. Solves(ValidFrom(p))
  BY <1>8, <1>9, Zenon
<1> QED
  BY <1>10, Zenon DEF Body, D, m, n

\* A row is one to four bytes long.
LEMMA RowLength == \A row \in WellFormedRows : Len(row) \in 1..4
BY DEF WellFormedRows

\* What is meant, as an equation.
LEMMA WellFormedEquation ==
    ASSUME NEW p \in Seq(Byte)
    PROVE  \A i \in 1..(Len(p) + 1) :
             WellFormedFrom(p)[i] =
               (i <= Len(p) =>
                  \E row \in WellFormedRows :
                    Fits(p, i, row) /\ WellFormedFrom(p)[i + Len(row)])
<1> DEFINE m == 1
           n == Len(p) + 1
           D == m..n
           V == BOOLEAN
           Body(f, i) ==
             i <= Len(p) =>
               \E row \in WellFormedRows : Fits(p, i, row) /\ f[i + Len(row)]
           F == [x \in D \X [D -> V] |-> Body(x[2], x[1])]
           Solves(f) == f = [i \in D |-> Body(f, i)]
<1>1. n \in Int /\ m \in Int
  OBVIOUS
<1>2. ASSUME NEW i \in D, NEW f \in [D -> V] PROVE Body(f, i) \in V
  BY Zenon
<1>3. ASSUME NEW i \in D, NEW f \in [D -> V], NEW g \in [D -> V],
             \A j \in (i + 1)..n : f[j] = g[j]
      PROVE  Body(f, i) = Body(g, i)
  <2>1. ASSUME NEW row \in WellFormedRows, Fits(p, i, row)
        PROVE  f[i + Len(row)] = g[i + Len(row)]
    <3>1. i + Len(row) - 1 <= Len(p)
      BY <2>1, Zenon DEF Fits
    <3>2. Len(row) \in 1..4
      BY RowLength, Zenon
    <3>3. i + Len(row) \in (i + 1)..n
      <4>1. i \in Int /\ Len(p) \in Int
        OBVIOUS
      <4>2. \A a, b, l \in Int : l \in 1..4 /\ a + l - 1 <= b => a + l \in (a + 1)..(b + 1)
        OBVIOUS
      <4>3. Len(row) \in Int
        BY <3>2
      <4> QED
        BY <3>1, <3>2, <4>1, <4>2, <4>3, Zenon
    <3> QED
      BY <1>3, <3>3, Zenon
  <2> QED
    BY <2>1, Zenon
<1>v. V # {}
  BY TRUE \in BOOLEAN, Zenon
<1> HIDE DEF Body, D, m, n, V
<1>4. /\ F \in [D \X [D -> V] -> V]
      /\ \A i \in D : \A f \in [D -> V] : F[<<i, f>>] = Body(f, i)
  BY <1>2, Zenon
<1> HIDE DEF F
<1>5. LooksAfter(m, n, V, F)
  <2>1. \A i \in D : \A f, g \in [D -> V] :
          (\A j \in (i + 1)..n : f[j] = g[j]) => F[<<i, f>>] = F[<<i, g>>]
    <3> SUFFICES ASSUME NEW i \in D, NEW f \in [D -> V], NEW g \in [D -> V],
                        \A j \in (i + 1)..n : f[j] = g[j]
                 PROVE  F[<<i, f>>] = F[<<i, g>>]
      BY Zenon
    <3>1. Body(f, i) = Body(g, i)
      BY <1>3, Zenon
    <3> QED
      BY <1>4, <3>1, Zenon
  <2> QED
    BY <1>4, <1>v, <2>1, Zenon DEF LooksAfter, D
<1>6. Defined(D, V, F)
  BY <1>1, <1>5, DownRecursion, Zenon DEF D
<1>7. PICK f \in [D -> V] : \A i \in D : f[i] = F[<<i, f>>]
  BY <1>6, Zenon DEF Defined
<1>8. Solves(f)
  <2>1. \A i \in D : f[i] = Body(f, i)
    BY <1>4, <1>7, Zenon
  <2> QED
    BY <1>7, <2>1, Zenon
<1>9. WellFormedFrom(p) = CHOOSE g : Solves(g)
  BY Zenon DEF WellFormedFrom, Body, D, m, n
<1>10. Solves(WellFormedFrom(p))
  BY <1>8, <1>9, Zenon
<1> QED
  BY <1>10, Zenon DEF Body, D, m, n

\* The lead bytes, by the number of bytes after them.
LEMMA LeadByte ==
    ASSUME NEW c \in Byte
    PROVE  /\ Extra(c) \in {-1, 0, 1, 2, 3}
           /\ Extra(c) = 0 <=> c \in 0..127
           /\ Extra(c) = 1 <=> c \in 192..223
           /\ Extra(c) = 2 <=> c \in 224..239
           /\ Extra(c) = 3 <=> c \in 240..247
BY DEF Extra, Byte

\* What it is to fit a row of one byte.
LEMMA FitsOne ==
    ASSUME NEW p, Len(p) \in Int, NEW i \in Int, NEW a
    PROVE  Fits(p, i, <<a>>) <=>
             i + 0 <= Len(p) /\ p[i] \in a
<1>1. (\A k \in 1..1 : k = 1) /\ {1} \subseteq 1..1
  OBVIOUS
<1>2. i + 1 - 1 = i /\ i + 0 = i
  OBVIOUS
<1> QED
  BY <1>1, <1>2 DEF Fits

\* What it is to fit a row of two bytes.
LEMMA FitsTwo ==
    ASSUME NEW p, Len(p) \in Int, NEW i \in Int, NEW a, NEW b
    PROVE  Fits(p, i, <<a, b>>) <=>
             i + 1 <= Len(p) /\ p[i] \in a /\ p[i + 1] \in b
<1>1. (\A k \in 1..2 : k = 1 \/ k = 2) /\ {1, 2} \subseteq 1..2
  OBVIOUS
<1>2. i + 1 - 1 = i /\ i + 2 - 1 = i + 1
  OBVIOUS
<1> QED
  BY <1>1, <1>2 DEF Fits

\* What it is to fit a row of three bytes.
LEMMA FitsThree ==
    ASSUME NEW p, Len(p) \in Int, NEW i \in Int, NEW a, NEW b, NEW c
    PROVE  Fits(p, i, <<a, b, c>>) <=>
             i + 2 <= Len(p) /\ p[i] \in a /\ p[i + 1] \in b /\ p[i + 2] \in c
<1>1. (\A k \in 1..3 : k = 1 \/ k = 2 \/ k = 3) /\ {1, 2, 3} \subseteq 1..3
  OBVIOUS
<1>2. i + 1 - 1 = i /\ i + 2 - 1 = i + 1 /\ i + 3 - 1 = i + 2
  OBVIOUS
<1> QED
  BY <1>1, <1>2 DEF Fits

\* What it is to fit a row of four bytes.
LEMMA FitsFour ==
    ASSUME NEW p, Len(p) \in Int, NEW i \in Int, NEW a, NEW b, NEW c, NEW d
    PROVE  Fits(p, i, <<a, b, c, d>>) <=>
             i + 3 <= Len(p) /\ p[i] \in a /\ p[i + 1] \in b /\ p[i + 2] \in c /\ p[i + 3] \in d
<1>1. (\A k \in 1..4 : k = 1 \/ k = 2 \/ k = 3 \/ k = 4) /\ {1, 2, 3, 4} \subseteq 1..4
  OBVIOUS
<1>2. i + 1 - 1 = i /\ i + 2 - 1 = i + 1 /\ i + 3 - 1 = i + 2 /\ i + 4 - 1 = i + 3
  OBVIOUS
<1> QED
  BY <1>1, <1>2 DEF Fits

\* The continuation bytes.
LEMMA TailByte ==
    ASSUME NEW c \in Byte
    PROVE  IsContinuation(c) <=> c \in Tails
BY DEF IsContinuation, Byte, Tails

\* Their bits.
LEMMA TailBits ==
    ASSUME NEW c \in Tails
    PROVE  c % 64 = c - 128
BY DEF Tails

\* The code point of two bytes: as the code computes it, and less what marks the
\* bytes.  It is accepted unless overlong.
LeadTwo == 192..223
Two(a, b) == (a % 32) * 64 + (b % 64)
TwoLess(a, b) == (a - 192) * 64 + (b - 128)
RangeTwo(a, b) == a >= 194
AcceptedTwo(a, b) == b \in Tails /\ RangeTwo(a, b)

\* The range test of the code, on two bytes, is a test of the first.
LEMMA RangeOfTwo ==
    ASSUME NEW a \in LeadTwo, NEW b \in Tails
    PROVE  InRange(TwoLess(a, b), 1) <=> RangeTwo(a, b)
<1>1. a \in 192..223 /\ b \in 128..191
  BY DEF LeadTwo, Tails
<1>2. PICK cp \in Int : cp = 64 * a + b - 12416
  BY <1>1, SMTT(30)
<1>3. TwoLess(a, b) = cp
  BY <1>1, <1>2, SMTT(30) DEF TwoLess
<1>4. cp >= 128 <=> a >= 194
  BY <1>1, <1>2, SMTT(30)
<1>5. cp <= 1114111 /\ cp \notin 55296..57343
  BY <1>1, <1>2, SMTT(30)
<1>6. InRange(cp, 1) <=> (cp >= 128 /\ cp <= 1114111 /\ cp \notin 55296..57343)
  BY <1>2, SMTT(30) DEF InRange
<1>7. InRange(cp, 1) <=> RangeTwo(a, b)
  BY <1>4, <1>5, <1>6, SMTT(30) DEF RangeTwo
<1> QED
  BY <1>3, <1>7, Zenon

\* The code computes that code point.
LEMMA TwoBytes ==
    ASSUME NEW a \in Byte, Extra(a) = 1, NEW b \in Byte
    PROVE  IsContinuation(b) /\ InRange(Two(a, b), 1)
             <=> AcceptedTwo(a, b)
<1>1. a \in LeadTwo
  BY LeadByte DEF LeadTwo
<1>2. (IsContinuation(b) <=> b \in Tails)
  BY TailByte, Zenon
<1>3. ASSUME b \in Tails PROVE Two(a, b) = TwoLess(a, b)
  <2>1. a % 32 = a - 192
    BY <1>1 DEF LeadTwo
  <2>2. b % 64 = b - 128
    BY <1>3, TailBits, Zenon
  <2> QED
    BY <2>1, <2>2, Zenon DEF Two, TwoLess
<1>4. ASSUME b \in Tails PROVE InRange(TwoLess(a, b), 1) <=> RangeTwo(a, b)
  BY <1>1, <1>4, RangeOfTwo, Zenon
<1> QED
  BY <1>2, <1>3, <1>4, Zenon DEF AcceptedTwo

\* When one turn of the loop accepts such a lead byte.
LEMMA AcceptsTwo ==
    ASSUME NEW p \in Seq(Byte), NEW i \in 1..Len(p), Extra(p[i]) = 1
    PROVE  Accepts(p, i) <=> i + 1 <= Len(p) /\ AcceptedTwo(p[i], p[i + 1])
<1>1. Accepts(p, i) <=>
        /\ i + 1 <= Len(p)
        /\ IsContinuation(p[i + 1])
        /\ InRange(Two(p[i], p[i + 1]), 1)
  <2>1. CodePoint(p, i, 1) = Two(p[i], p[i + 1])
    BY DEF CodePoint, Two
  <2>2. 1 # -1 /\ 1 \in 1..1 /\ \A k \in 1..1 : k = 1
    OBVIOUS
  <2> QED
    BY <2>1, <2>2, Zenon DEF Accepts
<1>2. ASSUME i + 1 <= Len(p)
      PROVE  IsContinuation(p[i + 1]) /\ InRange(Two(p[i], p[i + 1]), 1)
               <=> AcceptedTwo(p[i], p[i + 1])
  <2>1. i + 1 \in 1..Len(p)
    BY <1>2, LenProperties
  <2>2. p[i] \in Byte /\ p[i + 1] \in Byte
    BY <2>1, ElementOfSeq, Zenon
  <2> QED
    BY <2>2, TwoBytes, Zenon
<1> QED
  BY <1>1, <1>2, Zenon

\* The code point of three bytes: as the code computes it, and less what marks the
\* bytes.  It is accepted unless overlong or a surrogate half.
LeadThree == 224..239
Three(a, b, c) == ((a % 16) * 64 + (b % 64)) * 64 + (c % 64)
ThreeLess(a, b, c) == ((a - 224) * 64 + (b - 128)) * 64 + (c - 128)
RangeThree(a, b) == (a = 224 => b >= 160) /\ (a = 237 => b <= 159)
AcceptedThree(a, b, c) == b \in Tails /\ c \in Tails /\ RangeThree(a, b)

\* The range test of the code, on three bytes, is a test of the first two.
LEMMA RangeOfThree ==
    ASSUME NEW a \in LeadThree, NEW b \in Tails, NEW c \in Tails
    PROVE  InRange(ThreeLess(a, b, c), 2) <=> RangeThree(a, b)
<1>1. a \in 224..239 /\ b \in 128..191 /\ c \in 128..191
  BY DEF LeadThree, Tails
<1>2. PICK cp \in Int : cp = 4096 * a + 64 * b + c - 925824
  BY <1>1, SMTT(30)
<1>3. ThreeLess(a, b, c) = cp
  BY <1>1, <1>2, SMTT(30) DEF ThreeLess
<1>4. cp >= 2048 <=> (a = 224 => b >= 160)
  BY <1>1, <1>2, SMTT(30)
<1>5. cp <= 1114111 /\ (cp \notin 55296..57343 <=> (a = 237 => b <= 159))
  <2>1. cp <= 1114111
    BY <1>1, <1>2, SMTT(30)
  <2>2. a < 237 => cp < 55296
    BY <1>1, <1>2, SMTT(30)
  <2>3. a > 237 => cp > 57343
    BY <1>1, <1>2, SMTT(30)
  <2>4. a = 237 => cp >= 53248 /\ cp <= 57343 /\ (cp < 55296 <=> b <= 159)
    BY <1>1, <1>2, SMTT(30)
  <2>5. a < 237 \/ a = 237 \/ a > 237
    BY <1>1, SMTT(30)
  <2> QED
    BY <1>2, <2>1, <2>2, <2>3, <2>4, <2>5, SMTT(30)
<1>6. InRange(cp, 2) <=> (cp >= 2048 /\ cp <= 1114111 /\ cp \notin 55296..57343)
  BY <1>2, SMTT(30) DEF InRange
<1>7. InRange(cp, 2) <=> RangeThree(a, b)
  BY <1>4, <1>5, <1>6, SMTT(30) DEF RangeThree
<1> QED
  BY <1>3, <1>7, Zenon

\* The code computes that code point.
LEMMA ThreeBytes ==
    ASSUME NEW a \in Byte, Extra(a) = 2, NEW b \in Byte, NEW c \in Byte
    PROVE  IsContinuation(b) /\ IsContinuation(c) /\ InRange(Three(a, b, c), 2)
             <=> AcceptedThree(a, b, c)
<1>1. a \in LeadThree
  BY LeadByte DEF LeadThree
<1>2. (IsContinuation(b) <=> b \in Tails) /\ (IsContinuation(c) <=> c \in Tails)
  BY TailByte, Zenon
<1>3. ASSUME b \in Tails /\ c \in Tails PROVE Three(a, b, c) = ThreeLess(a, b, c)
  <2>1. a % 16 = a - 224
    BY <1>1 DEF LeadThree
  <2>2. b % 64 = b - 128 /\ c % 64 = c - 128
    BY <1>3, TailBits, Zenon
  <2> QED
    BY <2>1, <2>2, Zenon DEF Three, ThreeLess
<1>4. ASSUME b \in Tails /\ c \in Tails PROVE InRange(ThreeLess(a, b, c), 2) <=> RangeThree(a, b)
  BY <1>1, <1>4, RangeOfThree, Zenon
<1> QED
  BY <1>2, <1>3, <1>4, Zenon DEF AcceptedThree

\* When one turn of the loop accepts such a lead byte.
LEMMA AcceptsThree ==
    ASSUME NEW p \in Seq(Byte), NEW i \in 1..Len(p), Extra(p[i]) = 2
    PROVE  Accepts(p, i) <=> i + 2 <= Len(p) /\ AcceptedThree(p[i], p[i + 1], p[i + 2])
<1>1. Accepts(p, i) <=>
        /\ i + 2 <= Len(p)
        /\ IsContinuation(p[i + 1]) /\ IsContinuation(p[i + 2])
        /\ InRange(Three(p[i], p[i + 1], p[i + 2]), 2)
  <2>1. CodePoint(p, i, 2) = Three(p[i], p[i + 1], p[i + 2])
    BY DEF CodePoint, Three
  <2>2. 2 # -1 /\ 1 \in 1..2 /\ 2 \in 1..2 /\ \A k \in 1..2 : k = 1 \/ k = 2
    OBVIOUS
  <2> QED
    BY <2>1, <2>2, Zenon DEF Accepts
<1>2. ASSUME i + 2 <= Len(p)
      PROVE  IsContinuation(p[i + 1]) /\ IsContinuation(p[i + 2])
               /\ InRange(Three(p[i], p[i + 1], p[i + 2]), 2)
               <=> AcceptedThree(p[i], p[i + 1], p[i + 2])
  <2>1. i + 1 \in 1..Len(p) /\ i + 2 \in 1..Len(p)
    BY <1>2, LenProperties
  <2>2. p[i] \in Byte /\ p[i + 1] \in Byte /\ p[i + 2] \in Byte
    BY <2>1, ElementOfSeq, Zenon
  <2> QED
    BY <2>2, ThreeBytes, Zenon
<1> QED
  BY <1>1, <1>2, Zenon

\* The code point of four bytes: as the code computes it, and less what marks the
\* bytes.  It is accepted unless overlong or beyond the last.
LeadFour == 240..247
Four(a, b, c, d) == (((a % 8) * 64 + (b % 64)) * 64 + (c % 64)) * 64 + (d % 64)
FourLess(a, b, c, d) == (((a - 240) * 64 + (b - 128)) * 64 + (c - 128)) * 64 + (d - 128)
RangeFour(a, b) == a <= 244 /\ (a = 240 => b >= 144) /\ (a = 244 => b <= 143)
AcceptedFour(a, b, c, d) == b \in Tails /\ c \in Tails /\ d \in Tails /\ RangeFour(a, b)

\* The range test of the code, on four bytes, is a test of the first two.
LEMMA RangeOfFour ==
    ASSUME NEW a \in LeadFour, NEW b \in Tails, NEW c \in Tails, NEW d \in Tails
    PROVE  InRange(FourLess(a, b, c, d), 3) <=> RangeFour(a, b)
<1>1. a \in 240..247 /\ b \in 128..191 /\ c \in 128..191 /\ d \in 128..191
  BY DEF LeadFour, Tails
<1>2. PICK cp \in Int : cp = 262144 * a + 4096 * b + 64 * c + d - 63447168
  BY <1>1, SMTT(30)
<1>3. FourLess(a, b, c, d) = cp
  BY <1>1, <1>2, SMTT(30) DEF FourLess
<1>4. cp >= 65536 <=> (a = 240 => b >= 144)
  BY <1>1, <1>2, SMTT(30)
<1>5. cp <= 1114111 <=> (a <= 244 /\ (a = 244 => b <= 143))
  BY <1>1, <1>2, SMTT(30)
<1>6. InRange(cp, 3) <=> (cp >= 65536 /\ cp <= 1114111 /\ cp \notin 55296..57343)
  BY <1>2, SMTT(30) DEF InRange
<1>7. InRange(cp, 3) <=> RangeFour(a, b)
  BY <1>4, <1>5, <1>6, SMTT(30) DEF RangeFour
<1> QED
  BY <1>3, <1>7, Zenon

\* The code computes that code point.
LEMMA FourBytes ==
    ASSUME NEW a \in Byte, Extra(a) = 3, NEW b \in Byte, NEW c \in Byte, NEW d \in Byte
    PROVE  IsContinuation(b) /\ IsContinuation(c) /\ IsContinuation(d)
             /\ InRange(Four(a, b, c, d), 3)
             <=> AcceptedFour(a, b, c, d)
<1>1. a \in LeadFour
  BY LeadByte DEF LeadFour
<1>2. (IsContinuation(b) <=> b \in Tails) /\ (IsContinuation(c) <=> c \in Tails)
        /\ (IsContinuation(d) <=> d \in Tails)
  BY TailByte, Zenon
<1>3. ASSUME b \in Tails /\ c \in Tails /\ d \in Tails PROVE Four(a, b, c, d) = FourLess(a, b, c, d)
  <2>1. a % 8 = a - 240
    BY <1>1 DEF LeadFour
  <2>2. b % 64 = b - 128 /\ c % 64 = c - 128 /\ d % 64 = d - 128
    BY <1>3, TailBits, Zenon
  <2> QED
    BY <2>1, <2>2, Zenon DEF Four, FourLess
<1>4. ASSUME b \in Tails /\ c \in Tails /\ d \in Tails
      PROVE  InRange(FourLess(a, b, c, d), 3) <=> RangeFour(a, b)
  BY <1>1, <1>4, RangeOfFour, Zenon
<1> QED
  BY <1>2, <1>3, <1>4, Zenon DEF AcceptedFour

\* When one turn of the loop accepts such a lead byte.
LEMMA AcceptsFour ==
    ASSUME NEW p \in Seq(Byte), NEW i \in 1..Len(p), Extra(p[i]) = 3
    PROVE  Accepts(p, i) <=> i + 3 <= Len(p) /\ AcceptedFour(p[i], p[i + 1], p[i + 2], p[i + 3])
<1>1. Accepts(p, i) <=>
        /\ i + 3 <= Len(p)
        /\ IsContinuation(p[i + 1]) /\ IsContinuation(p[i + 2]) /\ IsContinuation(p[i + 3])
        /\ InRange(Four(p[i], p[i + 1], p[i + 2], p[i + 3]), 3)
  <2>1. CodePoint(p, i, 3) = Four(p[i], p[i + 1], p[i + 2], p[i + 3])
    BY DEF CodePoint, Four
  <2>2. 3 # -1 /\ 1 \in 1..3 /\ 2 \in 1..3 /\ 3 \in 1..3 /\ \A k \in 1..3 : k = 1 \/ k = 2 \/ k = 3
    OBVIOUS
  <2> QED
    BY <2>1, <2>2, Zenon DEF Accepts
<1>2. ASSUME i + 3 <= Len(p)
      PROVE  IsContinuation(p[i + 1]) /\ IsContinuation(p[i + 2])
               /\ IsContinuation(p[i + 3])
               /\ InRange(Four(p[i], p[i + 1], p[i + 2], p[i + 3]), 3)
               <=> AcceptedFour(p[i], p[i + 1], p[i + 2], p[i + 3])
  <2>1. i + 1 \in 1..Len(p) /\ i + 2 \in 1..Len(p) /\ i + 3 \in 1..Len(p)
    BY <1>2, LenProperties
  <2>2. p[i] \in Byte /\ p[i + 1] \in Byte /\ p[i + 2] \in Byte /\ p[i + 3] \in Byte
    BY <2>1, ElementOfSeq, Zenon
  <2> QED
    BY <2>2, FourBytes, Zenon
<1> QED
  BY <1>1, <1>2, Zenon

\* The rows of the table, by their length.
OneByteRows == {<<0..127>>}
TwoByteRows == {<<194..223, Tails>>}
ThreeByteRows == {<<{224}, 160..191, Tails>>, <<225..236, Tails, Tails>>,
                  <<{237}, 128..159, Tails>>, <<238..239, Tails, Tails>>}
FourByteRows == {<<{240}, 144..191, Tails, Tails>>,
                 <<241..243, Tails, Tails, Tails>>,
                 <<{244}, 128..143, Tails, Tails>>}

\* They are all rows.
LEMMA RowsByLength ==
    /\ WellFormedRows = OneByteRows \cup TwoByteRows \cup ThreeByteRows \cup FourByteRows
    /\ \A row \in OneByteRows : Len(row) = 1
    /\ \A row \in TwoByteRows : Len(row) = 2
    /\ \A row \in ThreeByteRows : Len(row) = 3
    /\ \A row \in FourByteRows : Len(row) = 4
BY DEF WellFormedRows, OneByteRows, TwoByteRows, ThreeByteRows, FourByteRows, Tails

\* What is in a row of one byte.
InOne(a) == a \in 0..127

\* The rows of one byte are what the code accepts as such.
LEMMA RowsOne ==
    ASSUME NEW p \in Seq(Byte), NEW i \in 1..Len(p)
    PROVE  (\E row \in OneByteRows : Fits(p, i, row))
             <=> Extra(p[i]) = 0
<1>1. Len(p) \in Int /\ i \in Int /\ i <= Len(p)
  OBVIOUS
<1>2. ASSUME NEW a \in Byte
      PROVE  InOne(a) <=> Extra(a) = 0
  <2>1. Extra(a) = 0 <=> a \in 0..127
    BY LeadByte
  <2> QED
    BY <2>1 DEF InOne, Byte
<1>3. (\E row \in OneByteRows : Fits(p, i, row)) <=> i + 0 <= Len(p) /\ InOne(p[i])
  <2>1. Fits(p, i, <<0..127>>) <=> i + 0 <= Len(p) /\ p[i] \in 0..127
    BY <1>1, FitsOne
  <2> QED
    BY <2>1 DEF OneByteRows, InOne
<1>4. ASSUME i + 0 <= Len(p) PROVE p[i] \in Byte
  <2>1. i \in 1..Len(p)
    BY <1>1, <1>4
  <2> QED
    BY <2>1, ElementOfSeq, Zenon
<1>5. ASSUME i + 0 <= Len(p) PROVE InOne(p[i]) <=> Extra(p[i]) = 0
  BY <1>2, <1>4, <1>5, Zenon
<1> QED
  BY <1>1, <1>3, <1>5

\* What is in a row of two bytes.
InTwo(a, b) == a \in 194..223 /\ b \in Tails

\* The rows of two bytes are what the code accepts as such.
LEMMA RowsTwo ==
    ASSUME NEW p \in Seq(Byte), NEW i \in 1..Len(p)
    PROVE  (\E row \in TwoByteRows : Fits(p, i, row))
             <=> i + 1 <= Len(p) /\ Extra(p[i]) = 1 /\ AcceptedTwo(p[i], p[i + 1])
<1>1. Len(p) \in Int /\ i \in Int /\ i <= Len(p)
  OBVIOUS
<1>2. ASSUME NEW a \in Byte, NEW b \in Byte
      PROVE  InTwo(a, b) <=> Extra(a) = 1 /\ AcceptedTwo(a, b)
  <2>1. Extra(a) = 1 <=> a \in 192..223
    BY LeadByte
  <2> QED
    BY <2>1 DEF InTwo, Byte, AcceptedTwo, RangeTwo, Tails
<1>3. (\E row \in TwoByteRows : Fits(p, i, row)) <=> i + 1 <= Len(p) /\ InTwo(p[i], p[i + 1])
  <2>1. Fits(p, i, <<194..223, Tails>>) <=> i + 1 <= Len(p) /\ p[i] \in 194..223 /\ p[i + 1] \in Tails
    BY <1>1, FitsTwo
  <2> QED
    BY <2>1 DEF TwoByteRows, InTwo
<1>4. ASSUME i + 1 <= Len(p) PROVE p[i] \in Byte /\ p[i + 1] \in Byte
  <2>1. i \in 1..Len(p) /\ i + 1 \in 1..Len(p)
    BY <1>1, <1>4
  <2> QED
    BY <2>1, ElementOfSeq, Zenon
<1>5. ASSUME i + 1 <= Len(p)
      PROVE  InTwo(p[i], p[i + 1]) <=> Extra(p[i]) = 1 /\ AcceptedTwo(p[i], p[i + 1])
  BY <1>2, <1>4, <1>5, Zenon
<1> QED
  BY <1>1, <1>3, <1>5

\* What is in a row of three bytes.
InThree(a, b, c) ==
    \/ a \in {224} /\ b \in 160..191 /\ c \in Tails
    \/ a \in 225..236 /\ b \in Tails /\ c \in Tails
    \/ a \in {237} /\ b \in 128..159 /\ c \in Tails
    \/ a \in 238..239 /\ b \in Tails /\ c \in Tails

\* The rows of three bytes are what the code accepts as such.
LEMMA RowsThree ==
    ASSUME NEW p \in Seq(Byte), NEW i \in 1..Len(p)
    PROVE  (\E row \in ThreeByteRows : Fits(p, i, row))
             <=> i + 2 <= Len(p) /\ Extra(p[i]) = 2 /\ AcceptedThree(p[i], p[i + 1], p[i + 2])
<1>1. Len(p) \in Int /\ i \in Int /\ i <= Len(p)
  OBVIOUS
<1>2. ASSUME NEW a \in Byte, NEW b \in Byte, NEW c \in Byte
      PROVE  InThree(a, b, c) <=> Extra(a) = 2 /\ AcceptedThree(a, b, c)
  <2>1. Extra(a) = 2 <=> a \in 224..239
    BY LeadByte
  <2> QED
    BY <2>1 DEF InThree, Byte, AcceptedThree, RangeThree, Tails
<1>3. (\E row \in ThreeByteRows : Fits(p, i, row)) <=> i + 2 <= Len(p)
        /\ InThree(p[i], p[i + 1], p[i + 2])
  <2>1. Fits(p, i, <<{224}, 160..191, Tails>>) <=> i + 2 <= Len(p) /\ p[i] \in {224}
          /\ p[i + 1] \in 160..191 /\ p[i + 2] \in Tails
    BY <1>1, FitsThree
  <2>2. Fits(p, i, <<225..236, Tails, Tails>>) <=> i + 2 <= Len(p) /\ p[i] \in 225..236
          /\ p[i + 1] \in Tails /\ p[i + 2] \in Tails
    BY <1>1, FitsThree
  <2>3. Fits(p, i, <<{237}, 128..159, Tails>>) <=> i + 2 <= Len(p) /\ p[i] \in {237}
          /\ p[i + 1] \in 128..159 /\ p[i + 2] \in Tails
    BY <1>1, FitsThree
  <2>4. Fits(p, i, <<238..239, Tails, Tails>>) <=> i + 2 <= Len(p) /\ p[i] \in 238..239
          /\ p[i + 1] \in Tails /\ p[i + 2] \in Tails
    BY <1>1, FitsThree
  <2> QED
    BY <2>1, <2>2, <2>3, <2>4 DEF ThreeByteRows, InThree
<1>4. ASSUME i + 2 <= Len(p) PROVE p[i] \in Byte /\ p[i + 1] \in Byte /\ p[i + 2] \in Byte
  <2>1. i \in 1..Len(p) /\ i + 1 \in 1..Len(p) /\ i + 2 \in 1..Len(p)
    BY <1>1, <1>4
  <2> QED
    BY <2>1, ElementOfSeq, Zenon
<1>5. ASSUME i + 2 <= Len(p)
      PROVE  InThree(p[i], p[i + 1], p[i + 2]) <=> Extra(p[i]) = 2
               /\ AcceptedThree(p[i], p[i + 1], p[i + 2])
  BY <1>2, <1>4, <1>5, Zenon
<1> QED
  BY <1>1, <1>3, <1>5

\* What is in a row of four bytes.
InFour(a, b, c, d) ==
    \/ a \in {240} /\ b \in 144..191 /\ c \in Tails /\ d \in Tails
    \/ a \in 241..243 /\ b \in Tails /\ c \in Tails /\ d \in Tails
    \/ a \in {244} /\ b \in 128..143 /\ c \in Tails /\ d \in Tails

\* The rows of four bytes are what the code accepts as such.
LEMMA RowsFour ==
    ASSUME NEW p \in Seq(Byte), NEW i \in 1..Len(p)
    PROVE  (\E row \in FourByteRows : Fits(p, i, row))
             <=> i + 3 <= Len(p) /\ Extra(p[i]) = 3
               /\ AcceptedFour(p[i], p[i + 1], p[i + 2], p[i + 3])
<1>1. Len(p) \in Int /\ i \in Int /\ i <= Len(p)
  OBVIOUS
<1>2. ASSUME NEW a \in Byte, NEW b \in Byte, NEW c \in Byte, NEW d \in Byte
      PROVE  InFour(a, b, c, d) <=> Extra(a) = 3 /\ AcceptedFour(a, b, c, d)
  <2>1. Extra(a) = 3 <=> a \in 240..247
    BY LeadByte
  <2> QED
    BY <2>1 DEF InFour, Byte, AcceptedFour, RangeFour, Tails
<1>3. (\E row \in FourByteRows : Fits(p, i, row)) <=> i + 3 <= Len(p)
        /\ InFour(p[i], p[i + 1], p[i + 2], p[i + 3])
  <2>1. Fits(p, i, <<{240}, 144..191, Tails, Tails>>) <=> i + 3 <= Len(p)
          /\ p[i] \in {240} /\ p[i + 1] \in 144..191 /\ p[i + 2] \in Tails
          /\ p[i + 3] \in Tails
    BY <1>1, FitsFour
  <2>2. Fits(p, i, <<241..243, Tails, Tails, Tails>>) <=> i + 3 <= Len(p)
          /\ p[i] \in 241..243 /\ p[i + 1] \in Tails /\ p[i + 2] \in Tails
          /\ p[i + 3] \in Tails
    BY <1>1, FitsFour
  <2>3. Fits(p, i, <<{244}, 128..143, Tails, Tails>>) <=> i + 3 <= Len(p)
          /\ p[i] \in {244} /\ p[i + 1] \in 128..143 /\ p[i + 2] \in Tails
          /\ p[i + 3] \in Tails
    BY <1>1, FitsFour
  <2> QED
    BY <2>1, <2>2, <2>3 DEF FourByteRows, InFour
<1>4. ASSUME i + 3 <= Len(p)
      PROVE  p[i] \in Byte /\ p[i + 1] \in Byte /\ p[i + 2] \in Byte
               /\ p[i + 3] \in Byte
  <2>1. i \in 1..Len(p) /\ i + 1 \in 1..Len(p) /\ i + 2 \in 1..Len(p) /\ i + 3 \in 1..Len(p)
    BY <1>1, <1>4
  <2> QED
    BY <2>1, ElementOfSeq, Zenon
<1>5. ASSUME i + 3 <= Len(p)
      PROVE  InFour(p[i], p[i + 1], p[i + 2], p[i + 3]) <=> Extra(p[i]) = 3
               /\ AcceptedFour(p[i], p[i + 1], p[i + 2], p[i + 3])
  BY <1>2, <1>4, <1>5, Zenon
<1> QED
  BY <1>1, <1>3, <1>5

\* A byte below 128 is in range.
LEMMA OneByte ==
    ASSUME NEW a \in Byte, Extra(a) = 0
    PROVE  InRange(a, 0)
<1>1. a \in 0..127
  BY LeadByte
<1> QED
  BY <1>1 DEF InRange

\* One turn of the loop always accepts a byte below 128.
LEMMA AcceptsOne ==
    ASSUME NEW p \in Seq(Byte), NEW i \in 1..Len(p), Extra(p[i]) = 0
    PROVE  Accepts(p, i)
<1>1. p[i] \in Byte
  BY ElementOfSeq, Zenon
<1>2. InRange(p[i], 0)
  BY <1>1, OneByte, Zenon
<1>3. CodePoint(p, i, 0) = p[i]
  BY DEF CodePoint
<1>4. i + 0 <= Len(p) /\ 1..0 = {} /\ 0 # -1
  OBVIOUS
<1> QED
  BY <1>1, <1>2, <1>3, <1>4, Zenon DEF Accepts

\* One turn of the loop accepts exactly what fits a row, and goes on after it.
LEMMA AcceptsRow ==
    ASSUME NEW p \in Seq(Byte), NEW i \in 1..Len(p)
    PROVE  /\ Accepts(p, i) => \E row \in WellFormedRows : Fits(p, i, row)
           /\ \A row \in WellFormedRows :
                Fits(p, i, row) => Accepts(p, i) /\ Len(row) = Extra(p[i]) + 1
<1>1. p[i] \in Byte
  BY ElementOfSeq, Zenon
<1>2. Accepts(p, i) => \E row \in WellFormedRows : Fits(p, i, row)
  <2> SUFFICES ASSUME Accepts(p, i) PROVE \E row \in WellFormedRows : Fits(p, i, row)
    OBVIOUS
  <2>1. Extra(p[i]) = 0 \/ Extra(p[i]) = 1 \/ Extra(p[i]) = 2 \/ Extra(p[i]) = 3
    <3>1. Extra(p[i]) # -1
      BY Zenon DEF Accepts
    <3> QED
      BY <1>1, <3>1, LeadByte
  <2>2. CASE Extra(p[i]) = 0
    BY <2>2, RowsOne, RowsByLength, Zenon
  <2>3. CASE Extra(p[i]) = 1
    BY <2>3, AcceptsTwo, RowsTwo, RowsByLength, Zenon
  <2>4. CASE Extra(p[i]) = 2
    BY <2>4, AcceptsThree, RowsThree, RowsByLength, Zenon
  <2>5. CASE Extra(p[i]) = 3
    BY <2>5, AcceptsFour, RowsFour, RowsByLength, Zenon
  <2> QED
    BY <2>1, <2>2, <2>3, <2>4, <2>5, Zenon
<1>3. ASSUME NEW row \in WellFormedRows, Fits(p, i, row)
      PROVE  Accepts(p, i) /\ Len(row) = Extra(p[i]) + 1
  <2>0. 0 + 1 = 1 /\ 1 + 1 = 2 /\ 2 + 1 = 3 /\ 3 + 1 = 4
    OBVIOUS
  <2>1. CASE row \in OneByteRows
    <3>1. Extra(p[i]) = 0
      BY <1>3, <2>1, RowsOne, Zenon
    <3> QED
      BY <2>0, <2>1, <3>1, AcceptsOne, RowsByLength, Zenon
  <2>2. CASE row \in TwoByteRows
    <3>1. i + 1 <= Len(p) /\ Extra(p[i]) = 1 /\ AcceptedTwo(p[i], p[i + 1])
      BY <1>3, <2>2, RowsTwo, Zenon
    <3> QED
      BY <2>0, <2>2, <3>1, AcceptsTwo, RowsByLength, Zenon
  <2>3. CASE row \in ThreeByteRows
    <3>1. /\ i + 2 <= Len(p) /\ Extra(p[i]) = 2
          /\ AcceptedThree(p[i], p[i + 1], p[i + 2])
      BY <1>3, <2>3, RowsThree, Zenon
    <3> QED
      BY <2>0, <2>3, <3>1, AcceptsThree, RowsByLength, Zenon
  <2>4. CASE row \in FourByteRows
    <3>1. /\ i + 3 <= Len(p) /\ Extra(p[i]) = 3
          /\ AcceptedFour(p[i], p[i + 1], p[i + 2], p[i + 3])
      BY <1>3, <2>4, RowsFour, Zenon
    <3> QED
      BY <2>0, <2>4, <3>1, AcceptsFour, RowsByLength, Zenon
  <2> QED
    BY <2>1, <2>2, <2>3, <2>4, RowsByLength, Zenon
<1> QED
  BY <1>2, <1>3, Zenon

\* From every place on, the loop returns whether the rest is well formed.
LEMMA Utf8Correct ==
    ASSUME NEW p \in Seq(Byte)
    PROVE  is_valid_utf8(p) = WellFormed(p)
<1> DEFINE n == Len(p) + 1
           S == {i \in 1..n : ValidFrom(p)[i] = WellFormedFrom(p)[i]}
<1>0. Len(p) \in Nat
  OBVIOUS
<1>1. ASSUME NEW i \in 1..n, \A j \in (i + 1)..n : j \in S PROVE i \in S
  <2>1. CASE i <= Len(p)
    <3>1. i \in 1..Len(p)
      BY <2>1
    <3>2. ASSUME Accepts(p, i)
          PROVE  ValidFrom(p)[i + Extra(p[i]) + 1] = WellFormedFrom(p)[i + Extra(p[i]) + 1]
      BY <1>0, <1>1, <3>1, <3>2, AcceptsWithin, Zenon
    <3>3. ASSUME NEW row \in WellFormedRows, Fits(p, i, row)
          PROVE  Accepts(p, i) /\ i + Len(row) = i + Extra(p[i]) + 1
      <4>1. Accepts(p, i) /\ Len(row) = Extra(p[i]) + 1
        BY <3>1, <3>3, AcceptsRow, Zenon
      <4>2. Extra(p[i]) \in 0..3
        BY <1>0, <3>1, <4>1, AcceptsWithin, Zenon
      <4> QED
        BY <4>1, <4>2
    <3>4. ValidFrom(p)[i] = (Accepts(p, i) /\ ValidFrom(p)[i + Extra(p[i]) + 1])
      BY <1>0, <2>1, ValidEquation, Zenon
    <3>5. WellFormedFrom(p)[i] =
            (\E row \in WellFormedRows : Fits(p, i, row) /\ WellFormedFrom(p)[i + Len(row)])
      BY <1>0, <2>1, WellFormedEquation, Zenon
    <3>6. Accepts(p, i) => \E row \in WellFormedRows : Fits(p, i, row)
      BY <3>1, AcceptsRow, Zenon
    <3> QED
      BY <3>2, <3>3, <3>4, <3>5, <3>6, Zenon
  <2>2. CASE ~(i <= Len(p))
    BY <1>0, <2>2, ValidEquation, WellFormedEquation, Zenon
  <2> QED
    BY <2>1, <2>2, Zenon
<1>2. n \in Int /\ 1 \in Int /\ 1 \in 1..n
  BY <1>0
<1> HIDE DEF n, S
<1>3. 1 \in S
  BY <1>1, <1>2, DownInduction, Zenon
<1> QED
  BY <1>3, Zenon DEF S, is_valid_utf8, WellFormed

-----------------------------------------------------------------------------
(* validate_properties *)

\* The loop over the properties, as an equation.
LEMMA ErrorEquation ==
    ASSUME NEW ps, Len(ps) \in Nat
    PROVE  \A i \in 1..(Len(ps) + 1) :
             ErrorFrom(ps)[i] =
               IF i > Len(ps) THEN "Ok"
               ELSE IF PropertyError(ps, i) # "Ok" THEN PropertyError(ps, i)
               ELSE ErrorFrom(ps)[i + 1]
<1> DEFINE m == 1
           n == Len(ps) + 1
           D == m..n
           V == {"Ok"} \cup {PropertyError(ps, i) : i \in 1..Len(ps)}
           Body(f, i) ==
             IF i > Len(ps) THEN "Ok"
             ELSE IF PropertyError(ps, i) # "Ok" THEN PropertyError(ps, i)
             ELSE f[i + 1]
           F == [x \in D \X [D -> V] |-> Body(x[2], x[1])]
           Solves(f) == f = [i \in D |-> Body(f, i)]
<1>1. n \in Int /\ m \in Int
  OBVIOUS
<1>2. ASSUME NEW i \in D, NEW f \in [D -> V] PROVE Body(f, i) \in V
  <2>1. i > Len(ps) \/ (i \in 1..Len(ps) /\ i + 1 \in D)
    OBVIOUS
  <2> QED
    BY <1>2, <2>1, Zenon
<1>3. ASSUME NEW i \in D, NEW f \in [D -> V], NEW g \in [D -> V],
             \A j \in (i + 1)..n : f[j] = g[j]
      PROVE  Body(f, i) = Body(g, i)
  <2>1. i > Len(ps) \/ i + 1 \in (i + 1)..n
    OBVIOUS
  <2> QED
    BY <1>3, <2>1, Zenon
<1>v. V # {}
  BY Zenon
<1> HIDE DEF Body, D, m, n, V
<1>4. /\ F \in [D \X [D -> V] -> V]
      /\ \A i \in D : \A f \in [D -> V] : F[<<i, f>>] = Body(f, i)
  BY <1>2, Zenon
<1> HIDE DEF F
<1>5. LooksAfter(m, n, V, F)
  <2>1. \A i \in D : \A f, g \in [D -> V] :
          (\A j \in (i + 1)..n : f[j] = g[j]) => F[<<i, f>>] = F[<<i, g>>]
    <3> SUFFICES ASSUME NEW i \in D, NEW f \in [D -> V], NEW g \in [D -> V],
                        \A j \in (i + 1)..n : f[j] = g[j]
                 PROVE  F[<<i, f>>] = F[<<i, g>>]
      BY Zenon
    <3>1. Body(f, i) = Body(g, i)
      BY <1>3, Zenon
    <3> QED
      BY <1>4, <3>1, Zenon
  <2> QED
    BY <1>4, <1>v, <2>1, Zenon DEF LooksAfter, D
<1>6. Defined(D, V, F)
  BY <1>1, <1>5, DownRecursion, Zenon DEF D
<1>7. PICK f \in [D -> V] : \A i \in D : f[i] = F[<<i, f>>]
  BY <1>6, Zenon DEF Defined
<1>8. Solves(f)
  <2>1. \A i \in D : f[i] = Body(f, i)
    BY <1>4, <1>7, Zenon
  <2> QED
    BY <1>7, <2>1, Zenon
<1>9. ErrorFrom(ps) = CHOOSE g : Solves(g)
  BY Zenon DEF ErrorFrom, Body, D, m, n
<1>10. Solves(ErrorFrom(ps))
  BY <1>8, <1>9, Zenon
<1> QED
  BY <1>10, Zenon DEF Body, D, m, n

\* The loop returns Ok if no property has an error, and else the error of one.
LEMMA FirstError ==
    ASSUME NEW ps, Len(ps) \in Nat
    PROVE  /\ ErrorFrom(ps)[1] = "Ok" <=> \A k \in 1..Len(ps) : PropertyError(ps, k) = "Ok"
           /\ ErrorFrom(ps)[1] # "Ok" =>
                \E k \in 1..Len(ps) : ErrorFrom(ps)[1] = PropertyError(ps, k)
<1> DEFINE n == Len(ps) + 1
           E == ErrorFrom(ps)
           Error(k) == PropertyError(ps, k)
           S == {i \in 1..n :
                   \/ E[i] = "Ok" /\ \A k \in i..Len(ps) : Error(k) = "Ok"
                   \/ E[i] # "Ok" /\ \E k \in i..Len(ps) : Error(k) # "Ok" /\ E[i] = Error(k)}
<1>1. ASSUME NEW i \in 1..n, \A j \in (i + 1)..n : j \in S PROVE i \in S
  <2>0. E[i] = IF i > Len(ps) THEN "Ok" ELSE IF Error(i) # "Ok" THEN Error(i) ELSE E[i + 1]
    BY ErrorEquation, Zenon
  <2> HIDE DEF E, Error
  <2>1. CASE i > Len(ps)
    <3>1. i..Len(ps) = {}
      BY <2>1
    <3> QED
      BY <2>0, <2>1, <3>1, Zenon
  <2>2. CASE ~(i > Len(ps)) /\ Error(i) # "Ok"
    <3>1. i \in i..Len(ps)
      BY <2>2
    <3> QED
      BY <2>0, <2>2, <3>1, Zenon
  <2>3. CASE ~(i > Len(ps)) /\ Error(i) = "Ok"
    <3>1. i + 1 \in (i + 1)..n /\ i \in i..Len(ps)
      BY <2>3
    <3>2. /\ \A k \in (i + 1)..Len(ps) : k \in i..Len(ps)
          /\ \A k \in i..Len(ps) : k = i \/ k \in (i + 1)..Len(ps)
      BY <2>3
    <3>3. E[i] = E[i + 1]
      BY <2>0, <2>3, Zenon
    <3>4. i + 1 \in S
      BY <1>1, <3>1, Zenon
    <3>5. CASE E[i + 1] = "Ok"
      BY <2>3, <3>2, <3>3, <3>4, <3>5, Zenon
    <3>6. CASE E[i + 1] # "Ok"
      BY <3>2, <3>3, <3>4, <3>6, Zenon
    <3> QED
      BY <3>5, <3>6, Zenon
  <2> QED
    BY <2>1, <2>2, <2>3, Zenon
<1>2. n \in Int /\ 1 \in Int /\ 1 \in 1..n
  OBVIOUS
<1>3. 1 \in S
  <2> HIDE DEF S, n
  <2> QED
    BY <1>1, <1>2, DownInduction, Zenon
<1> QED
  BY <1>3, Zenon

\* There are fewer keys than properties if and only if a key occurs twice.
LEMMA FewerKeys ==
    ASSUME NEW S, NEW ps \in Seq(S)
    PROVE  Cardinality({ps[i].key : i \in DOMAIN ps}) < Len(ps)
             <=> \E i \in 1..Len(ps) : \E k \in 1..(i - 1) : ps[k].key = ps[i].key
<1> DEFINE D == 1..Len(ps)
           K == {ps[i].key : i \in D}
           f == [i \in D |-> ps[i].key]
<1>1. Len(ps) \in Nat /\ DOMAIN ps = D
  BY LenProperties
<1>2. f \in Surjection(D, K)
  BY Zenon DEF Surjection
<1>3. IsFiniteSet(D) /\ Cardinality(D) = Len(ps)
  <2>1. IsFiniteSet(D) /\ Cardinality(D) = IF 1 > Len(ps) THEN 0 ELSE Len(ps) - 1 + 1
    BY <1>1, FS_Interval
  <2> QED
    BY <1>1, <2>1
<1>4. /\ IsFiniteSet(K)
      /\ Cardinality(K) <= Cardinality(D)
      /\ Cardinality(K) = Cardinality(D) <=> f \in Injection(D, K)
  <2> HIDE DEF D, K, f
  <2> QED
    BY <1>2, <1>3, FS_Surjection, Zenon
<1>5. f \in Injection(D, K) <=> \A i, k \in D : ps[i].key = ps[k].key => i = k
  <2>1. f \in [D -> K] /\ DOMAIN f = D
    BY Zenon
  <2>2. IsInjective(f) <=> \A i, k \in D : f[i] = f[k] => i = k
    BY <2>1, Zenon DEF IsInjective
  <2>3. \A i \in D : f[i] = ps[i].key
    BY Zenon
  <2> HIDE DEF f
  <2>4. IsInjective(f) <=> \A i, k \in D : ps[i].key = ps[k].key => i = k
    BY <2>2, <2>3, Zenon
  <2> QED
    BY <2>1, <2>4, Zenon DEF Injection
<1>6. (\E i, k \in D : ps[i].key = ps[k].key /\ i # k)
        <=> \E i \in D : \E k \in 1..(i - 1) : ps[k].key = ps[i].key
  <2>1. \A i \in D : \A k \in 1..(i - 1) : k \in D /\ i # k
    BY <1>1
  <2>2. \A i, k \in D : i # k => i \in 1..(k - 1) \/ k \in 1..(i - 1)
    BY <1>1
  <2> QED
    BY <2>1, <2>2, Zenon
<1>7. Cardinality(K) < Len(ps) <=> ~(f \in Injection(D, K))
  <2>1. Cardinality(K) \in Nat
    BY <1>4, FS_CardinalityType, Zenon
  <2>2. \A a, b \in Nat : a <= b => (a < b <=> a # b)
    OBVIOUS
  <2> QED
    BY <1>1, <1>3, <1>4, <2>1, <2>2, Zenon
<1> QED
  BY <1>1, <1>5, <1>6, <1>7, Zenon

\* What a property must be for the loop to go on, and what its error says.
LEMMA ErrorOf ==
    ASSUME NEW ps \in Seq(Property), NEW i \in 1..Len(ps)
    PROVE  /\ PropertyError(ps, i) = "Ok" <=>
                /\ ps[i].key \notin {"bad", "pt_reserved"}
                /\ ~\E k \in 1..(i - 1) : ps[k].key = ps[i].key
                /\ ps[i].value # "long" /\ ps[i].value # "broken"
           /\ PropertyError(ps, i) = "DuplicateKey" =>
                \E k \in 1..(i - 1) : ps[k].key = ps[i].key
           /\ PropertyError(ps, i) = "ReservedKey" => ps[i].key = "pt_reserved"
           /\ PropertyError(ps, i) = "ValueTooLarge" => ps[i].value = "long"
           /\ PropertyError(ps, i) = "InvalidProperty" =>
                ps[i].key = "bad" \/ ps[i].value = "broken"
           /\ PropertyError(ps, i) # "TooManyProperties"
<1>1. ps[i] \in Property
  BY ElementOfSeq, Zenon
<1>2. ps[i].value \in {"fine", "long", "broken"}
  BY <1>1 DEF Property, ValueError
<1>3. PICK dup \in BOOLEAN : dup = \E k \in 1..(i - 1) : ps[k].key = ps[i].key
  BY Zenon
<1>4. PropertyError(ps, i) =
        IF ps[i].key = "bad" THEN "InvalidProperty"
        ELSE IF ps[i].key = "pt_reserved" THEN "ReservedKey"
        ELSE IF dup THEN "DuplicateKey"
        ELSE ValueError[ps[i].value]
  BY <1>3, Zenon DEF PropertyError, KeyIsValid, is_reserved_key
<1>5. /\ ValueError["fine"] = "Ok"
      /\ ValueError["long"] = "ValueTooLarge"
      /\ ValueError["broken"] = "InvalidProperty"
  BY DEF ValueError
<1>6. PICK key, value, code : key = ps[i].key /\ value = ps[i].value /\ code = PropertyError(ps, i)
  BY Zenon
<1>7. /\ code = "Ok" <=>
           key \notin {"bad", "pt_reserved"} /\ ~dup /\ value # "long" /\ value # "broken"
      /\ code = "DuplicateKey" => dup
      /\ code = "ReservedKey" => key = "pt_reserved"
      /\ code = "ValueTooLarge" => value = "long"
      /\ code = "InvalidProperty" => key = "bad" \/ value = "broken"
      /\ code # "TooManyProperties"
  BY <1>2, <1>4, <1>5, <1>6
<1> QED
  BY <1>3, <1>6, <1>7, Zenon

-----------------------------------------------------------------------------
(* strip_sql_noise *)

\* FirstAt is the least of the places, if there is one.
LEMMA FirstAtIs ==
    ASSUME NEW s, Len(s) \in Nat, NEW P \in SUBSET (1..Len(s))
    PROVE  /\ FirstAt(s, P) \in 1..(Len(s) + 1)
           /\ FirstAt(s, P) \in P \/ (FirstAt(s, P) = Len(s) + 1 /\ P = {})
           /\ \A j \in P : FirstAt(s, P) <= j
<1> DEFINE T == P \cup {Len(s) + 1}
<1>1. T \in SUBSET Nat /\ T # {} /\ \A j \in T : j \in 1..(Len(s) + 1)
  <2>1. \A j \in 1..Len(s) : j \in Nat /\ j \in 1..(Len(s) + 1)
    OBVIOUS
  <2>2. Len(s) + 1 \in Nat /\ Len(s) + 1 \in 1..(Len(s) + 1)
    OBVIOUS
  <2> QED
    BY <2>1, <2>2, Zenon
<1> HIDE DEF T
<1>2. \E m \in T : \A j \in T : m <= j
  BY <1>1, LeastOf, Zenon
<1>3. Min(T) \in T /\ \A j \in T : Min(T) <= j
  BY <1>2, Zenon DEF Min
<1>4. FirstAt(s, P) = Min(T)
  BY Zenon DEF FirstAt, T
<1>5. PICK m : m = FirstAt(s, P)
  OBVIOUS
<1>6. m \in T /\ \A j \in T : m <= j
  BY <1>3, <1>4, <1>5, Zenon
<1>7. m \in 1..(Len(s) + 1)
  BY <1>1, <1>6, Zenon
<1>8. m \in P \/ (m = Len(s) + 1 /\ P = {})
  <2>1. \A j \in P : ~(Len(s) + 1 <= j)
    OBVIOUS
  <2> QED
    BY <1>6, <2>1, Zenon DEF T
<1>9. \A j \in P : m <= j
  BY <1>6, Zenon DEF T
<1> QED
  BY <1>5, <1>7, <1>8, <1>9, Zenon

\* What closes the quoted region at this place.
CloseOf(s, at) == IF s[at] = "[" THEN "]" ELSE s[at]

\* The scan of a quoted region, as an equation.
LEMMA SkipEquation ==
    ASSUME NEW s, Len(s) \in Nat, NEW at
    PROVE  \A i \in 1..(Len(s) + 1) :
             SkipQuoted(s, at)[i] =
               IF i > Len(s) THEN i
               ELSE IF s[i] # CloseOf(s, at) THEN SkipQuoted(s, at)[i + 1]
               ELSE IF s[at] # "[" /\ Is(s, i + 1, CloseOf(s, at))
                 THEN SkipQuoted(s, at)[i + 2]
               ELSE i + 1
<1> DEFINE m == 1
           n == Len(s) + 1
           D == m..n
           V == Nat
           Body(f, i) ==
             IF i > Len(s) THEN i
             ELSE IF s[i] # CloseOf(s, at) THEN f[i + 1]
             ELSE IF s[at] # "[" /\ Is(s, i + 1, CloseOf(s, at)) THEN f[i + 2]
             ELSE i + 1
           F == [x \in D \X [D -> V] |-> Body(x[2], x[1])]
           Solves(f) == f = [i \in D |-> Body(f, i)]
<1>1. n \in Int /\ m \in Int
  OBVIOUS
<1>2. ASSUME NEW i \in D, NEW f \in [D -> V] PROVE Body(f, i) \in V
  <2>1. i \in Nat /\ i + 1 \in Nat /\ (i > Len(s) \/ i + 1 \in D)
    OBVIOUS
  <2>2. Is(s, i + 1, CloseOf(s, at)) => i + 2 \in D
    BY DEF Is
  <2> QED
    BY <1>2, <2>1, <2>2, Zenon
<1>3. ASSUME NEW i \in D, NEW f \in [D -> V], NEW g \in [D -> V],
             \A j \in (i + 1)..n : f[j] = g[j]
      PROVE  Body(f, i) = Body(g, i)
  <2>1. i > Len(s) \/ i + 1 \in (i + 1)..n
    OBVIOUS
  <2>2. Is(s, i + 1, CloseOf(s, at)) => i + 2 \in (i + 1)..n
    BY DEF Is
  <2> QED
    BY <1>3, <2>1, <2>2, Zenon
<1>v. V # {}
  BY 0 \in Nat, Zenon
<1> HIDE DEF Body, D, m, n, V
<1>4. /\ F \in [D \X [D -> V] -> V]
      /\ \A i \in D : \A f \in [D -> V] : F[<<i, f>>] = Body(f, i)
  BY <1>2, Zenon
<1> HIDE DEF F
<1>5. LooksAfter(m, n, V, F)
  <2>1. \A i \in D : \A f, g \in [D -> V] :
          (\A j \in (i + 1)..n : f[j] = g[j]) => F[<<i, f>>] = F[<<i, g>>]
    <3> SUFFICES ASSUME NEW i \in D, NEW f \in [D -> V], NEW g \in [D -> V],
                        \A j \in (i + 1)..n : f[j] = g[j]
                 PROVE  F[<<i, f>>] = F[<<i, g>>]
      BY Zenon
    <3>1. Body(f, i) = Body(g, i)
      BY <1>3, Zenon
    <3> QED
      BY <1>4, <3>1, Zenon
  <2> QED
    BY <1>4, <1>v, <2>1, Zenon DEF LooksAfter, D
<1>6. Defined(D, V, F)
  BY <1>1, <1>5, DownRecursion, Zenon DEF D
<1>7. PICK f \in [D -> V] : \A i \in D : f[i] = F[<<i, f>>]
  BY <1>6, Zenon DEF Defined
<1>8. Solves(f)
  <2>1. \A i \in D : f[i] = Body(f, i)
    BY <1>4, <1>7, Zenon
  <2> QED
    BY <1>7, <2>1, Zenon
<1>9. SkipQuoted(s, at) = CHOOSE g : Solves(g)
  BY Zenon DEF SkipQuoted, CloseOf, Body, D, m, n
<1>10. Solves(SkipQuoted(s, at))
  BY <1>8, <1>9, Zenon
<1> QED
  BY <1>10, Zenon DEF Body, D, m, n

\* The scan never goes back, nor beyond the end.
LEMMA SkipWithin ==
    ASSUME NEW s, Len(s) \in Nat, NEW at
    PROVE  \A i \in 1..(Len(s) + 1) : SkipQuoted(s, at)[i] \in i..(Len(s) + 1)
<1> DEFINE n == Len(s) + 1
           K == SkipQuoted(s, at)
           S == {i \in 1..n : K[i] \in i..n}
<1>1. ASSUME NEW i \in 1..n, \A j \in (i + 1)..n : j \in S PROVE i \in S
  <2>1. /\ i > Len(s) => K[i] = i
        /\ K[i] = i \/ K[i] = K[i + 1] \/ K[i] = i + 1
             \/ (Is(s, i + 1, CloseOf(s, at)) /\ K[i] = K[i + 2])
    <3>1. PICK close : close = CloseOf(s, at)
      OBVIOUS
    <3>2. K[i] = IF i > Len(s) THEN i
                 ELSE IF s[i] # close THEN K[i + 1]
                 ELSE IF s[at] # "[" /\ Is(s, i + 1, close) THEN K[i + 2]
                 ELSE i + 1
      BY <3>1, SkipEquation, Zenon
    <3> HIDE DEF K
    <3> QED
      BY <3>1, <3>2
  <2>2. CASE i > Len(s)
    <3>1. i \in i..n
      BY <2>2
    <3> QED
      BY <2>1, <2>2, <3>1, Zenon
  <2>3. CASE ~(i > Len(s))
    <3>1. i \in i..n /\ i + 1 \in i..n /\ i + 1 \in (i + 1)..n
      BY <2>3
    <3>2. Is(s, i + 1, CloseOf(s, at)) => i + 2 \in (i + 1)..n
      BY <2>3 DEF Is
    <3>3. (i + 1)..n \subseteq i..n /\ (i + 2)..n \subseteq i..n
      BY <2>3
    <3> QED
      BY <1>1, <2>1, <3>1, <3>2, <3>3, Zenon
  <2> QED
    BY <2>2, <2>3, Zenon
<1>2. n \in Int /\ 1 \in Int
  OBVIOUS
<1>3. \A i \in 1..n : i \in S
  <2> HIDE DEF S, n
  <2> QED
    BY <1>1, <1>2, DownInduction, Zenon
<1> QED
  BY <1>3, Zenon

\* Where the scan goes on is always a later place.
LEMMA ScanWithin ==
    ASSUME NEW s, Len(s) \in Nat, NEW i \in 1..Len(s)
    PROVE  LET after == (i + 1)..(Len(s) + 3)
           IN  /\ i + 1 \in after
               /\ s[i] = "-" => AfterLine(s, i) \in after
               /\ AfterBlock(s, i) \in after
               /\ AfterQuoted(s, i) \in after
<1> DEFINE n == Len(s)
           L == {j \in i..n : s[j] = "newline"}
           B == {j \in (i + 2)..n : s[j] = "*" /\ Is(s, j + 1, "/")}
<1>1. L \in SUBSET (1..n) /\ B \in SUBSET (1..n)
  OBVIOUS
<1>2. ASSUME s[i] = "-" PROVE AfterLine(s, i) \in (i + 1)..(n + 3)
  <2>1. /\ AfterLine(s, i) \in 1..(n + 1)
        /\ AfterLine(s, i) \in L \/ AfterLine(s, i) = n + 1
    BY <1>1, FirstAtIs, Zenon DEF AfterLine
  <2>2. AfterLine(s, i) \in L => AfterLine(s, i) \in i..n /\ AfterLine(s, i) # i
    BY <1>2
  <2> HIDE DEF L
  <2> QED
    BY <2>1, <2>2
<1>3. AfterBlock(s, i) \in (i + 1)..(n + 3)
  <2>1. PICK m : m = FirstAt(s, B)
    BY Zenon
  <2>2. m \in 1..(n + 1) /\ (m \in B \/ m = n + 1)
    BY <1>1, <2>1, FirstAtIs, Zenon
  <2>3. AfterBlock(s, i) = m + 2
    BY <2>1, Zenon DEF AfterBlock
  <2>4. m \in B => m \in (i + 2)..n
    OBVIOUS
  <2> HIDE DEF B
  <2> QED
    BY <2>2, <2>3, <2>4
<1>4. AfterQuoted(s, i) \in (i + 1)..(n + 3)
  <2>1. i + 1 \in 1..(n + 1)
    OBVIOUS
  <2>2. AfterQuoted(s, i) \in (i + 1)..(n + 1)
    BY <2>1, SkipWithin, Zenon DEF AfterQuoted
  <2>3. (i + 1)..(n + 1) \subseteq (i + 1)..(n + 3)
    OBVIOUS
  <2> QED
    BY <2>2, <2>3, Zenon
<1>5. i + 1 \in (i + 1)..(n + 3)
  OBVIOUS
<1> QED
  BY <1>2, <1>3, <1>4, <1>5, Zenon

\* The scan of the text, as an equation.
LEMMA KeptEquation ==
    ASSUME NEW s, Len(s) \in Nat
    PROVE  \A i \in 1..(Len(s) + 3) :
             KeptFrom(s)[i] =
               IF i > Len(s) THEN {}
               ELSE IF s[i] = "-" /\ Is(s, i + 1, "-") THEN KeptFrom(s)[AfterLine(s, i)]
               ELSE IF s[i] = "/" /\ Is(s, i + 1, "*") THEN KeptFrom(s)[AfterBlock(s, i)]
               ELSE IF s[i] \in Quotes \cup {"["} THEN KeptFrom(s)[AfterQuoted(s, i)]
               ELSE {i} \cup KeptFrom(s)[i + 1]
<1> DEFINE m == 1
           n == Len(s) + 3
           D == m..n
           V == SUBSET (1..Len(s))
           Body(f, i) ==
             IF i > Len(s) THEN {}
             ELSE IF s[i] = "-" /\ Is(s, i + 1, "-") THEN f[AfterLine(s, i)]
             ELSE IF s[i] = "/" /\ Is(s, i + 1, "*") THEN f[AfterBlock(s, i)]
             ELSE IF s[i] \in Quotes \cup {"["} THEN f[AfterQuoted(s, i)]
             ELSE {i} \cup f[i + 1]
           F == [x \in D \X [D -> V] |-> Body(x[2], x[1])]
           Solves(f) == f = [i \in D |-> Body(f, i)]
<1>1. n \in Int /\ m \in Int
  OBVIOUS
<1>2. ASSUME NEW i \in D, NEW f \in [D -> V] PROVE Body(f, i) \in V
  <2>1. CASE i > Len(s)
    BY <2>1, Zenon
  <2>2. CASE ~(i > Len(s))
    <3>1. i \in 1..Len(s) /\ \A j \in (i + 1)..n : j \in D
      BY <2>2
    <3>2. f[i + 1] \in V
      BY <1>2, <3>1, ScanWithin, Zenon
    <3>3. {i} \cup f[i + 1] \in V
      BY <3>1, <3>2, Zenon
    <3>4. s[i] = "-" => f[AfterLine(s, i)] \in V
      BY <1>2, <3>1, ScanWithin, Zenon
    <3>5. f[AfterBlock(s, i)] \in V /\ f[AfterQuoted(s, i)] \in V
      BY <1>2, <3>1, ScanWithin, Zenon
    <3> HIDE DEF V
    <3> QED
      BY <2>2, <3>3, <3>4, <3>5, Zenon
  <2> QED
    BY <2>1, <2>2, Zenon
<1>3. ASSUME NEW i \in D, NEW f \in [D -> V], NEW g \in [D -> V],
             \A j \in (i + 1)..n : f[j] = g[j]
      PROVE  Body(f, i) = Body(g, i)
  <2>1. i > Len(s) \/ i \in 1..Len(s)
    OBVIOUS
  <2>2. i \in 1..Len(s) =>
          /\ f[i + 1] = g[i + 1]
          /\ s[i] = "-" => f[AfterLine(s, i)] = g[AfterLine(s, i)]
          /\ f[AfterBlock(s, i)] = g[AfterBlock(s, i)]
          /\ f[AfterQuoted(s, i)] = g[AfterQuoted(s, i)]
    BY <1>3, ScanWithin, Zenon
  <2> QED
    BY <2>1, <2>2, Zenon
<1>v. V # {}
  BY Zenon
<1> HIDE DEF Body, D, m, n, V
<1>4. /\ F \in [D \X [D -> V] -> V]
      /\ \A i \in D : \A f \in [D -> V] : F[<<i, f>>] = Body(f, i)
  BY <1>2, Zenon
<1> HIDE DEF F
<1>5. LooksAfter(m, n, V, F)
  <2>1. \A i \in D : \A f, g \in [D -> V] :
          (\A j \in (i + 1)..n : f[j] = g[j]) => F[<<i, f>>] = F[<<i, g>>]
    <3> SUFFICES ASSUME NEW i \in D, NEW f \in [D -> V], NEW g \in [D -> V],
                        \A j \in (i + 1)..n : f[j] = g[j]
                 PROVE  F[<<i, f>>] = F[<<i, g>>]
      BY Zenon
    <3>1. Body(f, i) = Body(g, i)
      BY <1>3, Zenon
    <3> QED
      BY <1>4, <3>1, Zenon
  <2> QED
    BY <1>4, <1>v, <2>1, Zenon DEF LooksAfter, D
<1>6. Defined(D, V, F)
  BY <1>1, <1>5, DownRecursion, Zenon DEF D
<1>7. PICK f \in [D -> V] : \A i \in D : f[i] = F[<<i, f>>]
  BY <1>6, Zenon DEF Defined
<1>8. Solves(f)
  <2>1. \A i \in D : f[i] = Body(f, i)
    BY <1>4, <1>7, Zenon
  <2> QED
    BY <1>7, <2>1, Zenon
<1>9. KeptFrom(s) = CHOOSE g : Solves(g)
  BY Zenon DEF KeptFrom, Body, D, m, n
<1>10. Solves(KeptFrom(s))
  BY <1>8, <1>9, Zenon
<1> QED
  BY <1>10, Zenon DEF Body, D, m, n

\* Where the automaton is after a symbol that it reads afresh.
LEMMA OpensTo ==
    /\ Opens("-") = <<"dash">> /\ Opens("/") = <<"slash">>
    /\ Opens("[") = <<"bracket">> /\ Opens("newline") = <<"code">>
    /\ \A c \in Quotes : Opens(c) = <<"quoted", c>>
    /\ \A c : c \notin Quotes \cup {"-", "/", "["} => Opens(c) = <<"code">>
BY DEF Opens, Quotes

\* What each mode makes of a symbol.
LEMMA StepFrom ==
    ASSUME NEW c
    PROVE  /\ Step(<<"code">>, c) = Opens(c)
           /\ Step(<<"ended">>, c) = Opens(c)
           /\ Step(<<"dash">>, c) = IF c = "-" THEN <<"line">> ELSE Opens(c)
           /\ Step(<<"slash">>, c) = IF c = "*" THEN <<"block">> ELSE Opens(c)
           /\ Step(<<"line">>, c) = IF c = "newline" THEN <<"code">> ELSE <<"line">>
           /\ Step(<<"block">>, c) = IF c = "*" THEN <<"star">> ELSE <<"block">>
           /\ Step(<<"star">>, c) = IF c = "/" THEN <<"ended">>
                                    ELSE IF c = "*" THEN <<"star">> ELSE <<"block">>
           /\ Step(<<"bracket">>, c) = IF c = "]" THEN <<"ended">> ELSE <<"bracket">>
           /\ \A q : Step(<<"quoted", q>>, c) =
                       IF c = q THEN <<"closed", q>> ELSE <<"quoted", q>>
           /\ \A q : Step(<<"closed", q>>, c) =
                       IF c = q THEN <<"quoted", q>> ELSE Opens(c)
BY DEF Step

Mode == {<<"code">>, <<"ended">>, <<"dash">>, <<"slash">>, <<"line">>, <<"block">>,
         <<"star">>, <<"bracket">>}
        \cup {<<"quoted", q>> : q \in Quotes} \cup {<<"closed", q>> : q \in Quotes}

\* The automaton stays among its modes.
LEMMA StepInMode ==
    ASSUME NEW mode \in Mode, NEW c
    PROVE  Step(mode, c) \in Mode
<1>1. Opens(c) \in Mode
  <2>1. c \in Quotes \/ c \in {"-", "/", "["} \/ c \notin Quotes \cup {"-", "/", "["}
    BY Zenon
  <2> QED
    BY <2>1, OpensTo, Zenon DEF Mode
<1>2. <<"code">> \in Mode /\ <<"ended">> \in Mode /\ <<"line">> \in Mode
      /\ <<"block">> \in Mode /\ <<"star">> \in Mode /\ <<"bracket">> \in Mode
      /\ \A q \in Quotes : <<"quoted", q>> \in Mode /\ <<"closed", q>> \in Mode
  BY Zenon DEF Mode
<1>3. CASE \E q \in Quotes : mode = <<"quoted", q>> \/ mode = <<"closed", q>>
  <2>1. PICK q \in Quotes : mode = <<"quoted", q>> \/ mode = <<"closed", q>>
    BY <1>3, Zenon
  <2>2. CASE mode = <<"quoted", q>>
    <3>1. Step(mode, c) = IF c = q THEN <<"closed", q>> ELSE <<"quoted", q>>
      BY <2>2, StepFrom, Zenon
    <3> QED
      BY <1>2, <3>1, Zenon
  <2>3. CASE mode = <<"closed", q>>
    <3>1. Step(mode, c) = IF c = q THEN <<"quoted", q>> ELSE Opens(c)
      BY <2>3, StepFrom, Zenon
    <3> QED
      BY <1>1, <1>2, <3>1, Zenon
  <2> QED
    BY <2>1, <2>2, <2>3, Zenon
<1>4. CASE mode \in {<<"code">>, <<"ended">>, <<"dash">>, <<"slash">>, <<"line">>,
                     <<"block">>, <<"star">>, <<"bracket">>}
  <2>1. CASE mode = <<"code">>
    BY <1>1, <1>2, <2>1, StepFrom, Zenon
  <2>2. CASE mode = <<"ended">>
    BY <1>1, <1>2, <2>2, StepFrom, Zenon
  <2>3. CASE mode = <<"dash">>
    BY <1>1, <1>2, <2>3, StepFrom, Zenon
  <2>4. CASE mode = <<"slash">>
    BY <1>1, <1>2, <2>4, StepFrom, Zenon
  <2>5. CASE mode = <<"line">>
    BY <1>1, <1>2, <2>5, StepFrom, Zenon
  <2>6. CASE mode = <<"block">>
    BY <1>1, <1>2, <2>6, StepFrom, Zenon
  <2>7. CASE mode = <<"star">>
    BY <1>1, <1>2, <2>7, StepFrom, Zenon
  <2>8. CASE mode = <<"bracket">>
    BY <1>1, <1>2, <2>8, StepFrom, Zenon
  <2> QED
    BY <1>4, <2>1, <2>2, <2>3, <2>4, <2>5, <2>6, <2>7, <2>8, Zenon
<1> QED
  BY <1>3, <1>4, Zenon DEF Mode

\* The modes, as an equation.
LEMMA ModesEquation ==
    ASSUME NEW s, Len(s) \in Nat
    PROVE  /\ Modes(s)[0] = <<"code">>
           /\ \A i \in 1..Len(s) : Modes(s)[i] = Step(Modes(s)[i - 1], s[i])
<1> DEFINE m == 0
           n == Len(s)
           D == m..n
           V == Mode
           Body(f, i) ==
             IF i = 0 THEN <<"code">> ELSE Step(f[i - 1], s[i])
           F == [x \in D \X [D -> V] |-> Body(x[2], x[1])]
           Solves(f) == f = [i \in D |-> Body(f, i)]
<1>1. n \in Int /\ m \in Int
  OBVIOUS
<1>2. ASSUME NEW i \in D, NEW f \in [D -> V] PROVE Body(f, i) \in V
  <2>1. i = 0 \/ i - 1 \in D
    OBVIOUS
  <2>2. <<"code">> \in V
    BY Zenon DEF Mode
  <2> QED
    BY <1>2, <2>1, <2>2, StepInMode, Zenon
<1>3. ASSUME NEW i \in D, NEW f \in [D -> V], NEW g \in [D -> V],
             \A j \in m..(i - 1) : f[j] = g[j]
      PROVE  Body(f, i) = Body(g, i)
  <2>1. i = 0 \/ i - 1 \in m..(i - 1)
    OBVIOUS
  <2> QED
    BY <1>3, <2>1, Zenon
<1>v. V # {}
  BY Zenon DEF Mode
<1> HIDE DEF Body, D, m, n, V
<1>4. /\ F \in [D \X [D -> V] -> V]
      /\ \A i \in D : \A f \in [D -> V] : F[<<i, f>>] = Body(f, i)
  BY <1>2, Zenon
<1> HIDE DEF F
<1>5. LooksBefore(m, n, V, F)
  <2>1. \A i \in D : \A f, g \in [D -> V] :
          (\A j \in m..(i - 1) : f[j] = g[j]) => F[<<i, f>>] = F[<<i, g>>]
    <3> SUFFICES ASSUME NEW i \in D, NEW f \in [D -> V], NEW g \in [D -> V],
                        \A j \in m..(i - 1) : f[j] = g[j]
                 PROVE  F[<<i, f>>] = F[<<i, g>>]
      BY Zenon
    <3>1. Body(f, i) = Body(g, i)
      BY <1>3, Zenon
    <3> QED
      BY <1>4, <3>1, Zenon
  <2> QED
    BY <1>4, <1>v, <2>1, Zenon DEF LooksBefore, D
<1>6. Defined(D, V, F)
  BY <1>1, <1>5, UpRecursion, Zenon DEF D
<1>7. PICK f \in [D -> V] : \A i \in D : f[i] = F[<<i, f>>]
  BY <1>6, Zenon DEF Defined
<1>8. Solves(f)
  <2>1. \A i \in D : f[i] = Body(f, i)
    BY <1>4, <1>7, Zenon
  <2> QED
    BY <1>7, <2>1, Zenon
<1>9. Modes(s) = CHOOSE g : Solves(g)
  BY Zenon DEF Modes, Body, D, m, n
<1>10. Solves(Modes(s))
  BY <1>8, <1>9, Zenon
<1>11. \A i \in 0..Len(s) : Modes(s)[i] = Body(Modes(s), i)
  BY <1>10, Zenon DEF D, m, n
<1>12. 0 \in 0..Len(s) /\ \A i \in 1..Len(s) : i \in 0..Len(s) /\ i # 0
  OBVIOUS
<1> QED
  BY <1>11, <1>12, Zenon DEF Body

\* The mode after the next symbol.
LEMMA ModesNext ==
    ASSUME NEW s, Len(s) \in Nat, NEW i \in 0..Len(s), i < Len(s)
    PROVE  Modes(s)[i + 1] = Step(Modes(s)[i], s[i + 1])
<1>1. i + 1 \in 1..Len(s) /\ (i + 1) - 1 = i
  OBVIOUS
<1>2. Modes(s)[i + 1] = Step(Modes(s)[(i + 1) - 1], s[i + 1])
  BY <1>1, ModesEquation, Zenon
<1> QED
  BY <1>1, <1>2, Zenon

\* At this place no comment and no quotation is under way.
Fresh(s, i) == i > Len(s) \/ Modes(s)[i] = Opens(s[i])

\* The scan goes from i to e, where it reads afresh, and what is between is not
\* code.
Skips(s, i, e) == Fresh(s, e) /\ \A k \in i..(e - 1) : k \notin Code(s)

\* A place whose mode is none of code, dash and slash is not code.
LEMMA NotCode ==
    ASSUME NEW s, NEW k, Modes(s)[k][1] \notin {"code", "dash", "slash"}
    PROVE  k \notin Code(s)
BY Zenon DEF Code

\* A place that begins a comment is not code either.
LEMMA BeginsComment ==
    ASSUME NEW s, NEW k, k < Len(s), Modes(s)[k][1] \in {"dash", "slash"},
           Modes(s)[k + 1][1] \in {"line", "block"}
    PROVE  k \notin Code(s)
BY Zenon DEF Code

\* A line comment is skipped up to the newline.
LEMMA LineSkipped ==
    ASSUME NEW s, Len(s) \in Nat, NEW i \in 1..Len(s), Fresh(s, i),
           s[i] = "-", Is(s, i + 1, "-")
    PROVE  Skips(s, i, AfterLine(s, i))
<1> DEFINE n == Len(s)
           M == Modes(s)
           L == {j \in i..n : s[j] = "newline"}
<1>0. n \in Nat /\ i \in 0..n /\ i + 1 \in 1..n /\ i < n /\ ~(i > n)
      /\ s[i + 1] = "-"
  BY DEF Is
<1>1. PICK e : e = AfterLine(s, i)
  OBVIOUS
<1>2. e \in 1..(n + 1) /\ (e \in L \/ e = n + 1) /\ \A j \in L : e <= j
  <2>1. L \in SUBSET (1..n)
    OBVIOUS
  <2> QED
    BY <1>1, <2>1, FirstAtIs, Zenon DEF AfterLine
<1>3. /\ e \in (i + 2)..(n + 1)
      /\ \A k \in i..(e - 1) : k \in 1..n /\ s[k] # "newline"
      /\ e <= n => s[e] = "newline"
  <2>1. e \in L => e \in i..n /\ s[e] = "newline"
    OBVIOUS
  <2>2. "-" # "newline"
    OBVIOUS
  <2>3. e # i /\ e # i + 1
    BY <1>0, <1>2, <2>1, <2>2
  <2>4. e \in (i + 2)..(n + 1) /\ (e <= n => s[e] = "newline")
    BY <1>0, <1>2, <2>1, <2>3
  <2>5. \A k \in i..(e - 1) : k \in i..n /\ ~(e <= k) /\ k \in 1..n
    BY <1>0, <2>4
  <2> QED
    BY <1>2, <2>4, <2>5, Zenon
<1>4. M[i] = <<"dash">> /\ M[i + 1] = <<"line">>
  <2>1. M[i] = <<"dash">>
    BY <1>0, OpensTo, Zenon DEF Fresh
  <2>2. M[i + 1] = Step(M[i], s[i + 1])
    BY <1>0, ModesNext, Zenon
  <2> QED
    BY <1>0, <2>1, <2>2, StepFrom, Zenon
<1>5. \A k \in (i + 1)..(e - 1) : M[k] = <<"line">>
  <2> DEFINE S == {k \in (i + 1)..(e - 1) : M[k] = <<"line">>}
  <2>1. ASSUME NEW k \in (i + 1)..(e - 1), \A j \in (i + 1)..(k - 1) : j \in S
        PROVE  k \in S
    <3>1. CASE k = i + 1
      BY <1>4, <3>1, Zenon
    <3>2. CASE k # i + 1
      <4>1. k - 1 \in (i + 1)..(k - 1) /\ k \in i..(e - 1) /\ k \in 1..n
        BY <1>0, <1>3, <3>2
      <4>2. M[k] = Step(M[k - 1], s[k]) /\ s[k] # "newline" /\ M[k - 1] = <<"line">>
        BY <1>3, <2>1, <4>1, ModesEquation, Zenon
      <4>3. Step(<<"line">>, s[k]) = <<"line">>
        BY <4>2, StepFrom, Zenon
      <4> QED
        BY <4>2, <4>3, Zenon
    <3> QED
      BY <3>1, <3>2, Zenon
  <2>2. i + 1 \in Int /\ e - 1 \in Int
    BY <1>0, <1>3
  <2> HIDE DEF S
  <2>3. \A k \in (i + 1)..(e - 1) : k \in S
    BY <2>1, <2>2, UpInduction, Zenon
  <2> QED
    BY <2>3, Zenon DEF S
<1>6. \A k \in i..(e - 1) : k \notin Code(s)
  <2>1. \A k \in i..(e - 1) : k = i \/ k \in (i + 1)..(e - 1)
    BY <1>0, <1>3
  <2>2. <<"line">>[1] = "line" /\ <<"dash">>[1] = "dash"
    OBVIOUS
  <2>3. "line" \notin {"code", "dash", "slash"}
    OBVIOUS
  <2>4. i \notin Code(s)
    BY <1>0, <1>4, <2>2, BeginsComment, Zenon
  <2>5. \A k \in (i + 1)..(e - 1) : k \notin Code(s)
    BY <1>5, <2>2, <2>3, NotCode, Zenon
  <2> QED
    BY <2>1, <2>4, <2>5, Zenon
<1>7. Fresh(s, e)
  <2>1. e > n \/ (e \in 1..n /\ e - 1 \in (i + 1)..(e - 1) /\ s[e] = "newline")
    BY <1>0, <1>3
  <2>2. ASSUME e \in 1..n, e - 1 \in (i + 1)..(e - 1), s[e] = "newline"
        PROVE  M[e] = Opens(s[e])
    <3>1. M[e] = Step(<<"line">>, "newline")
      BY <1>5, <2>2, ModesEquation, Zenon
    <3> QED
      BY <2>2, <3>1, StepFrom, OpensTo, Zenon
  <2> QED
    BY <2>1, <2>2, Zenon DEF Fresh
<1> QED
  BY <1>1, <1>6, <1>7, Zenon DEF Skips

\* A block comment is skipped up to its end, or to the end of the text.
LEMMA BlockSkipped ==
    ASSUME NEW s, Len(s) \in Nat, NEW i \in 1..Len(s), Fresh(s, i),
           s[i] = "/", Is(s, i + 1, "*")
    PROVE  Skips(s, i, AfterBlock(s, i))
<1> DEFINE n == Len(s)
           M == Modes(s)
           B == {j \in (i + 2)..n : s[j] = "*" /\ Is(s, j + 1, "/")}
           InBlock(k) == \/ M[k] = <<"star">> /\ k \in (i + 2)..n /\ s[k] = "*"
                         \/ M[k] = <<"block">> /\ (k = i + 1 \/ s[k] # "*")
<1>0. n \in Nat /\ i \in 0..n /\ i + 1 \in 1..n /\ i < n /\ ~(i > n) /\ s[i + 1] = "*"
  BY DEF Is
<1>1. PICK m : m = FirstAt(s, B)
  BY Zenon
<1>2. m \in 1..(n + 1) /\ (m \in B \/ m = n + 1) /\ \A j \in B : m <= j
  <2>1. B \in SUBSET (1..n)
    OBVIOUS
  <2> QED
    BY <1>1, <2>1, FirstAtIs, Zenon
<1>3. /\ m \in (i + 2)..(n + 1)
      /\ m <= n => s[m] = "*" /\ m + 1 \in 1..n /\ s[m + 1] = "/"
  <2>1. m \in B => m \in (i + 2)..n /\ s[m] = "*" /\ m + 1 <= n /\ s[m + 1] = "/"
    BY DEF Is
  <2> HIDE DEF B
  <2> QED
    BY <1>0, <1>2, <2>1
<1>4. M[i] = <<"slash">> /\ M[i + 1] = <<"block">>
  <2>1. M[i] = <<"slash">>
    BY <1>0, OpensTo, Zenon DEF Fresh
  <2>2. M[i + 1] = Step(M[i], s[i + 1])
    BY <1>0, ModesNext, Zenon
  <2> QED
    BY <1>0, <2>1, <2>2, StepFrom, Zenon
<1>5. \A k \in (i + 1)..n : k <= m => InBlock(k)
  <2> DEFINE S == {k \in (i + 1)..n : k <= m => InBlock(k)}
  <2>1. ASSUME NEW k \in (i + 1)..n, \A j \in (i + 1)..(k - 1) : j \in S
        PROVE  k \in S
    <3>1. CASE k = i + 1
      BY <1>4, <3>1, Zenon
    <3>2. CASE k # i + 1 /\ k <= m
      <4>1. /\ k - 1 \in (i + 1)..(k - 1) /\ k - 1 <= m /\ k \in (i + 2)..n
            /\ k \in 1..n /\ k # i + 1 /\ k - 1 # n + 1
        BY <1>0, <1>3, <3>2
      <4>2. InBlock(k - 1)
        BY <2>1, <4>1, Zenon
      <4>3. M[k] = Step(M[k - 1], s[k])
        BY <4>1, ModesEquation, Zenon
      <4>4. CASE M[k - 1] = <<"block">>
        <5>1. M[k] = IF s[k] = "*" THEN <<"star">> ELSE <<"block">>
          BY <4>3, <4>4, StepFrom, Zenon
        <5> QED
          BY <4>1, <5>1, Zenon
      <4>5. CASE M[k - 1] = <<"star">> /\ k - 1 \in (i + 2)..n /\ s[k - 1] = "*"
        <5>1. s[k] # "/"
          <6> SUFFICES ASSUME s[k] = "/" PROVE FALSE
            OBVIOUS
          <6>1. k - 1 + 1 = k /\ k <= n /\ ~(m <= k - 1)
            BY <1>0, <1>3, <3>2
          <6>2. Is(s, k - 1 + 1, "/")
            BY <6>1, Zenon DEF Is
          <6>3. k - 1 \in B
            BY <4>5, <6>2, Zenon
          <6> QED
            BY <1>2, <6>1, <6>3, Zenon
        <5>2. Step(<<"star">>, s[k]) = IF s[k] = "/" THEN <<"ended">>
                                       ELSE IF s[k] = "*" THEN <<"star">> ELSE <<"block">>
          BY StepFrom, Zenon
        <5>3. M[k] = IF s[k] = "*" THEN <<"star">> ELSE <<"block">>
          BY <4>3, <4>5, <5>1, <5>2, Zenon
        <5> QED
          BY <4>1, <5>3, Zenon
      <4> QED
        BY <4>2, <4>4, <4>5, Zenon
    <3> QED
      BY <3>1, <3>2, Zenon
  <2>2. i + 1 \in Int /\ n \in Int
    BY <1>0
  <2> HIDE DEF S
  <2>3. \A k \in (i + 1)..n : k \in S
    BY <2>1, <2>2, UpInduction, Zenon
  <2> QED
    BY <2>3, Zenon DEF S
<1>6. m <= n => M[m] = <<"star">> /\ M[m + 1] = <<"ended">>
  <2> SUFFICES ASSUME m <= n PROVE M[m] = <<"star">> /\ M[m + 1] = <<"ended">>
    OBVIOUS
  <2>1. /\ m \in (i + 1)..n /\ m <= m /\ m # i + 1 /\ m \in 0..n /\ m < n
        /\ s[m] = "*" /\ s[m + 1] = "/"
    BY <1>0, <1>3
  <2>2. M[m] = <<"star">>
    BY <1>5, <2>1, Zenon
  <2>3. M[m + 1] = Step(<<"star">>, "/")
    BY <2>1, <2>2, ModesNext, Zenon
  <2> QED
    BY <2>2, <2>3, StepFrom, Zenon
<1>7. \A k \in i..(m + 1) : k \notin Code(s)
  <2>1. ASSUME NEW k \in i..(m + 1)
        PROVE  \/ k = i
               \/ k \in (i + 1)..n /\ k <= m
               \/ m <= n /\ k = m + 1
               \/ ~(k \in 1..n)
    BY <1>0, <1>3
  <2>2. /\ <<"slash">>[1] = "slash" /\ <<"block">>[1] = "block" /\ <<"star">>[1] = "star"
        /\ <<"ended">>[1] = "ended"
    OBVIOUS
  <2>3. /\ "block" \notin {"code", "dash", "slash"} /\ "star" \notin {"code", "dash", "slash"}
        /\ "ended" \notin {"code", "dash", "slash"}
    OBVIOUS
  <2>4. i \notin Code(s)
    BY <1>0, <1>4, <2>2, BeginsComment, Zenon
  <2>5. \A k \in (i + 1)..n : k <= m => k \notin Code(s)
    BY <1>5, <2>2, <2>3, NotCode, Zenon
  <2>6. m <= n => m + 1 \notin Code(s)
    BY <1>6, <2>2, <2>3, NotCode, Zenon
  <2>7. \A k : ~(k \in 1..n) => k \notin Code(s)
    BY Zenon DEF Code
  <2> QED
    BY <2>1, <2>4, <2>5, <2>6, <2>7, Zenon
<1>8. Fresh(s, m + 2)
  <2>1. m + 2 > n \/ (m <= n /\ m + 1 \in 0..n /\ m + 1 < n /\ m + 2 = m + 1 + 1)
    BY <1>0, <1>3
  <2>2. ASSUME m <= n, m + 1 \in 0..n, m + 1 < n, m + 2 = m + 1 + 1
        PROVE  M[m + 2] = Opens(s[m + 2])
    <3>1. M[m + 1 + 1] = Step(M[m + 1], s[m + 1 + 1])
      BY <2>2, ModesNext, Zenon
    <3> QED
      BY <1>6, <2>2, <3>1, StepFrom, Zenon
  <2> QED
    BY <2>1, <2>2, Zenon DEF Fresh
<1>9. AfterBlock(s, i) = m + 2
  BY <1>1, Zenon DEF AfterBlock
<1>10. \A k \in i..((m + 2) - 1) : k \in i..(m + 1)
  BY <1>0, <1>3
<1> QED
  BY <1>7, <1>8, <1>9, <1>10, Zenon DEF Skips

\* The modes in which a quotation that the symbol c opens is read, and in which
\* its terminator is.
Inside(c) == IF c = "[" THEN <<"bracket">> ELSE <<"quoted", c>>
Terminated(c) == IF c = "[" THEN <<"ended">> ELSE <<"closed", c>>
Terminator(c) == IF c = "[" THEN "]" ELSE c

\* How the automaton reads a quotation: a doubled terminator goes on with it.
LEMMA QuotationSteps ==
    ASSUME NEW c \in Quotes \cup {"["}, NEW d
    PROVE  /\ Opens(c) = Inside(c)
           /\ d # Terminator(c) => Step(Inside(c), d) = Inside(c)
           /\ d = Terminator(c) => Step(Inside(c), d) = Terminated(c)
           /\ c # "[" /\ d = Terminator(c) => Step(Terminated(c), d) = Inside(c)
           /\ ~(c # "[" /\ d = Terminator(c)) => Step(Terminated(c), d) = Opens(d)
           /\ Inside(c)[1] \notin {"code", "dash", "slash"}
           /\ Terminated(c)[1] \notin {"code", "dash", "slash"}
<1>1. CASE c = "["
  <2>1. /\ Step(<<"bracket">>, d) = IF d = "]" THEN <<"ended">> ELSE <<"bracket">>
        /\ Step(<<"ended">>, d) = Opens(d)
        /\ Opens("[") = <<"bracket">>
    BY StepFrom, OpensTo, Zenon
  <2>2. <<"bracket">>[1] \notin {"code", "dash", "slash"}
        /\ <<"ended">>[1] \notin {"code", "dash", "slash"}
    OBVIOUS
  <2> QED
    BY <1>1, <2>1, <2>2, Zenon DEF Inside, Terminated, Terminator
<1>2. CASE c # "[" /\ c \in Quotes
  <2>1. /\ Step(<<"quoted", c>>, d) = IF d = c THEN <<"closed", c>> ELSE <<"quoted", c>>
        /\ Step(<<"closed", c>>, d) = IF d = c THEN <<"quoted", c>> ELSE Opens(d)
        /\ Opens(c) = <<"quoted", c>>
    BY <1>2, StepFrom, OpensTo, Zenon
  <2>2. <<"quoted", c>>[1] \notin {"code", "dash", "slash"}
        /\ <<"closed", c>>[1] \notin {"code", "dash", "slash"}
    OBVIOUS
  <2> QED
    BY <1>2, <2>1, <2>2, Zenon DEF Inside, Terminated, Terminator
<1> QED
  BY <1>1, <1>2, Zenon

\* A quoted region is skipped up to its terminator, or to the end of the text.
LEMMA QuotedSkipped ==
    ASSUME NEW s, Len(s) \in Nat, NEW i \in 1..Len(s), Fresh(s, i),
           s[i] \in Quotes \cup {"["}
    PROVE  Skips(s, i, AfterQuoted(s, i))
<1> DEFINE n == Len(s)
           M == Modes(s)
           K == SkipQuoted(s, i)
           c == s[i]
           Good(j) == M[j - 1] = Inside(c) => Skips(s, j, K[j])
           S == {j \in (i + 1)..(n + 1) : Good(j)}
<1>0. n \in Nat /\ i \in 0..n /\ ~(i > n) /\ i + 1 \in Int /\ n + 1 \in Int
  OBVIOUS
<1>t. CloseOf(s, i) = Terminator(c)
  BY Zenon DEF CloseOf, Terminator
<1>1. ASSUME NEW j \in (i + 1)..(n + 1), \A k \in (j + 1)..(n + 1) : k \in S,
             M[j - 1] = Inside(c)
      PROVE  Skips(s, j, K[j])
  <2>1. K[j] = IF j > n THEN j
               ELSE IF s[j] # Terminator(c) THEN K[j + 1]
               ELSE IF c # "[" /\ Is(s, j + 1, Terminator(c)) THEN K[j + 2]
               ELSE j + 1
    <3>1. j \in 1..(n + 1)
      OBVIOUS
    <3> QED
      BY <1>0, <1>t, <3>1, SkipEquation, Zenon
  <2>2. ASSUME NEW a \in Int, NEW b, \A k \in j..(a - 1) : k \notin Code(s),
               Skips(s, a, b), b \in Int
        PROVE  Skips(s, j, b)
    <3>1. \A k \in j..(b - 1) : k \in j..(a - 1) \/ k \in a..(b - 1)
      BY <2>2
    <3> QED
      BY <2>2, <3>1, Zenon DEF Skips
  <2>3. ASSUME NEW a \in (i + 1)..(n + 1) PROVE K[a] \in Int
    <3>1. a \in 1..(n + 1) /\ \A k \in a..(n + 1) : k \in Int
      BY <1>0
    <3> QED
      BY <1>0, <3>1, SkipWithin, Zenon
  <2>4. CASE j > n
    <3>1. \A k \in j..(j - 1) : FALSE
      OBVIOUS
    <3> QED
      BY <2>1, <2>4, <3>1, Zenon DEF Skips, Fresh
  <2>5. CASE ~(j > n)
    <3>1. /\ j \in 1..n /\ j - 1 \in 0..n /\ j - 1 < n /\ j \in Int /\ j + 1 \in Int
          /\ j + 1 \in (j + 1)..(n + 1) /\ j + 1 \in (i + 1)..(n + 1)
          /\ (j + 1) - 1 = j /\ j \in 0..n
          /\ \A k \in j..((j + 1) - 1) : k = j
      BY <2>5
    <3>2. M[j] = Step(Inside(c), s[j])
      BY <1>0, <1>1, <3>1, ModesEquation, Zenon
    <3>3. CASE s[j] # Terminator(c)
      <4>1. M[j] = Inside(c) /\ K[j] = K[j + 1]
        BY <2>1, <2>5, <3>2, <3>3, QuotationSteps, Zenon
      <4>2. Skips(s, j + 1, K[j + 1])
        <5>1. Good(j + 1)
          BY <1>1, <3>1, Zenon
        <5> QED
          BY <3>1, <4>1, <5>1, Zenon
      <4>3. \A k \in j..((j + 1) - 1) : k \notin Code(s)
        BY <3>1, <4>1, QuotationSteps, NotCode, Zenon
      <4>4. K[j + 1] \in Int
        BY <2>3, <3>1, Zenon
      <4> QED
        BY <2>2, <3>1, <4>1, <4>2, <4>3, <4>4, Zenon
    <3>4. CASE s[j] = Terminator(c)
      <4>1. M[j] = Terminated(c)
        BY <3>2, <3>4, QuotationSteps, Zenon
      <4>2. j \notin Code(s)
        BY <4>1, QuotationSteps, NotCode, Zenon
      <4>3. CASE c # "[" /\ Is(s, j + 1, Terminator(c))
        <5>1. /\ j < n /\ s[j + 1] = Terminator(c) /\ j + 2 \in Int
              /\ j + 2 \in (j + 1)..(n + 1) /\ j + 2 \in (i + 1)..(n + 1)
              /\ (j + 2) - 1 = j + 1 /\ \A k \in j..((j + 2) - 1) : k = j \/ k = j + 1
          BY <2>5, <4>3 DEF Is
        <5>2. M[j + 1] = Step(Terminated(c), s[j + 1])
          BY <1>0, <3>1, <4>1, <5>1, ModesNext, Zenon
        <5>3. M[j + 1] = Inside(c)
          BY <4>3, <5>1, <5>2, QuotationSteps, Zenon
        <5>4. Skips(s, j + 2, K[j + 2])
          <6>1. Good(j + 2)
            BY <1>1, <5>1, Zenon
          <6> QED
            BY <5>1, <5>3, <6>1, Zenon
        <5>5. \A k \in j..((j + 2) - 1) : k \notin Code(s)
          <6>1. j + 1 \notin Code(s)
            BY <5>3, QuotationSteps, NotCode, Zenon
          <6> QED
            BY <4>2, <5>1, <6>1, Zenon
        <5>6. K[j] = K[j + 2] /\ K[j + 2] \in Int
          BY <2>1, <2>3, <2>5, <3>4, <4>3, <5>1, Zenon
        <5> QED
          BY <2>2, <5>1, <5>4, <5>5, <5>6, Zenon
      <4>4. CASE ~(c # "[" /\ Is(s, j + 1, Terminator(c)))
        <5>1. K[j] = j + 1
          BY <2>1, <2>5, <3>4, <4>4, Zenon
        <5>2. Fresh(s, j + 1)
          <6>1. j + 1 > n \/ (j + 1 <= n /\ j < n)
            BY <2>5
          <6>2. ASSUME j + 1 <= n, j < n PROVE M[j + 1] = Opens(s[j + 1])
            <7>1. M[j + 1] = Step(Terminated(c), s[j + 1])
              BY <1>0, <3>1, <4>1, <6>2, ModesNext, Zenon
            <7>2. ~(c # "[" /\ s[j + 1] = Terminator(c))
              BY <4>4, <6>2, Zenon DEF Is
            <7> QED
              BY <7>1, <7>2, QuotationSteps, Zenon
          <6> QED
            BY <6>1, <6>2, Zenon DEF Fresh
        <5>3. \A k \in j..((j + 1) - 1) : k \notin Code(s)
          BY <3>1, <4>2, Zenon
        <5> QED
          BY <5>1, <5>2, <5>3, Zenon DEF Skips
      <4> QED
        BY <4>3, <4>4, Zenon
    <3> QED
      BY <3>3, <3>4, Zenon
  <2> QED
    BY <2>4, <2>5, Zenon
<1>2. \A j \in (i + 1)..(n + 1) : j \in S
  <2>1. ASSUME NEW j \in (i + 1)..(n + 1), \A k \in (j + 1)..(n + 1) : k \in S
        PROVE  j \in S
    <3>1. Good(j)
      BY <1>1, <2>1, Zenon
    <3> QED
      BY <3>1, Zenon
  <2> HIDE DEF S
  <2> QED
    BY <1>0, <2>1, DownInduction, Zenon
<1>3. i + 1 \in (i + 1)..(n + 1) /\ (i + 1) - 1 = i
  OBVIOUS
<1>4. M[i] = Inside(c)
  BY <1>0, QuotationSteps, Zenon DEF Fresh
<1>5. Skips(s, i + 1, AfterQuoted(s, i))
  <2>1. Good(i + 1)
    BY <1>2, <1>3, Zenon
  <2> QED
    BY <1>3, <1>4, <2>1, Zenon DEF AfterQuoted
<1>6. i \notin Code(s)
  BY <1>4, QuotationSteps, NotCode, Zenon
<1>7. AfterQuoted(s, i) \in Int
  <2>1. i + 1 \in 1..(n + 1) /\ \A k \in (i + 1)..(n + 1) : k \in Int
    OBVIOUS
  <2> QED
    BY <2>1, SkipWithin, Zenon DEF AfterQuoted
<1>8. \A k \in i..(AfterQuoted(s, i) - 1) : k = i \/ k \in (i + 1)..(AfterQuoted(s, i) - 1)
  BY <1>7
<1> QED
  BY <1>5, <1>6, <1>8, Zenon DEF Skips

\* A symbol that opens no quotation and begins no comment is code, and what
\* follows it is read afresh.
LEMMA PlainSymbol ==
    ASSUME NEW s, Len(s) \in Nat, NEW i \in 1..Len(s), Fresh(s, i),
           ~(s[i] = "-" /\ Is(s, i + 1, "-")), ~(s[i] = "/" /\ Is(s, i + 1, "*")),
           s[i] \notin Quotes \cup {"["}
    PROVE  i \in Code(s) /\ Fresh(s, i + 1)
<1> DEFINE n == Len(s)
           M == Modes(s)
<1>0. ~(i > n) /\ i \in 0..n /\ (i + 1 > n \/ (i < n /\ i + 1 <= n))
      /\ (i < n => i + 1 <= n)
  OBVIOUS
<1>1. M[i] \in {<<"dash">>, <<"slash">>, <<"code">>}
  <2>1. M[i] = Opens(s[i])
    BY <1>0, Zenon DEF Fresh
  <2>2. s[i] = "-" \/ s[i] = "/" \/ s[i] \notin Quotes \cup {"-", "/", "["}
    BY Zenon
  <2> QED
    BY <2>1, <2>2, OpensTo, Zenon
<1>2. M[i] = <<"dash">> => s[i] = "-"
  <2>1. M[i] = Opens(s[i])
    BY <1>0, Zenon DEF Fresh
  <2>2. <<"slash">> # <<"dash">> /\ <<"code">> # <<"dash">>
    OBVIOUS
  <2>3. s[i] = "-" \/ s[i] = "/" \/ s[i] \notin Quotes \cup {"-", "/", "["}
    BY Zenon
  <2> QED
    BY <2>1, <2>2, <2>3, OpensTo, Zenon
<1>3. M[i] = <<"slash">> => s[i] = "/"
  <2>1. M[i] = Opens(s[i])
    BY <1>0, Zenon DEF Fresh
  <2>2. <<"dash">> # <<"slash">> /\ <<"code">> # <<"slash">>
    OBVIOUS
  <2>3. s[i] = "-" \/ s[i] = "/" \/ s[i] \notin Quotes \cup {"-", "/", "["}
    BY Zenon
  <2> QED
    BY <2>1, <2>2, <2>3, OpensTo, Zenon
<1>4. i < n => M[i + 1] = Opens(s[i + 1])
  <2> SUFFICES ASSUME i < n PROVE M[i + 1] = Opens(s[i + 1])
    OBVIOUS
  <2>1. M[i + 1] = Step(M[i], s[i + 1])
    BY <1>0, ModesNext, Zenon
  <2>2. CASE M[i] = <<"dash">>
    <3>1. s[i + 1] # "-"
      BY <1>0, <1>2, <2>2, Zenon DEF Is
    <3>2. Step(<<"dash">>, s[i + 1]) = IF s[i + 1] = "-" THEN <<"line">> ELSE Opens(s[i + 1])
      BY StepFrom, Zenon
    <3> QED
      BY <2>1, <2>2, <3>1, <3>2, Zenon
  <2>3. CASE M[i] = <<"slash">>
    <3>1. s[i + 1] # "*"
      BY <1>0, <1>3, <2>3, Zenon DEF Is
    <3>2. Step(<<"slash">>, s[i + 1]) = IF s[i + 1] = "*" THEN <<"block">> ELSE Opens(s[i + 1])
      BY StepFrom, Zenon
    <3> QED
      BY <2>1, <2>3, <3>1, <3>2, Zenon
  <2>4. CASE M[i] = <<"code">>
    BY <2>1, <2>4, StepFrom, Zenon
  <2> QED
    BY <1>1, <2>2, <2>3, <2>4, Zenon
<1>5. \A c : Opens(c)[1] \notin {"line", "block"}
  BY DEF Opens
<1>6. M[i][1] \in {"code", "dash", "slash"}
  <2>1. <<"dash">>[1] = "dash" /\ <<"slash">>[1] = "slash" /\ <<"code">>[1] = "code"
    OBVIOUS
  <2> QED
    BY <1>1, <2>1, Zenon
<1>7. i \in Code(s)
  BY <1>4, <1>5, <1>6, Zenon DEF Code
<1> QED
  BY <1>0, <1>4, <1>7, Zenon DEF Fresh

\* strip_sql_noise keeps what the automaton reads as code, in a text of any
\* length.
LEMMA NoiseCorrect ==
    ASSUME NEW s, Len(s) \in Nat
    PROVE  strip_sql_noise(s) = Code(s)
<1> DEFINE n == Len(s)
           K == KeptFrom(s)
           C == Code(s)
           Rest(i) == {j \in C : j >= i}
           Good(i) == Fresh(s, i) => K[i] = Rest(i)
           S == {i \in 1..(n + 3) : Good(i)}
<1>0. n \in Nat /\ n + 3 \in Int /\ 1 \in Int /\ C \subseteq 1..n
  BY DEF Code
<1>1. ASSUME NEW i \in 1..(n + 3), \A k \in (i + 1)..(n + 3) : k \in S, Fresh(s, i)
      PROVE  K[i] = Rest(i)
  <2>1. K[i] = IF i > n THEN {}
               ELSE IF s[i] = "-" /\ Is(s, i + 1, "-") THEN K[AfterLine(s, i)]
               ELSE IF s[i] = "/" /\ Is(s, i + 1, "*") THEN K[AfterBlock(s, i)]
               ELSE IF s[i] \in Quotes \cup {"["} THEN K[AfterQuoted(s, i)]
               ELSE {i} \cup K[i + 1]
    BY <1>0, KeptEquation, Zenon
  <2>2. CASE i > n
    <3>1. \A j \in 1..n : ~(j >= i)
      BY <2>2
    <3>2. Rest(i) = {}
      BY <1>0, <3>1, Zenon
    <3> QED
      BY <2>1, <2>2, <3>2, Zenon
  <2>3. CASE ~(i > n)
    <3>0. i \in 1..n /\ i + 1 \in (i + 1)..(n + 3)
      BY <2>3
    <3>1. ASSUME NEW e \in (i + 1)..(n + 3), Skips(s, i, e), K[i] = K[e]
          PROVE  K[i] = Rest(i)
      <4>1. K[e] = Rest(e)
        <5>1. Good(e)
          BY <1>1, <3>1, Zenon
        <5> QED
          BY <3>1, <5>1, Zenon DEF Skips
      <4>2. \A j \in C : (j >= e => j >= i) /\ (j >= i => j >= e \/ j \in i..(e - 1))
        BY <1>0
      <4>3. \A j \in C : j >= i <=> j >= e
        BY <3>1, <4>2, Zenon DEF Skips
      <4> QED
        BY <3>1, <4>1, <4>3, Zenon
    <3>2. CASE s[i] = "-" /\ Is(s, i + 1, "-")
      <4>1. Skips(s, i, AfterLine(s, i)) /\ AfterLine(s, i) \in (i + 1)..(n + 3)
        BY <1>0, <1>1, <3>0, <3>2, LineSkipped, ScanWithin, Zenon
      <4>2. K[i] = K[AfterLine(s, i)]
        BY <2>1, <2>3, <3>2, Zenon
      <4> QED
        BY <3>1, <4>1, <4>2, Zenon
    <3>3. CASE s[i] = "/" /\ Is(s, i + 1, "*")
      <4>1. Skips(s, i, AfterBlock(s, i)) /\ AfterBlock(s, i) \in (i + 1)..(n + 3)
        BY <1>0, <1>1, <3>0, <3>3, BlockSkipped, ScanWithin, Zenon
      <4>0. "-" # "/"
        OBVIOUS
      <4>2. K[i] = K[AfterBlock(s, i)]
        BY <2>1, <2>3, <3>3, <4>0, Zenon
      <4> QED
        BY <3>1, <4>1, <4>2, Zenon
    <3>4. CASE s[i] \in Quotes \cup {"["}
      <4>1. Skips(s, i, AfterQuoted(s, i)) /\ AfterQuoted(s, i) \in (i + 1)..(n + 3)
        BY <1>0, <1>1, <3>0, <3>4, QuotedSkipped, ScanWithin, Zenon
      <4>0. "-" \notin Quotes \cup {"["} /\ "/" \notin Quotes \cup {"["}
        BY DEF Quotes
      <4>2. K[i] = K[AfterQuoted(s, i)]
        BY <2>1, <2>3, <3>4, <4>0, Zenon
      <4> QED
        BY <3>1, <4>1, <4>2, Zenon
    <3>5. CASE /\ ~(s[i] = "-" /\ Is(s, i + 1, "-")) /\ ~(s[i] = "/" /\ Is(s, i + 1, "*"))
               /\ s[i] \notin Quotes \cup {"["}
      <4>1. i \in C /\ Fresh(s, i + 1)
        BY <1>0, <1>1, <3>0, <3>5, PlainSymbol, Zenon
      <4>2. K[i] = {i} \cup K[i + 1]
        BY <2>1, <2>3, <3>5, Zenon
      <4>3. K[i + 1] = Rest(i + 1)
        <5>1. Good(i + 1)
          BY <1>1, <3>0, Zenon
        <5> QED
          BY <4>1, <5>1, Zenon
      <4>4. i >= i /\ \A j \in C : j >= i <=> j = i \/ j >= i + 1
        BY <1>0
      <4> QED
        BY <4>1, <4>2, <4>3, <4>4, Zenon
    <3> QED
      BY <3>2, <3>3, <3>4, <3>5, Zenon
  <2> QED
    BY <2>2, <2>3, Zenon
<1>2. \A i \in 1..(n + 3) : i \in S
  <2>1. ASSUME NEW i \in 1..(n + 3), \A k \in (i + 1)..(n + 3) : k \in S
        PROVE  i \in S
    <3>1. Good(i)
      BY <1>1, <2>1, Zenon
    <3> QED
      BY <3>1, Zenon
  <2> HIDE DEF S
  <2> QED
    BY <1>0, <2>1, DownInduction, Zenon
<1>3. Fresh(s, 1)
  <2>1. 1 > n \/ (0 < n /\ 0 \in 0..n /\ 0 + 1 = 1)
    BY <1>0
  <2>2. ASSUME 0 < n, 0 \in 0..n, 0 + 1 = 1 PROVE Modes(s)[1] = Opens(s[1])
    <3>1. Modes(s)[0 + 1] = Step(Modes(s)[0], s[0 + 1]) /\ Modes(s)[0] = <<"code">>
      BY <1>0, <2>2, ModesNext, ModesEquation, Zenon
    <3>2. Modes(s)[1] = Step(<<"code">>, s[1])
      BY <2>2, <3>1, Zenon
    <3> QED
      BY <3>2, StepFrom, Zenon
  <2> QED
    BY <2>1, <2>2, Zenon DEF Fresh
<1>4. 1 \in 1..(n + 3) /\ \A j \in C : j >= 1
  BY <1>0
<1>5. K[1] = Rest(1)
  <2>1. Good(1)
    BY <1>2, <1>4, Zenon
  <2> QED
    BY <1>3, <2>1, Zenon
<1> QED
  BY <1>4, <1>5, Zenon DEF strip_sql_noise

-----------------------------------------------------------------------------
(* The theorems *)

\* The text is made of symbols of its kind.
TextInv == kind \in DOMAIN Alphabet /\ text \in Seq(Alphabet[kind])

\* Every text that Grow and Again reach is made of symbols of its kind.
THEOREM TextsTyped == Spec => []TextInv
<1>1. Init => TextInv
  <2>1. \A S : <<>> \in Seq(S)
    OBVIOUS
  <2> QED
    BY <2>1, Zenon DEF Init, TextInv
<1>2. ASSUME TextInv, [Next]_vars PROVE TextInv'
  <2>1. CASE Grow
    <3>1. PICK piece \in Pieces : text' = text \o piece
      BY <2>1, Zenon DEF Grow
    <3>2. kind' = kind
      BY <2>1, Zenon DEF Grow
    <3>3. piece \in Seq(Alphabet[kind])
      <4>1. CASE kind = "ddl"
        <5>1. Alphabet["ddl"] = DdlWords
          BY DEF Alphabet
        <5> QED
          BY <3>1, <4>1, <5>1, InputAssumption, Zenon DEF Pieces
      <4>2. CASE kind # "ddl"
        <5>1. PICK c \in Alphabet[kind] : piece = <<c>>
          BY <3>1, <4>2, Zenon DEF Pieces
        <5>2. \A S : \A d \in S : <<d>> \in Seq(S)
          OBVIOUS
        <5> QED
          BY <5>1, <5>2, Zenon
      <4> QED
        BY <4>1, <4>2, Zenon
    <3>4. text \o piece \in Seq(Alphabet[kind])
      BY <1>2, <3>3, ConcatProperties, Zenon DEF TextInv
    <3> QED
      BY <1>2, <3>1, <3>2, <3>4, Zenon DEF TextInv, Alphabet
  <2>2. CASE Again
    <3>1. \A S : <<>> \in Seq(S)
      OBVIOUS
    <3> QED
      BY <1>2, <2>2, <3>1, Zenon DEF Again, TextInv, Alphabet
  <2>3. CASE UNCHANGED vars
    BY <1>2, <2>3, Zenon DEF TextInv, vars, Alphabet
  <2> QED
    BY <1>2, <2>1, <2>2, <2>3, Zenon DEF Next
<1> QED
  BY <1>1, <1>2, PTL DEF Spec

\* is_valid_utf8 accepts exactly the well-formed texts, of any length and over
\* any bytes.
THEOREM Utf8IsExact == Spec => []Utf8Exact
<1>1. TextInv => Utf8Exact
  <2> SUFFICES ASSUME TextInv, kind = "utf8"
               PROVE  is_valid_utf8(text) = WellFormed(text)
    BY Zenon DEF Utf8Exact
  <2>1. text \in Seq(Bytes)
    BY DEF TextInv, Alphabet
  <2>2. text \in Seq(Byte)
    <3>1. Bytes \subseteq Byte
      BY InputAssumption, Zenon DEF Byte
    <3> QED
      BY <2>1, <3>1, SeqMonotonic, Zenon
  <2> QED
    BY <2>2, Utf8Correct, Zenon
<1> QED
  BY <1>1, TextsTyped, PTL

\* validate_properties accepts exactly the lists it should, and every code with
\* which it refuses another is of a fault that list has, for any list and limit.
THEOREM PropertiesAreSound == Spec => []PropertiesSound
<1>1. TextInv => PropertiesSound
  <2> SUFFICES ASSUME TextInv, kind = "properties" PROVE PropertiesSound
    BY Zenon DEF PropertiesSound
  <2> DEFINE D == 1..Len(text)
             duplicate == Cardinality(Keys) < Len(text)
             value(v) == \E i \in DOMAIN text : text[i].value = v
             code == validate_properties(text)
             first == ErrorFrom(text)[1]
             Dup(i) == \E k \in 1..(i - 1) : text[k].key = text[i].key
  <2>1. text \in Seq(Property)
    BY DEF TextInv, Alphabet
  <2>2. Len(text) \in Nat /\ DOMAIN text = D
    BY <2>1, LenProperties
  <2>3. duplicate <=> \E i \in D : Dup(i)
    BY <2>1, FewerKeys, Zenon DEF Keys
  <2>4. /\ Keys \cap {"bad", "pt_reserved"} = {}
             <=> \A i \in D : text[i].key \notin {"bad", "pt_reserved"}
        /\ "pt_reserved" \in Keys <=> \E i \in D : text[i].key = "pt_reserved"
        /\ "bad" \in Keys <=> \E i \in D : text[i].key = "bad"
    BY <2>2, Zenon DEF Keys
  <2>5. \A v : value(v) <=> \E i \in D : text[i].value = v
    BY <2>2, Zenon
  <2>6. first = "Ok" <=> \A i \in D : PropertyError(text, i) = "Ok"
    BY <2>2, FirstError, Zenon
  <2>7. first # "Ok" => \E i \in D : first = PropertyError(text, i)
    BY <2>2, FirstError, Zenon
  <2>8. code = IF Len(text) > max_properties THEN "TooManyProperties" ELSE first
    BY Zenon DEF validate_properties
  <2>9. Len(text) > max_properties <=> ~(Len(text) <= max_properties)
    BY <2>2, RulesAssumption
  <2> HIDE DEF duplicate, value, code, first, D
  <2>10. first = "Ok" <=>
           /\ ~duplicate
           /\ Keys \cap {"bad", "pt_reserved"} = {}
           /\ ~value("long") /\ ~value("broken")
    <3>1. ASSUME first = "Ok"
          PROVE  /\ ~duplicate
                 /\ Keys \cap {"bad", "pt_reserved"} = {}
                 /\ ~value("long") /\ ~value("broken")
      <4>1. \A i \in D : /\ text[i].key \notin {"bad", "pt_reserved"} /\ ~Dup(i)
                         /\ text[i].value # "long" /\ text[i].value # "broken"
        BY <2>1, <2>6, <3>1, ErrorOf, Zenon DEF D
      <4> QED
        BY <2>3, <2>4, <2>5, <4>1, Zenon
    <3>2. ASSUME ~duplicate, Keys \cap {"bad", "pt_reserved"} = {},
                 ~value("long"), ~value("broken")
          PROVE  first = "Ok"
      <4>1. \A i \in D : /\ text[i].key \notin {"bad", "pt_reserved"} /\ ~Dup(i)
                         /\ text[i].value # "long" /\ text[i].value # "broken"
        BY <2>3, <2>4, <2>5, <3>2, Zenon
      <4>2. \A i \in D : PropertyError(text, i) = "Ok"
        BY <2>1, <4>1, ErrorOf, Zenon DEF D
      <4> QED
        BY <2>6, <4>2, Zenon
    <3> QED
      BY <3>1, <3>2, Zenon
  <2>11. /\ first = "DuplicateKey" => duplicate
         /\ first = "ReservedKey" => "pt_reserved" \in Keys
         /\ first = "ValueTooLarge" => value("long")
         /\ first = "InvalidProperty" => "bad" \in Keys \/ value("broken")
         /\ first # "TooManyProperties"
    <3>1. CASE first = "Ok"
      BY <3>1
    <3>2. CASE first # "Ok"
      <4>1. PICK i \in D : first = PropertyError(text, i)
        BY <2>7, <3>2, Zenon
      <4>2. /\ first = "DuplicateKey" => Dup(i)
            /\ first = "ReservedKey" => text[i].key = "pt_reserved"
            /\ first = "ValueTooLarge" => text[i].value = "long"
            /\ first = "InvalidProperty" => text[i].key = "bad" \/ text[i].value = "broken"
            /\ first # "TooManyProperties"
        BY <2>1, <4>1, ErrorOf, Zenon DEF D
      <4> QED
        BY <2>3, <2>4, <2>5, <4>2, Zenon
    <3> QED
      BY <3>1, <3>2, Zenon
  <2>12. code = "Ok" <=> Len(text) <= max_properties /\ first = "Ok"
    BY <2>8, <2>9
  <2>13. /\ code = "DuplicateKey" => first = "DuplicateKey"
         /\ code = "ReservedKey" => first = "ReservedKey"
         /\ code = "ValueTooLarge" => first = "ValueTooLarge"
         /\ code = "InvalidProperty" => first = "InvalidProperty"
    BY <2>8
  <2>14. code = "Ok" <=>
           /\ Len(text) <= max_properties
           /\ ~duplicate
           /\ Keys \cap {"bad", "pt_reserved"} = {}
           /\ ~value("long") /\ ~value("broken")
    BY <2>10, <2>12, Zenon
  <2>15. /\ code = "DuplicateKey" => duplicate
         /\ code = "ReservedKey" => "pt_reserved" \in Keys
         /\ code = "ValueTooLarge" => value("long")
         /\ code = "InvalidProperty" => "bad" \in Keys \/ value("broken")
    BY <2>11, <2>13, Zenon
  <2>16. code = "TooManyProperties" <=> Len(text) > max_properties
    BY <2>8, <2>11, Zenon
  <2> QED
    BY <2>14, <2>15, <2>16, Zenon DEF PropertiesSound, duplicate, value, code
<1> QED
  BY <1>1, TextsTyped, PTL

\* strip_sql_noise blanks exactly the comments and the quoted regions, in a text
\* of any length over any symbols.
THEOREM NoiseIsStripped == Spec => []NoiseStripped
<1>1. TextInv => NoiseStripped
  <2> SUFFICES ASSUME TextInv PROVE strip_sql_noise(text) = Code(text)
    BY Zenon DEF NoiseStripped
  <2>1. Len(text) \in Nat
    BY LenProperties, Zenon DEF TextInv
  <2> QED
    BY <2>1, NoiseCorrect, Zenon
<1> QED
  BY <1>1, TextsTyped, PTL
=============================================================================
