------------------------- MODULE SchemaCheckProofs -------------------------
(***************************************************************************)
(* check_expressions finds the CHECK constraint that the schema must have, *)
(* in a text of any length over any words.  The recursion and induction    *)
(* over places are those of InputRulesProofs.                              *)
(***************************************************************************)
EXTENDS InputRulesProofs

-----------------------------------------------------------------------------
(* check_expressions *)

\* What a symbol adds to the depth of parentheses.
Turn(c) == IF c = "(" THEN 1 ELSE IF c = ")" THEN -1 ELSE 0

\* The depths of parentheses, as a function.
LEMMA DepthsSolve ==
    ASSUME NEW s, Len(s) \in Nat, NEW p \in 1..Len(s)
    PROVE  Depths(s, p) = [i \in (p - 1)..Len(s) |->
                             IF i = p - 1 THEN 0 ELSE Depths(s, p)[i - 1] + Turn(s[i])]
<1> DEFINE m == p - 1
           n == Len(s)
           D == m..n
           V == Int
           Body(f, i) ==
             IF i = p - 1 THEN 0 ELSE f[i - 1] + Turn(s[i])
           F == [x \in D \X [D -> V] |-> Body(x[2], x[1])]
           Solves(f) == f = [i \in D |-> Body(f, i)]
<1>1. n \in Int /\ m \in Int
  OBVIOUS
<1>2. ASSUME NEW i \in D, NEW f \in [D -> V] PROVE Body(f, i) \in V
  <2>1. i = p - 1 \/ i - 1 \in D
    OBVIOUS
  <2>2. Turn(s[i]) \in Int /\ 0 \in Int
    BY DEF Turn
  <2>3. i - 1 \in D => f[i - 1] \in Int
    BY <1>2, Zenon
  <2>4. \A a, b \in Int : a + b \in Int
    OBVIOUS
  <2> QED
    BY <2>1, <2>2, <2>3, <2>4, Zenon
<1>3. ASSUME NEW i \in D, NEW f \in [D -> V], NEW g \in [D -> V],
             \A j \in m..(i - 1) : f[j] = g[j]
      PROVE  Body(f, i) = Body(g, i)
  <2>1. i = p - 1 \/ i - 1 \in m..(i - 1)
    OBVIOUS
  <2> QED
    BY <1>3, <2>1, Zenon
<1>v. V # {}
  OBVIOUS
<1> HIDE DEF Body, D, m, n, V
<1>4. /\ F \in [D \X [D -> V] -> V]
      /\ \A i \in D : \A f \in [D -> V] : F[<<i, f>>] = Body(f, i)
  BY <1>2, Zenon
<1> HIDE DEF F
<1>5. LooksBefore(m, n, V, F)
  <2>1. \A i \in D : \A f, g \in [D -> V] :
          (\A j \in m..(i - 1) : f[j] = g[j]) => F[<<i, f>>] = F[<<i, g>>]
    <3> SUFFICES ASSUME NEW i \in D, NEW f \in [D -> V], NEW g \in [D -> V],
                        \A j \in m..(i - 1) : f[j] = g[j]
                 PROVE  F[<<i, f>>] = F[<<i, g>>]
      BY Zenon
    <3>1. Body(f, i) = Body(g, i)
      BY <1>3, Zenon
    <3> QED
      BY <1>4, <3>1, Zenon
  <2> QED
    BY <1>4, <1>v, <2>1, Zenon DEF LooksBefore, D
<1>6. Defined(D, V, F)
  BY <1>1, <1>5, UpRecursion, Zenon DEF D
<1>7. PICK f \in [D -> V] : \A i \in D : f[i] = F[<<i, f>>]
  BY <1>6, Zenon DEF Defined
<1>8. Solves(f)
  <2>1. \A i \in D : f[i] = Body(f, i)
    BY <1>4, <1>7, Zenon
  <2> QED
    BY <1>7, <2>1, Zenon
<1>9. Depths(s, p) = CHOOSE g : Solves(g)
  BY Zenon DEF Depths, Turn, Body, D, m, n
<1>10. Solves(Depths(s, p))
  BY <1>8, <1>9, Zenon
<1> QED
  BY <1>10, Zenon DEF Body, D, m, n

\* The depths of parentheses, as an equation.
LEMMA DepthsEquation ==
    ASSUME NEW s, Len(s) \in Nat, NEW p \in 1..Len(s)
    PROVE  /\ Depths(s, p)[p - 1] = 0
           /\ \A j \in p..Len(s) : Depths(s, p)[j] = Depths(s, p)[j - 1] + Turn(s[j])
<1>1. p - 1 \in (p - 1)..Len(s) /\ \A j \in p..Len(s) : j \in (p - 1)..Len(s) /\ j # p - 1
  OBVIOUS
<1>2. \A j \in (p - 1)..Len(s) :
        Depths(s, p)[j] = IF j = p - 1 THEN 0 ELSE Depths(s, p)[j - 1] + Turn(s[j])
  BY DepthsSolve, Zenon
<1> QED
  BY <1>1, <1>2, Zenon

\* What collapse_spaces has written, as a function.
LEMMA CollapsedSolves ==
    ASSUME NEW T, NEW s \in Seq(T), Len(s) \in Nat, \A j \in 1..Len(s) : s[j] \in T
    PROVE  Collapsed(s) = [i \in 0..Len(s) |->
                            IF i = 0 THEN <<>>
                            ELSE IF s[i] = " " THEN Collapsed(s)[i - 1]
                            ELSE Append(Collapsed(s)[i - 1], s[i])]
<1> DEFINE m == 0
           n == Len(s)
           D == m..n
           V == Seq(T)
           Body(f, i) ==
             IF i = 0 THEN <<>>
             ELSE IF s[i] = " " THEN f[i - 1] ELSE Append(f[i - 1], s[i])
           F == [x \in D \X [D -> V] |-> Body(x[2], x[1])]
           Solves(f) == f = [i \in D |-> Body(f, i)]
<1>1. n \in Int /\ m \in Int
  OBVIOUS
<1>2. ASSUME NEW i \in D, NEW f \in [D -> V] PROVE Body(f, i) \in V
  <2>1. <<>> \in V
    OBVIOUS
  <2>2. i = 0 \/ (i - 1 \in D /\ i \in 1..Len(s))
    OBVIOUS
  <2>3. CASE i # 0
    <3>1. f[i - 1] \in V /\ s[i] \in T
      BY <1>2, <2>2, <2>3, Zenon
    <3>2. Append(f[i - 1], s[i]) \in V
      BY <3>1, AppendProperties, Zenon
    <3> HIDE DEF V
    <3> QED
      BY <2>3, <3>1, <3>2, Zenon
  <2> HIDE DEF V
  <2> QED
    BY <2>1, <2>3, Zenon
<1>3. ASSUME NEW i \in D, NEW f \in [D -> V], NEW g \in [D -> V],
             \A j \in m..(i - 1) : f[j] = g[j]
      PROVE  Body(f, i) = Body(g, i)
  <2>1. i = 0 \/ i - 1 \in m..(i - 1)
    OBVIOUS
  <2> QED
    BY <1>3, <2>1, Zenon
<1>v. V # {}
  OBVIOUS
<1> HIDE DEF Body, D, m, n, V
<1>4. /\ F \in [D \X [D -> V] -> V]
      /\ \A i \in D : \A f \in [D -> V] : F[<<i, f>>] = Body(f, i)
  BY <1>2, Zenon
<1> HIDE DEF F
<1>5. LooksBefore(m, n, V, F)
  <2>1. \A i \in D : \A f, g \in [D -> V] :
          (\A j \in m..(i - 1) : f[j] = g[j]) => F[<<i, f>>] = F[<<i, g>>]
    <3> SUFFICES ASSUME NEW i \in D, NEW f \in [D -> V], NEW g \in [D -> V],
                        \A j \in m..(i - 1) : f[j] = g[j]
                 PROVE  F[<<i, f>>] = F[<<i, g>>]
      BY Zenon
    <3>1. Body(f, i) = Body(g, i)
      BY <1>3, Zenon
    <3> QED
      BY <1>4, <3>1, Zenon
  <2> QED
    BY <1>4, <1>v, <2>1, Zenon DEF LooksBefore, D
<1>6. Defined(D, V, F)
  BY <1>1, <1>5, UpRecursion, Zenon DEF D
<1>7. PICK f \in [D -> V] : \A i \in D : f[i] = F[<<i, f>>]
  BY <1>6, Zenon DEF Defined
<1>8. Solves(f)
  <2>1. \A i \in D : f[i] = Body(f, i)
    BY <1>4, <1>7, Zenon
  <2> QED
    BY <1>7, <2>1, Zenon
<1>9. Collapsed(s) = CHOOSE g : Solves(g)
  BY Zenon DEF Collapsed, Body, D, m, n
<1>10. Solves(Collapsed(s))
  BY <1>8, <1>9, Zenon
<1> QED
  BY <1>10, Zenon DEF Body, D, m, n

\* What collapse_spaces has written, as an equation.
LEMMA CollapsedEquation ==
    ASSUME NEW T, NEW s \in Seq(T)
    PROVE  /\ Len(s) \in Nat
           /\ Collapsed(s)[0] = <<>>
           /\ \A j \in 1..Len(s) :
                Collapsed(s)[j] = IF s[j] = " " THEN Collapsed(s)[j - 1]
                                  ELSE Append(Collapsed(s)[j - 1], s[j])
<1>1. Len(s) \in Nat /\ \A j \in 1..Len(s) : s[j] \in T
  BY ElementOfSeq, LenProperties, Zenon
<1>2. 0 \in 0..Len(s) /\ \A j \in 1..Len(s) : j \in 0..Len(s) /\ j # 0
  BY <1>1
<1>3. \A j \in 0..Len(s) :
        Collapsed(s)[j] = IF j = 0 THEN <<>>
                          ELSE IF s[j] = " " THEN Collapsed(s)[j - 1]
                          ELSE Append(Collapsed(s)[j - 1], s[j])
  BY <1>1, CollapsedSolves, Zenon
<1> QED
  BY <1>1, <1>2, <1>3, Zenon

\* Where the next CHECK is.
LEMMA CheckAtIs ==
    ASSUME NEW s, Len(s) \in Nat, NEW i \in 1..(Len(s) + 1)
    PROVE  LET at == CheckAt(s, i)
           IN  /\ at \in i..(Len(s) + 1)
               /\ at <= Len(s) => s[at] = "check"
               /\ \A j \in i..Len(s) : s[j] = "check" => at <= j
<1> DEFINE n == Len(s)
           P == {j \in i..n : s[j] = "check"}
<1>1. P \in SUBSET (1..n)
  OBVIOUS
<1>2. PICK at : at = FirstAt(s, P)
  BY Zenon
<1>3. at \in 1..(n + 1) /\ (at \in P \/ at = n + 1) /\ \A j \in P : at <= j
  BY <1>1, <1>2, FirstAtIs, Zenon
<1>4. at \in P => at \in i..n /\ s[at] = "check"
  OBVIOUS
<1>5. \A j \in i..n : s[j] = "check" => at <= j
  BY <1>3, Zenon
<1>6. at \in i..(n + 1) /\ (at <= n => s[at] = "check")
  <2> HIDE DEF P
  <2> QED
    BY <1>3, <1>4
<1> QED
  BY <1>2, <1>5, <1>6, Zenon DEF CheckAt

\* Where the first symbol after it is that is no space.
LEMMA OpenAtIs ==
    ASSUME NEW s, Len(s) \in Nat, NEW at \in 1..Len(s)
    PROVE  LET p == OpenAt(s, at)
           IN  /\ p \in (at + 1)..(Len(s) + 1)
               /\ p <= Len(s) => s[p] # " "
               /\ \A j \in (at + 1)..(p - 1) : s[j] = " "
               /\ \A j \in (at + 1)..Len(s) : s[j] # " " => p <= j
<1> DEFINE n == Len(s)
           P == {j \in (at + 1)..n : s[j] # " "}
<1>0. \A j \in (at + 1)..n : j \in 1..n
  OBVIOUS
<1>1. P \in SUBSET (1..n)
  BY <1>0, Zenon
<1>2. PICK p : p = FirstAt(s, P)
  BY Zenon
<1>3. p \in 1..(n + 1) /\ (p \in P \/ p = n + 1) /\ \A j \in P : p <= j
  BY <1>1, <1>2, FirstAtIs, Zenon
<1>4. p \in P => p \in (at + 1)..n /\ s[p] # " "
  BY Zenon
<1>5. \A j \in (at + 1)..n : s[j] # " " => p <= j
  BY <1>3, Zenon
<1>6. p \in (at + 1)..n \/ p = n + 1
  BY <1>3, <1>4, Zenon
<1>7. /\ p \in (at + 1)..(n + 1) /\ (p <= n => p # n + 1)
      /\ \A j \in (at + 1)..(p - 1) : j \in (at + 1)..n /\ ~(p <= j)
  <2> HIDE DEF P
  <2> QED
    BY <1>6
<1>8. p <= n => s[p] # " "
  BY <1>3, <1>4, <1>7, Zenon
<1> QED
  BY <1>2, <1>5, <1>7, <1>8, Zenon DEF OpenAt

\* The closing parenthesis is the first place where the depth is zero.
LEMMA ClosingIs ==
    ASSUME NEW s, Len(s) \in Nat, NEW p \in 1..Len(s)
    PROVE  LET q == Closing(s, p)
           IN  /\ q \in p..(Len(s) + 1)
               /\ q <= Len(s) => Depths(s, p)[q] = 0
               /\ \A j \in p..Len(s) : Depths(s, p)[j] = 0 => q <= j
<1> DEFINE n == Len(s)
           P == {j \in p..n : Depths(s, p)[j] = 0}
<1>1. P \in SUBSET (1..n)
  OBVIOUS
<1>2. PICK q : q = FirstAt(s, P)
  BY Zenon
<1>3. q \in 1..(n + 1) /\ (q \in P \/ q = n + 1) /\ \A j \in P : q <= j
  BY <1>1, <1>2, FirstAtIs, Zenon
<1>4. q \in P => q \in p..n /\ Depths(s, p)[q] = 0
  OBVIOUS
<1>5. \A j \in p..n : Depths(s, p)[j] = 0 => q <= j
  BY <1>3, Zenon
<1>6. q \in p..(n + 1) /\ (q <= n => Depths(s, p)[q] = 0)
  <2> HIDE DEF P
  <2> QED
    BY <1>3, <1>4
<1> QED
  BY <1>2, <1>5, <1>6, Zenon DEF Closing

\* What the loop finds from i on is within the text, and its next place is later.
LEMMA FindWithin ==
    ASSUME NEW s, Len(s) \in Nat, NEW i \in 1..(Len(s) + 1),
           ~(CheckAt(s, i) > Len(s))
    PROVE  LET at == CheckAt(s, i)
               p == OpenAt(s, at)
               q == CloseAt(s, p)
           IN  /\ at \in i..Len(s) /\ at \in 1..Len(s)
               /\ at + 1 \in (i + 1)..(Len(s) + 1)
               /\ p \in (at + 1)..(Len(s) + 1)
               /\ ~(q > Len(s)) =>
                    /\ p \in (at + 1)..Len(s) /\ p \in 1..Len(s) /\ s[p] = "("
                    /\ q = Closing(s, p) /\ q \in p..Len(s) /\ q \in 1..Len(s)
                    /\ q + 1 \in (i + 1)..(Len(s) + 1)
<1>1. PICK n, at : n = Len(s) /\ at = CheckAt(s, i)
  BY Zenon
<1>2. at \in i..n /\ at \in 1..n /\ at + 1 \in (i + 1)..(n + 1) /\ n \in Nat
  <2>1. at \in i..(n + 1)
    BY <1>1, CheckAtIs, Zenon
  <2>2. n \in Nat /\ i \in 1..(n + 1) /\ ~(at > n)
    BY <1>1, Zenon
  <2> QED
    BY <2>1, <2>2
<1>3. PICK p, q : p = OpenAt(s, at) /\ q = CloseAt(s, p)
  BY Zenon
<1>4. p \in (at + 1)..(n + 1)
  BY <1>1, <1>2, <1>3, OpenAtIs, Zenon
<1>5. ASSUME ~(q > n)
      PROVE  /\ p \in (at + 1)..n /\ p \in 1..n /\ s[p] = "("
             /\ q = Closing(s, p) /\ q \in p..n /\ q \in 1..n /\ q + 1 \in (i + 1)..(n + 1)
  <2>1. n + 1 > n
    BY <1>2
  <2>2. Is(s, p, "(") /\ q = Closing(s, p)
    BY <1>1, <1>3, <1>5, <2>1, Zenon DEF CloseAt
  <2>3. s[p] = "(" /\ p <= n
    BY <1>1, <2>2, Zenon DEF Is
  <2>4. p \in (at + 1)..n /\ p \in 1..n
    BY <1>2, <1>4, <2>3
  <2>5. q \in p..(n + 1)
    BY <1>1, <2>2, <2>4, ClosingIs, Zenon
  <2>6. i \in 1..(n + 1)
    BY <1>1, Zenon
  <2>7. q \in p..n /\ q \in 1..n /\ q + 1 \in (i + 1)..(n + 1)
    BY <1>2, <1>5, <2>4, <2>5, <2>6
  <2> QED
    BY <2>2, <2>3, <2>4, <2>7, Zenon
<1> QED
  BY <1>1, <1>2, <1>3, <1>4, <1>5, Zenon

\* The parts of a text, without their spaces.
Extracts(s) == {collapse_spaces(SubSeq(s, x[1] + 1, x[2] - 1)) :
                  x \in (1..Len(s)) \X (1..Len(s))}

\* What the loop may collect is such a part.
LEMMA ExtractsHave ==
    ASSUME NEW s, NEW p \in 1..Len(s), NEW q \in 1..Len(s)
    PROVE  collapse_spaces(SubSeq(s, p + 1, q - 1)) \in Extracts(s)
<1> DEFINE x == <<p, q>>
<1>1. x \in (1..Len(s)) \X (1..Len(s)) /\ x[1] = p /\ x[2] = q
  BY Zenon
<1> HIDE DEF x
<1> QED
  BY <1>1, Zenon DEF Extracts

\* The loop of check_expressions, as an equation.
LEMMA ExpressionsEquation ==
    ASSUME NEW s, Len(s) \in Nat
    PROVE  \A i \in 1..(Len(s) + 1) :
             ExpressionsFrom(s)[i] =
               LET at == CheckAt(s, i)
                   p == OpenAt(s, at)
                   q == CloseAt(s, p)
               IN  IF at > Len(s) THEN {}
                   ELSE IF ~WholeWord(s, at) \/ q > Len(s) THEN ExpressionsFrom(s)[at + 1]
                   ELSE {collapse_spaces(SubSeq(s, p + 1, q - 1))} \cup ExpressionsFrom(s)[q + 1]
<1> DEFINE m == 1
           n == Len(s) + 1
           D == m..n
           V == SUBSET Extracts(s)
           Body(f, i) ==
             LET at == CheckAt(s, i)
                 p == OpenAt(s, at)
                 q == CloseAt(s, p)
             IN  IF at > Len(s) THEN {}
                 ELSE IF ~WholeWord(s, at) \/ q > Len(s) THEN f[at + 1]
                 ELSE {collapse_spaces(SubSeq(s, p + 1, q - 1))} \cup f[q + 1]
           F == [x \in D \X [D -> V] |-> Body(x[2], x[1])]
           Solves(f) == f = [i \in D |-> Body(f, i)]
<1>1. n \in Int /\ m \in Int
  OBVIOUS
<1>2. ASSUME NEW i \in D, NEW f \in [D -> V] PROVE Body(f, i) \in V
  <2>0. PICK at : at = CheckAt(s, i)
    BY Zenon
  <2>1. PICK p, q : at = CheckAt(s, i) /\ p = OpenAt(s, at) /\ q = CloseAt(s, p)
    BY <2>0, Zenon
  <2>2. i \in 1..(Len(s) + 1) /\ (i + 1)..n \subseteq D
    OBVIOUS
  <2>3. CASE at > Len(s)
    BY <2>1, <2>3, Zenon
  <2>4. CASE ~(at > Len(s)) /\ (~WholeWord(s, at) \/ q > Len(s))
    <3>1. at + 1 \in D
      BY <2>1, <2>2, <2>4, FindWithin, Zenon
    <3>2. f[at + 1] \in V
      BY <1>2, <3>1, Zenon
    <3> QED
      BY <2>1, <2>4, <3>2, Zenon
  <2>5. CASE ~(at > Len(s)) /\ WholeWord(s, at) /\ ~(q > Len(s))
    <3>1. q + 1 \in D /\ p \in 1..Len(s) /\ q \in 1..Len(s)
      BY <2>1, <2>2, <2>5, FindWithin, Zenon
    <3>2. f[q + 1] \in V
      BY <1>2, <3>1, Zenon
    <3>3. {collapse_spaces(SubSeq(s, p + 1, q - 1))} \cup f[q + 1] \in V
      BY <3>1, <3>2, ExtractsHave, Zenon
    <3> QED
      BY <2>1, <2>5, <3>3, Zenon
  <2> QED
    BY <2>3, <2>4, <2>5, Zenon
<1>3. ASSUME NEW i \in D, NEW f \in [D -> V], NEW g \in [D -> V],
             \A j \in (i + 1)..n : f[j] = g[j]
      PROVE  Body(f, i) = Body(g, i)
  <2>0. PICK at : at = CheckAt(s, i)
    BY Zenon
  <2>1. PICK p, q : at = CheckAt(s, i) /\ p = OpenAt(s, at) /\ q = CloseAt(s, p)
    BY <2>0, Zenon
  <2>2. i \in 1..(Len(s) + 1)
    OBVIOUS
  <2>3. ~(at > Len(s)) => f[at + 1] = g[at + 1]
    BY <1>3, <2>1, <2>2, FindWithin, Zenon
  <2>4. ~(at > Len(s)) /\ ~(q > Len(s)) => f[q + 1] = g[q + 1]
    BY <1>3, <2>1, <2>2, FindWithin, Zenon
  <2> QED
    BY <2>1, <2>3, <2>4, Zenon
<1>v. V # {}
  BY Zenon
<1> HIDE DEF Body, D, m, n, V
<1>4. /\ F \in [D \X [D -> V] -> V]
      /\ \A i \in D : \A f \in [D -> V] : F[<<i, f>>] = Body(f, i)
  BY <1>2, Zenon
<1> HIDE DEF F
<1>5. LooksAfter(m, n, V, F)
  <2>1. \A i \in D : \A f, g \in [D -> V] :
          (\A j \in (i + 1)..n : f[j] = g[j]) => F[<<i, f>>] = F[<<i, g>>]
    <3> SUFFICES ASSUME NEW i \in D, NEW f \in [D -> V], NEW g \in [D -> V],
                        \A j \in (i + 1)..n : f[j] = g[j]
                 PROVE  F[<<i, f>>] = F[<<i, g>>]
      BY Zenon
    <3>1. Body(f, i) = Body(g, i)
      BY <1>3, Zenon
    <3> QED
      BY <1>4, <3>1, Zenon
  <2> QED
    BY <1>4, <1>v, <2>1, Zenon DEF LooksAfter, D
<1>6. Defined(D, V, F)
  BY <1>1, <1>5, DownRecursion, Zenon DEF D
<1>7. PICK f \in [D -> V] : \A i \in D : f[i] = F[<<i, f>>]
  BY <1>6, Zenon DEF Defined
<1>8. Solves(f)
  <2>1. \A i \in D : f[i] = Body(f, i)
    BY <1>4, <1>7, Zenon
  <2> QED
    BY <1>7, <2>1, Zenon
<1>9. ExpressionsFrom(s) = CHOOSE g : Solves(g)
  BY Zenon DEF ExpressionsFrom, Body, D, m, n
<1>10. Solves(ExpressionsFrom(s))
  BY <1>8, <1>9, Zenon
<1> QED
  BY <1>10, Zenon DEF Body, D, m, n

\* What a symbol adds to the depth.
LEMMA Turns ==
    /\ \A c : Turn(c) \in {-1, 0, 1} /\ (Turn(c) = -1 => c = ")")
    /\ Turn("(") = 1 /\ Turn(")") = -1
    /\ \A c : c # "(" /\ c # ")" => Turn(c) = 0
BY DEF Turn

\* The place where the depth first returns to zero is a closing parenthesis.
LEMMA ClosesThere ==
    ASSUME NEW s, Len(s) \in Nat, NEW p \in 1..Len(s), s[p] = "(",
           Closing(s, p) \in p..Len(s)
    PROVE  Closing(s, p) \in (p + 1)..Len(s) /\ s[Closing(s, p)] = ")"
<1>1. PICK n, q, D : n = Len(s) /\ q = Closing(s, p) /\ D = Depths(s, p)
  BY Zenon
<1>2. n \in Nat /\ p \in 1..n /\ q \in p..n
  BY <1>1, Zenon
<1>3. /\ D[p - 1] = 0
      /\ \A j \in p..n : D[j] = D[j - 1] + Turn(s[j])
  BY <1>1, DepthsEquation, Zenon
<1>4. D[q] = 0 /\ \A j \in p..n : D[j] = 0 => q <= j
  <2>1. q <= n
    BY <1>2
  <2> QED
    BY <1>1, <2>1, ClosingIs, Zenon
<1>5. D[p] = 1
  <2>1. p \in p..n
    BY <1>2
  <2>2. D[p] = 0 + 1
    BY <1>3, <2>1, Turns, Zenon
  <2> QED
    BY <2>2
<1>6. q \in (p + 1)..n
  BY <1>2, <1>4, <1>5
<1>7. \A k \in p..(q - 1) : D[k] \in Nat \ {0}
  <2> DEFINE S == {k \in p..(q - 1) : D[k] \in Nat \ {0}}
  <2>1. ASSUME NEW k \in p..(q - 1), \A j \in p..(k - 1) : j \in S
        PROVE  D[k] \in Nat \ {0}
    <3>1. CASE k = p
      BY <1>5, <3>1
    <3>2. CASE k # p
      <4>1. k - 1 \in p..(k - 1) /\ k \in p..n /\ ~(q <= k)
        BY <1>2, <3>2
      <4>2. /\ D[k - 1] \in Nat \ {0} /\ D[k] = D[k - 1] + Turn(s[k])
            /\ D[k] # 0 /\ Turn(s[k]) \in {-1, 0, 1}
        BY <1>3, <1>4, <2>1, <4>1, Turns, Zenon
      <4> QED
        BY <4>2
    <3> QED
      BY <3>1, <3>2, Zenon
  <2>2. ASSUME NEW k \in p..(q - 1), \A j \in p..(k - 1) : j \in S
        PROVE  k \in S
    BY <2>1, <2>2, Zenon
  <2>3. p \in Int /\ q - 1 \in Int
    BY <1>2
  <2> HIDE DEF S
  <2>4. \A k \in p..(q - 1) : k \in S
    BY <2>2, <2>3, UpInduction, Zenon
  <2> QED
    BY <2>4, Zenon DEF S
<1>8. s[q] = ")"
  <2>1. q - 1 \in p..(q - 1) /\ q \in p..n
    BY <1>2, <1>6
  <2>2. /\ D[q - 1] \in Nat \ {0} /\ 0 = D[q - 1] + Turn(s[q])
        /\ Turn(s[q]) \in {-1, 0, 1}
    BY <1>3, <1>4, <1>7, <2>1, Turns, Zenon
  <2>3. Turn(s[q]) = -1
    BY <2>2
  <2> QED
    BY <2>3, Turns, Zenon
<1> QED
  BY <1>1, <1>6, <1>8, Zenon

\* An expression that the loop collects follows a real CHECK.
LEMMA CheckSound ==
    ASSUME NEW s, Len(s) \in Nat, Wanted \in check_expressions(s)
    PROVE  \E at \in 1..Len(s) : RealCheckAt(s, at)
<1> DEFINE n == Len(s)
           E == ExpressionsFrom(s)
           Good(i) == Wanted \in E[i] => \E at \in 1..n : RealCheckAt(s, at)
           S == {i \in 1..(n + 1) : Good(i)}
<1>1. ASSUME NEW i \in 1..(n + 1), \A k \in (i + 1)..(n + 1) : k \in S,
             Wanted \in E[i]
      PROVE  \E at \in 1..n : RealCheckAt(s, at)
  <2>0. PICK at : at = CheckAt(s, i)
    BY Zenon
  <2>1. PICK p, q : p = OpenAt(s, at) /\ q = CloseAt(s, p)
    BY Zenon
  <2>2. E[i] = IF at > n THEN {}
               ELSE IF ~WholeWord(s, at) \/ q > n THEN E[at + 1]
               ELSE {collapse_spaces(SubSeq(s, p + 1, q - 1))} \cup E[q + 1]
    BY <2>0, <2>1, ExpressionsEquation, Zenon
  <2>3. ~(at > n)
    BY <1>1, <2>2, Zenon
  <2>4. /\ at \in i..n /\ at \in 1..n /\ at + 1 \in (i + 1)..(n + 1)
        /\ p \in (at + 1)..(n + 1)
        /\ ~(q > n) =>
             /\ p \in (at + 1)..n /\ p \in 1..n /\ s[p] = "("
             /\ q = Closing(s, p) /\ q \in p..n /\ q \in 1..n
             /\ q + 1 \in (i + 1)..(n + 1)
    BY <2>0, <2>1, <2>3, FindWithin, Zenon
  <2>5. ASSUME NEW k \in (i + 1)..(n + 1), Wanted \in E[k]
        PROVE  \E a \in 1..n : RealCheckAt(s, a)
    BY <1>1, <2>5, Zenon
  <2>6. CASE ~WholeWord(s, at) \/ q > n
    <3>1. Wanted \in E[at + 1]
      BY <1>1, <2>2, <2>3, <2>6, Zenon
    <3> QED
      BY <2>4, <2>5, <3>1, Zenon
  <2>7. CASE WholeWord(s, at) /\ ~(q > n) /\ Wanted \in E[q + 1]
    BY <2>4, <2>5, <2>7, Zenon
  <2>8. CASE /\ WholeWord(s, at) /\ ~(q > n)
             /\ Wanted = collapse_spaces(SubSeq(s, p + 1, q - 1))
    <3>1. q \in (p + 1)..n /\ s[q] = ")"
      BY <2>4, <2>8, ClosesThere, Zenon
    <3>2. p \in at..n /\ q \in at..n /\ p < q /\ at <= n
      BY <2>4, <2>8, <3>1
    <3>3. s[at] = "check"
      BY <2>0, <3>2, CheckAtIs, Zenon
    <3>4. \A j \in (at + 1)..(p - 1) : s[j] = " "
      BY <2>1, <2>4, OpenAtIs, Zenon
    <3>5. RealCheckAt(s, at)
      BY <2>4, <2>8, <3>1, <3>2, <3>3, <3>4, Zenon DEF RealCheckAt
    <3> QED
      BY <2>4, <3>5, Zenon
  <2>9. \/ Wanted \in E[q + 1] \/ Wanted = collapse_spaces(SubSeq(s, p + 1, q - 1))
        \/ ~WholeWord(s, at) \/ q > n
    BY <1>1, <2>2, <2>3, Zenon
  <2> QED
    BY <2>6, <2>7, <2>8, <2>9, Zenon
<1>2. ASSUME NEW i \in 1..(n + 1), \A k \in (i + 1)..(n + 1) : k \in S
      PROVE  i \in S
  <2>1. Good(i)
    BY <1>1, <1>2, Zenon
  <2> QED
    BY <2>1, Zenon
<1>3. 1 \in Int /\ n + 1 \in Int /\ 1 \in 1..(n + 1)
  OBVIOUS
<1>4. 1 \in S
  <2> HIDE DEF S
  <2> QED
    BY <1>2, <1>3, DownInduction, Zenon
<1>5. Good(1)
  BY <1>4, Zenon
<1> QED
  BY <1>5, Zenon DEF check_expressions

\* What collapse_spaces may have written on the way to the wanted expression,
\* and how many parentheses are open in it.
Part == {<<>>, <<"length">>, <<"length", "(">>, Wanted}
Balance(c) == IF c = <<"length", "(">> THEN 1 ELSE 0

\* A symbol that leads to such a part is the next one of the expression.
LEMMA PartGrows ==
    ASSUME NEW T, NEW c \in Seq(T), NEW x \in T, Append(c, x) \in Part
    PROVE  \/ c = <<>> /\ x = "length"
           \/ c = <<"length">> /\ x = "("
           \/ c = <<"length", "(">> /\ x = ")"
<1> DEFINE d == Append(c, x)
<1>1. /\ Len(c) \in Nat /\ Len(d) = Len(c) + 1 /\ d[Len(c) + 1] = x
      /\ \A i \in 1..Len(c) : d[i] = c[i]
  <2>1. Len(c) \in Nat
    BY LenProperties, Zenon
  <2>2. Len(c) + 1 \in 1..(Len(c) + 1) /\ ~(Len(c) + 1 <= Len(c))
    BY <2>1
  <2> QED
    BY AppendProperties
<1>2. d \in Part
  OBVIOUS
<1> HIDE DEF d
<1>n. \A k : k = Len(c) => k \in Nat /\ Len(d) = k + 1
  BY <1>1, Zenon
<1>3. CASE d = <<>>
  BY <1>1, <1>3
<1>4. CASE d = <<"length">>
  <2>1. Len(c) = 0 /\ x = "length"
    BY <1>1, <1>4
  <2> QED
    BY <2>1, EmptySeq, Zenon
<1>5. CASE d = <<"length", "(">>
  <2>1. Len(d) = 2 /\ d[1] = "length" /\ d[2] = "("
    BY <1>5
  <2>2. Len(c) = 1 /\ Len(c) + 1 = 2 /\ 1 \in 1..Len(c)
    <3>1. PICK k : k = Len(c)
      OBVIOUS
    <3>2. k \in Nat /\ k + 1 = 2
      BY <1>n, <2>1, <3>1, Zenon
    <3>3. k = 1 /\ k + 1 = 2 /\ 1 \in 1..k
      BY <3>2
    <3> QED
      BY <3>1, <3>3, Zenon
  <2>3. Len(c) = 1 /\ x = "(" /\ c[1] = "length"
    BY <1>1, <2>1, <2>2, Zenon
  <2> QED
    BY <2>3
<1>6. CASE d = Wanted
  <2>1. Len(d) = 3 /\ d[1] = "length" /\ d[2] = "(" /\ d[3] = ")"
    BY <1>6 DEF Wanted
  <2>2. Len(c) = 2 /\ Len(c) + 1 = 3 /\ 1 \in 1..Len(c) /\ 2 \in 1..Len(c)
    <3>1. PICK k : k = Len(c)
      OBVIOUS
    <3>2. k \in Nat /\ k + 1 = 3
      BY <1>n, <2>1, <3>1, Zenon
    <3>3. k = 2 /\ k + 1 = 3 /\ 1 \in 1..k /\ 2 \in 1..k
      BY <3>2
    <3> QED
      BY <3>1, <3>3, Zenon
  <2>3. Len(c) = 2 /\ x = ")" /\ c[1] = "length" /\ c[2] = "("
    BY <1>1, <2>1, <2>2, Zenon
  <2> QED
    BY <2>3
<1> QED
  BY <1>2, <1>3, <1>4, <1>5, <1>6, Zenon DEF Part

\* A sequence with one more element than another is that one with it appended.
LEMMA AppendIs ==
    ASSUME NEW T, NEW c \in Seq(T), NEW d \in Seq(T), NEW x \in T,
           Len(d) = Len(c) + 1, d[Len(c) + 1] = x, \A i \in 1..Len(c) : c[i] = d[i]
    PROVE  Append(c, x) = d
<1>1. /\ Append(c, x) \in Seq(T) /\ Len(Append(c, x)) = Len(c) + 1
      /\ \A i \in 1..Len(c) : Append(c, x)[i] = c[i]
      /\ Append(c, x)[Len(c) + 1] = x
  BY AppendProperties
<1>2. Len(c) \in Nat
  BY LenProperties, Zenon
<1>3. \A i \in 1..(Len(c) + 1) : i \in 1..Len(c) \/ i = Len(c) + 1
  BY <1>2
<1>4. \A i \in 1..(Len(c) + 1) : Append(c, x)[i] = d[i]
  BY <1>1, <1>3, Zenon
<1> QED
  BY <1>1, <1>4, SeqEqual, Zenon

\* The parts, each from the one before it.
LEMMA PartsGrown ==
    /\ Append(<<>>, "length") = <<"length">> /\ Turn("length") = 0
    /\ Append(<<"length">>, "(") = <<"length", "(">>
    /\ Append(<<"length", "(">>, ")") = Wanted
<1> DEFINE T == {"length", "(", ")"}
<1>1. Append(<<>>, "length") = <<"length">>
  OBVIOUS
<1>2. Append(<<"length">>, "(") = <<"length", "(">>
  <2>1. PICK c, d : c = <<"length">> /\ d = <<"length", "(">>
    BY Zenon
  <2>2. c \in Seq(T) /\ d \in Seq(T) /\ "(" \in T
    BY <2>1
  <2>3. Len(c) = 1 /\ Len(d) = 2 /\ c[1] = "length" /\ d[1] = "length" /\ d[2] = "("
    BY <2>1
  <2>4. 1 + 1 = 2 /\ \A i \in 1..1 : i = 1
    OBVIOUS
  <2>5. Len(d) = Len(c) + 1 /\ d[Len(c) + 1] = "(" /\ \A i \in 1..Len(c) : c[i] = d[i]
    BY <2>3, <2>4, Zenon
  <2> HIDE DEF T
  <2>6. Append(c, "(") = d
    BY <2>2, <2>5, AppendIs
  <2> QED
    BY <2>1, <2>6, Zenon
<1>3. Append(<<"length", "(">>, ")") = Wanted
  <2>1. PICK c, d : c = <<"length", "(">> /\ d = Wanted
    BY Zenon
  <2>2. c \in Seq(T) /\ d \in Seq(T) /\ ")" \in T
    BY <2>1 DEF Wanted
  <2>3. /\ Len(c) = 2 /\ Len(d) = 3 /\ c[1] = "length" /\ c[2] = "("
        /\ d[1] = "length" /\ d[2] = "(" /\ d[3] = ")"
    BY <2>1 DEF Wanted
  <2>4. 2 + 1 = 3 /\ \A i \in 1..2 : i = 1 \/ i = 2
    OBVIOUS
  <2>5. Len(d) = Len(c) + 1 /\ d[Len(c) + 1] = ")" /\ \A i \in 1..Len(c) : c[i] = d[i]
    BY <2>3, <2>4, Zenon
  <2> HIDE DEF T
  <2>6. Append(c, ")") = d
    BY <2>2, <2>5, AppendIs
  <2> QED
    BY <2>1, <2>6, Zenon
<1>4. Turn("length") = 0
  BY DEF Turn
<1> QED
  BY <1>1, <1>2, <1>3, <1>4, Zenon

\* What collapse_spaces has written is a sequence of the symbols of the text.
LEMMA CollapsedTyped ==
    ASSUME NEW T, NEW u \in Seq(T)
    PROVE  \A k \in 0..Len(u) : Collapsed(u)[k] \in Seq(T)
<1> DEFINE L == Len(u)
           C == Collapsed(u)
           S == {k \in 0..L : C[k] \in Seq(T)}
<1>0. L \in Nat
  BY LenProperties, Zenon
<1>1. ASSUME NEW k \in 0..L, \A j \in 0..(k - 1) : j \in S
      PROVE  C[k] \in Seq(T)
  <2>1. CASE k = 0
    <3>1. C[k] = <<>>
      BY <2>1, CollapsedEquation, Zenon
    <3> QED
      BY <3>1
  <2>2. CASE k # 0
    <3>1. k \in 1..L /\ k - 1 \in 0..(k - 1)
      BY <1>0, <2>2
    <3>2. C[k] = IF u[k] = " " THEN C[k - 1] ELSE Append(C[k - 1], u[k])
      BY <3>1, CollapsedEquation, Zenon
    <3>3. C[k - 1] \in Seq(T) /\ u[k] \in T
      BY <1>1, <3>1, ElementOfSeq, Zenon
    <3>4. Append(C[k - 1], u[k]) \in Seq(T)
      BY <3>3, AppendProperties, Zenon
    <3> QED
      BY <3>2, <3>3, <3>4, Zenon
  <2> QED
    BY <2>1, <2>2, Zenon
<1>2. ASSUME NEW k \in 0..L, \A j \in 0..(k - 1) : j \in S
      PROVE  k \in S
  BY <1>1, <1>2, Zenon
<1>3. 0 \in Int /\ L \in Int
  BY <1>0
<1>4. \A k \in 0..L : k \in S
  <2> HIDE DEF S, L
  <2> QED
    BY <1>2, <1>3, UpInduction, Zenon
<1> QED
  BY <1>4, Zenon

\* On the way to the wanted expression there are only its parts.
LEMMA CollapsedParts ==
    ASSUME NEW T, NEW u \in Seq(T), collapse_spaces(u) = Wanted
    PROVE  \A k \in 0..Len(u) : Collapsed(u)[k] \in Part
<1> DEFINE L == Len(u)
           C == Collapsed(u)
           S == {k \in 0..L : C[k] \in Part}
<1>0. L \in Nat
  BY LenProperties, Zenon
<1>1. ASSUME NEW k \in 0..L, \A j \in (k + 1)..L : j \in S
      PROVE  C[k] \in Part
  <2>1. CASE k = L
    BY <2>1, Zenon DEF collapse_spaces, Part
  <2>2. CASE k # L
    <3>1. k + 1 \in 1..L /\ k + 1 \in (k + 1)..L /\ (k + 1) - 1 = k
      BY <1>0, <2>2
    <3>2. C[k + 1] = IF u[k + 1] = " " THEN C[k] ELSE Append(C[k], u[k + 1])
      <4>1. C[k + 1] = IF u[k + 1] = " " THEN C[(k + 1) - 1]
                       ELSE Append(C[(k + 1) - 1], u[k + 1])
        BY <3>1, CollapsedEquation, Zenon
      <4> QED
        BY <3>1, <4>1, Zenon
    <3>3. C[k + 1] \in Part /\ C[k] \in Seq(T) /\ u[k + 1] \in T
      BY <1>1, <3>1, CollapsedTyped, ElementOfSeq, Zenon
    <3>4. CASE u[k + 1] = " "
      BY <3>2, <3>3, <3>4, Zenon
    <3>5. CASE u[k + 1] # " "
      <4>1. Append(C[k], u[k + 1]) \in Part
        BY <3>2, <3>3, <3>5, Zenon
      <4> QED
        BY <3>3, <4>1, PartGrows, Zenon DEF Part
    <3> QED
      BY <3>4, <3>5, Zenon
  <2> QED
    BY <2>1, <2>2, Zenon
<1>2. ASSUME NEW k \in 0..L, \A j \in (k + 1)..L : j \in S
      PROVE  k \in S
  BY <1>1, <1>2, Zenon
<1>3. 0 \in Int /\ L \in Int
  BY <1>0
<1>4. \A k \in 0..L : k \in S
  <2> HIDE DEF S, L
  <2> QED
    BY <1>2, <1>3, DownInduction, Zenon
<1> QED
  BY <1>4, Zenon

\* Between the parentheses of the wanted expression the depth is at least one,
\* and the one that closes it is where it ends.
LEMMA ClosingOf ==
    ASSUME NEW T, NEW s \in Seq(T), NEW p \in 1..Len(s), NEW q \in (p + 1)..Len(s),
           s[p] = "(", s[q] = ")", collapse_spaces(SubSeq(s, p + 1, q - 1)) = Wanted
    PROVE  Closing(s, p) = q
<1>1. PICK n, u, L, D, C : /\ n = Len(s) /\ u = SubSeq(s, p + 1, q - 1) /\ L = (q - 1) - p
                           /\ D = Depths(s, p) /\ C = Collapsed(SubSeq(s, p + 1, q - 1))
  BY Zenon
<1>2. n \in Nat /\ p \in 1..n /\ q \in (p + 1)..n /\ \A k \in 1..n : s[k] \in T
  BY <1>1, LenProperties, ElementOfSeq, Zenon
<1>3. L \in Nat /\ p + L = q - 1 /\ p + 1 \in Int /\ q - 1 \in Int
  BY <1>1, <1>2
<1>4. u \in Seq(T) /\ Len(u) = L /\ \A k \in 1..L : u[k] = s[p + k]
  <2>1. \A k \in (p + 1)..(q - 1) : k \in 1..n
    BY <1>2
  <2>2. /\ u \in Seq(T) /\ Len(u) = IF p + 1 <= q - 1 THEN (q - 1) - (p + 1) + 1 ELSE 0
        /\ \A k \in 1..((q - 1) - (p + 1) + 1) : u[k] = s[(p + 1) + k - 1]
    <3>1. \A k \in (p + 1)..(q - 1) : s[k] \in T
      BY <1>2, <2>1, Zenon
    <3>2. /\ SubSeq(s, p + 1, q - 1) \in Seq(T)
          /\ Len(SubSeq(s, p + 1, q - 1)) =
               IF p + 1 <= q - 1 THEN (q - 1) - (p + 1) + 1 ELSE 0
          /\ \A k \in 1..((q - 1) - (p + 1) + 1) :
               SubSeq(s, p + 1, q - 1)[k] = s[(p + 1) + k - 1]
      <4>1. PICK a \in Int, b \in Int : a = p + 1 /\ b = q - 1
        BY <1>3, Zenon
      <4>2. /\ SubSeq(s, a, b) \in Seq(T)
            /\ Len(SubSeq(s, a, b)) = IF a <= b THEN b - a + 1 ELSE 0
            /\ \A k \in 1..(b - a + 1) : SubSeq(s, a, b)[k] = s[a + k - 1]
        <5>1. \A k \in a..b : s[k] \in T
          BY <3>1, <4>1, Zenon
        <5> QED
          BY <4>1, <5>1, SubSeqProperties, SMTT(30)
      <4> QED
        BY <4>1, <4>2, Zenon
    <3> QED
      BY <1>1, <3>2, Zenon
  <2>3. L = IF p + 1 <= q - 1 THEN (q - 1) - (p + 1) + 1 ELSE 0
    BY <1>1, <1>2
  <2>4. \A k \in 1..L : k \in 1..((q - 1) - (p + 1) + 1) /\ (p + 1) + k - 1 = p + k
    BY <1>1, <1>2
  <2>5. ASSUME NEW k \in 1..L PROVE u[k] = s[p + k]
    <3>1. u[k] = s[(p + 1) + k - 1] /\ (p + 1) + k - 1 = p + k
      BY <2>2, <2>4, Zenon
    <3> QED
      BY <3>1, Zenon
  <2> QED
    BY <2>2, <2>3, <2>5, Zenon
<1>5. /\ \A k \in 0..L : C[k] \in Part /\ C[k] \in Seq(T)
      /\ C[0] = <<>> /\ C[L] = Wanted
      /\ \A k \in 1..L : C[k] = IF u[k] = " " THEN C[k - 1] ELSE Append(C[k - 1], u[k])
  <2>1. C = Collapsed(u) /\ collapse_spaces(u) = Wanted
    BY <1>1, Zenon
  <2> QED
    BY <1>4, <2>1, CollapsedParts, CollapsedTyped, CollapsedEquation, Zenon
       DEF collapse_spaces
<1>6. D[p - 1] = 0 /\ \A j \in p..n : D[j] = D[j - 1] + Turn(s[j])
  BY <1>1, <1>2, DepthsEquation, Zenon
<1>7. /\ Balance(<<>>) = 0 /\ Balance(<<"length">>) = 0
      /\ Balance(<<"length", "(">>) = 1 /\ Balance(Wanted) = 0
      /\ \A c : Balance(c) \in {0, 1}
  BY DEF Balance, Wanted
<1>8. ASSUME NEW k \in 1..L
      PROVE  Balance(C[k]) = Balance(C[k - 1]) + Turn(u[k])
  <2>0. k \in 0..L /\ k - 1 \in 0..L
    BY <1>3
  <2>1. C[k] \in Part /\ C[k - 1] \in Seq(T) /\ u[k] \in T
    BY <1>4, <1>5, <2>0, ElementOfSeq, Zenon
  <2>2. C[k] = IF u[k] = " " THEN C[k - 1] ELSE Append(C[k - 1], u[k])
    BY <1>5, Zenon
  <2>3. \A c : Balance(c) = Balance(c) + 0
    BY <1>7
  <2>4. CASE u[k] = " "
    <3>1. " " # "(" /\ " " # ")"
      BY Zenon
    <3>2. C[k] = C[k - 1] /\ Turn(u[k]) = 0
      BY <2>2, <2>4, <3>1, Turns, Zenon
    <3> QED
      BY <2>3, <3>2, Zenon
  <2>5. CASE u[k] # " "
    <3>1. C[k] = Append(C[k - 1], u[k])
      BY <2>2, <2>5, Zenon
    <3>2. \/ C[k - 1] = <<>> /\ u[k] = "length"
          \/ C[k - 1] = <<"length">> /\ u[k] = "("
          \/ C[k - 1] = <<"length", "(">> /\ u[k] = ")"
      BY <2>1, <3>1, PartGrows, Zenon
    <3>3. CASE C[k - 1] = <<>> /\ u[k] = "length"
      BY <1>7, <2>3, <3>1, <3>3, PartsGrown, Zenon
    <3>4. CASE C[k - 1] = <<"length">> /\ u[k] = "("
      <4>1. 1 = 0 + 1
        OBVIOUS
      <4> QED
        BY <1>7, <3>1, <3>4, <4>1, PartsGrown, Turns, Zenon
    <3>5. CASE C[k - 1] = <<"length", "(">> /\ u[k] = ")"
      <4>1. 0 = 1 + (-1)
        OBVIOUS
      <4> QED
        BY <1>7, <3>1, <3>5, <4>1, PartsGrown, Turns, Zenon
    <3> QED
      BY <3>2, <3>3, <3>4, <3>5, Zenon
  <2> QED
    BY <2>4, <2>5, Zenon
<1>9. \A k \in 0..L : D[p + k] = 1 + Balance(C[k])
  <2> DEFINE S == {k \in 0..L : D[p + k] = 1 + Balance(C[k])}
  <2>1. ASSUME NEW k \in 0..L, \A j \in 0..(k - 1) : j \in S
        PROVE  D[p + k] = 1 + Balance(C[k])
    <3>1. CASE k = 0
      <4>1. p \in p..n /\ p + 0 = p /\ 1 = 1 + 0 /\ 1 = 0 + 1
        BY <1>2
      <4>2. D[p] = 0 + 1
        BY <1>6, <4>1, Turns, Zenon
      <4> QED
        BY <1>5, <1>7, <3>1, <4>1, <4>2, Zenon
    <3>2. CASE k # 0
      <4>1. /\ k \in 1..L /\ k - 1 \in 0..(k - 1) /\ p + k \in p..n
            /\ (p + k) - 1 = p + (k - 1)
        BY <1>2, <1>3, <3>2
      <4>2. D[p + k] = D[p + (k - 1)] + Turn(u[k])
        <5>1. D[p + k] = D[(p + k) - 1] + Turn(s[p + k])
          BY <1>6, <4>1, Zenon
        <5> QED
          BY <1>4, <4>1, <5>1, Zenon
      <4>3. /\ D[p + (k - 1)] = 1 + Balance(C[k - 1])
            /\ Balance(C[k]) = Balance(C[k - 1]) + Turn(u[k])
            /\ Balance(C[k - 1]) \in {0, 1} /\ Turn(u[k]) \in {-1, 0, 1}
        BY <1>7, <1>8, <2>1, <4>1, Turns, Zenon
      <4> QED
        BY <4>2, <4>3
    <3> QED
      BY <3>1, <3>2, Zenon
  <2>2. ASSUME NEW k \in 0..L, \A j \in 0..(k - 1) : j \in S
        PROVE  k \in S
    BY <2>1, <2>2, Zenon
  <2>3. 0 \in Int /\ L \in Int
    BY <1>3
  <2> HIDE DEF S
  <2>4. \A k \in 0..L : k \in S
    BY <2>2, <2>3, UpInduction, Zenon
  <2> QED
    BY <2>4, Zenon DEF S
<1>10. \A j \in p..(q - 1) : D[j] # 0
  <2>1. ASSUME NEW j \in p..(q - 1) PROVE D[j] # 0
    <3>1. PICK k : k = j - p
      OBVIOUS
    <3>2. k \in 0..L /\ p + k = j
      BY <1>1, <1>2, <3>1
    <3>3. D[j] = 1 + Balance(C[k]) /\ Balance(C[k]) \in {0, 1}
      BY <1>7, <1>9, <3>2, Zenon
    <3> QED
      BY <3>3
  <2> QED
    BY <2>1, Zenon
<1>11. D[q] = 0
  <2>1. q \in p..n /\ L \in 0..L
    BY <1>2, <1>3
  <2>2. D[p + L] = 1 + 0
    BY <1>5, <1>7, <1>9, <2>1, Zenon
  <2>3. D[q - 1] = 1 + 0
    BY <1>3, <2>2, Zenon
  <2>4. D[q] = D[q - 1] + (-1)
    BY <1>6, <2>1, Turns, Zenon
  <2> QED
    BY <2>3, <2>4
<1>12. PICK m : m = Closing(s, p)
  OBVIOUS
<1>13. m \in p..(n + 1) /\ (m <= n => D[m] = 0) /\ \A j \in p..n : D[j] = 0 => m <= j
  BY <1>1, <1>2, <1>12, ClosingIs, Zenon
<1>14. m <= q
  <2>1. q \in p..n
    BY <1>2
  <2> QED
    BY <1>11, <1>13, <2>1, Zenon
<1>15. ~(m \in p..(q - 1))
  <2>1. m <= n
    BY <1>2, <1>13, <1>14
  <2> QED
    BY <1>10, <1>13, <2>1, Zenon
<1>16. m = q
  BY <1>2, <1>13, <1>14, <1>15
<1> QED
  BY <1>12, <1>16, Zenon

\* What puts a place inside a CHECK.
LEMMA IsInside ==
    ASSUME NEW s, NEW at, NEW other \in 1..(at - 1),
           NEW p \in (other + 1)..(at - 1), NEW q \in (at + 1)..Len(s),
           s[other] = "check", WholeWord(s, other), s[p] = "(", Depths(s, p)[q] = 0,
           \A j \in (other + 1)..(p - 1) : s[j] = " ",
           \A j \in p..(q - 1) : Depths(s, p)[j] # 0
    PROVE  InsideCheck(s, at)
<1> USE DEF InsideCheck
<1> WITNESS other \in 1..(at - 1)
<1> WITNESS p \in (other + 1)..(at - 1), q \in (at + 1)..Len(s)
<1> QED
  BY Zenon

\* The loop collects the expression of a real CHECK that is inside no other.
LEMMA CheckComplete ==
    ASSUME NEW T, NEW s \in Seq(T), NEW r \in 1..Len(s), RealCheckAt(s, r),
           ~InsideCheck(s, r)
    PROVE  Wanted \in check_expressions(s)
<1> DEFINE n == Len(s)
           E == ExpressionsFrom(s)
           S == {i \in 1..r : Wanted \in E[i]}
<1>0. n \in Nat /\ r \in 1..n /\ 1 \in Int /\ r \in Int /\ 1 \in 1..r
  BY LenProperties
<1>1. PICK p, q \in r..n :
        /\ p < q /\ s[p] = "(" /\ s[q] = ")"
        /\ \A j \in (r + 1)..(p - 1) : s[j] = " "
        /\ collapse_spaces(SubSeq(s, p + 1, q - 1)) = Wanted
  BY Zenon DEF RealCheckAt
<1>2. s[r] = "check" /\ WholeWord(s, r)
  BY Zenon DEF RealCheckAt
<1>3. /\ p \in (r + 1)..n /\ p \in 1..n /\ q \in (p + 1)..n /\ ~(q > n) /\ ~(r > n)
      /\ p <= n
  <2>1. p # r
    <3>1. "check" # "("
      OBVIOUS
    <3> QED
      BY <1>1, <1>2, <3>1, Zenon
  <2>2. p \in r..n /\ q \in r..n /\ p < q
    BY <1>1, Zenon
  <2> QED
    BY <1>0, <2>1, <2>2
<1>4. Closing(s, p) = q
  BY <1>1, <1>3, ClosingOf, Zenon
<1>5. OpenAt(s, r) = p
  <2>1. PICK o : o = OpenAt(s, r)
    OBVIOUS
  <2>2. /\ o \in (r + 1)..(n + 1)
        /\ o <= n => s[o] # " "
        /\ \A j \in (r + 1)..n : s[j] # " " => o <= j
    BY <1>0, <2>1, OpenAtIs, Zenon
  <2>3. o <= p
    <3>1. "(" # " "
      BY Zenon
    <3> QED
      BY <1>1, <1>3, <2>2, <3>1, Zenon
  <2>4. ~(o \in (r + 1)..(p - 1))
    <3>1. o <= n
      <4>1. o \in (r + 1)..(n + 1) /\ o <= p /\ p \in 1..n
        BY <1>3, <2>2, <2>3, Zenon
      <4> QED
        BY <1>0, <4>1
    <3> QED
      BY <1>1, <2>2, <3>1, Zenon
  <2>5. o \in (r + 1)..(n + 1)
    BY <2>2, Zenon
  <2>6. o = p
    BY <1>0, <1>3, <2>3, <2>4, <2>5
  <2> QED
    BY <2>1, <2>6, Zenon
<1>6. CloseAt(s, p) = q
  BY <1>1, <1>3, <1>4, Zenon DEF CloseAt, Is
<1>7. ASSUME NEW i \in 1..r, \A k \in (i + 1)..r : k \in S
      PROVE  Wanted \in E[i]
  <2>0. i \in 1..(n + 1) /\ r \in i..n
    BY <1>0
  <2>1. PICK at : at = CheckAt(s, i)
    BY Zenon
  <2>2. at <= r /\ at \in i..(n + 1)
    BY <1>0, <1>2, <2>0, <2>1, CheckAtIs, Zenon
  <2>3. ~(at > n) /\ at \in 1..n /\ at <= n /\ (at = r \/ ~(r <= at))
    BY <1>0, <2>2
  <2>4. s[at] = "check"
    BY <1>0, <2>0, <2>1, <2>3, CheckAtIs, Zenon
  <2>5. E[i] = IF at > n THEN {}
               ELSE IF ~WholeWord(s, at) \/ CloseAt(s, OpenAt(s, at)) > n THEN E[at + 1]
               ELSE {collapse_spaces(SubSeq(s, OpenAt(s, at) + 1,
                                               CloseAt(s, OpenAt(s, at)) - 1))}
                    \cup E[CloseAt(s, OpenAt(s, at)) + 1]
    BY <1>0, <2>0, <2>1, ExpressionsEquation, Zenon
  <2>6. CASE at = r
    <3>1. E[i] = {collapse_spaces(SubSeq(s, p + 1, q - 1))} \cup E[q + 1]
      BY <1>2, <1>3, <1>5, <1>6, <2>3, <2>5, <2>6, Zenon
    <3> QED
      BY <1>1, <3>1, Zenon
  <2>7. CASE at # r /\ (~WholeWord(s, at) \/ CloseAt(s, OpenAt(s, at)) > n)
    <3>1. E[i] = E[at + 1]
      BY <2>3, <2>5, <2>7, Zenon
    <3>2. at + 1 \in (i + 1)..r
      BY <1>0, <2>2, <2>7
    <3> QED
      BY <1>7, <3>1, <3>2, Zenon
  <2>8. CASE at # r /\ WholeWord(s, at) /\ ~(CloseAt(s, OpenAt(s, at)) > n)
    <3>1. PICK o, c : o = OpenAt(s, at) /\ c = CloseAt(s, o)
      BY Zenon
    <3>2. /\ o \in (at + 1)..n /\ o \in 1..n /\ s[o] = "("
          /\ c = Closing(s, o) /\ c \in o..n
      BY <1>0, <2>0, <2>1, <2>3, <2>8, <3>1, FindWithin, Zenon
    <3>3. at \in 1..(r - 1) /\ r \in (at + 1)..n
      BY <1>0, <2>2, <2>3, <2>8
    <3>4. \A j \in (at + 1)..n : s[j] # " " => o <= j
      BY <1>0, <2>3, <3>1, OpenAtIs, Zenon
    <3>5. /\ Depths(s, o)[c] = 0
          /\ \A j \in o..n : Depths(s, o)[j] = 0 => c <= j
      <4>1. c <= n
        BY <1>0, <3>2
      <4> QED
        BY <1>0, <3>2, <4>1, ClosingIs, Zenon
    <3>6. \A j \in (at + 1)..(o - 1) : s[j] = " "
      <4>1. \A j \in (at + 1)..(o - 1) : j \in (at + 1)..n /\ ~(o <= j)
        BY <1>0, <2>3, <3>2
      <4> QED
        BY <3>4, <4>1, Zenon
    <3>7. \A j \in o..(c - 1) : Depths(s, o)[j] # 0
      <4>1. \A j \in o..(c - 1) : j \in o..n /\ ~(c <= j)
        BY <1>0, <3>2
      <4> QED
        BY <3>5, <4>1, Zenon
    <3>8. o <= r /\ o # r
      <4>1. "check" # " " /\ "check" # "("
        BY Zenon
      <4> QED
        BY <1>2, <3>2, <3>3, <3>4, <4>1, Zenon
    <3>9. o \in (at + 1)..(r - 1)
      BY <1>0, <3>2, <3>3, <3>8
    <3>10. ~(c \in (r + 1)..n)
      <4>1. ASSUME c \in (r + 1)..n PROVE InsideCheck(s, r)
        <5>1. s[at] = "check" /\ WholeWord(s, at) /\ s[o] = "(" /\ Depths(s, o)[c] = 0
          BY <2>4, <2>8, <3>2, <3>5, Zenon
        <5> QED
          BY <3>3, <3>6, <3>7, <3>9, <4>1, <5>1, IsInside, Zenon
      <4> QED
        BY <4>1, Zenon
    <3>11. c # r
      <4>1. "check" # ")"
        OBVIOUS
      <4>2. s[c] = ")"
        BY <1>0, <3>2, ClosesThere, Zenon
      <4> QED
        BY <1>2, <4>1, <4>2, Zenon
    <3>12. c + 1 \in (i + 1)..r
      BY <1>0, <2>2, <3>2, <3>10, <3>11
    <3>13. E[i] = {collapse_spaces(SubSeq(s, o + 1, c - 1))} \cup E[c + 1]
      BY <2>3, <2>5, <2>8, <3>1, Zenon
    <3> QED
      BY <1>7, <3>12, <3>13, Zenon
  <2> QED
    BY <2>6, <2>7, <2>8, Zenon
<1>8. ASSUME NEW i \in 1..r, \A k \in (i + 1)..r : k \in S
      PROVE  i \in S
  BY <1>7, <1>8, Zenon
<1>9. 1 \in S
  <2> HIDE DEF S
  <2> QED
    BY <1>0, <1>8, DownInduction, Zenon
<1> QED
  BY <1>9, Zenon DEF check_expressions

-----------------------------------------------------------------------------
(* The theorem *)

\* The CHECK constraint is found only where the word stands by itself before the
\* expression, and it is found unless it is inside the parentheses of another
\* CHECK, in a text of any length over any words.
THEOREM CheckIsFound == Spec => []CheckFound
<1>1. TextInv => CheckFound
  <2> SUFFICES ASSUME TextInv PROVE CheckFound
    OBVIOUS
  <2> DEFINE real == {at \in DOMAIN text : RealCheckAt(text, at)}
  <2>1. PICK T : text \in Seq(T)
    BY Zenon DEF TextInv
  <2>2. Len(text) \in Nat /\ DOMAIN text = 1..Len(text)
    BY <2>1, LenProperties, Zenon
  <2>3. HasCheck(text) => real # {}
    BY <2>2, CheckSound, Zenon DEF HasCheck
  <2>4. ASSUME NEW at \in real, ~InsideCheck(text, at) PROVE HasCheck(text)
    <3>1. at \in 1..Len(text) /\ RealCheckAt(text, at)
      BY <2>2, Zenon
    <3> QED
      BY <2>1, <2>4, <3>1, CheckComplete, Zenon DEF HasCheck
  <2> QED
    BY <2>3, <2>4, Zenon DEF CheckFound
<1> QED
  BY <1>1, TextsTyped, PTL
=============================================================================
