----------------------------- MODULE SchemaText -----------------------------
(***************************************************************************)
(* How SqliteStore reads the text it finds in a database it did not write: *)
(* the CREATE TABLE of events, in which the CHECK constraint must be real  *)
(* and not merely spelled in a comment or a string.  Next to each          *)
(* algorithm is what it is meant to compute.                               *)
(*                                                                         *)
(* A text is a sequence of symbols: characters that mean something to the  *)
(* scan, and words that it does not look into.                             *)
(***************************************************************************)
EXTENDS Integers, Sequences, FiniteSets, FiniteSetsExt

-----------------------------------------------------------------------------
(* strip_sql_noise *)

\* The quotes that a second one of the same kind escapes.
Quotes == {"quote", "dquote", "backtick"}

Is(s, i, c) == i <= Len(s) /\ s[i] = c

\* The first of these places of s, or else beyond the end.
FirstAt(s, places) == Min(places \cup {Len(s) + 1})

\* Where the scan goes on, from each place of the quoted region that begins at
\* i; a doubled terminator is an escape, but not in brackets.
SkipQuoted(s, i) ==
    LET close == IF s[i] = "[" THEN "]" ELSE s[i]
        Skip[j \in 1..(Len(s) + 1)] ==
          IF j > Len(s) THEN j
          ELSE IF s[j] # close THEN Skip[j + 1]
          ELSE IF s[i] # "[" /\ Is(s, j + 1, close) THEN Skip[j + 2]
          ELSE j + 1
    IN  Skip

AfterQuoted(s, i) == SkipQuoted(s, i)[i + 1]

\* Where it goes on after the line comment at i: at the newline, which is kept.
AfterLine(s, i) == FirstAt(s, {j \in i..Len(s) : s[j] = "newline"})

\* Variant: the star that opens a comment may also close it.
AfterBlockSharedStar(s, i) ==
    FirstAt(s, {j \in (i + 1)..Len(s) : s[j] = "*" /\ Is(s, j + 1, "/")}) + 2

\* Where it goes on after the block comment at i: after the closing star and
\* slash, or at the end.
AfterBlock(s, i) == FirstAt(s, {j \in (i + 2)..Len(s) : s[j] = "*" /\ Is(s, j + 1, "/")}) + 2

\* The places that the scan keeps when it has come to i; the others become
\* spaces.
KeptFrom(s) ==
    LET Kept[i \in 1..(Len(s) + 3)] ==
          IF i > Len(s) THEN {}
          ELSE IF s[i] = "-" /\ Is(s, i + 1, "-") THEN Kept[AfterLine(s, i)]
          ELSE IF s[i] = "/" /\ Is(s, i + 1, "*") THEN Kept[AfterBlock(s, i)]
          ELSE IF s[i] \in Quotes \cup {"["} THEN Kept[AfterQuoted(s, i)]
          ELSE {i} \cup Kept[i + 1]
    IN  Kept

strip_sql_noise(s) == KeptFrom(s)[1]

\* What the scan is meant to see, as an automaton that reads one symbol at a
\* time and never looks ahead: the mode in which each symbol is read.
\* "dash" and "slash" have read what may begin a comment, "star" what may end
\* one, "quoted" and "closed" are inside a quotation and just after its
\* terminator, which a second one would turn into an escape.
Opens(c) ==
    CASE c = "-" -> <<"dash">>
      [] c = "/" -> <<"slash">>
      [] c = "[" -> <<"bracket">>
      [] c \in Quotes -> <<"quoted", c>>
      [] OTHER -> <<"code">>

Step(mode, c) ==
    CASE mode[1] = "dash" /\ c = "-" -> <<"line">>
      [] mode[1] = "slash" /\ c = "*" -> <<"block">>
      [] mode[1] = "line" -> IF c = "newline" THEN <<"code">> ELSE mode
      [] mode[1] = "block" -> IF c = "*" THEN <<"star">> ELSE mode
      [] mode[1] = "star" -> IF c = "/" THEN <<"ended">>
                             ELSE IF c = "*" THEN mode ELSE <<"block">>
      [] mode[1] = "bracket" -> IF c = "]" THEN <<"ended">> ELSE mode
      [] mode[1] = "quoted" -> IF c = mode[2] THEN <<"closed", c>> ELSE mode
      [] mode[1] = "closed" /\ c = mode[2] -> <<"quoted", c>>
      [] OTHER -> Opens(c)

Modes(s) ==
    LET After[i \in 0..Len(s)] == IF i = 0 THEN <<"code">> ELSE Step(After[i - 1], s[i])
    IN  After

\* A symbol is code if it is read in no comment and no quotation, and begins
\* none.
Code(s) ==
    LET modes == Modes(s)
        begins(i) == i < Len(s) /\ modes[i + 1][1] \in {"line", "block"}
                     /\ modes[i][1] \in {"dash", "slash"}
    IN  {i \in 1..Len(s) :
           /\ modes[i][1] \in {"code", "dash", "slash"}
           /\ ~begins(i)}

-----------------------------------------------------------------------------
(* check_expressions: the text is words, parentheses and spaces *)

IsWord(c) == c \in {"check", "word", "length"}

\* Stands for length(event_id)>0, which has parentheses of its own.
Wanted == <<"length", "(", ")">>

\* Variant: the expression ends at the next closing parenthesis.
ClosingUnbalanced(s, p) == FirstAt(s, {j \in p..Len(s) : s[j] = ")"})

\* How many of the parentheses from p to j are open.
Depths(s, p) ==
    LET Depth[j \in (p - 1)..Len(s)] ==
          IF j = p - 1 THEN 0
          ELSE Depth[j - 1] + (IF s[j] = "(" THEN 1 ELSE IF s[j] = ")" THEN -1 ELSE 0)
    IN  Depth

\* The parenthesis that closes the one at p, or beyond the end.
Closing(s, p) == FirstAt(s, {j \in p..Len(s) : Depths(s, p)[j] = 0})

\* The word at this place is not part of a longer identifier.
WholeWord(s, at) ==
    /\ at = 1 \/ ~IsWord(s[at - 1])
    /\ at = Len(s) \/ ~IsWord(s[at + 1])

\* What collapse_spaces has written after each symbol.
Collapsed(s) ==
    LET Out[i \in 0..Len(s)] ==
          IF i = 0 THEN <<>>
          ELSE IF s[i] = " " THEN Out[i - 1] ELSE Append(Out[i - 1], s[i])
    IN  Out

collapse_spaces(s) == Collapsed(s)[Len(s)]

\* The next CHECK from i on, the place after it that is no space, and the
\* parenthesis that closes the one there; each may be beyond the end.
CheckAt(s, i) == FirstAt(s, {j \in i..Len(s) : s[j] = "check"})
OpenAt(s, at) == FirstAt(s, {j \in (at + 1)..Len(s) : s[j] # " "})
CloseAt(s, p) == IF Is(s, p, "(") THEN Closing(s, p) ELSE Len(s) + 1

\* The expressions that the loop collects from i on, without their spaces.
ExpressionsFrom(s) ==
    LET From[i \in 1..(Len(s) + 1)] ==
          LET at == CheckAt(s, i)
              p == OpenAt(s, at)
              q == CloseAt(s, p)
          IN  IF at > Len(s) THEN {}
              ELSE IF ~WholeWord(s, at) \/ q > Len(s) THEN From[at + 1]
              ELSE {collapse_spaces(SubSeq(s, p + 1, q - 1))} \cup From[q + 1]
    IN  From

check_expressions(s) == ExpressionsFrom(s)[1]

\* What validate_events_check looks for among them.
HasCheck(s) == Wanted \in check_expressions(s)

\* What it is meant to find: the word CHECK by itself, then the expression
\* between parentheses and nothing else but spaces.
RealCheckAt(s, at) ==
    /\ s[at] = "check" /\ WholeWord(s, at)
    /\ \E p, q \in at..Len(s) :
         /\ p < q /\ s[p] = "(" /\ s[q] = ")"
         /\ \A j \in (at + 1)..(p - 1) : s[j] = " "
         /\ collapse_spaces(SubSeq(s, p + 1, q - 1)) = Wanted

\* This place is between the parentheses of another CHECK: the one after the
\* word, and the first after which as many are closed as opened.
InsideCheck(s, at) ==
    \E other \in 1..(at - 1) : \E p \in (other + 1)..(at - 1), q \in (at + 1)..Len(s) :
      /\ s[other] = "check" /\ WholeWord(s, other)
      /\ s[p] = "(" /\ \A j \in (other + 1)..(p - 1) : s[j] = " "
      /\ Depths(s, p)[q] = 0 /\ \A j \in p..(q - 1) : Depths(s, p)[j] # 0
=============================================================================
