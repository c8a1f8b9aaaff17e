----------------------------- MODULE EventRules -----------------------------
(***************************************************************************)
(* The rules that input must meet before the SDK accepts it, as the code   *)
(* computes them (EventValidator), and next to each what it is meant to    *)
(* compute.                                                                *)
(***************************************************************************)
EXTENDS Integers, Sequences, FiniteSets

CONSTANT max_properties     \* Config::max_properties

ASSUME RulesAssumption == max_properties \in Nat

-----------------------------------------------------------------------------
(* is_valid_utf8: a text is a sequence of bytes *)

\* How many bytes follow the lead byte c; -1 for a byte that cannot lead.
Extra(c) ==
    CASE c < 128 -> 0
      [] c \div 32 = 6 -> 1
      [] c \div 16 = 14 -> 2
      [] c \div 8 = 30 -> 3
      [] OTHER -> -1

IsContinuation(c) == c \div 64 = 2

\* The code point of the lead byte p[i] and the extra bytes after it.
CodePoint(p, i, extra) ==
    LET bits(k) == p[i + k] % 64
    IN  CASE extra = 0 -> p[i]
          [] extra = 1 -> (p[i] % 32) * 64 + bits(1)
          [] extra = 2 -> ((p[i] % 16) * 64 + bits(1)) * 64 + bits(2)
          [] extra = 3 -> (((p[i] % 8) * 64 + bits(1)) * 64 + bits(2)) * 64 + bits(3)

\* Variant: surrogate halves are let through.
RangeWithoutSurrogates(cp, extra) ==
    /\ extra = 1 => cp >= 128
    /\ extra = 2 => cp >= 2048
    /\ extra = 3 => cp >= 65536
    /\ cp <= 1114111

\* Neither overlong, nor a surrogate half, nor beyond U+10FFFF.
InRange(cp, extra) ==
    /\ extra = 1 => cp >= 128
    /\ extra = 2 => cp >= 2048
    /\ extra = 3 => cp >= 65536
    /\ cp <= 1114111
    /\ cp \notin 55296..57343

\* One turn of the loop accepts what begins at i.
Accepts(p, i) ==
    LET extra == Extra(p[i])
    IN  /\ extra # -1
        /\ i + extra <= Len(p)
        /\ \A k \in 1..extra : IsContinuation(p[i + k])
        /\ InRange(CodePoint(p, i, extra), extra)

\* What the loop returns when it has come to i.
ValidFrom(p) ==
    LET Valid[i \in 1..(Len(p) + 1)] ==
          i <= Len(p) => Accepts(p, i) /\ Valid[i + Extra(p[i]) + 1]
    IN  Valid

is_valid_utf8(p) == ValidFrom(p)[1]

\* The well-formed sequences of the Unicode Standard, table 3-7: each row gives
\* the bytes allowed at each place.
WellFormedRows ==
    LET tail == 128..191
    IN  { <<0..127>>, <<194..223, tail>>,
          <<{224}, 160..191, tail>>, <<225..236, tail, tail>>,
          <<{237}, 128..159, tail>>, <<238..239, tail, tail>>,
          <<{240}, 144..191, tail, tail>>, <<241..243, tail, tail, tail>>,
          <<{244}, 128..143, tail, tail>> }

Fits(p, i, row) ==
    /\ i + Len(row) - 1 <= Len(p)
    /\ \A k \in 1..Len(row) : p[i + k - 1] \in row[k]

\* Whether the text from i on is a row after another.
WellFormedFrom(p) ==
    LET From[i \in 1..(Len(p) + 1)] ==
          i <= Len(p) =>
            \E row \in WellFormedRows : Fits(p, i, row) /\ From[i + Len(row)]
    IN  From

WellFormed(p) == WellFormedFrom(p)[1]

-----------------------------------------------------------------------------
(* validate_properties: a property is its key, and what its value is *)

\* A key is an identifier or not, reserved or not; a value is one of these.
KeyIsValid(key) == key # "bad"
is_reserved_key(key) == key = "pt_reserved"
ValueError ==
    [fine |-> "Ok", long |-> "ValueTooLarge", broken |-> "InvalidProperty"]

\* Variant: the keys seen are only those of the previous property.
PropertyErrorForgetful(ps, i) ==
    IF ~KeyIsValid(ps[i].key) THEN "InvalidProperty"
    ELSE IF is_reserved_key(ps[i].key) THEN "ReservedKey"
    ELSE IF i > 1 /\ ps[i].key = ps[i - 1].key THEN "DuplicateKey"
    ELSE ValueError[ps[i].value]

\* One turn of the loop: what is wrong with the property i, after those before.
PropertyError(ps, i) ==
    IF ~KeyIsValid(ps[i].key) THEN "InvalidProperty"
    ELSE IF is_reserved_key(ps[i].key) THEN "ReservedKey"
    ELSE IF \E k \in 1..(i - 1) : ps[k].key = ps[i].key THEN "DuplicateKey"
    ELSE ValueError[ps[i].value]

\* The loop over the properties, which returns the first error it meets.
ErrorFrom(ps) ==
    LET Check[i \in 1..(Len(ps) + 1)] ==
          IF i > Len(ps) THEN "Ok"
          ELSE IF PropertyError(ps, i) # "Ok" THEN PropertyError(ps, i)
          ELSE Check[i + 1]
    IN  Check

validate_properties(ps) ==
    IF Len(ps) > max_properties THEN "TooManyProperties" ELSE ErrorFrom(ps)[1]
=============================================================================
