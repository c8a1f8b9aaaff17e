----------------------------- MODULE InputRules -----------------------------
(***************************************************************************)
(* The algorithms that read input, on every text over an alphabet: what    *)
(* each is meant to compute, as a property of the text.  A text is what    *)
(* one kind of input is made of: bytes, properties, the symbols of SQL     *)
(* that strip_sql_noise tells apart, the words of a CREATE TABLE.          *)
(***************************************************************************)
EXTENDS EventRules, SchemaText

CONSTANTS
    Bytes,          \* of a string value
    PropertyKeys,
    SqlChars,       \* of the SQL text before it is stripped
    DdlWords,       \* of the SQL text after it
    DdlPhrases,     \* what such a text is put together from
    MaxPieces       \* the bound on a text of each kind

ASSUME InputAssumption ==
    /\ Bytes \subseteq 0..255
    /\ DdlPhrases \subseteq Seq(DdlWords)

VARIABLES
    kind,   \* what the text is read as
    text,
    pieces  \* it is made of

vars == <<kind, text, pieces>>

Property == [key : PropertyKeys, value : DOMAIN ValueError]

Alphabet == [utf8 |-> Bytes, properties |-> Property, noise |-> SqlChars,
             ddl |-> DdlWords]

\* What a text grows by.
Pieces == IF kind = "ddl" THEN DdlPhrases ELSE {<<c>> : c \in Alphabet[kind]}

Init ==
    /\ kind \in DOMAIN Alphabet
    /\ text = <<>>
    /\ pieces = 0

Grow ==
    /\ pieces < MaxPieces[kind]
    /\ \E piece \in Pieces : text' = text \o piece
    /\ pieces' = pieces + 1
    /\ UNCHANGED kind

\* Another text.
Again == text # <<>> /\ text' = <<>> /\ pieces' = 0 /\ UNCHANGED kind

Next == Grow \/ Again

Spec == Init /\ [][Next]_vars

-----------------------------------------------------------------------------
(* Properties *)

\* is_valid_utf8 accepts exactly the well-formed texts: no overlong form, no
\* surrogate half, nothing truncated, nothing beyond the last code point.
Utf8Exact == kind = "utf8" => is_valid_utf8(text) = WellFormed(text)

Keys == {text[i].key : i \in DOMAIN text}

\* validate_properties accepts exactly the lists within the limit whose keys
\* are distinct, valid and not reserved and whose values are all fine, and a
\* list it refuses is refused for a reason it has: TooManyProperties if and
\* only if it is too long, and each other code only if one of its properties
\* has that fault.
PropertiesSound ==
    kind = "properties" =>
      LET code == validate_properties(text)
          duplicate == Cardinality(Keys) < Len(text)
          value(v) == \E i \in DOMAIN text : text[i].value = v
      IN  /\ code = "Ok" <=>
               /\ Len(text) <= max_properties
               /\ ~duplicate
               /\ Keys \cap {"bad", "pt_reserved"} = {}
               /\ ~value("long") /\ ~value("broken")
          /\ code = "TooManyProperties" <=> Len(text) > max_properties
          /\ code = "InvalidProperty" => "bad" \in Keys \/ value("broken")
          /\ code = "DuplicateKey" => duplicate
          /\ code = "ReservedKey" => "pt_reserved" \in Keys
          /\ code = "ValueTooLarge" => value("long")

\* strip_sql_noise blanks exactly the comments and the quoted regions, however
\* they are nested in one another, escaped or left open.
NoiseStripped == kind = "noise" => strip_sql_noise(text) = Code(text)

\* The CHECK constraint is found only where the word stands by itself before
\* the expression; and it is found, whatever CHECKs come before it, unless it
\* is inside the parentheses of one of them (check_expressions,
\* validate_events_check).
CheckFound ==
    kind = "ddl" =>
      LET real == {at \in DOMAIN text : RealCheckAt(text, at)}
      IN  /\ HasCheck(text) => real # {}
          /\ (\E at \in real : ~InsideCheck(text, at)) => HasCheck(text)
=============================================================================
