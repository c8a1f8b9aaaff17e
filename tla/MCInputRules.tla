---------------------------- MODULE MCInputRules ----------------------------
(* The algorithms on all texts, up to a length, over alphabets of the        *)
(* symbols that they tell apart; a text grows by one symbol at a time, or    *)
(* one phrase of SQL.                                                        *)
EXTENDS InputRules

\* Both ends of the ranges of lead and continuation bytes that matter.
MCBytes == {65, 128, 143, 144, 159, 160, 191, 193, 194, 224, 237, 239, 240, 244, 245}
MCPropertyKeys == {"a", "b", "bad", "pt_reserved"}
MCSqlChars == {"-", "/", "*", "newline", "quote", "dquote", "backtick", "[", "]",
               "word"}
MCDdlWords == {"check", "(", ")", " ", "word", "length"}
\* The expression is one phrase: eight of them are two CHECKs, one after the
\* other or one inside the other.
MCDdlPhrases ==
    {<<"check">>, <<"(">>, <<")">>, <<" ">>, <<"word">>, <<"length", "(", ")">>}
MCMaxPieces == [utf8 |-> 4, properties |-> 4, noise |-> 5, ddl |-> 8]
=============================================================================
