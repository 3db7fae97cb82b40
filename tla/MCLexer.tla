------------------------------ MODULE MCLexer ------------------------------
EXTENDS Lexer

\* Any short text, and longer ones around the keywords.
ShortTexts == BoundedSeq({"i", "f", "7", ".", "=", "!", " ", "LF", "@"}, 5)

Words == {<<"t", "e", "n", "s", "o", "r">>, <<"r", "e", "t", "u", "r", "n">>, <<"e", "l", "s", "e">>}

KeywordTexts ==
    {before \o word \o after : word \in Words \cup {Front(w) : w \in Words},
                               before, after \in BoundedSeq({"_", "7", ":", "<", "LF"}, 1)}

SomeTexts == ShortTexts \cup KeywordTexts

SomeLetters == {"i", "f", "t", "e", "n", "s", "o", "r", "u", "l", "_"}

=============================================================================
