-------------------------------- MODULE Lexer --------------------------------
(***************************************************************************)
(* frontend::Lexer, one step per character read.  The client calls         *)
(* nextToken until it gets the end of the file, and may call it again; a   *)
(* text is a sequence of characters, which are strings of length one.      *)
(***************************************************************************)
EXTENDS Integers, Sequences, FiniteSets, SequencesExt

CONSTANTS
    Texts,       \* the texts considered
    Letters,     \* the letters, and the underscore
    Digits,
    LineFeed,    \* the end of a line
    Blanks,      \* the other white space
    ExtraCalls   \* how often nextToken is called after the end of the file

\* What peek returns past the end, as for a NUL in the text.
NUL == "NUL"

ASSUME ClassesAssumption ==
    /\ Letters \cap Digits = {}
    /\ LineFeed \notin Blanks
    /\ (Blanks \cup {LineFeed}) \cap (Letters \cup Digits) = {}
    /\ {NUL, ".", "=", "!", "<", ">"} \cap (Letters \cup Digits \cup Blanks \cup {LineFeed}) = {}
    /\ ExtraCalls \in Nat

ASSUME TextsAssumption == Texts \subseteq Seq(STRING)

VARIABLES
    text,      \* source_
    current,   \* current_, which is also the offset of location_
    location,  \* the line and the column of location_
    mode,      \* what nextToken is reading
    start,     \* startOffset and startLocation of the token being read
    tokens     \* the tokens returned

vars == <<text, current, location, mode, start, tokens>>

Modes == {"between", "word", "integer", "fraction"}

Init ==
    /\ text \in Texts
    /\ current = 0
    /\ location = [line |-> 1, column |-> 1]
    /\ mode = "between"
    /\ start = [offset |-> 0, location |-> location]
    /\ tokens = <<>>

-----------------------------------------------------------------------------

AtEnd == current >= Len(text)

\* peek and peekNext.
Peek == IF AtEnd THEN NUL ELSE text[current + 1]
PeekNext == IF current + 1 >= Len(text) THEN NUL ELSE text[current + 2]

\* Mutant: the column goes on counting on a new line.
AdvancedInLine(c) ==
    IF c = LineFeed THEN [location EXCEPT !.line = @ + 1]
                    ELSE [location EXCEPT !.column = @ + 1]

\* The location once c is read.
Advanced(c) ==
    IF c = LineFeed THEN [line |-> location.line + 1, column |-> 1]
                    ELSE [location EXCEPT !.column = @ + 1]

\* advance()
Advance ==
    /\ ~ AtEnd
    /\ current' = current + 1
    /\ location' = Advanced(Peek)

Here == [offset |-> current, location |-> location]

Token(kind, from, to) ==
    [kind |-> kind, lexeme |-> SubSeq(text, from.offset + 1, to), location |-> from.location,
     offset |-> from.offset]

\* Every token but the last was not the end of the file, or few of them were.
Called ==
    Cardinality({i \in DOMAIN tokens : tokens[i].kind = "EndOfFile"}) <= ExtraCalls

White == Blanks \cup {LineFeed}

\* Mutant: the loop does not advance over the end of a line.
SkipBlanks ==
    /\ mode = "between"
    /\ Called
    /\ Peek \in White
    /\ IF Peek = LineFeed THEN UNCHANGED <<current, location>> ELSE Advance
    /\ UNCHANGED <<text, mode, start, tokens>>

SkipWhitespace ==
    /\ mode = "between"
    /\ Called
    /\ Peek \in White
    /\ Advance
    /\ UNCHANGED <<text, mode, start, tokens>>

ReturnEndOfFile ==
    /\ mode = "between"
    /\ Called
    /\ AtEnd
    /\ tokens' = Append(tokens, Token("EndOfFile", Here, current))
    /\ UNCHANGED <<text, current, location, mode, start>>

\* The characters read so far are returned as a token.
ReturnRead(kind) ==
    /\ tokens' = Append(tokens, Token(kind, start, current))
    /\ mode' = "between"
    /\ UNCHANGED <<text, current, location, start>>

Begin(m) ==
    /\ mode' = m
    /\ start' = Here
    /\ UNCHANGED <<text, current, location, tokens>>

Read(m) ==
    /\ Advance
    /\ mode' = m
    /\ UNCHANGED <<text, start, tokens>>

-----------------------------------------------------------------------------
(* lexIdentifierOrKeyword *)

BeginWord == mode = "between" /\ Peek \in Letters /\ Begin("word")

ReadWord == mode = "word" /\ Peek \in Letters \cup Digits /\ Read("word")

WordKind(word) ==
    CASE word = <<"t", "e", "n", "s", "o", "r">> -> "KwTensor"
      [] word = <<"r", "e", "t", "u", "r", "n">> -> "KwReturn"
      [] word = <<"i", "f">> -> "KwIf"
      [] word = <<"e", "l", "s", "e">> -> "KwElse"
      [] OTHER -> "Identifier"

ReturnWord ==
    /\ mode = "word"
    /\ Peek \notin Letters \cup Digits
    /\ ReturnRead(WordKind(SubSeq(text, start.offset + 1, current)))

-----------------------------------------------------------------------------
(* lexNumber *)

BeginNumber == mode = "between" /\ Peek \in Digits /\ Begin("integer")

ReadDigit == mode \in {"integer", "fraction"} /\ Peek \in Digits /\ Read(mode)

\* Mutant: the character after the point is not looked at.
FractionFollowsPoint == Peek = "."

\* A point only belongs to a number if a digit follows it.
FractionFollows == Peek = "." /\ PeekNext \in Digits

ReadPoint == mode = "integer" /\ FractionFollows /\ Read("fraction")

ReturnInteger ==
    mode = "integer" /\ Peek \notin Digits /\ ~ FractionFollows /\ ReturnRead("IntegerLiteral")

ReturnFloat == mode = "fraction" /\ Peek \notin Digits /\ ReturnRead("FloatLiteral")

-----------------------------------------------------------------------------
(* The switch of nextToken *)

SymbolKind(c) ==
    CASE c = ":" -> "Colon"       [] c = "," -> "Comma"        [] c = "=" -> "Equal"
      [] c = "+" -> "Plus"        [] c = "-" -> "Minus"        [] c = "*" -> "Star"
      [] c = "/" -> "Slash"       [] c = "<" -> "Less"         [] c = ">" -> "Greater"
      [] c = "[" -> "LeftBracket" [] c = "]" -> "RightBracket" [] c = "(" -> "LeftParen"
      [] c = ")" -> "RightParen"  [] c = "{" -> "LeftBrace"    [] c = "}" -> "RightBrace"
      [] OTHER -> "Unknown"

BeforeEqual == {"=", "!", "<", ">"}

ComparisonKind(c) ==
    CASE c = "=" -> "EqualEqual" [] c = "!" -> "BangEqual"
      [] c = "<" -> "LessEqual"  [] c = ">" -> "GreaterEqual"

\* Two characters: advance, peek and advance again; no line ends in between.
ReturnComparison ==
    /\ mode = "between"
    /\ Peek \notin White
    /\ Peek \in BeforeEqual /\ PeekNext = "="
    /\ current' = current + 2
    /\ location' = [location EXCEPT !.column = @ + 2]
    /\ tokens' = Append(tokens, Token(ComparisonKind(Peek), Here, current'))
    /\ UNCHANGED <<text, mode, start>>

\* Mutant: a character nobody knows is skipped.
ReturnKnownSymbol ==
    /\ mode = "between"
    /\ ~ AtEnd
    /\ Peek \notin White \cup Letters \cup Digits
    /\ ~ (Peek \in BeforeEqual /\ PeekNext = "=")
    /\ Advance
    /\ tokens' = IF SymbolKind(Peek) = "Unknown" THEN tokens
                 ELSE Append(tokens, Token(SymbolKind(Peek), Here, current'))
    /\ UNCHANGED <<text, mode, start>>

\* Any other character is a token: its symbol, or one nobody knows.
ReturnSymbol ==
    /\ mode = "between"
    /\ ~ AtEnd
    /\ Peek \notin White \cup Letters \cup Digits
    /\ ~ (Peek \in BeforeEqual /\ PeekNext = "=")
    /\ Advance
    /\ tokens' = Append(tokens, Token(SymbolKind(Peek), Here, current'))
    /\ UNCHANGED <<text, mode, start>>

\* The client is content.
Stop == ~ Called /\ UNCHANGED vars

Next ==
    \/ SkipWhitespace
    \/ ReturnEndOfFile
    \/ BeginWord
    \/ ReadWord
    \/ ReturnWord
    \/ BeginNumber
    \/ ReadDigit
    \/ ReadPoint
    \/ ReturnInteger
    \/ ReturnFloat
    \/ ReturnComparison
    \/ ReturnSymbol
    \/ Stop

Spec == Init /\ [][Next]_vars

\* nextToken is sequential code without waiting.
FairSpec == Spec /\ WF_vars(Next)

-----------------------------------------------------------------------------
(* Properties *)

\* The location of an offset, read off the text.
LocationOf(offset) ==
    LET feeds == {i \in 1 .. offset : text[i] = LineFeed}
    IN  [line |-> 1 + Cardinality(feeds),
         column |-> 1 + offset - (CHOOSE m \in feeds \cup {0} : \A i \in feeds : i <= m)]

(* Every diagnostic of the later passes points where the location of a     *)
(* token says: the lexer's line and column are those of the offset, after  *)
(* any mixture of tokens, blanks and line ends.                            *)
LocationsAreExact ==
    /\ location = LocationOf(current)
    /\ \A i \in DOMAIN tokens : tokens[i].location = LocationOf(tokens[i].offset)

\* The lexemes of the language: a word, a number or a symbol.
WordLexeme(s) == s # <<>> /\ s[1] \in Letters /\ Range(s) \subseteq Letters \cup Digits
IntegerLexeme(s) == s # <<>> /\ Range(s) \subseteq Digits
FloatLexeme(s) ==
    \E i \in DOMAIN s : /\ s[i] = "."
                        /\ IntegerLexeme(SubSeq(s, 1, i - 1))
                        /\ IntegerLexeme(SubSeq(s, i + 1, Len(s)))
Symbols == {":", ",", "=", "+", "-", "*", "/", "<", ">", "[", "]", "(", ")", "{", "}"}
SymbolLexeme(s) ==
    \/ Len(s) = 1 /\ s[1] \in Symbols
    \/ Len(s) = 2 /\ s[1] \in BeforeEqual /\ s[2] = "="
IsLexeme(s) == WordLexeme(s) \/ IntegerLexeme(s) \/ FloatLexeme(s) \/ SymbolLexeme(s)

Keywords == {<<"t", "e", "n", "s", "o", "r">>, <<"r", "e", "t", "u", "r", "n">>, <<"i", "f">>,
             <<"e", "l", "s", "e">>}

\* How the tokens of one spelling are spelled.
Spellings ==
    {<<"KwTensor", <<"t", "e", "n", "s", "o", "r">>>>, <<"KwReturn", <<"r", "e", "t", "u", "r", "n">>>>,
     <<"KwIf", <<"i", "f">>>>,         <<"KwElse", <<"e", "l", "s", "e">>>>,
     <<"Colon", <<":">>>>,             <<"Comma", <<",">>>>,          <<"Equal", <<"=">>>>,
     <<"Plus", <<"+">>>>,              <<"Minus", <<"-">>>>,          <<"Star", <<"*">>>>,
     <<"Slash", <<"/">>>>,             <<"Less", <<"<">>>>,           <<"Greater", <<">">>>>,
     <<"LessEqual", <<"<", "=">>>>,    <<"GreaterEqual", <<">", "=">>>>,
     <<"EqualEqual", <<"=", "=">>>>,   <<"BangEqual", <<"!", "=">>>>,
     <<"LeftBracket", <<"[">>>>,       <<"RightBracket", <<"]">>>>,
     <<"LeftParen", <<"(">>>>,         <<"RightParen", <<")">>>>,
     <<"LeftBrace", <<"{">>>>,         <<"RightBrace", <<"}">>>>}

\* What the kind of a token says of its lexeme.
KindFits(token) ==
    CASE token.kind = "Identifier" -> WordLexeme(token.lexeme) /\ token.lexeme \notin Keywords
      [] token.kind = "IntegerLiteral" -> IntegerLexeme(token.lexeme)
      [] token.kind = "FloatLiteral" -> FloatLexeme(token.lexeme)
      [] token.kind = "Unknown" -> Len(token.lexeme) = 1 /\ ~ IsLexeme(token.lexeme)
      [] token.kind = "EndOfFile" -> token.lexeme = <<>> /\ token.offset = Len(text)
      [] OTHER -> <<token.kind, token.lexeme>> \in Spellings

\* The offset behind a token.
EndOf(token) == token.offset + Len(token.lexeme)

(* Maximal munch: each token is the longest lexeme at its offset, and has  *)
(* the kind of that lexeme.  So the decisions of the lexer, taken with one *)
(* or two characters of lookahead, never split or join lexemes.            *)
TokensAreLongestLexemes ==
    \A i \in DOMAIN tokens :
        /\ KindFits(tokens[i])
        /\ tokens[i].kind # "EndOfFile" =>
              \A end \in EndOf(tokens[i]) + 1 .. Len(text) :
                  ~ IsLexeme(SubSeq(text, tokens[i].offset + 1, end))

(* Nothing of the text is lost, reread or made up: between two tokens, and *)
(* before the first one, there is white space only.                        *)
TokensCoverText ==
    \A i \in DOMAIN tokens :
        LET from == IF i = 1 THEN 0 ELSE EndOf(tokens[i - 1])
        IN  /\ from <= tokens[i].offset
            /\ \A j \in from + 1 .. tokens[i].offset : text[j] \in White

(* Every text has an end: nextToken never reads on the spot, so the end of *)
(* the file is returned, however often it is asked for.                    *)
EndIsReached == <>(\E i \in DOMAIN tokens : tokens[i].kind = "EndOfFile" /\ ~ Called)

=============================================================================
