---------------------------- MODULE Lexer_proofs ----------------------------
(***************************************************************************)
(* Three promises of the lexer, for texts of any length over any           *)
(* characters: locations are exact, nothing of the text is lost, and the   *)
(* tokens are the longest lexemes.                                         *)
(***************************************************************************)
EXTENDS Lexer, StackLemmas, FiniteSetTheorems

\* The ends of lines before an offset, and the last of them.
Feeds(n) == {i \in 1 .. n : text[i] = LineFeed}
IsLastFeed(m, n) == m \in Feeds(n) \cup {0} /\ \A i \in Feeds(n) : i <= m
LastFeed(n) == CHOOSE m \in Feeds(n) \cup {0} : \A i \in Feeds(n) : i <= m

\* What LocationOf says of an offset is a number.
Located(n) == \E m : IsLastFeed(m, n)

StateTyped ==
    /\ text \in Seq(STRING)
    /\ current \in 0 .. Len(text)
    /\ mode \in Modes
    /\ start.offset \in 0 .. current
    /\ \E S : tokens \in Seq(S)

\* The location of every offset, as a value.
Locations == [n \in Nat |-> LocationOf(n)]

\* The location and the start of the token being read are exact.
Exact ==
    /\ Located(current)
    /\ location = Locations[current]
    /\ start.location = Locations[start.offset]

TokensExact ==
    \A i \in DOMAIN tokens :
        tokens[i].offset \in Nat /\ tokens[i].location = Locations[tokens[i].offset]

\* Where the last token ends, and where the next one starts at the earliest.
LastEnd == IF tokens = <<>> THEN 0 ELSE EndOf(tokens[Len(tokens)])
Reached == IF mode = "between" THEN current ELSE start.offset

OnlyWhite(from, to) == from <= to /\ \A j \in from + 1 .. to : text[j] \in White

LexerInvariant ==
    /\ StateTyped
    /\ Exact
    /\ TokensExact
    /\ LastEnd \in Nat /\ OnlyWhite(LastEnd, Reached)
    /\ TokensCoverText

-----------------------------------------------------------------------------
(* Locations *)

LEMMA LocationByFeeds ==
    ASSUME NEW n
    PROVE  LocationOf(n) = [line |-> 1 + Cardinality(Feeds(n)), column |-> 1 + n - LastFeed(n)]
BY DEF LocationOf, Feeds, LastFeed

LEMMA FeedsFinite ==
    ASSUME NEW n \in Nat
    PROVE  IsFiniteSet(Feeds(n)) /\ Cardinality(Feeds(n)) \in Nat
<1>1. IsFiniteSet(1 .. n)
  BY FS_Interval
<1>2. Feeds(n) \subseteq 1 .. n
  BY DEF Feeds
<1> QED BY <1>1, <1>2, FS_Subset, FS_CardinalityType

LEMMA LastFeedIs ==
    ASSUME NEW n \in Nat, NEW m, IsLastFeed(m, n)
    PROVE  LastFeed(n) = m /\ m \in Nat
<1>1. \A k \in Feeds(n) \cup {0} : k \in Nat
  BY DEF Feeds
<1>2. \A k \in Feeds(n) \cup {0} : (\A i \in Feeds(n) : i <= k) => k = m
  BY <1>1 DEF IsLastFeed
<1>3. m \in Feeds(n) \cup {0} /\ \A i \in Feeds(n) : i <= m
  BY DEF IsLastFeed
<1> QED BY <1>1, <1>2, <1>3 DEF LastFeed

\* advance() keeps the location exact.
LEMMA OneFurther ==
    ASSUME NEW n \in Nat, Located(n)
    PROVE  /\ Located(n + 1)
           /\ LocationOf(n + 1) =
                IF text[n + 1] = LineFeed THEN [line |-> LocationOf(n).line + 1, column |-> 1]
                ELSE [LocationOf(n) EXCEPT !.column = @ + 1]
<1>1. PICK m : IsLastFeed(m, n)
  BY DEF Located
<1>2. LastFeed(n) = m /\ m \in Nat
  BY <1>1, LastFeedIs
<1>3. LocationOf(n) = [line |-> 1 + Cardinality(Feeds(n)), column |-> 1 + n - m]
  BY <1>2, LocationByFeeds
<1>4. IsFiniteSet(Feeds(n)) /\ Cardinality(Feeds(n)) \in Nat
  BY FeedsFinite
<1>5. LocationOf(n + 1) =
         [line |-> 1 + Cardinality(Feeds(n + 1)), column |-> 1 + (n + 1) - LastFeed(n + 1)]
  BY LocationByFeeds
<1>6. CASE text[n + 1] = LineFeed
  <2>1. Feeds(n + 1) = Feeds(n) \cup {n + 1} /\ n + 1 \notin Feeds(n)
    BY <1>6 DEF Feeds
  <2>2. Cardinality(Feeds(n + 1)) = Cardinality(Feeds(n)) + 1
    BY <2>1, <1>4, FS_AddElement
  <2>3. IsLastFeed(n + 1, n + 1)
    BY <2>1 DEF IsLastFeed, Feeds
  <2>4. LastFeed(n + 1) = n + 1
    BY <2>3, LastFeedIs
  <2>5. LocationOf(n + 1) = [line |-> 1 + (Cardinality(Feeds(n)) + 1), column |-> 1]
    BY <1>5, <2>2, <2>4
  <2> QED BY <1>3, <1>4, <1>6, <2>3, <2>5 DEF Located
<1>7. CASE text[n + 1] # LineFeed
  <2>1. Feeds(n + 1) = Feeds(n)
    BY <1>7 DEF Feeds
  <2>2. IsLastFeed(m, n + 1)
    BY <2>1, <1>1 DEF IsLastFeed
  <2>3. LastFeed(n + 1) = m
    BY <2>2, LastFeedIs
  <2>4. LocationOf(n + 1) = [line |-> 1 + Cardinality(Feeds(n)), column |-> 1 + n - m + 1]
    BY <1>5, <1>2, <2>1, <2>3
  <2> QED BY <1>3, <1>7, <2>2, <2>4 DEF Located
<1> QED BY <1>6, <1>7

LEMMA LocationsUnchanged == text' = text => Locations' = Locations
<1> SUFFICES ASSUME text' = text PROVE Locations' = Locations
  OBVIOUS
<1>1. \A n : LocationOf(n)' = LocationOf(n)
  BY DEF LocationOf
<1> QED BY <1>1 DEF Locations

LEMMA AdvanceIsExact ==
    ASSUME StateTyped, Exact, Advance, text' = text
    PROVE  /\ current' = current + 1 /\ current' \in 0 .. Len(text)
           /\ text[current + 1] = Peek
           /\ Located(current)'
           /\ location' = Locations[current']
<1>1. current \in Nat /\ Len(text) \in Nat /\ current < Len(text)
  BY LenProperties DEF StateTyped, Advance, AtEnd
<1>2. current' = current + 1 /\ current' \in 0 .. Len(text)
  BY <1>1 DEF Advance
<1>3. text[current + 1] = Peek
  BY DEF Peek, Advance
<1>4. /\ Located(current + 1)
      /\ LocationOf(current + 1) =
            IF text[current + 1] = LineFeed THEN [line |-> LocationOf(current).line + 1, column |-> 1]
            ELSE [LocationOf(current) EXCEPT !.column = @ + 1]
  BY <1>1, OneFurther DEF Exact
<1>5. location' = LocationOf(current + 1)
  BY <1>1, <1>3, <1>4 DEF Advance, Advanced, Exact, Locations
<1>6. Located(current)'
  BY <1>2, <1>4 DEF Located, IsLastFeed, Feeds
<1>7. Locations[current'] = LocationOf(current + 1)
  BY <1>1, <1>2 DEF Locations
<1> QED BY <1>2, <1>3, <1>5, <1>6, <1>7

-----------------------------------------------------------------------------
(* Tokens *)

\* A token that starts where one may, at its location, joins the others.
LEMMA TokenJoins ==
    ASSUME LexerInvariant, NEW t, tokens' = Append(tokens, t), text' = text,
           t.offset = Reached, t.offset \in Nat, t.location = Locations[t.offset]
    PROVE  /\ \E S : tokens' \in Seq(S)
           /\ TokensExact'
           /\ LastEnd' = EndOf(t)
           /\ TokensCoverText'
<1>1. PICK S : tokens \in Seq(S)
  BY DEF LexerInvariant, StateTyped
<1> DEFINE U == S \cup {t}
<1>2. tokens \in Seq(U) /\ t \in U
  <2>1. Len(tokens) \in Nat /\ tokens \in [1 .. Len(tokens) -> S]
    BY <1>1, LenProperties
  <2>2. tokens \in [1 .. Len(tokens) -> U]
    BY <2>1
  <2> QED BY <2>1, <2>2, SeqDef
<1> HIDE DEF U
<1>3. /\ tokens' \in Seq(U)
      /\ tokens' # <<>>
      /\ Len(tokens') = Len(tokens) + 1
      /\ \A i \in 1 .. Len(tokens) : tokens'[i] = tokens[i]
      /\ tokens'[Len(tokens) + 1] = t
  BY <1>2, AppendProperties
<1>4. Len(tokens) \in Nat /\ DOMAIN tokens = 1 .. Len(tokens) /\ DOMAIN tokens' = 1 .. Len(tokens) + 1
  BY <1>2, <1>3, LenProperties
<1>5. \A i \in DOMAIN tokens' : i \in DOMAIN tokens \/ i = Len(tokens) + 1
  BY <1>4
<1>6. TokensExact'
  <2>1. \A i \in DOMAIN tokens' : tokens'[i] = t \/ (i \in DOMAIN tokens /\ tokens'[i] = tokens[i])
    BY <1>3, <1>4, <1>5
  <2> QED BY <2>1, LocationsUnchanged DEF LexerInvariant, TokensExact
<1>7. LastEnd' = EndOf(t)
  BY <1>3 DEF LastEnd, EndOf
<1>8. TokensCoverText'
  <2> SUFFICES ASSUME NEW i \in DOMAIN tokens'
               PROVE  OnlyWhite(IF i = 1 THEN 0 ELSE EndOf(tokens'[i - 1]), tokens'[i].offset)
    BY DEF TokensCoverText, OnlyWhite, EndOf
  <2>1. CASE i \in DOMAIN tokens
    <3>1. OnlyWhite(IF i = 1 THEN 0 ELSE EndOf(tokens[i - 1]), tokens[i].offset)
      BY <2>1 DEF LexerInvariant, TokensCoverText, OnlyWhite
    <3>2. tokens'[i] = tokens[i] /\ (i # 1 => tokens'[i - 1] = tokens[i - 1])
      BY <1>3, <1>4, <2>1
    <3> QED BY <3>1, <3>2
  <2>2. CASE i = Len(tokens) + 1
    <3>1. OnlyWhite(LastEnd, t.offset)
      BY DEF LexerInvariant
    <3>2. LastEnd = IF i = 1 THEN 0 ELSE EndOf(tokens'[i - 1])
      <4>1. CASE tokens = <<>>
        <5>1. Len(tokens) = 0
          BY <4>1
        <5> QED BY <4>1, <5>1, <2>2 DEF LastEnd
      <4>2. CASE tokens # <<>>
        <5>1. Len(tokens) # 0
          BY <4>2, <1>1, EmptySeq
        <5>2. i # 1 /\ i - 1 = Len(tokens) /\ Len(tokens) \in 1 .. Len(tokens)
          BY <5>1, <1>4, <2>2
        <5>3. tokens'[Len(tokens)] = tokens[Len(tokens)]
          BY <5>2, <1>3
        <5> QED BY <4>2, <5>2, <5>3 DEF LastEnd
      <4> QED BY <4>1, <4>2
    <3> QED BY <1>3, <2>2, <3>1, <3>2
  <2> QED BY <1>5, <2>1, <2>2
<1> QED BY <1>3, <1>6, <1>7, <1>8

\* The length of the part of the text a token is made of.
LEMMA TokenEnds ==
    ASSUME StateTyped, NEW kind, NEW from, NEW to \in 0 .. Len(text), from.offset \in 0 .. to
    PROVE  /\ Token(kind, from, to).offset = from.offset
           /\ Token(kind, from, to).location = from.location
           /\ EndOf(Token(kind, from, to)) = to
<1>1. Len(text) \in Nat /\ \A i \in from.offset + 1 .. to : text[i] \in STRING
  BY LenProperties, ElementOfSeq DEF StateTyped
<1>2. Len(SubSeq(text, from.offset + 1, to)) = to - from.offset
  BY <1>1, SubSeqProperties
<1> QED BY <1>1, <1>2 DEF Token, EndOf

-----------------------------------------------------------------------------
(* Steps *)

\* A step that returns nothing: all it may pass over is white space.
LEMMA QuietStep ==
    ASSUME LexerInvariant, text' = text, tokens' = tokens, StateTyped', Exact',
           OnlyWhite(LastEnd, Reached')
    PROVE  LexerInvariant'
<1>1. TokensExact'
  BY LocationsUnchanged DEF LexerInvariant, TokensExact
<1>2. LastEnd' = LastEnd
  BY DEF LastEnd, EndOf
<1>3. OnlyWhite(LastEnd, Reached)'
  BY <1>2 DEF OnlyWhite
<1>4. TokensCoverText'
  BY DEF LexerInvariant, TokensCoverText, EndOf
<1> QED BY <1>1, <1>2, <1>3, <1>4 DEF LexerInvariant

\* A step that returns a token, which ends where the next one may start.
LEMMA TokenStep ==
    ASSUME LexerInvariant, NEW t, tokens' = Append(tokens, t), text' = text,
           t.offset = Reached, t.location = Locations[t.offset],
           EndOf(t) = current', current' \in current .. Len(text), mode' = "between", start' = start,
           Located(current)', location' = Locations[current']
    PROVE  LexerInvariant'
<1>1. current \in Nat /\ Len(text) \in Nat /\ current' \in Nat /\ Reached \in Nat
  BY LenProperties DEF LexerInvariant, StateTyped, Reached
<1>2. /\ \E S : tokens' \in Seq(S)
      /\ TokensExact'
      /\ LastEnd' = current'
      /\ TokensCoverText'
  BY <1>1, TokenJoins
<1>3. StateTyped'
  BY <1>1, <1>2 DEF LexerInvariant, StateTyped, Modes
<1>4. Exact'
  BY LocationsUnchanged DEF LexerInvariant, Exact
<1>5. OnlyWhite(LastEnd, Reached)'
  <2>1. Reached' = current' /\ LastEnd' = current'
    BY <1>2 DEF Reached
  <2>2. current' <= current' /\ \A j \in current' + 1 .. current' : FALSE
    BY <1>1
  <2> QED BY <2>1, <2>2 DEF OnlyWhite
<1> QED BY <1>1, <1>2, <1>3, <1>4, <1>5 DEF LexerInvariant

LEMMA SkipWhitespacePreserves == LexerInvariant /\ SkipWhitespace => LexerInvariant'
<1> SUFFICES ASSUME LexerInvariant, SkipWhitespace PROVE LexerInvariant'
  OBVIOUS
<1>1. /\ current' = current + 1 /\ current' \in 0 .. Len(text)
      /\ text[current + 1] = Peek
      /\ Located(current)'
      /\ location' = Locations[current']
  BY AdvanceIsExact DEF LexerInvariant, SkipWhitespace
<1>2. StateTyped'
  BY <1>1, LenProperties DEF LexerInvariant, StateTyped, SkipWhitespace
<1>3. Exact'
  BY <1>1, LocationsUnchanged DEF LexerInvariant, SkipWhitespace, Exact
<1>4. current \in Nat /\ LastEnd \in Nat /\ OnlyWhite(LastEnd, current) /\ Reached' = current + 1
  BY <1>1, LenProperties DEF LexerInvariant, StateTyped, Reached, SkipWhitespace
<1>5. \A j \in LastEnd + 1 .. current + 1 : j \in LastEnd + 1 .. current \/ j = current + 1
  BY <1>4
<1>6. OnlyWhite(LastEnd, Reached')
  BY <1>1, <1>4, <1>5 DEF OnlyWhite, SkipWhitespace
<1> QED BY <1>2, <1>3, <1>6, QuietStep DEF SkipWhitespace

LEMMA BeginPreserves ==
    ASSUME LexerInvariant, mode = "between", NEW m \in Modes \ {"between"}, Begin(m)
    PROVE  LexerInvariant'
<1>1. current \in Nat /\ start'.offset = current /\ start'.location = location
  BY LenProperties DEF LexerInvariant, StateTyped, Begin, Here
<1>2. StateTyped'
  BY <1>1 DEF LexerInvariant, StateTyped, Begin
<1>3. Located(current)'
  BY DEF LexerInvariant, Exact, Located, IsLastFeed, Feeds, Begin
<1>4. Exact'
  BY <1>1, <1>3, LocationsUnchanged DEF LexerInvariant, Exact, Begin
<1>5. OnlyWhite(LastEnd, Reached')
  BY <1>1 DEF LexerInvariant, Reached, Begin
<1> QED BY <1>2, <1>4, <1>5, QuietStep DEF Begin

LEMMA ReadPreserves ==
    ASSUME LexerInvariant, mode # "between", NEW m \in Modes \ {"between"}, Read(m)
    PROVE  LexerInvariant'
<1>1. /\ current' = current + 1 /\ current' \in 0 .. Len(text)
      /\ Located(current)'
      /\ location' = Locations[current']
  BY AdvanceIsExact DEF LexerInvariant, Read
<1>2. StateTyped'
  BY <1>1, LenProperties DEF LexerInvariant, StateTyped, Read
<1>3. Exact'
  BY <1>1, LocationsUnchanged DEF LexerInvariant, Read, Exact
<1>4. OnlyWhite(LastEnd, Reached')
  BY DEF LexerInvariant, Reached, Read
<1> QED BY <1>2, <1>3, <1>4, QuietStep DEF Read

LEMMA ReturnReadPreserves ==
    ASSUME LexerInvariant, mode # "between", NEW kind, ReturnRead(kind)
    PROVE  LexerInvariant'
<1> DEFINE t == Token(kind, start, current)
<1>1. current \in 0 .. Len(text) /\ start.offset \in 0 .. current /\ current \in current .. Len(text)
  BY LenProperties DEF LexerInvariant, StateTyped
<1>2. t.offset = start.offset /\ t.location = start.location /\ EndOf(t) = current
  BY <1>1, TokenEnds DEF LexerInvariant
<1>3. t.offset = Reached /\ t.location = Locations[t.offset]
  BY <1>2 DEF LexerInvariant, Exact, Reached
<1>4. tokens' = Append(tokens, t) /\ text' = text /\ current' = current /\ mode' = "between" /\ start' = start
  BY DEF ReturnRead
<1>5. Located(current)' /\ location' = Locations[current']
  BY DEF LexerInvariant, Exact, Located, IsLastFeed, Feeds, ReturnRead
<1> HIDE DEF t
<1> QED BY <1>1, <1>2, <1>3, <1>4, <1>5, TokenStep

LEMMA ReturnEndOfFilePreserves == LexerInvariant /\ ReturnEndOfFile => LexerInvariant'
<1> SUFFICES ASSUME LexerInvariant, ReturnEndOfFile PROVE LexerInvariant'
  OBVIOUS
<1> DEFINE t == Token("EndOfFile", Here, current)
<1>1. current \in 0 .. Len(text) /\ current \in 0 .. current /\ current \in current .. Len(text)
  BY LenProperties DEF LexerInvariant, StateTyped
<1>2. Here.offset = current /\ Here.location = location
  BY DEF Here
<1>3. t.offset = current /\ t.location = location /\ EndOf(t) = current
  BY <1>1, <1>2, TokenEnds DEF LexerInvariant
<1>4. t.offset = Reached /\ t.location = Locations[t.offset]
  BY <1>3 DEF LexerInvariant, Exact, Reached, ReturnEndOfFile
<1>5. tokens' = Append(tokens, t) /\ text' = text /\ current' = current /\ mode' = "between" /\ start' = start
  BY DEF ReturnEndOfFile
<1>6. Located(current)' /\ location' = Locations[current']
  BY DEF LexerInvariant, Exact, Located, IsLastFeed, Feeds, ReturnEndOfFile
<1> HIDE DEF t
<1> QED BY <1>1, <1>3, <1>4, <1>5, <1>6, TokenStep

LEMMA ReturnSymbolPreserves == LexerInvariant /\ ReturnSymbol => LexerInvariant'
<1> SUFFICES ASSUME LexerInvariant, ReturnSymbol PROVE LexerInvariant'
  OBVIOUS
<1> DEFINE kind == SymbolKind(Peek)
           t == Token(kind, Here, current')
<1>1. /\ current' = current + 1 /\ current' \in 0 .. Len(text)
      /\ Located(current)'
      /\ location' = Locations[current']
  BY AdvanceIsExact DEF LexerInvariant, ReturnSymbol
<1>2. current \in Nat /\ current \in 0 .. current' /\ current' \in current .. Len(text)
  BY <1>1, LenProperties DEF LexerInvariant, StateTyped
<1>3. Here.offset = current /\ Here.location = location
  BY DEF Here
<1>4. tokens' = Append(tokens, t) /\ text' = text /\ mode' = "between" /\ start' = start
  BY DEF ReturnSymbol
<1> HIDE DEF kind
<1>5. t.offset = current /\ t.location = location /\ EndOf(t) = current'
  BY <1>1, <1>2, <1>3, TokenEnds DEF LexerInvariant
<1>6. t.offset = Reached /\ t.location = Locations[t.offset]
  BY <1>5 DEF LexerInvariant, Exact, Reached, ReturnSymbol
<1> HIDE DEF t
<1> QED BY <1>1, <1>2, <1>4, <1>5, <1>6, TokenStep

\* No line ends within the two characters of a comparison.
LEMMA ComparisonIsExact ==
    ASSUME LexerInvariant, ReturnComparison
    PROVE  /\ current' = current + 2 /\ current' \in 0 .. Len(text)
           /\ Located(current)'
           /\ location' = Locations[current']
<1>1. current \in Nat /\ Len(text) \in Nat
  BY LenProperties DEF LexerInvariant, StateTyped
<1>2. current + 1 < Len(text) /\ text[current + 2] = "="
  BY <1>1 DEF ReturnComparison, PeekNext, NUL
<1>3. text[current + 1] # LineFeed
  BY <1>1, <1>2 DEF ReturnComparison, Peek, AtEnd, White
<1>4. "=" # LineFeed
  BY ClassesAssumption
<1>5. Located(current + 1) /\ LocationOf(current + 1) = [LocationOf(current) EXCEPT !.column = @ + 1]
  BY <1>1, <1>3, OneFurther DEF LexerInvariant, Exact
<1>6. /\ Located(current + 1 + 1)
      /\ LocationOf(current + 1 + 1) = [LocationOf(current + 1) EXCEPT !.column = @ + 1]
  <2>1. text[current + 1 + 1] # LineFeed /\ current + 1 \in Nat
    BY <1>1, <1>2, <1>4
  <2> QED BY <2>1, <1>5, OneFurther
<1>7. /\ location = LocationOf(current)
      /\ \E line, column : column \in Int /\ location = [line |-> line, column |-> column]
  <2>1. location = LocationOf(current)
    BY <1>1 DEF LexerInvariant, Exact, Locations
  <2>2. PICK m : IsLastFeed(m, current)
    BY DEF LexerInvariant, Exact, Located
  <2>3. LastFeed(current) \in Nat
    BY <1>1, <2>2, LastFeedIs
  <2>4. LocationOf(current) =
           [line |-> 1 + Cardinality(Feeds(current)), column |-> 1 + current - LastFeed(current)]
    BY LocationByFeeds
  <2>5. 1 + current - LastFeed(current) \in Int
    BY <1>1, <2>3
  <2>6. location = [line |-> 1 + Cardinality(Feeds(current)), column |-> 1 + current - LastFeed(current)]
    BY <2>1, <2>4
  <2> QED BY ONLY <2>1, <2>5, <2>6
<1>8. location' = LocationOf(current + 2)
  <2>1. location' = [location EXCEPT !.column = @ + 2]
    BY DEF ReturnComparison
  <2>2. LocationOf(current + 1 + 1) = [[location EXCEPT !.column = @ + 1] EXCEPT !.column = @ + 1]
    BY <1>5, <1>6, <1>7
  <2>3. PICK line, column : column \in Int /\ location = [line |-> line, column |-> column]
    BY <1>7
  <2>4. LocationOf(current + 1 + 1) = [line |-> line, column |-> column + 1 + 1]
    BY ONLY <2>2, <2>3
  <2>5. location' = [line |-> line, column |-> column + 2]
    BY ONLY <2>1, <2>3
  <2>6. current + 1 + 1 = current + 2 /\ column + 1 + 1 = column + 2
    BY <1>1, <2>3
  <2> QED BY <2>4, <2>5, <2>6
<1>9. current' = current + 2 /\ current' \in 0 .. Len(text) /\ text' = text
  BY <1>1, <1>2 DEF ReturnComparison
<1>10. Located(current)'
  BY <1>1, <1>6, <1>9 DEF Located, IsLastFeed, Feeds
<1>11. Locations[current'] = LocationOf(current + 2)
  BY <1>1, <1>9 DEF Locations
<1> QED BY <1>8, <1>9, <1>10, <1>11

LEMMA ReturnComparisonPreserves == LexerInvariant /\ ReturnComparison => LexerInvariant'
<1> SUFFICES ASSUME LexerInvariant, ReturnComparison PROVE LexerInvariant'
  OBVIOUS
<1> DEFINE kind == ComparisonKind(Peek)
           t == Token(kind, Here, current')
<1>1. /\ current' = current + 2 /\ current' \in 0 .. Len(text)
      /\ Located(current)'
      /\ location' = Locations[current']
  BY ComparisonIsExact
<1>2. current \in Nat /\ current \in 0 .. current' /\ current' \in current .. Len(text)
  BY <1>1, LenProperties DEF LexerInvariant, StateTyped
<1>3. Here.offset = current /\ Here.location = location
  BY DEF Here
<1>4. tokens' = Append(tokens, t) /\ text' = text /\ mode' = "between" /\ start' = start
  BY DEF ReturnComparison
<1> HIDE DEF kind
<1>5. t.offset = current /\ t.location = location /\ EndOf(t) = current'
  BY <1>1, <1>2, <1>3, TokenEnds DEF LexerInvariant
<1>6. t.offset = Reached /\ t.location = Locations[t.offset]
  BY <1>5 DEF LexerInvariant, Exact, Reached, ReturnComparison
<1> HIDE DEF t
<1> QED BY <1>1, <1>2, <1>4, <1>5, <1>6, TokenStep

-----------------------------------------------------------------------------

LEMMA InitEstablishes == Init => LexerInvariant
<1> SUFFICES ASSUME Init PROVE LexerInvariant
  OBVIOUS
<1>1. text \in Seq(STRING) /\ Len(text) \in Nat
  BY TextsAssumption, LenProperties DEF Init
<1>2. tokens = <<>> /\ tokens \in Seq({}) /\ DOMAIN tokens = {}
  BY EmptySeq DEF Init
<1>3. StateTyped
  BY <1>1, <1>2 DEF Init, StateTyped, Modes
<1>4. Feeds(0) = {}
  BY DEF Feeds
<1>5. IsLastFeed(0, 0)
  BY <1>4 DEF IsLastFeed
<1>6. Cardinality(Feeds(0)) = 0
  BY <1>4, FS_EmptySet
<1>7. LocationOf(0) = [line |-> 1, column |-> 1]
  BY <1>5, <1>6, LastFeedIs, LocationByFeeds
<1>8. Exact
  BY <1>5, <1>7 DEF Init, Exact, Located, Locations
<1>9. TokensExact /\ TokensCoverText
  BY <1>2 DEF TokensExact, TokensCoverText
<1>10. LastEnd = 0 /\ Reached = 0
  BY <1>2 DEF Init, LastEnd, Reached
<1>11. OnlyWhite(LastEnd, Reached)
  BY <1>10 DEF OnlyWhite
<1> QED BY <1>3, <1>8, <1>9, <1>10, <1>11 DEF LexerInvariant

LEMMA NextPreserves == LexerInvariant /\ [Next]_vars => LexerInvariant'
<1> SUFFICES ASSUME LexerInvariant, [Next]_vars PROVE LexerInvariant'
  OBVIOUS
<1>1. CASE UNCHANGED vars
  <2>1. text' = text /\ tokens' = tokens /\ current' = current /\ mode' = mode /\ start' = start /\ location' = location
    BY <1>1 DEF vars
  <2>2. StateTyped' /\ OnlyWhite(LastEnd, Reached')
    BY <2>1 DEF LexerInvariant, StateTyped, Reached
  <2>3. Exact'
    BY <2>1 DEF LexerInvariant, Exact, Located, IsLastFeed, Feeds, Locations, LocationOf
  <2> QED BY <2>1, <2>2, <2>3, QuietStep
<1>2. CASE SkipWhitespace
  BY <1>2, SkipWhitespacePreserves
<1>3. CASE ReturnEndOfFile
  BY <1>3, ReturnEndOfFilePreserves
<1>4. CASE BeginWord
  BY <1>4, BeginPreserves DEF BeginWord, Modes
<1>5. CASE ReadWord
  BY <1>5, ReadPreserves DEF ReadWord, Modes
<1>6. CASE ReturnWord
  BY <1>6, ReturnReadPreserves DEF ReturnWord
<1>7. CASE BeginNumber
  BY <1>7, BeginPreserves DEF BeginNumber, Modes
<1>8. CASE ReadDigit
  BY <1>8, ReadPreserves DEF ReadDigit, Modes
<1>9. CASE ReadPoint
  BY <1>9, ReadPreserves DEF ReadPoint, Modes
<1>10. CASE ReturnInteger
  BY <1>10, ReturnReadPreserves DEF ReturnInteger
<1>11. CASE ReturnFloat
  BY <1>11, ReturnReadPreserves DEF ReturnFloat
<1>12. CASE ReturnComparison
  BY <1>12, ReturnComparisonPreserves
<1>13. CASE ReturnSymbol
  BY <1>13, ReturnSymbolPreserves
<1>14. CASE Stop
  BY <1>1, <1>14 DEF Stop
<1> QED
  BY <1>1, <1>2, <1>3, <1>4, <1>5, <1>6, <1>7, <1>8, <1>9, <1>10, <1>11, <1>12, <1>13, <1>14 DEF Next

LEMMA LexerInvariantHolds == Spec => []LexerInvariant
<1> QED BY InitEstablishes, NextPreserves, PTL DEF Spec

\* Whatever the text, the line and the column of a token are those of its
\* offset: every diagnostic of the later passes points at the right place.
THEOREM LocationsNeverDrift == Spec => []LocationsAreExact
<1>1. LexerInvariant => LocationsAreExact
  <2> SUFFICES ASSUME LexerInvariant PROVE LocationsAreExact
    OBVIOUS
  <2>1. current \in Nat
    BY LenProperties DEF LexerInvariant, StateTyped
  <2> QED BY <2>1 DEF LexerInvariant, Exact, TokensExact, Locations, LocationsAreExact
<1> QED BY <1>1, LexerInvariantHolds, PTL

\* Whatever the text, its tokens are in order and apart, and what is between
\* them is white space: no decision of the lexer loses or repeats a character.
THEOREM NothingIsLost == Spec => []TokensCoverText
<1>1. LexerInvariant => TokensCoverText
  BY DEF LexerInvariant
<1> QED BY <1>1, LexerInvariantHolds, PTL

-----------------------------------------------------------------------------
(* Lexemes, told of the places of the text they are at *)

AllIn(S, from, to) == \A j \in from + 1 .. to : text[j] \in S

WordAt(from, to) ==
    from < to /\ text[from + 1] \in Letters /\ AllIn(Letters \cup Digits, from, to)
IntegerAt(from, to) == from < to /\ AllIn(Digits, from, to)
PointAt(p, from, to) == text[p] = "." /\ IntegerAt(from, p - 1) /\ IntegerAt(p, to)
FloatAt(from, to) == \E p \in from + 1 .. to : PointAt(p, from, to)
SymbolAt(from, to) ==
    \/ to = from + 1 /\ text[from + 1] \in Symbols
    \/ to = from + 2 /\ text[from + 1] \in BeforeEqual /\ text[from + 2] = "="
LexemeAt(from, to) ==
    WordAt(from, to) \/ IntegerAt(from, to) \/ FloatAt(from, to) \/ SymbolAt(from, to)

LEMMA PartOfText ==
    ASSUME StateTyped, NEW from \in Nat, NEW to \in from .. Len(text)
    PROVE  /\ SubSeq(text, from + 1, to) \in Seq(STRING)
           /\ Len(SubSeq(text, from + 1, to)) = to - from
           /\ \A k \in 1 .. to - from : SubSeq(text, from + 1, to)[k] = text[from + k]
<1>1. Len(text) \in Nat /\ from + 1 \in Int /\ to \in Int
  BY LenProperties DEF StateTyped
<1>2. \A i \in from + 1 .. to : text[i] \in STRING
  BY <1>1, ElementOfSeq DEF StateTyped
<1>3. /\ SubSeq(text, from + 1, to) \in Seq(STRING)
      /\ Len(SubSeq(text, from + 1, to)) = IF from + 1 <= to THEN to - (from + 1) + 1 ELSE 0
      /\ \A i \in 1 .. to - (from + 1) + 1 : SubSeq(text, from + 1, to)[i] = text[from + 1 + i - 1]
  BY <1>1, <1>2, SubSeqProperties
<1>4. to - (from + 1) + 1 = to - from
  BY <1>1
<1>5. \A i \in 1 .. to - from : from + 1 + i - 1 = from + i
  BY <1>1
<1> QED BY <1>1, <1>3, <1>4, <1>5

\* A sequence all of whose elements are digits.
LEMMA IntegerByElements ==
    ASSUME NEW s \in Seq(STRING)
    PROVE  IntegerLexeme(s) <=> Len(s) > 0 /\ \A k \in 1 .. Len(s) : s[k] \in Digits
<1>1. DOMAIN s = 1 .. Len(s) /\ Len(s) \in Nat
  BY LenProperties
<1>2. s # <<>> <=> Len(s) > 0
  BY <1>1, EmptySeq
<1>3. Range(s) \subseteq Digits <=> \A k \in 1 .. Len(s) : s[k] \in Digits
  BY <1>1 DEF Range
<1> QED BY <1>2, <1>3 DEF IntegerLexeme

LEMMA WordByElements ==
    ASSUME NEW s \in Seq(STRING)
    PROVE  WordLexeme(s) <=> /\ Len(s) > 0 /\ s[1] \in Letters
                             /\ \A k \in 1 .. Len(s) : s[k] \in Letters \cup Digits
<1>1. DOMAIN s = 1 .. Len(s) /\ Len(s) \in Nat
  BY LenProperties
<1>2. s # <<>> <=> Len(s) > 0
  BY <1>1, EmptySeq
<1>3. Range(s) \subseteq Letters \cup Digits <=> \A k \in 1 .. Len(s) : s[k] \in Letters \cup Digits
  BY <1>1 DEF Range
<1> QED BY <1>2, <1>3 DEF WordLexeme

LEMMA PlacesShift ==
    ASSUME NEW from \in Nat, NEW to \in Nat, NEW j \in from + 1 .. to
    PROVE  j - from \in 1 .. to - from /\ from + (j - from) = j
OBVIOUS

LEMMA WordByText ==
    ASSUME StateTyped, NEW from \in Nat, NEW to \in from .. Len(text)
    PROVE  WordLexeme(SubSeq(text, from + 1, to)) <=> WordAt(from, to)
<1> DEFINE s == SubSeq(text, from + 1, to)
<1>1. s \in Seq(STRING) /\ Len(s) = to - from /\ \A k \in 1 .. to - from : s[k] = text[from + k]
  BY PartOfText
<1>2. to \in Nat
  BY LenProperties DEF StateTyped
<1> HIDE DEF s
<1>3. AllIn(Letters \cup Digits, from, to) <=> \A k \in 1 .. Len(s) : s[k] \in Letters \cup Digits
  <2>1. ASSUME AllIn(Letters \cup Digits, from, to), NEW k \in 1 .. Len(s)
        PROVE  s[k] \in Letters \cup Digits
    <3>1. from + k \in from + 1 .. to
      BY <1>1, <1>2, <2>1
    <3> QED BY <1>1, <2>1, <3>1 DEF AllIn
  <2>2. ASSUME \A k \in 1 .. Len(s) : s[k] \in Letters \cup Digits
        PROVE  AllIn(Letters \cup Digits, from, to)
    <3> SUFFICES ASSUME NEW j \in from + 1 .. to PROVE text[j] \in Letters \cup Digits
      BY DEF AllIn
    <3>1. j - from \in 1 .. to - from /\ from + (j - from) = j
      BY <1>2, PlacesShift
    <3>2. j - from \in 1 .. Len(s) /\ s[j - from] = text[j]
      BY <1>1, <3>1
    <3> QED BY <2>2, <3>2
  <2> QED BY <2>1, <2>2
<1>4. Len(s) > 0 <=> from < to
  BY <1>1, <1>2
<1>5. from < to => s[1] = text[from + 1]
  BY <1>1, <1>2
<1>6. WordLexeme(s) <=> WordAt(from, to)
  BY <1>1, <1>3, <1>4, <1>5, WordByElements DEF WordAt
<1> QED BY <1>6 DEF s

LEMMA DigitsByText ==
    ASSUME StateTyped, NEW from \in Nat, NEW to \in from .. Len(text),
           NEW s \in Seq(STRING), Len(s) = to - from,
           \A k \in 1 .. to - from : s[k] = text[from + k]
    PROVE  IntegerLexeme(s) <=> IntegerAt(from, to)
<1>1. to \in Nat
  BY LenProperties DEF StateTyped
<1>2. AllIn(Digits, from, to) <=> \A k \in 1 .. Len(s) : s[k] \in Digits
  <2>1. ASSUME AllIn(Digits, from, to), NEW k \in 1 .. Len(s)
        PROVE  s[k] \in Digits
    <3>1. from + k \in from + 1 .. to
      BY <1>1, <2>1
    <3> QED BY <2>1, <3>1 DEF AllIn
  <2>2. ASSUME \A k \in 1 .. Len(s) : s[k] \in Digits
        PROVE  AllIn(Digits, from, to)
    <3> SUFFICES ASSUME NEW j \in from + 1 .. to PROVE text[j] \in Digits
      BY DEF AllIn
    <3>1. j - from \in 1 .. to - from /\ from + (j - from) = j
      BY <1>1, PlacesShift
    <3>2. j - from \in 1 .. Len(s) /\ s[j - from] = text[j]
      BY <1>1, <3>1
    <3> QED BY <2>2, <3>2
  <2> QED BY <2>1, <2>2
<1>3. Len(s) > 0 <=> from < to
  BY <1>1
<1> QED BY <1>2, <1>3, IntegerByElements DEF IntegerAt

LEMMA IntegerByText ==
    ASSUME StateTyped, NEW from \in Nat, NEW to \in from .. Len(text)
    PROVE  IntegerLexeme(SubSeq(text, from + 1, to)) <=> IntegerAt(from, to)
BY PartOfText, DigitsByText

\* The two parts of a number with a point.
LEMMA PointByText ==
    ASSUME StateTyped, NEW from \in Nat, NEW to \in from .. Len(text), NEW i \in 1 .. to - from,
           NEW s, s = SubSeq(text, from + 1, to)
    PROVE  /\ s[i] = text[from + i]
           /\ IntegerLexeme(SubSeq(s, 1, i - 1)) <=> IntegerAt(from, from + i - 1)
           /\ IntegerLexeme(SubSeq(s, i + 1, Len(s))) <=> IntegerAt(from + i, to)
<1>1. s \in Seq(STRING) /\ Len(s) = to - from /\ \A k \in 1 .. to - from : s[k] = text[from + k]
  BY PartOfText
<1>2. to \in Nat /\ i \in Nat /\ Len(text) \in Nat
  BY LenProperties DEF StateTyped
<1>3. \A k \in 1 .. to - from : s[k] \in STRING
  BY <1>1, ElementOfSeq
<1>4. IntegerLexeme(SubSeq(s, 1, i - 1)) <=> IntegerAt(from, from + i - 1)
  <2> DEFINE t == SubSeq(s, 1, i - 1)
  <2>1. i - 1 \in Nat /\ i - 1 <= Len(s)
    BY <1>1, <1>2
  <2>2. t \in Seq(STRING) /\ Len(t) = i - 1 /\ \A k \in 1 .. i - 1 : t[k] = s[k]
    BY <1>1, <2>1, StackPrefix
  <2> HIDE DEF t
  <2>3. Len(t) = from + i - 1 - from
    BY <1>2, <2>2
  <2>4. \A k \in 1 .. from + i - 1 - from : t[k] = text[from + k]
    <3> SUFFICES ASSUME NEW k \in 1 .. from + i - 1 - from PROVE t[k] = text[from + k]
      OBVIOUS
    <3>1. k \in 1 .. i - 1 /\ k \in 1 .. to - from
      BY <1>2
    <3> QED BY <1>1, <2>2, <3>1
  <2>5. from + i - 1 \in from .. Len(text)
    BY <1>2
  <2> DEFINE e == from + i - 1
  <2>6. e \in from .. Len(text) /\ Len(t) = e - from /\ \A k \in 1 .. e - from : t[k] = text[from + k]
    BY <2>3, <2>4, <2>5
  <2> HIDE DEF e
  <2>7. IntegerLexeme(t) <=> IntegerAt(from, e)
    BY <2>2, <2>6, DigitsByText
  <2> QED BY <2>7 DEF t, e
<1>5. IntegerLexeme(SubSeq(s, i + 1, Len(s))) <=> IntegerAt(from + i, to)
  <2> DEFINE t == SubSeq(s, i + 1, Len(s))
  <2>1. \A k \in i + 1 .. Len(s) : s[k] \in STRING
    BY <1>1, <1>2, <1>3
  <2>2. /\ t \in Seq(STRING)
        /\ Len(t) = IF i + 1 <= Len(s) THEN Len(s) - (i + 1) + 1 ELSE 0
        /\ \A k \in 1 .. Len(s) - (i + 1) + 1 : t[k] = s[i + 1 + k - 1]
    BY <1>1, <1>2, <2>1, SubSeqProperties
  <2> HIDE DEF t
  <2>3. Len(t) = to - (from + i)
    BY <1>1, <1>2, <2>2
  <2>4. \A k \in 1 .. to - (from + i) : t[k] = text[from + i + k]
    <3> SUFFICES ASSUME NEW k \in 1 .. to - (from + i) PROVE t[k] = text[from + i + k]
      OBVIOUS
    <3>1. /\ k \in 1 .. Len(s) - (i + 1) + 1 /\ i + k \in 1 .. to - from
          /\ i + 1 + k - 1 = i + k /\ from + (i + k) = from + i + k
      BY <1>1, <1>2
    <3> QED BY <1>1, <2>2, <3>1
  <2>5. from + i \in Nat /\ to \in from + i .. Len(text)
    BY <1>2
  <2> QED BY <2>2, <2>3, <2>4, <2>5, DigitsByText DEF t
<1> QED BY <1>1, <1>4, <1>5

LEMMA FloatByText ==
    ASSUME StateTyped, NEW from \in Nat, NEW to \in from .. Len(text)
    PROVE  FloatLexeme(SubSeq(text, from + 1, to)) <=> FloatAt(from, to)
<1> DEFINE s == SubSeq(text, from + 1, to)
<1>1. DOMAIN s = 1 .. to - from /\ to \in Nat
  BY PartOfText, LenProperties DEF StateTyped
<1>2. \A i \in 1 .. to - from :
         /\ s[i] = text[from + i]
         /\ IntegerLexeme(SubSeq(s, 1, i - 1)) <=> IntegerAt(from, from + i - 1)
         /\ IntegerLexeme(SubSeq(s, i + 1, Len(s))) <=> IntegerAt(from + i, to)
  BY PointByText
<1>3. FloatLexeme(s) <=> \E i \in DOMAIN s : /\ s[i] = "."
                                             /\ IntegerLexeme(SubSeq(s, 1, i - 1))
                                             /\ IntegerLexeme(SubSeq(s, i + 1, Len(s)))
  BY DEF FloatLexeme
<1> HIDE DEF s
<1>4. FloatLexeme(s) <=> \E i \in 1 .. to - from : PointAt(from + i, from, to)
  <2>1. \A i \in 1 .. to - from :
           /\ s[i] = "."
           /\ IntegerLexeme(SubSeq(s, 1, i - 1))
           /\ IntegerLexeme(SubSeq(s, i + 1, Len(s)))
           <=> PointAt(from + i, from, to)
    <3> TAKE i \in 1 .. to - from
    <3>1. s[i] = text[from + i]
      BY <1>2
    <3>2. IntegerLexeme(SubSeq(s, 1, i - 1)) <=> IntegerAt(from, from + i - 1)
      BY <1>2
    <3>3. IntegerLexeme(SubSeq(s, i + 1, Len(s))) <=> IntegerAt(from + i, to)
      BY <1>2
    <3> QED BY <3>1, <3>2, <3>3 DEF PointAt
  <2> QED BY <1>1, <1>3, <2>1, Zenon
<1>5. ASSUME NEW i \in 1 .. to - from, PointAt(from + i, from, to) PROVE FloatAt(from, to)
  <2>1. from + i \in from + 1 .. to
    BY <1>1
  <2> QED BY <1>5, <2>1 DEF FloatAt
<1>6. ASSUME FloatAt(from, to) PROVE \E i \in 1 .. to - from : PointAt(from + i, from, to)
  <2>1. PICK p \in from + 1 .. to : PointAt(p, from, to)
    BY <1>6 DEF FloatAt
  <2>2. p - from \in 1 .. to - from /\ from + (p - from) = p
    BY <1>1
  <2> QED BY <2>1, <2>2
<1>7. FloatLexeme(s) <=> FloatAt(from, to)
  BY <1>4, <1>5, <1>6
<1> QED BY <1>7 DEF s

LEMMA SymbolByText ==
    ASSUME StateTyped, NEW from \in Nat, NEW to \in from .. Len(text)
    PROVE  SymbolLexeme(SubSeq(text, from + 1, to)) <=> SymbolAt(from, to)
<1> DEFINE s == SubSeq(text, from + 1, to)
<1>1. to \in Nat /\ Len(s) = to - from /\ \A k \in 1 .. to - from : s[k] = text[from + k]
  BY PartOfText, LenProperties DEF StateTyped
<1> HIDE DEF s
<1>2. Len(s) = 1 <=> to = from + 1
  BY <1>1
<1>3. Len(s) = 2 <=> to = from + 2
  BY <1>1
<1>4. to = from + 1 => s[1] = text[from + 1]
  BY <1>1
<1>5. to = from + 2 => s[1] = text[from + 1] /\ s[2] = text[from + 2]
  BY <1>1
<1>6. SymbolLexeme(s) <=> SymbolAt(from, to)
  BY <1>2, <1>3, <1>4, <1>5 DEF SymbolLexeme, SymbolAt
<1> QED BY <1>6 DEF s

LEMMA LexemeByText ==
    ASSUME StateTyped, NEW from \in Nat, NEW to \in from .. Len(text)
    PROVE  IsLexeme(SubSeq(text, from + 1, to)) <=> LexemeAt(from, to)
BY WordByText, IntegerByText, FloatByText, SymbolByText DEF IsLexeme, LexemeAt

-----------------------------------------------------------------------------
(* The longest lexeme at a place *)

\* No character of S comes next.
Ends(S, to) == to < Len(text) => text[to + 1] \notin S

LongestAt(from, to) == \A end \in to + 1 .. Len(text) : ~ LexemeAt(from, end)

LEMMA ClassesApart ==
    /\ \A c \in Letters : c \notin Digits
    /\ "." \notin Letters \cup Digits
    /\ NUL \notin Letters \cup Digits
    /\ \A c \in BeforeEqual : c \notin Letters \cup Digits
BY ClassesAssumption DEF BeforeEqual

LEMMA LongestWord ==
    ASSUME StateTyped, NEW from \in Nat, NEW to \in from .. Len(text),
           WordAt(from, to), Ends(Letters \cup Digits, to)
    PROVE  LongestAt(from, to)
<1> SUFFICES ASSUME NEW end \in to + 1 .. Len(text), LexemeAt(from, end) PROVE FALSE
  BY DEF LongestAt
<1>1. /\ to \in Nat /\ end \in Nat /\ Len(text) \in Nat /\ from < to /\ to < end
      /\ to + 1 \in from + 1 .. end /\ to + 1 <= Len(text) /\ end > from + 1
  BY LenProperties DEF StateTyped, WordAt
<1>2. text[to + 1] \notin Letters \cup Digits /\ text[from + 1] \in Letters
  BY <1>1 DEF Ends, WordAt
<1>3. text[from + 1] \notin Digits
  BY <1>2, ClassesApart
<1>4. ~ WordAt(from, end)
  BY <1>1, <1>2 DEF WordAt, AllIn
<1>5. ~ IntegerAt(from, end)
  BY <1>1, <1>2 DEF IntegerAt, AllIn
<1>6. ~ FloatAt(from, end)
  <2> SUFFICES ASSUME NEW p \in from + 1 .. end, PointAt(p, from, end) PROVE FALSE
    BY DEF FloatAt
  <2>1. from < p - 1 /\ AllIn(Digits, from, p - 1)
    BY DEF PointAt, IntegerAt
  <2>2. from + 1 \in from + 1 .. p - 1
    BY <1>1, <2>1
  <2> QED BY <1>3, <2>1, <2>2 DEF AllIn
<1>7. ~ SymbolAt(from, end)
  BY <1>1, <1>2, ClassesApart DEF SymbolAt
<1> QED BY <1>4, <1>5, <1>6, <1>7 DEF LexemeAt

LEMMA LongestInteger ==
    ASSUME StateTyped, NEW from \in Nat, NEW to \in from .. Len(text),
           IntegerAt(from, to), Ends(Digits, to),
           ~ (to + 1 < Len(text) /\ text[to + 1] = "." /\ text[to + 2] \in Digits)
    PROVE  LongestAt(from, to)
<1> SUFFICES ASSUME NEW end \in to + 1 .. Len(text), LexemeAt(from, end) PROVE FALSE
  BY DEF LongestAt
<1>1. /\ to \in Nat /\ end \in Nat /\ Len(text) \in Nat /\ from < to /\ to < end
      /\ to + 1 \in from + 1 .. end /\ to + 1 <= Len(text) /\ end > from + 1
      /\ from + 1 \in from + 1 .. to
  BY LenProperties DEF StateTyped, IntegerAt
<1>2. text[to + 1] \notin Digits /\ text[from + 1] \in Digits
  BY <1>1 DEF Ends, IntegerAt, AllIn
<1>3. text[from + 1] \notin Letters
  BY <1>2, ClassesApart
<1>4. ~ WordAt(from, end)
  BY <1>3 DEF WordAt
<1>5. ~ IntegerAt(from, end)
  BY <1>1, <1>2 DEF IntegerAt, AllIn
<1>6. ~ FloatAt(from, end)
  <2> SUFFICES ASSUME NEW p \in from + 1 .. end, PointAt(p, from, end) PROVE FALSE
    BY DEF FloatAt
  <2>1. /\ p \in Nat /\ text[p] = "." /\ from < p - 1 /\ p < end
        /\ AllIn(Digits, from, p - 1) /\ AllIn(Digits, p, end)
    BY <1>1 DEF PointAt, IntegerAt
  <2>2. p = to + 1
    <3>1. CASE p <= to
      <4>1. p \in from + 1 .. to
        BY <1>1, <2>1, <3>1
      <4>2. text[p] \in Digits
        BY <4>1 DEF IntegerAt, AllIn
      <4> QED BY <2>1, <4>2, ClassesApart
    <3>2. CASE p > to + 1
      <4>1. to + 1 \in from + 1 .. p - 1
        BY <1>1, <2>1, <3>2
      <4> QED BY <1>2, <2>1, <4>1 DEF AllIn
    <3> QED BY <1>1, <2>1, <3>1, <3>2
  <2>3. to + 2 \in p + 1 .. end /\ to + 1 < Len(text)
    BY <1>1, <2>1, <2>2
  <2> QED BY <2>1, <2>2, <2>3 DEF AllIn
<1>7. ~ SymbolAt(from, end)
  BY <1>1, <1>2, ClassesApart DEF SymbolAt
<1> QED BY <1>4, <1>5, <1>6, <1>7 DEF LexemeAt

LEMMA LongestFloat ==
    ASSUME StateTyped, NEW from \in Nat, NEW to \in from .. Len(text),
           FloatAt(from, to), Ends(Digits, to)
    PROVE  LongestAt(from, to)
<1> SUFFICES ASSUME NEW end \in to + 1 .. Len(text), LexemeAt(from, end) PROVE FALSE
  BY DEF LongestAt
<1>0. PICK q \in from + 1 .. to : PointAt(q, from, to)
  BY DEF FloatAt
<1>1. /\ q \in Nat /\ to \in Nat /\ end \in Nat /\ Len(text) \in Nat
      /\ from < q - 1 /\ q < to /\ to < end /\ to + 1 <= Len(text)
      /\ from + 1 \in from + 1 .. q - 1 /\ q \in from + 1 .. end
      /\ text[q] = "." /\ AllIn(Digits, from, q - 1) /\ AllIn(Digits, q, to)
  BY <1>0, LenProperties DEF StateTyped, PointAt, IntegerAt
<1>2. text[to + 1] \notin Digits /\ text[from + 1] \in Digits /\ text[q] \notin Digits
  BY <1>1, ClassesApart DEF Ends, AllIn
<1>3. text[from + 1] \notin Letters
  BY <1>2, ClassesApart
<1>4. ~ WordAt(from, end)
  BY <1>3 DEF WordAt
<1>5. ~ IntegerAt(from, end)
  BY <1>1, <1>2 DEF IntegerAt, AllIn
<1>6. ~ FloatAt(from, end)
  <2> SUFFICES ASSUME NEW p \in from + 1 .. end, PointAt(p, from, end) PROVE FALSE
    BY DEF FloatAt
  <2>1. /\ p \in Nat /\ text[p] = "." /\ from < p - 1 /\ p < end
        /\ AllIn(Digits, from, p - 1) /\ AllIn(Digits, p, end)
    BY <1>1 DEF PointAt, IntegerAt
  <2>2. ~ p < q
    <3> SUFFICES ASSUME p < q PROVE FALSE
      OBVIOUS
    <3>1. p \in from + 1 .. q - 1
      BY <1>1, <2>1
    <3> QED BY <1>1, <2>1, <3>1, ClassesApart DEF AllIn
  <2>3. ~ q < p
    <3> SUFFICES ASSUME q < p PROVE FALSE
      OBVIOUS
    <3>1. q \in from + 1 .. p - 1
      BY <1>1, <2>1
    <3> QED BY <1>2, <2>1, <3>1 DEF AllIn
  <2>4. to + 1 \in p + 1 .. end
    BY <1>1, <2>1, <2>2, <2>3
  <2> QED BY <1>2, <2>1, <2>4 DEF AllIn
<1>7. ~ SymbolAt(from, end)
  BY <1>1, <1>2, ClassesApart DEF SymbolAt
<1> QED BY <1>4, <1>5, <1>6, <1>7 DEF LexemeAt

\* What starts with neither a letter nor a digit is a symbol.
LEMMA OnlySymbols ==
    ASSUME StateTyped, NEW from \in Nat, NEW end \in from .. Len(text),
           text[from + 1] \notin Letters \cup Digits
    PROVE  LexemeAt(from, end) => SymbolAt(from, end)
<1>1. end \in Nat
  BY LenProperties DEF StateTyped
<1>2. ~ WordAt(from, end)
  BY DEF WordAt
<1>3. ~ IntegerAt(from, end)
  <2> SUFFICES ASSUME from < end, AllIn(Digits, from, end) PROVE FALSE
    BY DEF IntegerAt
  <2>1. from + 1 \in from + 1 .. end
    BY <1>1
  <2> QED BY <2>1 DEF AllIn
<1>4. ~ FloatAt(from, end)
  <2> SUFFICES ASSUME NEW p \in from + 1 .. end, PointAt(p, from, end) PROVE FALSE
    BY DEF FloatAt
  <2>1. from < p - 1 /\ AllIn(Digits, from, p - 1)
    BY DEF PointAt, IntegerAt
  <2>2. from + 1 \in from + 1 .. p - 1
    BY <1>1, <2>1
  <2> QED BY <2>1, <2>2 DEF AllIn
<1> QED BY <1>2, <1>3, <1>4 DEF LexemeAt

-----------------------------------------------------------------------------
(* Tokens are the longest lexemes *)

\* What TokensAreLongestLexemes says of one token.
Munched(token) ==
    /\ KindFits(token)
    /\ token.kind # "EndOfFile" =>
          \A end \in EndOf(token) + 1 .. Len(text) :
              ~ IsLexeme(SubSeq(text, token.offset + 1, end))

\* What has been read of the token that is being read.
WordRead(from, to) ==
    from < Len(text) /\ text[from + 1] \in Letters /\ AllIn(Letters \cup Digits, from, to)
IntegerRead(from, to) == from < Len(text) /\ text[from + 1] \in Digits /\ AllIn(Digits, from, to)
PointRead(p, from, to) ==
    /\ text[p] = "." /\ IntegerAt(from, p - 1)
    /\ IntegerRead(p, to)
FractionRead(from, to) == \E p \in from + 1 .. to : PointRead(p, from, to)

Reading ==
    /\ mode = "word" => WordRead(start.offset, current)
    /\ mode = "integer" => IntegerRead(start.offset, current)
    /\ mode = "fraction" => FractionRead(start.offset, current)

MunchInvariant == Reading /\ \A i \in DOMAIN tokens : Munched(tokens[i])

\* The kind fits the place, and the lexeme there is the longest.
FitsAt(kind, from, to) ==
    CASE kind = "Identifier" -> WordAt(from, to) /\ SubSeq(text, from + 1, to) \notin Keywords
      [] kind = "IntegerLiteral" -> IntegerAt(from, to)
      [] kind = "FloatLiteral" -> FloatAt(from, to)
      [] kind = "Unknown" -> to = from + 1 /\ ~ LexemeAt(from, to)
      [] kind = "EndOfFile" -> to = from /\ from = Len(text)
      [] OTHER -> <<kind, SubSeq(text, from + 1, to)>> \in Spellings

LEMMA TokenMunched ==
    ASSUME StateTyped, NEW kind, NEW from, NEW to \in 0 .. Len(text), from.offset \in 0 .. to,
           FitsAt(kind, from.offset, to), kind # "EndOfFile" => LongestAt(from.offset, to)
    PROVE  Munched(Token(kind, from, to))
<1> DEFINE t == Token(kind, from, to)
           a == from.offset
           s == SubSeq(text, a + 1, to)
<1>1. t.kind = kind /\ t.offset = a /\ t.lexeme = s /\ EndOf(t) = to
  BY TokenEnds DEF Token
<1>2. a \in Nat /\ to \in a .. Len(text) /\ Len(text) \in Nat /\ to \in Nat
  BY LenProperties DEF StateTyped
<1>3. /\ WordLexeme(s) <=> WordAt(a, to)
      /\ IntegerLexeme(s) <=> IntegerAt(a, to)
      /\ FloatLexeme(s) <=> FloatAt(a, to)
      /\ SymbolLexeme(s) <=> SymbolAt(a, to)
      /\ IsLexeme(s) <=> LexemeAt(a, to)
  BY <1>2, WordByText, IntegerByText, FloatByText, SymbolByText, LexemeByText
<1>4. Len(s) = to - a /\ s \in Seq(STRING)
  BY <1>2, PartOfText
<1>5. FitsAt(kind, a, to) /\ (kind # "EndOfFile" => LongestAt(a, to))
  OBVIOUS
<1>6. s = SubSeq(text, a + 1, to)
  OBVIOUS
<1> HIDE DEF t, a, s
<1>7. to = a + 1 => Len(s) = 1
  BY <1>2, <1>4
<1>8. to = a => s = <<>>
  BY <1>2, <1>4, EmptySeq
<1>9. KindFits(t)
  <2>1. CASE kind \in {"Unknown", "EndOfFile"}
    BY <1>1, <1>3, <1>5, <1>7, <1>8, <2>1 DEF FitsAt, KindFits
  <2>2. CASE kind = "Identifier"
    BY <1>1, <1>3, <1>5, <1>6, <2>2 DEF FitsAt, KindFits
  <2>3. CASE kind \notin {"Unknown", "EndOfFile", "Identifier"}
    BY <1>1, <1>3, <1>5, <1>6, <2>3 DEF FitsAt, KindFits
  <2> QED BY <2>1, <2>2, <2>3
<1>10. ASSUME kind # "EndOfFile", NEW end \in to + 1 .. Len(text)
       PROVE  ~ IsLexeme(SubSeq(text, a + 1, end))
  <2>1. ~ LexemeAt(a, end)
    BY <1>5, <1>10 DEF LongestAt
  <2>2. end \in a .. Len(text)
    BY <1>2
  <2> QED BY <1>2, <2>1, <2>2, LexemeByText
<1>11. Munched(t)
  BY <1>1, <1>9, <1>10 DEF Munched
<1> QED BY <1>11 DEF t

LEMMA TokensAppended ==
    ASSUME StateTyped, NEW t, tokens' = Append(tokens, t)
    PROVE  \A i \in DOMAIN tokens' : tokens'[i] = t \/ (i \in DOMAIN tokens /\ tokens'[i] = tokens[i])
<1>1. PICK S : tokens \in Seq(S)
  BY DEF StateTyped
<1> DEFINE U == S \cup {t}
<1>2. tokens \in Seq(U) /\ t \in U
  <2>1. Len(tokens) \in Nat /\ tokens \in [1 .. Len(tokens) -> S]
    BY <1>1, LenProperties
  <2>2. tokens \in [1 .. Len(tokens) -> U]
    BY <2>1
  <2> QED BY <2>1, <2>2, SeqDef
<1> HIDE DEF U
<1>3. /\ tokens' \in Seq(U)
      /\ Len(tokens') = Len(tokens) + 1
      /\ \A i \in 1 .. Len(tokens) : tokens'[i] = tokens[i]
      /\ tokens'[Len(tokens) + 1] = t
  BY <1>2, AppendProperties
<1>4. Len(tokens) \in Nat /\ DOMAIN tokens = 1 .. Len(tokens) /\ DOMAIN tokens' = 1 .. Len(tokens) + 1
  BY <1>2, <1>3, LenProperties
<1> QED BY <1>3, <1>4

\* A token that is as it should be joins the others.
LEMMA MunchJoins ==
    ASSUME StateTyped, MunchInvariant, NEW t, Munched(t), tokens' = Append(tokens, t), text' = text,
           mode' = "between"
    PROVE  MunchInvariant'
<1>1. \A i \in DOMAIN tokens' : tokens'[i] = t \/ (i \in DOMAIN tokens /\ tokens'[i] = tokens[i])
  BY TokensAppended
<1>2. \A i \in DOMAIN tokens' : Munched(tokens'[i])
  BY <1>1 DEF MunchInvariant
<1>3. (\A i \in DOMAIN tokens : Munched(tokens[i]))'
  BY <1>2 DEF Munched, KindFits, EndOf
<1> QED BY <1>3 DEF MunchInvariant, Reading

\* A step that returns nothing leaves the tokens as they should be.
LEMMA MunchedKept ==
    ASSUME MunchInvariant, text' = text, tokens' = tokens, Reading'
    PROVE  MunchInvariant'
<1>1. (\A i \in DOMAIN tokens : Munched(tokens[i]))'
  BY DEF MunchInvariant, Munched, KindFits, EndOf
<1> QED BY <1>1 DEF MunchInvariant

LEMMA PeekIs ==
    ASSUME StateTyped
    PROVE  /\ current \in Nat /\ Len(text) \in Nat /\ start.offset \in Nat
           /\ start.offset <= current /\ current <= Len(text)
           /\ current < Len(text) => Peek = text[current + 1]
           /\ ~ current < Len(text) => Peek = NUL
<1>1. current \in Nat /\ Len(text) \in Nat /\ start.offset \in Nat /\ start.offset <= current /\ current <= Len(text)
  BY LenProperties DEF StateTyped
<1> QED BY <1>1 DEF Peek, AtEnd

LEMMA BeginReads ==
    ASSUME StateTyped, MunchInvariant, BeginWord \/ BeginNumber
    PROVE  MunchInvariant'
<1>1. current < Len(text) /\ Peek = text[current + 1]
  BY PeekIs, ClassesApart DEF BeginWord, BeginNumber
<1>2. /\ text' = text /\ tokens' = tokens /\ current' = current /\ start'.offset = current
      /\ current \in Nat
  BY PeekIs DEF BeginWord, BeginNumber, Begin, Here
<1>3. \A S : AllIn(S, current, current)
  BY <1>2 DEF AllIn
<1>4. CASE BeginWord
  <2>1. mode' = "word" /\ text[current + 1] \in Letters
    BY <1>1, <1>4 DEF BeginWord, Begin
  <2>2. WordRead(start.offset, current)'
    BY <1>1, <1>2, <1>3, <2>1 DEF WordRead, AllIn
  <2> QED BY <1>2, <2>1, <2>2, MunchedKept DEF Reading
<1>5. CASE BeginNumber
  <2>1. mode' = "integer" /\ text[current + 1] \in Digits
    BY <1>1, <1>5 DEF BeginNumber, Begin
  <2>2. IntegerRead(start.offset, current)'
    BY <1>1, <1>2, <1>3, <2>1 DEF IntegerRead, AllIn
  <2> QED BY <1>2, <2>1, <2>2, MunchedKept DEF Reading
<1> QED BY <1>4, <1>5

LEMMA AllInGrows ==
    ASSUME NEW S, NEW from \in Nat, NEW to \in Nat, AllIn(S, from, to), text[to + 1] \in S
    PROVE  AllIn(S, from, to + 1)
<1> SUFFICES ASSUME NEW j \in from + 1 .. to + 1 PROVE text[j] \in S
  BY DEF AllIn
<1>1. j \in from + 1 .. to \/ j = to + 1
  OBVIOUS
<1> QED BY <1>1 DEF AllIn

LEMMA ReadIs ==
    ASSUME StateTyped, NEW m, Read(m)
    PROVE  /\ current < Len(text) /\ Peek = text[current + 1]
           /\ current' = current + 1 /\ text' = text /\ tokens' = tokens /\ start' = start /\ mode' = m
BY PeekIs DEF Read, Advance, AtEnd

LEMMA WordReads ==
    ASSUME StateTyped, MunchInvariant, ReadWord
    PROVE  MunchInvariant'
<1>1. /\ current < Len(text) /\ Peek = text[current + 1]
      /\ current' = current + 1 /\ text' = text /\ tokens' = tokens /\ start' = start /\ mode' = "word"
  BY ReadIs DEF ReadWord
<1>2. WordRead(start.offset, current) /\ Peek \in Letters \cup Digits
  BY DEF ReadWord, MunchInvariant, Reading
<1>3. AllIn(Letters \cup Digits, start.offset, current + 1)
  BY <1>1, <1>2, PeekIs, AllInGrows DEF WordRead
<1>4. WordRead(start.offset, current)'
  BY <1>1, <1>2, <1>3 DEF WordRead, AllIn
<1> QED BY <1>1, <1>4, MunchedKept DEF Reading

LEMMA IntegerReads ==
    ASSUME StateTyped, NEW from \in Nat, IntegerRead(from, current), Read(mode), Peek \in Digits
    PROVE  IntegerRead(from, current + 1)
<1>1. current < Len(text) /\ Peek = text[current + 1]
  BY ReadIs
<1> QED BY <1>1, PeekIs, AllInGrows DEF IntegerRead

LEMMA DigitReads ==
    ASSUME StateTyped, MunchInvariant, ReadDigit
    PROVE  MunchInvariant'
<1>1. /\ current < Len(text) /\ Peek = text[current + 1]
      /\ current' = current + 1 /\ text' = text /\ tokens' = tokens /\ start' = start /\ mode' = mode
      /\ start.offset \in Nat /\ current \in Nat
  BY ReadIs, PeekIs DEF ReadDigit
<1>2. Read(mode) /\ Peek \in Digits
  BY DEF ReadDigit
<1>3. CASE mode = "integer"
  <2>1. IntegerRead(start.offset, current + 1)
    BY <1>1, <1>2, <1>3, IntegerReads DEF MunchInvariant, Reading
  <2>2. IntegerRead(start.offset, current)'
    BY <1>1, <2>1 DEF IntegerRead, AllIn
  <2> QED BY <1>1, <1>3, <2>2, MunchedKept DEF Reading
<1>4. CASE mode = "fraction"
  <2>1. PICK p \in start.offset + 1 .. current : PointRead(p, start.offset, current)
    BY <1>4 DEF MunchInvariant, Reading, FractionRead
  <2>2. p \in Nat /\ p \in start.offset + 1 .. current + 1
    BY <1>1
  <2>3. IntegerRead(p, current + 1)
    BY <1>1, <1>2, <2>1, <2>2, IntegerReads DEF PointRead
  <2>4. PointRead(p, start.offset, current + 1)
    BY <2>1, <2>3 DEF PointRead
  <2>5. FractionRead(start.offset, current + 1)
    BY <2>2, <2>4 DEF FractionRead
  <2>6. FractionRead(start.offset, current)'
    BY <1>1, <2>5 DEF FractionRead, PointRead, IntegerAt, IntegerRead, AllIn
  <2> QED BY <1>1, <1>4, <2>6, MunchedKept DEF Reading
<1> QED BY <1>3, <1>4 DEF ReadDigit

LEMMA PointReads ==
    ASSUME StateTyped, MunchInvariant, ReadPoint
    PROVE  MunchInvariant'
<1>1. /\ current < Len(text) /\ Peek = text[current + 1]
      /\ current' = current + 1 /\ text' = text /\ tokens' = tokens /\ start' = start /\ mode' = "fraction"
  BY ReadIs DEF ReadPoint
<1>2. /\ start.offset \in Nat /\ current \in Nat /\ Len(text) \in Nat
      /\ start.offset <= current
  BY PeekIs
<1>3. Peek = "." /\ PeekNext \in Digits /\ IntegerRead(start.offset, current)
  BY DEF ReadPoint, FractionFollows, MunchInvariant, Reading
<1>4. current + 1 < Len(text) /\ text[current + 2] \in Digits
  BY <1>2, <1>3, ClassesApart DEF PeekNext
<1>5. start.offset < current
  <2>1. start.offset # current
    BY <1>1, <1>3, ClassesApart DEF IntegerRead
  <2> QED BY <1>2, <2>1
<1>6. IntegerAt(start.offset, current)
  BY <1>3, <1>5 DEF IntegerAt, IntegerRead
<1>7. IntegerRead(current + 1, current + 1)
  <2>1. AllIn(Digits, current + 1, current + 1)
    BY <1>2 DEF AllIn
  <2>2. current + 1 + 1 = current + 2
    BY <1>2
  <2> QED BY <1>4, <2>1, <2>2 DEF IntegerRead
<1>8. PointRead(current + 1, start.offset, current + 1)
  <2>1. (current + 1) - 1 = current
    BY <1>2
  <2>2. IntegerAt(start.offset, (current + 1) - 1)
    BY ONLY <1>6, <2>1
  <2>3. text[current + 1] = "."
    BY <1>1, <1>3
  <2> QED BY <1>7, <2>2, <2>3 DEF PointRead
<1>9. FractionRead(start.offset, current + 1)
  <2>1. current + 1 \in start.offset + 1 .. current + 1
    BY <1>2
  <2> QED BY <1>8, <2>1 DEF FractionRead
<1>10. FractionRead(start.offset, current)'
  BY <1>1, <1>9 DEF FractionRead, PointRead, IntegerAt, IntegerRead, AllIn
<1> QED BY <1>1, <1>10, MunchedKept DEF Reading

LEMMA WordKinds ==
    ASSUME NEW w
    PROVE  \/ /\ WordKind(w) \in {"KwTensor", "KwReturn", "KwIf", "KwElse"}
              /\ <<WordKind(w), w>> \in Spellings
           \/ w \notin Keywords /\ WordKind(w) = "Identifier"
<1>1. /\ <<"t", "e", "n", "s", "o", "r">> # <<"r", "e", "t", "u", "r", "n">>
      /\ <<"t", "e", "n", "s", "o", "r">> # <<"i", "f">>
      /\ <<"t", "e", "n", "s", "o", "r">> # <<"e", "l", "s", "e">>
      /\ <<"r", "e", "t", "u", "r", "n">> # <<"i", "f">>
      /\ <<"r", "e", "t", "u", "r", "n">> # <<"e", "l", "s", "e">>
      /\ <<"i", "f">> # <<"e", "l", "s", "e">>
  OBVIOUS
<1>2. CASE w \in Keywords
  BY <1>1, <1>2 DEF Keywords, WordKind, Spellings
<1>3. CASE w \notin Keywords
  BY <1>3 DEF Keywords, WordKind
<1> QED BY <1>2, <1>3

LEMMA ReturnReadMunches ==
    ASSUME StateTyped, MunchInvariant, NEW kind, kind # "EndOfFile", ReturnRead(kind),
           FitsAt(kind, start.offset, current), LongestAt(start.offset, current)
    PROVE  MunchInvariant'
<1>1. current \in 0 .. Len(text) /\ start.offset \in 0 .. current
  BY DEF StateTyped
<1>2. Munched(Token(kind, start, current))
  BY <1>1, TokenMunched
<1> QED BY <1>2, MunchJoins DEF ReturnRead

LEMMA WordMunched ==
    ASSUME StateTyped, MunchInvariant, ReturnWord
    PROVE  MunchInvariant'
<1> DEFINE a == start.offset
           w == SubSeq(text, a + 1, current)
           kind == WordKind(w)
<1>1. /\ a \in Nat /\ current \in Nat /\ Len(text) \in Nat /\ a <= current /\ current <= Len(text)
      /\ current \in a .. Len(text)
  BY PeekIs
<1>2. WordRead(a, current) /\ Peek \notin Letters \cup Digits
  BY DEF ReturnWord, MunchInvariant, Reading
<1>3. Ends(Letters \cup Digits, current)
  BY <1>2, PeekIs DEF Ends
<1>4. a # current
  BY <1>2, PeekIs DEF WordRead
<1>5. WordAt(a, current)
  BY <1>1, <1>2, <1>4 DEF WordRead, WordAt
<1>6. LongestAt(a, current)
  BY <1>1, <1>3, <1>5, LongestWord
<1>7. FitsAt(kind, a, current) /\ kind # "EndOfFile"
  <2>1. \/ <<kind, w>> \in Spellings /\ kind \in {"KwTensor", "KwReturn", "KwIf", "KwElse"}
        \/ w \notin Keywords /\ kind = "Identifier"
    BY WordKinds
  <2>2. w = SubSeq(text, a + 1, current)
    OBVIOUS
  <2> HIDE DEF kind, w, a
  <2>3. CASE kind = "Identifier"
    BY <1>5, <2>1, <2>2, <2>3 DEF FitsAt
  <2>4. CASE kind \in {"KwTensor", "KwReturn", "KwIf", "KwElse"}
    BY <1>5, <2>1, <2>2, <2>4 DEF FitsAt
  <2> QED BY <2>1, <2>3, <2>4
<1>8. ReturnRead(kind)
  BY DEF ReturnWord
<1> HIDE DEF kind
<1> QED BY <1>6, <1>7, <1>8, ReturnReadMunches

LEMMA IntegerMunched ==
    ASSUME StateTyped, MunchInvariant, ReturnInteger
    PROVE  MunchInvariant'
<1> DEFINE a == start.offset
<1>1. /\ a \in Nat /\ current \in Nat /\ Len(text) \in Nat /\ a <= current /\ current <= Len(text)
      /\ current \in a .. Len(text)
  BY PeekIs
<1>2. IntegerRead(a, current) /\ Peek \notin Digits /\ ~ FractionFollows
  BY DEF ReturnInteger, MunchInvariant, Reading
<1>3. Ends(Digits, current)
  BY <1>2, PeekIs DEF Ends
<1>4. a # current
  BY <1>2, PeekIs DEF IntegerRead
<1>5. IntegerAt(a, current)
  BY <1>1, <1>2, <1>4 DEF IntegerRead, IntegerAt
<1>6. ~ (current + 1 < Len(text) /\ text[current + 1] = "." /\ text[current + 2] \in Digits)
  BY <1>1, <1>2, PeekIs DEF FractionFollows, PeekNext
<1>7. LongestAt(a, current)
  BY <1>1, <1>3, <1>5, <1>6, LongestInteger
<1>8. FitsAt("IntegerLiteral", a, current)
  BY <1>5 DEF FitsAt
<1> QED BY <1>7, <1>8, ReturnReadMunches DEF ReturnInteger

LEMMA FloatMunched ==
    ASSUME StateTyped, MunchInvariant, ReturnFloat
    PROVE  MunchInvariant'
<1> DEFINE a == start.offset
<1>1. /\ a \in Nat /\ current \in Nat /\ Len(text) \in Nat /\ a <= current /\ current <= Len(text)
      /\ current \in a .. Len(text)
  BY PeekIs
<1>2. FractionRead(a, current) /\ Peek \notin Digits
  BY DEF ReturnFloat, MunchInvariant, Reading
<1>3. Ends(Digits, current)
  BY <1>2, PeekIs DEF Ends
<1>4. PICK p \in a + 1 .. current : PointRead(p, a, current)
  BY <1>2 DEF FractionRead
<1>5. p # current
  BY <1>2, <1>4, PeekIs DEF PointRead, IntegerRead
<1>6. IntegerAt(p, current)
  BY <1>1, <1>4, <1>5 DEF PointRead, IntegerRead, IntegerAt
<1>7. FloatAt(a, current)
  BY <1>4, <1>6 DEF PointRead, PointAt, FloatAt
<1>8. LongestAt(a, current)
  BY <1>1, <1>3, <1>7, LongestFloat
<1>9. FitsAt("FloatLiteral", a, current)
  BY <1>7 DEF FitsAt
<1> QED BY <1>8, <1>9, ReturnReadMunches DEF ReturnFloat

\* A lexeme of one character, or of two.
LEMMA ShortSequence ==
    ASSUME NEW s \in Seq(STRING)
    PROVE  /\ Len(s) = 1 => s = <<s[1]>>
           /\ Len(s) = 2 => s = <<s[1], s[2]>>
OBVIOUS

LEMMA ShortLexeme ==
    ASSUME StateTyped, NEW from \in Nat, NEW to \in from .. Len(text)
    PROVE  /\ to = from + 1 => SubSeq(text, from + 1, to) = <<text[from + 1]>>
           /\ to = from + 2 => SubSeq(text, from + 1, to) = <<text[from + 1], text[from + 2]>>
<1> DEFINE s == SubSeq(text, from + 1, to)
<1>1. s \in Seq(STRING) /\ Len(s) = to - from /\ \A i \in 1 .. to - from : s[i] = text[from + i]
  BY PartOfText
<1> HIDE DEF s
<1>2. to \in Nat
  BY LenProperties DEF StateTyped
<1>3. CASE to = from + 1
  <2>1. Len(s) = 1 /\ s[1] = text[from + 1]
    BY <1>1, <1>2, <1>3
  <2>2. s = <<text[from + 1]>>
    BY <1>1, <2>1, ShortSequence
  <2> QED BY <1>3, <2>2 DEF s
<1>4. CASE to = from + 2
  <2>1. Len(s) = 2 /\ s[1] = text[from + 1] /\ s[2] = text[from + 2]
    BY <1>1, <1>2, <1>4
  <2>2. s = <<text[from + 1], text[from + 2]>>
    BY <1>1, <2>1, ShortSequence
  <2> QED BY <1>4, <2>2 DEF s
<1> QED BY <1>2, <1>3, <1>4

LEMMA ComparisonKinds ==
    ASSUME NEW c \in BeforeEqual
    PROVE  /\ <<ComparisonKind(c), <<c, "=">>>> \in Spellings
           /\ ComparisonKind(c) \in {"EqualEqual", "BangEqual", "LessEqual", "GreaterEqual"}
BY DEF BeforeEqual, ComparisonKind, Spellings

LEMMA ComparisonMunched ==
    ASSUME LexerInvariant, MunchInvariant, ReturnComparison
    PROVE  MunchInvariant'
<1> DEFINE kind == ComparisonKind(Peek)
           t == Token(kind, Here, current')
<1>1. current' = current + 2 /\ current' \in 0 .. Len(text)
  BY ComparisonIsExact
<1>2. StateTyped /\ current \in Nat /\ Len(text) \in Nat /\ Here.offset = current /\ Here.offset \in 0 .. current'
  BY <1>1, PeekIs DEF LexerInvariant, Here
<1>3. Peek = text[current + 1] /\ Peek \in BeforeEqual /\ PeekNext = text[current + 2] /\ PeekNext = "="
  BY <1>1, <1>2, PeekIs DEF ReturnComparison, PeekNext
<1>4. /\ kind \in {"EqualEqual", "BangEqual", "LessEqual", "GreaterEqual"}
      /\ <<kind, <<Peek, "=">>>> \in Spellings
  BY <1>3, ComparisonKinds
<1>5. SubSeq(text, current + 1, current') = <<Peek, "=">>
  <2>1. current' \in current .. Len(text)
    BY <1>1, <1>2
  <2>2. SubSeq(text, current + 1, current') = <<text[current + 1], text[current + 2]>>
    BY <1>1, <1>2, <2>1, ShortLexeme
  <2> QED BY <1>3, <2>2
<1> HIDE DEF kind
<1>6. FitsAt(kind, Here.offset, current') /\ kind # "EndOfFile"
  BY <1>2, <1>4, <1>5 DEF FitsAt
<1>7. LongestAt(current, current')
  <2> SUFFICES ASSUME NEW end \in current' + 1 .. Len(text), LexemeAt(current, end) PROVE FALSE
    BY DEF LongestAt
  <2>1. text[current + 1] \notin Letters \cup Digits
    BY <1>3, ClassesApart
  <2>2. end \in current .. Len(text) /\ end > current + 2
    BY <1>1, <1>2
  <2>3. SymbolAt(current, end)
    BY <1>2, <2>1, <2>2, OnlySymbols
  <2> QED BY <1>2, <2>2, <2>3 DEF SymbolAt
<1>8. Munched(t)
  BY <1>1, <1>2, <1>6, <1>7, TokenMunched
<1>9. tokens' = Append(tokens, t) /\ text' = text /\ mode' = "between"
  BY DEF ReturnComparison, kind
<1> HIDE DEF t
<1> QED BY <1>2, <1>8, <1>9, MunchJoins

SymbolNames == {"Colon", "Comma", "Equal", "Plus", "Minus", "Star", "Slash", "Less", "Greater",
                "LeftBracket", "RightBracket", "LeftParen", "RightParen", "LeftBrace", "RightBrace"}

LEMMA SymbolKinds ==
    ASSUME NEW c
    PROVE  \/ /\ c \in Symbols /\ SymbolKind(c) \in SymbolNames
              /\ <<SymbolKind(c), <<c>>>> \in Spellings
           \/ c \notin Symbols /\ SymbolKind(c) = "Unknown"
<1>1. CASE c \in {":", ",", "=", "+", "-"}
  <2>1. \/ c = ":" /\ SymbolKind(c) = "Colon"
        \/ c = "," /\ SymbolKind(c) = "Comma"
        \/ c = "=" /\ SymbolKind(c) = "Equal"
        \/ c = "+" /\ SymbolKind(c) = "Plus"
        \/ c = "-" /\ SymbolKind(c) = "Minus"
    BY <1>1 DEF SymbolKind
  <2>2. c \in Symbols /\ SymbolKind(c) \in SymbolNames
    BY <1>1, <2>1 DEF Symbols, SymbolNames
  <2>3. <<SymbolKind(c), <<c>>>> \in Spellings
    BY <2>1, Zenon DEF Spellings
  <2> QED BY <2>2, <2>3
<1>2. CASE c \in {"*", "/", "<", ">", "["}
  <2>1. \/ c = "*" /\ SymbolKind(c) = "Star"
        \/ c = "/" /\ SymbolKind(c) = "Slash"
        \/ c = "<" /\ SymbolKind(c) = "Less"
        \/ c = ">" /\ SymbolKind(c) = "Greater"
        \/ c = "[" /\ SymbolKind(c) = "LeftBracket"
    BY <1>2 DEF SymbolKind
  <2>2. c \in Symbols /\ SymbolKind(c) \in SymbolNames
    BY <1>2, <2>1 DEF Symbols, SymbolNames
  <2>3. <<SymbolKind(c), <<c>>>> \in Spellings
    BY <2>1, Zenon DEF Spellings
  <2> QED BY <2>2, <2>3
<1>3. CASE c \in {"]", "(", ")", "{", "}"}
  <2>1. \/ c = "]" /\ SymbolKind(c) = "RightBracket"
        \/ c = "(" /\ SymbolKind(c) = "LeftParen"
        \/ c = ")" /\ SymbolKind(c) = "RightParen"
        \/ c = "{" /\ SymbolKind(c) = "LeftBrace"
        \/ c = "}" /\ SymbolKind(c) = "RightBrace"
    BY <1>3 DEF SymbolKind
  <2>2. c \in Symbols /\ SymbolKind(c) \in SymbolNames
    BY <1>3, <2>1 DEF Symbols, SymbolNames
  <2>3. <<SymbolKind(c), <<c>>>> \in Spellings
    BY <2>1, Zenon DEF Spellings
  <2> QED BY <2>2, <2>3
<1>4. CASE c \notin Symbols
  BY <1>4 DEF Symbols, SymbolKind
<1> QED BY <1>1, <1>2, <1>3, <1>4 DEF Symbols

LEMMA SymbolMunched ==
    ASSUME LexerInvariant, MunchInvariant, ReturnSymbol
    PROVE  MunchInvariant'
<1> DEFINE kind == SymbolKind(Peek)
           t == Token(kind, Here, current')
<1>1. StateTyped /\ current \in Nat /\ Len(text) \in Nat /\ current < Len(text) /\ Peek = text[current + 1]
  BY PeekIs DEF LexerInvariant, ReturnSymbol, AtEnd
<1>2. current' = current + 1 /\ current' \in 0 .. Len(text) /\ Here.offset = current /\ Here.offset \in 0 .. current'
  BY <1>1 DEF ReturnSymbol, Advance, Here
<1>3. Peek \notin Letters \cup Digits /\ ~ (Peek \in BeforeEqual /\ PeekNext = "=")
  BY DEF ReturnSymbol
<1>4. SymbolAt(current, current') <=> Peek \in Symbols
  BY <1>1, <1>2 DEF SymbolAt
<1>5. LexemeAt(current, current') => SymbolAt(current, current')
  BY <1>1, <1>2, <1>3, OnlySymbols
<1>6. \/ Peek \in Symbols /\ kind \in SymbolNames /\ <<kind, <<Peek>>>> \in Spellings
      \/ Peek \notin Symbols /\ kind = "Unknown"
  BY SymbolKinds
<1> HIDE DEF kind
<1>7. FitsAt(kind, Here.offset, current') /\ kind # "EndOfFile"
  <2>1. CASE kind = "Unknown"
    BY <1>2, <1>4, <1>5, <1>6, <2>1 DEF FitsAt, SymbolNames
  <2>2. CASE kind # "Unknown"
    <3>1. SubSeq(text, current + 1, current') = <<Peek>>
      BY <1>1, <1>2, ShortLexeme
    <3> QED BY <1>2, <1>6, <2>2, <3>1 DEF FitsAt, SymbolNames
  <2> QED BY <2>1, <2>2
<1>8. LongestAt(current, current')
  <2> SUFFICES ASSUME NEW end \in current' + 1 .. Len(text), LexemeAt(current, end) PROVE FALSE
    BY DEF LongestAt
  <2>1. end \in current .. Len(text) /\ end > current + 1 /\ end <= Len(text)
    BY <1>1, <1>2
  <2>2. SymbolAt(current, end)
    BY <1>1, <1>3, <2>1, OnlySymbols
  <2>3. end = current + 2 /\ Peek \in BeforeEqual /\ text[current + 2] = "="
    BY <1>1, <2>1, <2>2 DEF SymbolAt
  <2>4. PeekNext = text[current + 2]
    BY <1>1, <2>1, <2>3 DEF PeekNext
  <2> QED BY <1>3, <2>3, <2>4
<1>9. Munched(t)
  BY <1>1, <1>2, <1>7, <1>8, TokenMunched
<1>10. tokens' = Append(tokens, t) /\ text' = text /\ mode' = "between"
  BY DEF ReturnSymbol, kind
<1> HIDE DEF t
<1> QED BY <1>1, <1>9, <1>10, MunchJoins

LEMMA EndMunched ==
    ASSUME StateTyped, MunchInvariant, ReturnEndOfFile
    PROVE  MunchInvariant'
<1> DEFINE t == Token("EndOfFile", Here, current)
<1>1. current \in 0 .. Len(text) /\ Here.offset = current /\ Here.offset \in 0 .. current /\ current = Len(text)
  BY PeekIs DEF Here, ReturnEndOfFile, AtEnd
<1>2. FitsAt("EndOfFile", Here.offset, current)
  BY <1>1 DEF FitsAt
<1>3. Munched(t)
  BY <1>1, <1>2, TokenMunched
<1>4. tokens' = Append(tokens, t) /\ text' = text /\ mode' = "between"
  BY DEF ReturnEndOfFile
<1> HIDE DEF t
<1> QED BY <1>3, <1>4, MunchJoins

LEMMA MunchStep ==
    ASSUME LexerInvariant, MunchInvariant, [Next]_vars
    PROVE  MunchInvariant'
<1>1. StateTyped
  BY DEF LexerInvariant
<1>2. CASE UNCHANGED vars \/ Stop
  <2>1. text' = text /\ tokens' = tokens /\ current' = current /\ mode' = mode /\ start' = start
    BY <1>2 DEF vars, Stop
  <2>2. Reading'
    BY <2>1 DEF MunchInvariant, Reading, WordRead, IntegerRead, FractionRead, PointRead, IntegerAt, AllIn
  <2> QED BY <2>1, <2>2, MunchedKept
<1>3. CASE SkipWhitespace
  BY <1>3, MunchedKept DEF SkipWhitespace, Reading
<1> QED
  BY <1>1, <1>2, <1>3, EndMunched, BeginReads, WordReads, WordMunched, DigitReads, PointReads,
     IntegerMunched, FloatMunched, ComparisonMunched, SymbolMunched DEF Next

\* Maximal munch, for texts of any length over any characters: no decision
\* of the lexer, taken with one or two characters of lookahead, ever splits a
\* lexeme or joins two, and the kind of a token is the one of its lexeme.
THEOREM LongestIsTaken == Spec => []TokensAreLongestLexemes
<1>1. Init => MunchInvariant
  <2> SUFFICES ASSUME Init PROVE MunchInvariant
    OBVIOUS
  <2>1. mode = "between" /\ DOMAIN tokens = {}
    BY EmptySeq DEF Init
  <2> QED BY <2>1 DEF MunchInvariant, Reading
<1>2. LexerInvariant /\ MunchInvariant /\ [Next]_vars => MunchInvariant'
  BY MunchStep
<1>3. MunchInvariant => TokensAreLongestLexemes
  BY DEF MunchInvariant, Munched, TokensAreLongestLexemes
<1> QED BY <1>1, <1>2, <1>3, LexerInvariantHolds, PTL DEF Spec

=============================================================================
