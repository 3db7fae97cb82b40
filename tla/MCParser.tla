------------------------------ MODULE MCParser ------------------------------
(***************************************************************************)
(* The parser on the texts of small programs, and on those texts with one   *)
(* token deleted, replaced, inserted, or with their end cut off.  The       *)
(* grammar of the language reference is data here, and a recogniser of any  *)
(* grammar without left recursion says what it derives.                     *)
(***************************************************************************)
EXTENDS Parser

(* The grammar: docs/language.md, with the two rules it leaves to examples. *)

Token(kind) == [form |-> "token", kind |-> kind]
Rule(name) == [form |-> "rule", name |-> name]
Sequence(parts) == [form |-> "sequence", parts |-> parts]
OneOf(parts) == [form |-> "oneOf", parts |-> parts]
Repeated(part) == [form |-> "repeated", parts |-> <<part>>]
Optional(part) == [form |-> "oneOf", parts |-> <<part, Sequence(<<>>)>>]

Operators(kinds) == OneOf([i \in DOMAIN kinds |-> Token(kinds[i])])
List(part) == Sequence(<<part, Repeated(Sequence(<<Token("Comma"), part>>))>>)
Infix(operand, kinds) ==
    Sequence(<<Rule(operand), Repeated(Sequence(<<Operators(kinds), Rule(operand)>>))>>)

Grammar == [
    program |-> Sequence(<<Repeated(Rule("statement")), Token("EndOfFile")>>),
    statement |-> OneOf(<<Rule("assignment"), Rule("declaration"), Rule("return"), Rule("if")>>),
    assignment |-> Sequence(<<Token("Identifier"), Token("Equal"), Rule("expression")>>),
    declaration |-> Sequence(<<Token("KwTensor"), Token("Identifier"), Token("Colon"),
                               Token("Identifier"), Token("LeftBracket"),
                               List(Token("dimension")), Token("RightBracket")>>),
    return |-> Sequence(<<Token("KwReturn"), Rule("expression")>>),
    if |-> Sequence(<<Token("KwIf"), Rule("expression"), Rule("block"), Token("KwElse"),
                      Rule("block")>>),
    block |-> Sequence(<<Token("LeftBrace"), Repeated(Rule("statement")), Token("RightBrace")>>),
    expression |-> Infix("additive", <<"EqualEqual", "BangEqual", "Less", "LessEqual",
                                       "Greater", "GreaterEqual">>),
    additive |-> Infix("multiplicative", <<"Plus", "Minus">>),
    multiplicative |-> Infix("primary", <<"Star", "Slash">>),
    primary |-> OneOf(<<Token("Identifier"), Token("IntegerLiteral"), Token("FloatLiteral"),
                        Rule("call"),
                        Sequence(<<Token("LeftParen"), Rule("expression"), Token("RightParen")>>)>>),
    call |-> Sequence(<<Token("Identifier"), Token("LeftParen"),
                        Optional(List(Rule("expression"))), Token("RightParen")>>)]

\* A token is one the grammar means: literals are in the range of their type.
Matches(token, kind) ==
    CASE kind = "dimension" -> token.kind = "IntegerLiteral" /\ token.lexeme <= DimensionLimit
      [] kind = "IntegerLiteral" -> token.kind = kind /\ token.lexeme <= IntLimit
      [] kind = "FloatLiteral" -> token.kind = kind /\ token.lexeme \in Doubles
      [] OTHER -> token.kind = kind

RECURSIVE Ends(_, _, _)
\* Where what the expression derives may end, of the tokens from i on.  Past
\* the last token anything may follow, so that the end of a prefix of a
\* sentence is reached.
Ends(expression, tokens, i) ==
    IF i > Len(tokens) THEN {i}
    ELSE CASE expression.form = "token" ->
                  IF Matches(tokens[i], expression.kind) THEN {i + 1} ELSE {}
           [] expression.form = "rule" -> Ends(Grammar[expression.name], tokens, i)
           [] expression.form = "sequence" ->
                  IF expression.parts = <<>> THEN {i}
                  ELSE UNION {Ends(Sequence(Tail(expression.parts)), tokens, j) :
                                 j \in Ends(Head(expression.parts), tokens, i)}
           [] expression.form = "oneOf" ->
                  UNION {Ends(expression.parts[k], tokens, i) : k \in DOMAIN expression.parts}
           [] expression.form = "repeated" ->
                  {i} \cup UNION {Ends(expression, tokens, j) :
                                     j \in Ends(expression.parts[1], tokens, i)}

\* The tokens start a program.
Starts(tokens) == Len(tokens) + 1 \in Ends(Rule("program"), tokens, 1)

-----------------------------------------------------------------------------
(* Programs, and how they are written with the fewest parentheses *)

TokenOf == [
    Equal |-> "EqualEqual", NotEqual |-> "BangEqual", Less |-> "Less",
    LessEqual |-> "LessEqual", Greater |-> "Greater", GreaterEqual |-> "GreaterEqual",
    Add |-> "Plus", Subtract |-> "Minus", Multiply |-> "Star", Divide |-> "Slash"]
LevelOf(op) == CASE op \in Comparison -> 1
                 [] op \in {"Add", "Subtract"} -> 2
                 [] OTHER -> 3

Symbol(kind) == <<[kind |-> kind, lexeme |-> 0]>>
Lexeme(kind, lexeme) == <<[kind |-> kind, lexeme |-> lexeme]>>

\* An operand of a level lower than the least is in parentheses.
Operand(part, least) ==
    IF part.level >= least THEN part.tokens
    ELSE Symbol("LeftParen") \o part.tokens \o Symbol("RightParen")

Commas(parts) ==
    FlattenSeq([i \in DOMAIN parts |->
        (IF i = 1 THEN <<>> ELSE Symbol("Comma")) \o parts[i]])

\* The text so far, and the expressions not yet part of it, once a node is written.
WriteNode(written, node) ==
    LET parts == written.parts
        top == parts[Len(parts)]
        Push(n, tokens, level) ==
            [written EXCEPT !.parts =
                Append(SubSeq(@, 1, Len(@) - n), [tokens |-> tokens, level |-> level])]
        Add(tokens) == [text |-> written.text \o tokens, parts |-> <<>>]
    IN  CASE node.kind = "identifier" -> Push(0, Lexeme("Identifier", node.name), 4)
          [] node.kind = "integer" -> Push(0, Lexeme("IntegerLiteral", node.value), 4)
          [] node.kind = "float" -> Push(0, Lexeme("FloatLiteral", node.value), 4)
          [] node.kind = "binary" ->
                 LET level == LevelOf(node.op) IN
                 Push(2, Operand(parts[Len(parts) - 1], level) \o Symbol(TokenOf[node.op])
                            \o Operand(top, level + 1), level)
          [] node.kind = "call" -> written
          [] node.kind = "endcall" ->
                 Push(node.arity,
                      Lexeme("Identifier", node.callee) \o Symbol("LeftParen")
                          \o Commas([i \in 1 .. node.arity |-> parts[Len(parts) - node.arity + i].tokens])
                          \o Symbol("RightParen"), 4)
          [] node.kind = "tensor" ->
                 Add(Symbol("KwTensor") \o Lexeme("Identifier", node.name) \o Symbol("Colon")
                         \o Lexeme("Identifier", node.type.elementType) \o Symbol("LeftBracket")
                         \o Commas([i \in DOMAIN node.type.shape |->
                                       Lexeme("IntegerLiteral", node.type.shape[i])])
                         \o Symbol("RightBracket"))
          [] node.kind = "assign" -> Add(Lexeme("Identifier", node.name) \o Symbol("Equal") \o top.tokens)
          [] node.kind = "return" -> Add(Symbol("KwReturn") \o top.tokens)
          [] node.kind = "if" -> Add(Symbol("KwIf") \o top.tokens \o Symbol("LeftBrace"))
          [] node.kind = "else" -> Add(Symbol("RightBrace") \o Symbol("KwElse") \o Symbol("LeftBrace"))
          [] node.kind = "endif" -> Add(Symbol("RightBrace"))

Written(program) ==
    FoldLeft(WriteNode, [text |-> <<>>, parts |-> <<>>], program).text \o Symbol("EndOfFile")

X == Identifier("X")
One == Integer(1)

\* Every expression of three operators or fewer of four levels, and calls.
SomeExpressions ==
    LET atoms == {X, One}
        ops == {"Less", "Subtract", "Multiply", "Divide"}
        once == {Binary(op, l, r) : op \in ops, l, r \in {X}}
        twice == {Binary(op, l, X) : op \in ops, l \in once} \cup {Binary(op, X, r) : op \in ops, r \in once}
        calls == {Call("f", <<>>), Call("f", <<X>>)} \cup {Call("f", <<a, X>>) : a \in once}
    IN  atoms \cup once \cup twice \cup calls \cup {Float(2)}
          \cup {Binary(op, l, r) : op \in {"Subtract", "Divide"}, l, r \in once \cup calls}
          \cup {Binary(op, X, One) : op \in BinaryOperator}

F32(shape) == [elementType |-> "f32", shape |-> shape]

\* Texts short enough to be edited at every place.
EditedPrograms ==
    {Tensor("X", F32(<<1, 2>>)), Let("X", Binary("Multiply", Binary("Subtract", X, One), X)),
     Return(Call("f", <<X, Binary("Less", One, X)>>)),
     If(X, Return(X), If(Call("f", <<>>), <<>>, Let("X", One))),
     Return(X) \o Let("X", Float(2))}

SomePrograms ==
    EditedPrograms \cup {Return(e) : e \in SomeExpressions}
        \cup {<<>>, Tensor("X", F32(<<DimensionLimit>>)), Return(Integer(IntLimit))}
        \cup {If(X, b \o c, c \o b) : b, c \in {<<>>, Return(One), Let("X", X), If(X, Return(X), <<>>)}}

ProgramOf ==
    LET texts == {Written(program) : program \in Programs}
    IN  [text \in texts |-> CHOOSE program \in Programs : Written(program) = text]

\* A token of every kind the parser tells apart, and literals out of range.
Alphabet ==
    {Symbol(kind)[1] : kind \in {"KwTensor", "KwReturn", "KwIf", "KwElse", "Equal", "Less",
         "Minus", "Star", "LeftParen", "RightParen", "LeftBrace", "RightBrace",
         "LeftBracket", "RightBracket", "Comma", "Colon", "Unknown"}}
      \cup {[kind |-> "Identifier", lexeme |-> "X"], [kind |-> "FloatLiteral", lexeme |-> 2],
            [kind |-> "FloatLiteral", lexeme |-> 3]}
      \cup {[kind |-> "IntegerLiteral", lexeme |-> n] : n \in {1, IntLimit + 1, DimensionLimit + 1}}

Edits(text) ==
    {RemoveAt(text, i) : i \in 1 .. Len(text) - 1}
      \cup {ReplaceAt(text, i, token) : i \in 1 .. Len(text) - 1, token \in Alphabet}
      \cup {InsertAt(text, i, token) : i \in 1 .. Len(text), token \in Alphabet}
      \cup {SubSeq(text, 1, i) \o Symbol("EndOfFile") : i \in 1 .. Len(text) - 1}

SomeInputs ==
    DOMAIN ProgramOf \cup UNION {Edits(Written(program)) : program \in EditedPrograms}

-----------------------------------------------------------------------------
(* Properties *)

\* The parser accepts the sentences of the grammar of docs/language.md whose
\* literals are in range, and no others: it neither gives up on a sentence,
\* having taken a turn the grammar does not impose, nor overlooks a token.
AcceptsTheGrammar == (verdict # "parsing") => (verdict = "parsed") = Starts(input)

\* A parse error is about the first token that cannot be right: some program
\* starts with the tokens before it, none with those and that token.
ErrorsAreEarliest ==
    (verdict = "rejected") =>
        /\ Starts(SubSeq(input, 1, at - 1))
        /\ ~ Starts(SubSeq(input, 1, at))

\* The text of a program is parsed as that program: operators bind as written,
\* to the left, and statements end up in the block they are written in.
TreesAreTheProgramsWritten ==
    (verdict # "parsing" /\ input \in DOMAIN ProgramOf) =>
        verdict = "parsed" /\ built = <<ProgramOf[input]>>

\* The parser ends on every input: no loop of it waits for a token past the
\* end of the file.
ParsingEnds == <>(verdict # "parsing")

=============================================================================
