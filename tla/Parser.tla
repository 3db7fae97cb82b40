------------------------------- MODULE Parser -------------------------------
(***************************************************************************)
(* frontend::Parser, a recursive descent parser, over the tokens of the    *)
(* lexer.  The C++ stack is goals: what each method still has to do, the   *)
(* method that runs last; its local variables are built, the tokens and    *)
(* trees, both as sequences, not yet part of a greater tree.  A step is what a method *)
(* does up to its next call of a parsing method.                           *)
(***************************************************************************)
EXTENDS Trees

CONSTANTS
    Inputs,          \* the token sequences parsed; each ends in the end of the file
    IntLimit,        \* the greatest long long
    DimensionLimit,  \* the greatest unsigned long long
    Doubles          \* the floating-point literals in the range of double

VARIABLES
    input,    \* the tokens, as a kind and a lexeme: a name, or the value of a literal
    at,       \* the token in current_
    goals,
    built,
    verdict   \* "parsing", "parsed" or "rejected"

parserVars == <<input, at, goals, built, verdict>>

Goal(name) == [goal |-> name]
Expect(kind) == [goal |-> "expect", kind |-> kind, keep |-> FALSE]
Keep(kind) == [goal |-> "expect", kind |-> kind, keep |-> TRUE]
MakeBinary(op) == [goal |-> "makeBinary", op |-> op]
EndCall(arity) == [goal |-> "call", arity |-> arity]

ParserInit ==
    /\ input \in Inputs
    /\ at = 1
    /\ goals = <<Goal("program")>>
    /\ built = << <<>> >>
    /\ verdict = "parsing"

Current == input[at]
Check(kind) == Current.kind = kind

Parsing(name) == verdict = "parsing" /\ goals # <<>> /\ Last(goals).goal = name

\* throwParseError(input[token], ...): the token the message is about.
ParseError(token) ==
    /\ verdict' = "rejected"
    /\ at' = token
    /\ UNCHANGED <<input, goals, built>>

\* The method goes on with todo, first things first, having read n tokens.
Proceed(todo, trees, n) ==
    /\ goals' = Front(goals) \o Reverse(todo)
    /\ built' = trees
    /\ at' = at + n
    /\ UNCHANGED <<input, verdict>>

\* The nth element of built, from its end, and all before the last n.
Built(n) == built[Len(built) - n + 1]
Without(n) == SubSeq(built, 1, Len(built) - n)

NameOf(tokens) == tokens[1].lexeme

\* A tree of n parts is complete.
Make(n, tree) == Proceed(<<>>, Append(Without(n), tree), 0)

-----------------------------------------------------------------------------

\* consume: the token has the kind expected.
Consume ==
    /\ Parsing("expect")
    /\ LET expected == Last(goals) IN
       \/ ~ Check(expected.kind) /\ ParseError(at)
       \/ /\ Check(expected.kind)
          /\ Proceed(<<>>, IF expected.keep THEN Append(built, <<Current>>) ELSE built, 1)

ParseProgram ==
    /\ Parsing("program")
    /\ \/ /\ Check("EndOfFile")
          /\ verdict' = "parsed"
          /\ UNCHANGED <<input, at, goals, built>>
       \/ /\ ~ Check("EndOfFile")
          /\ Proceed(<<Goal("statement"), Goal("append"), Goal("program")>>, built, 0)

\* statements.emplace_back(...)
AppendStatement ==
    Parsing("append") /\ Make(2, Built(2) \o Built(1))

-----------------------------------------------------------------------------
(* Statements *)

ParseTensorDeclaration ==
    /\ Parsing("statement")
    /\ Check("KwTensor")
    /\ Proceed(<<Expect("KwTensor"), Keep("Identifier"), Expect("Colon"),
                 Keep("Identifier"), Expect("LeftBracket"), Goal("dimension"),
                 Expect("RightBracket"), Goal("declare")>>,
               built, 0)

\* A dimension of parseTensorType, appended to those read so far, if any.
ParseDimension ==
    /\ Parsing("dimension") \/ Parsing("nextDimension")
    /\ \/ ~ Check("IntegerLiteral") /\ ParseError(at)
       \/ Check("IntegerLiteral") /\ Current.lexeme > DimensionLimit /\ ParseError(at)
       \/ /\ Check("IntegerLiteral")
          /\ Current.lexeme <= DimensionLimit
          /\ LET shape == IF Parsing("dimension") THEN <<>> ELSE Built(1)
                 rest == IF Parsing("dimension") THEN built ELSE Without(1)
             IN  Proceed(<<Goal("moreDimensions")>>, Append(rest, Append(shape, Current)), 1)

ParseMoreDimensions ==
    /\ Parsing("moreDimensions")
    /\ \/ Check("Comma") /\ Proceed(<<Goal("nextDimension")>>, built, 1)
       \/ ~ Check("Comma") /\ Proceed(<<>>, built, 0)

MakeTensorDeclaration ==
    /\ Parsing("declare")
    /\ Make(3, Tensor(NameOf(Built(3)), [elementType |-> NameOf(Built(2)),
                                         shape |-> [i \in DOMAIN Built(1) |-> Built(1)[i].lexeme]]))

ParseAssignment ==
    /\ Parsing("statement")
    /\ Check("Identifier")
    /\ Proceed(<<Keep("Identifier"), Expect("Equal"), Goal("comparison"), Goal("assign")>>, built, 0)

MakeAssignment == Parsing("assign") /\ Make(2, Let(NameOf(Built(2)), Built(1)))

ParseReturnStatement ==
    /\ Parsing("statement")
    /\ Check("KwReturn")
    /\ Proceed(<<Expect("KwReturn"), Goal("comparison"), Goal("return")>>, built, 0)

MakeReturn == Parsing("return") /\ Make(1, Return(Built(1)))

ParseIfStatement ==
    /\ Parsing("statement")
    /\ Check("KwIf")
    /\ Proceed(<<Expect("KwIf"), Goal("comparison"), Goal("block"), Expect("KwElse"),
                 Goal("block"), Goal("if")>>, built, 0)

MakeIf == Parsing("if") /\ Make(3, If(Built(3), Built(2), Built(1)))

RejectStatement ==
    /\ Parsing("statement")
    /\ Current.kind \notin {"KwTensor", "KwReturn", "KwIf", "Identifier"}
    /\ ParseError(at)

ParseBlock ==
    /\ Parsing("block")
    /\ Proceed(<<Expect("LeftBrace"), Goal("statements")>>, Append(built, <<>>), 0)

\* Mutant: the loop of parseBlock does not look for the end of the file.
ParseStatementsToBrace ==
    /\ Parsing("statements")
    /\ \/ Check("RightBrace") /\ Proceed(<<>>, built, 1)
       \/ Check("EndOfFile") /\ Proceed(<<>>, built, 0)
       \/ /\ Current.kind \notin {"RightBrace", "EndOfFile"}
          /\ Proceed(<<Goal("statement"), Goal("append"), Goal("statements")>>, built, 0)

\* Mutant: as above, and what starts no statement is skipped, as far as the
\* brace: the lexer's end of the file is followed by another.
ParseStatementsSkipping ==
    /\ Parsing("statements")
    /\ \/ Check("RightBrace") /\ Proceed(<<>>, built, 1)
       \/ /\ Current.kind \in {"KwTensor", "KwReturn", "KwIf", "Identifier"}
          /\ Proceed(<<Goal("statement"), Goal("append"), Goal("statements")>>, built, 0)
       \/ /\ Current.kind \notin {"KwTensor", "KwReturn", "KwIf", "Identifier", "RightBrace"}
          /\ Proceed(<<Goal("statements")>>, built, IF Check("EndOfFile") THEN 0 ELSE 1)

\* The loop of parseBlock.
ParseStatements ==
    /\ Parsing("statements")
    /\ \/ Check("RightBrace") /\ Proceed(<<>>, built, 1)
       \/ Check("EndOfFile") /\ ParseError(at)
       \/ /\ Current.kind \notin {"RightBrace", "EndOfFile"}
          /\ Proceed(<<Goal("statement"), Goal("append"), Goal("statements")>>, built, 0)

-----------------------------------------------------------------------------
(* Expressions *)

ComparisonOf ==
    [EqualEqual |-> "Equal", BangEqual |-> "NotEqual", Less |-> "Less",
     LessEqual |-> "LessEqual", Greater |-> "Greater", GreaterEqual |-> "GreaterEqual"]
AdditionOf == [Plus |-> "Add", Minus |-> "Subtract"]
MultiplicationOf == [Star |-> "Multiply", Slash |-> "Divide"]

\* The loop of a binary method: the operators it reads, and the method that
\* parses its operands.  The tree so far is the left operand of the next one.
ParseOperators(name, operators, operand) ==
    /\ Parsing(name)
    /\ \/ /\ Current.kind \in DOMAIN operators
          /\ Proceed(<<Goal(operand), MakeBinary(operators[Current.kind]), Goal(name)>>, built, 1)
       \/ /\ Current.kind \notin DOMAIN operators
          /\ Proceed(<<>>, built, 0)

\* Mutant: the right operand of a sum is a sum.
ParseAdditiveRight ==
    \/ /\ Parsing("additive")
       /\ Proceed(<<Goal("multiplicative"), Goal("additiveLoop")>>, built, 0)
    \/ ParseOperators("additiveLoop", AdditionOf, "additive")

ParseComparison ==
    \/ /\ Parsing("comparison")
       /\ Proceed(<<Goal("additive"), Goal("comparisonLoop")>>, built, 0)
    \/ ParseOperators("comparisonLoop", ComparisonOf, "additive")

ParseAdditive ==
    \/ /\ Parsing("additive")
       /\ Proceed(<<Goal("multiplicative"), Goal("additiveLoop")>>, built, 0)
    \/ ParseOperators("additiveLoop", AdditionOf, "multiplicative")

ParseMultiplicative ==
    \/ /\ Parsing("multiplicative")
       /\ Proceed(<<Goal("primary"), Goal("multiplicativeLoop")>>, built, 0)
    \/ ParseOperators("multiplicativeLoop", MultiplicationOf, "primary")

MakeBinaryTree ==
    Parsing("makeBinary") /\ Make(2, Binary(Last(goals).op, Built(2), Built(1)))

\* Mutant: a literal wraps, as strtoll with its result unchecked would not tell.
ParseAnyNumber ==
    /\ Parsing("primary")
    /\ \/ Check("IntegerLiteral") /\ Proceed(<<>>, Append(built, Integer(Current.lexeme)), 1)
       \/ Check("FloatLiteral") /\ Proceed(<<>>, Append(built, Float(Current.lexeme)), 1)

\* A literal out of range is an error.
ParseNumber ==
    /\ Parsing("primary")
    /\ \/ /\ Check("IntegerLiteral")
          /\ IF Current.lexeme > IntLimit THEN ParseError(at)
             ELSE Proceed(<<>>, Append(built, Integer(Current.lexeme)), 1)
       \/ /\ Check("FloatLiteral")
          /\ IF Current.lexeme \notin Doubles THEN ParseError(at)
             ELSE Proceed(<<>>, Append(built, Float(Current.lexeme)), 1)

ParseParenthesis ==
    /\ Parsing("primary")
    /\ Check("LeftParen")
    /\ Proceed(<<Goal("comparison"), Expect("RightParen")>>, built, 1)

RejectPrimary ==
    /\ Parsing("primary")
    /\ Current.kind \notin {"Identifier", "IntegerLiteral", "FloatLiteral", "LeftParen"}
    /\ ParseError(at)

ParseIdentifierOrCall ==
    /\ Parsing("primary")
    /\ Check("Identifier")
    /\ Proceed(<<Keep("Identifier"), Goal("callOrIdentifier")>>, built, 0)

\* The identifier is a callee if a parenthesis follows.
CallOrIdentifier ==
    /\ Parsing("callOrIdentifier")
    /\ \/ ~ Check("LeftParen") /\ Make(1, Identifier(NameOf(Built(1))))
       \/ Check("LeftParen") /\ Proceed(<<Goal("arguments")>>, built, 1)

ParseFirstArgument ==
    /\ Parsing("arguments")
    /\ \/ Check("RightParen") /\ Proceed(<<Expect("RightParen"), EndCall(0)>>, built, 0)
       \/ /\ ~ Check("RightParen")
          /\ Proceed(<<Goal("comparison"), [goal |-> "moreArguments", arity |-> 1]>>, built, 0)

ParseMoreArguments ==
    /\ Parsing("moreArguments")
    /\ LET arity == Last(goals).arity IN
       \/ /\ Check("Comma")
          /\ Proceed(<<Goal("comparison"), [goal |-> "moreArguments", arity |-> arity + 1]>>, built, 1)
       \/ /\ ~ Check("Comma")
          /\ Proceed(<<Expect("RightParen"), EndCall(arity)>>, built, 0)

MakeCall ==
    /\ Parsing("call")
    /\ LET arity == Last(goals).arity IN
       Make(arity + 1, Call(NameOf(Built(arity + 1)), [i \in 1 .. arity |-> Built(arity - i + 1)]))

ParserStep ==
    \/ Consume
    \/ ParseProgram
    \/ AppendStatement
    \/ ParseTensorDeclaration
    \/ ParseDimension
    \/ ParseMoreDimensions
    \/ MakeTensorDeclaration
    \/ ParseAssignment
    \/ MakeAssignment
    \/ ParseReturnStatement
    \/ MakeReturn
    \/ ParseIfStatement
    \/ MakeIf
    \/ RejectStatement
    \/ ParseBlock
    \/ ParseStatements
    \/ ParseComparison
    \/ ParseAdditive
    \/ ParseMultiplicative
    \/ MakeBinaryTree
    \/ ParseNumber
    \/ ParseParenthesis
    \/ RejectPrimary
    \/ ParseIdentifierOrCall
    \/ CallOrIdentifier
    \/ ParseFirstArgument
    \/ ParseMoreArguments
    \/ MakeCall

ParserEnded == verdict # "parsing" /\ UNCHANGED parserVars

ParserSpec ==
    /\ ParserInit
    /\ [][ParserStep \/ ParserEnded]_parserVars
    /\ WF_parserVars(ParserStep)

=============================================================================
