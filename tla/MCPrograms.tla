----------------------------- MODULE MCPrograms -----------------------------
(***************************************************************************)
(* The small programs the passes are checked on: families of programs, each *)
(* one every program of a bounded grammar.                                  *)
(***************************************************************************)
EXTENDS Trees

Relu(argument) == Call("relu", <<argument>>)
MatMul(lhs, rhs) == Call("matmul", <<lhs, rhs>>)

F32(shape) == [elementType |-> "f32", shape |-> shape]
X == Identifier("X")
Y == Identifier("Y")
One == Integer(1)
Condition == Binary("Equal", One, One)

\* The blocks of at most n of the statements given.
Block(statements, n) == {FlattenSeq(block) : block \in BoundedSeq(statements, n)}

RECURSIVE IfStatements(_, _, _)
\* The if statements nested at most depth deep, with blocks of at most n statements.
IfStatements(statements, n, depth) ==
    IF depth = 0 THEN {}
    ELSE LET inner == statements \cup IfStatements(statements, n, depth - 1)
         IN  {If(Condition, b, c) : b, c \in Block(inner, n)}

-----------------------------------------------------------------------------

\* Nested if statements, early returns, names of either scalar type.
ControlFlowPrograms ==
    LET statements == {Let("X", One), Let("X", Float(2)), Return(One), Return(X)}
    IN  {nested \o after : nested \in {<<>>, Let("X", One)} \cup IfStatements(statements, 1, 2),
                          after \in {<<>>, Return(One), Return(X)}}

\* Two names assigned in the blocks of an if statement, in any order.
MergePrograms ==
    LET statements == {Let("X", One), Let("Y", One), Let("X", Y), Let("Y", X)}
    IN  {before \o merge \o Return(Y) :
            before \in {<<>>, Let("X", One), Let("X", One) \o Let("Y", X)},
            merge \in IfStatements(statements, 2, 1)}

\* Tensors declared, computed and redeclared inside and outside blocks.
TensorPrograms ==
    LET declarations == {Tensor("X", F32(<<2, 3>>)), Tensor("Y", F32(<<3, 2>>))}
        statements == declarations
            \cup {Let("X", MatMul(X, Y)), Let("Y", Relu(X)), Let("X", One)}
    IN  {before \o branches \o after \o Return(One) :
            before \in Block(declarations, 2),
            branches \in IfStatements(statements, 1, 1)
                           \cup {If(Condition, b, Return(One)) : b \in Block(statements, 2)},
            after \in Block(statements, 1)}

\* Operators and calls on operands of every type, in every context.
ExpressionPrograms ==
    LET declarations == Tensor("X", F32(<<2, 3>>)) \o Tensor("Y", F32(<<3, 2>>))
        atoms == {One, Float(2), Condition, X, Y}
        expressions == atoms
            \cup {Binary(op, l, r) : op \in {"Divide", "Less"}, l, r \in atoms}
            \cup {Call(f, <<a>>) : f \in {"relu", "matmul", "softmax"}, a \in atoms}
            \cup {Call(f, <<a, b>>) : f \in {"relu", "matmul"}, a, b \in atoms}
        contexts(e) == {Return(e), Let("X", e), If(e, Return(One), Return(One)),
                        Let("Z", e) \o Return(Binary("Add", Identifier("Z"), One)),
                        If(Condition, Return(e), Return(One))}
    IN  {before \o program : before \in {<<>>, declarations},
                             program \in UNION {contexts(e) : e \in expressions}}

\* Statements after a return, if statements among them, inside and outside blocks.
DeadCodePrograms ==
    LET nested == If(Condition, Let("X", One), <<>>)
        blocks == Block({Return(One), Let("X", One), nested, If(Condition, Return(X), Return(One))}, 2)
    IN  {If(Condition, b, c) \o after : b, c \in blocks,
                                       after \in {<<>>, Return(One), Return(X), Return(One) \o nested}}

\* A tensor declared in a block, and again, with any shape, after it.
RedeclarationPrograms ==
    {Tensor("Y", F32(<<3, 2>>))
        \o If(Condition, Tensor("X", F32(<<2, 3>>)) \o Let("Z", MatMul(X, Y)), <<>>)
        \o Tensor("X", F32(<<m, n>>)) \o Return(One) : m, n \in {2, 3}}

\* The tensor example of the language reference.
TensorExample ==
    {Tensor("A", F32(<<1024, 512>>)) \o Tensor("B", F32(<<512, 256>>))
        \o Let("C", MatMul(Identifier("A"), Identifier("B")))
        \o Let("D", Relu(Identifier("C"))) \o Return(Identifier("D"))}

=============================================================================
