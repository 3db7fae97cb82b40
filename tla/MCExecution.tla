---------------------------- MODULE MCExecution ----------------------------
EXTENDS Execution, MCPrograms

True == Binary("Equal", One, One)
False == Binary("NotEqual", One, One)
FloatTest(op) == Binary(op, Float(1), Float(2))

Zero == Integer(0)
MinusOne == Binary("Subtract", Zero, One)
Least == Binary("Subtract", Binary("Subtract", Zero, Integer(7)), One)

\* Every operator on operands that wrap, divide by zero or overflow the division.
ArithmeticPrograms ==
    {Return(Binary(op, l, r)) : op \in Arithmetic,
                                l, r \in {Zero, Integer(3), Integer(7), MinusOne, Least}}

\* Every comparison, of integers and of floats.
ComparisonPrograms ==
    {If(Binary(op, l, r), Let("X", Zero), Return(Integer(2))) \o Return(One) :
        op \in Comparison, l, r \in {One, Least}}
      \cup {If(FloatTest(op), Return(Zero), <<>>) \o Return(One) : op \in Comparison}
      \cup {Let("X", FloatTest(op)) \o If(X, Let("Y", Float(1)), Let("Y", Binary(fop, Float(1), Float(0))))
              \o If(Binary("Less", Y, Float(1)), <<>>, <<>>) \o Return(One) :
                  op \in {"Equal", "NotEqual"}, fop \in {"Add", "Divide"}}

\* Names changed, merged and returned in nested blocks, some of them taken.
BranchPrograms ==
    LET increment == Let("X", Binary("Add", X, One))
        swap == Let("Z", X) \o Let("X", Y) \o Let("Y", Identifier("Z"))
        inner == {<<>>, increment, swap, Return(Y)}
        outer == inner \cup {increment \o swap}
                   \cup {If(c, a, b) \o increment : c \in {True, False}, a, b \in {swap, increment, Return(X)}}
    IN  {Let("X", Zero) \o Let("Y", Integer(2)) \o If(c, a, b) \o Return(Binary("Subtract", X, Y)) :
            c \in {True, False}, a, b \in outer}

\* Tensors declared on some of the paths, before, inside and after blocks.
TensorPaths ==
    LET small == [elementType |-> "f32", shape |-> <<2, 3>>]
        large == [elementType |-> "f64", shape |-> <<3, 5>>]
        half == [elementType |-> "i64", shape |-> <<4, 4>>]
        blocks == {<<>>, Tensor("Y", large), Tensor("Y", large) \o Return(One), Return(One),
                   Tensor("Z", half) \o Tensor("Y", large)}
    IN  {before \o If(c, a, b) \o after \o Return(One) :
            before \in {<<>>, Tensor("X", small), Tensor("X", half)}, c \in {True, False},
            a, b \in blocks, after \in {<<>>, Return(Zero), Let("Y", One)}}

\* Scalars of every type merged after an if statement, and used after it.
ScalarMerges ==
    {If(c, Let("X", e), Let("X", f)) \o If(d, Let("Y", One), Let("Y", Integer(2))) \o Return(Y) :
        c \in {Condition, Binary("Less", Float(1), Float(2))},
        e, f \in {Condition, Float(2), Binary("Divide", One, One)},
        d \in {X, Condition, Binary("Equal", X, Float(2))}}

\* Tensors of types with and without storage declared inside and outside blocks.
Declarations ==
    LET types == {[elementType |-> e, shape |-> s] : e \in {"f32", "i64", "i1"}, s \in {<<2>>, <<4, 9>>}}
        blocks == {<<>>, Let("X", One), Return(One)} \cup {Tensor("X", type) : type \in types}
    IN  {before \o If(Condition, b, c) \o Return(One) :
            before \in {<<>>, Tensor("Y", F32(<<2>>))}, b, c \in blocks}

\* A name changed in blocks that return, or go on.
EarlyReturns ==
    LET increment == Let("X", Binary("Add", X, One))
        blocks == Block({increment, Return(X), If(Condition, increment, Return(X))}, 2)
    IN  {Let("X", One) \o If(Condition, b, c) \o Return(X) : b, c \in blocks}

BackendPrograms ==
    ScalarMerges \cup EarlyReturns \cup Declarations \cup ControlFlowPrograms \cup MergePrograms
      \cup {Tensor("X", F32(<<2, 2>>)) \o Let("Z", e) \o Return(One) : e \in {MatMul(X, X), Relu(X)}}

ExecutedPrograms ==
    ArithmeticPrograms \cup ComparisonPrograms \cup BranchPrograms \cup TensorPaths
      \cup BackendPrograms

=============================================================================
