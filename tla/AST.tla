-------------------------------- MODULE AST --------------------------------
(***************************************************************************)
(* Programs of the Ocelotl language as the passes behind the parser see    *)
(* them.  The semantic analyser and the IR generator are recursive         *)
(* visitors of one tree; both visit it in the same order.  A program is    *)
(* therefore the sequence of the nodes of that tree in visiting order:     *)
(*                                                                         *)
(*   - an expression is in postfix order, a call also has a node where its *)
(*     visitor starts ("call") and one where it ends ("endcall"), because  *)
(*     the callee and the arity are inspected before the arguments;        *)
(*   - a statement is the node that follows the nodes of its expression;   *)
(*   - an if statement is the condition, "if", the statements of the first *)
(*     block, "else", the statements of the second one, "endif".           *)
(*                                                                         *)
(* Source locations only serve diagnostics and are left out.               *)
(***************************************************************************)
EXTENDS Integers, Sequences, FiniteSets

CONSTANTS
    Names,         \* the identifiers programs use
    ElementTypes,  \* the names of element types programs use, and those of scalars
    Programs       \* the programs under consideration

(***************************************************************************)
(* Types.  A scalar has rank 0.  NoType stands for an empty optional, or   *)
(* for the type of a name that is not declared.                            *)
(***************************************************************************)
TensorType == [elementType : ElementTypes, shape : Seq(Nat)]
NoType == [elementType |-> "", shape |-> <<>>]
MaybeType == TensorType \cup {NoType}

\* The types declarations state: the parser asks for a first dimension.
DeclaredType == {type \in TensorType : type.shape # <<>>}

Scalar(elementType) == [elementType |-> elementType, shape |-> <<>>]
I64 == Scalar("i64")
F64 == Scalar("f64")
I1 == Scalar("i1")

Arithmetic == {"Add", "Subtract", "Multiply", "Divide"}
Comparison == {"Equal", "NotEqual", "Less", "LessEqual", "Greater", "GreaterEqual"}
BinaryOperator == Arithmetic \cup Comparison

IdentifierNode == [kind : {"identifier"}, name : Names]
LiteralNode == [kind : {"integer", "float"}, value : Nat]
BinaryNode == [kind : {"binary"}, op : BinaryOperator]
CallNode == [kind : {"call", "endcall"}, callee : STRING, arity : Nat]
TensorNode == [kind : {"tensor"}, name : Names, type : DeclaredType]
AssignmentNode == [kind : {"assign"}, name : Names]
ControlNode == [kind : {"return", "if", "else", "endif"}]

Node == IdentifierNode \cup LiteralNode \cup BinaryNode \cup CallNode
          \cup TensorNode \cup AssignmentNode \cup ControlNode

ASSUME ElementTypesAssumption == {"i64", "f64", "i1"} \subseteq ElementTypes /\ "" \notin ElementTypes
ASSUME NamesAssumption == IsFiniteSet(Names)
ASSUME ProgramsAssumption == Programs \subseteq Seq(Node)

(***************************************************************************)
(* The type of a binary expression: an arithmetic one has its operands'    *)
(* type, a comparison is an i1.                                            *)
(***************************************************************************)
BinaryType(op, operandType) == IF op \in Arithmetic THEN operandType ELSE I1

\* The type of a product of matrices of types lhs and rhs.
MatMulType(lhs, rhs) ==
    [elementType |-> lhs.elementType, shape |-> <<lhs.shape[1], rhs.shape[2]>>]

=============================================================================
