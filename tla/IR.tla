--------------------------------- MODULE IR ---------------------------------
(***************************************************************************)
(* The intermediate representation, ir::Module: basic blocks of operations *)
(* in SSA form, each closed by one terminator.  A value or a block is      *)
(* known by a number.  A module's blocks are a sequence; a block also      *)
(* carries its id, which the generator uses as an index.  The names of     *)
(* blocks are left out: only messages and the printer use them.            *)
(***************************************************************************)
EXTENDS AST, SequencesExt

NoBlock == -1
BlockId == Nat
ValueId == Nat

TensorDeclOp(result, name, type) ==
    [op |-> "tensor", result |-> result, name |-> name, type |-> type]
ConstantIntOp(result, value) ==
    [op |-> "int", result |-> result, value |-> value, type |-> I64]
ConstantFloatOp(result, value) ==
    [op |-> "float", result |-> result, value |-> value, type |-> F64]
BinaryOp(result, kind, lhs, rhs, type) ==
    [op |-> "binary", result |-> result, kind |-> kind, lhs |-> lhs, rhs |-> rhs, type |-> type]
CompareOp(result, kind, lhs, rhs, operandType) ==
    [op |-> "compare", result |-> result, kind |-> kind, lhs |-> lhs, rhs |-> rhs,
     operandType |-> operandType]
MatMulOp(result, lhs, rhs, type) ==
    [op |-> "matmul", result |-> result, lhs |-> lhs, rhs |-> rhs, type |-> type]
ReluOp(result, input, type) ==
    [op |-> "relu", result |-> result, input |-> input, type |-> type]
PhiOp(result, type, incoming) ==
    [op |-> "phi", result |-> result, type |-> type, incoming |-> incoming]
Incoming(predecessor, value) == [predecessor |-> predecessor, value |-> value]

Operation ==
    [op : {"tensor"}, result : ValueId, name : Names, type : TensorType]
      \cup [op : {"int"}, result : ValueId, value : Nat, type : {I64}]
      \cup [op : {"float"}, result : ValueId, value : Nat, type : {F64}]
      \cup [op : {"binary"}, result : ValueId, kind : Arithmetic, lhs : ValueId, rhs : ValueId,
            type : TensorType]
      \cup [op : {"compare"}, result : ValueId, kind : Comparison, lhs : ValueId, rhs : ValueId,
            operandType : TensorType]
      \cup [op : {"matmul"}, result : ValueId, lhs : ValueId, rhs : ValueId, type : TensorType]
      \cup [op : {"relu"}, result : ValueId, input : ValueId, type : TensorType]
      \cup [op : {"phi"}, result : ValueId, type : TensorType,
            incoming : Seq([predecessor : BlockId, value : ValueId])]

NoTerminator == [op |-> "none"]
BranchOp(target) == [op |-> "branch", target |-> target]
CondBranchOp(condition, trueTarget, falseTarget) ==
    [op |-> "condbranch", condition |-> condition, trueTarget |-> trueTarget,
     falseTarget |-> falseTarget]
ReturnOp(value) == [op |-> "return", value |-> value]

Terminator ==
    [op : {"branch"}, target : BlockId]
      \cup [op : {"condbranch"}, condition : ValueId, trueTarget : BlockId, falseTarget : BlockId]
      \cup [op : {"return"}, value : ValueId]

BasicBlock ==
    [id : BlockId, operations : Seq(Operation), terminator : Terminator \cup {NoTerminator}]

Module == [entry : BlockId, blocks : Seq(BasicBlock)]

-----------------------------------------------------------------------------

resultOf(operation) == operation.result

typeOf(operation) == IF operation.op = "compare" THEN I1 ELSE operation.type

\* The values an operation uses, in the order of its fields; those of a phi
\* are used at the end of the predecessors, not where the phi is.
OperandsOf(operation) ==
    CASE operation.op \in {"binary", "compare", "matmul"} -> {operation.lhs, operation.rhs}
      [] operation.op = "relu" -> {operation.input}
      [] OTHER -> {}

\* The blocks a terminator passes control to.
Targets(terminator) ==
    CASE terminator.op = "branch" -> {terminator.target}
      [] terminator.op = "condbranch" -> {terminator.trueTarget, terminator.falseTarget}
      [] OTHER -> {}

\* The values a terminator uses.
Uses(terminator) ==
    CASE terminator.op = "condbranch" -> {terminator.condition}
      [] terminator.op = "return" -> {terminator.value}
      [] OTHER -> {}

\* The places of a module that hold an operation, as pairs of positions.
Places(module) ==
    UNION {{b} \X DOMAIN module.blocks[b].operations : b \in DOMAIN module.blocks}

OperationAt(module, place) == module.blocks[place[1]].operations[place[2]]

=============================================================================
