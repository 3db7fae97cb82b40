------------------------- MODULE Compilation_proofs -------------------------
(***************************************************************************)
(* What the semantic analyser does to its state, and the module the        *)
(* generator constructs, on every program, with any names and any nesting. *)
(* The invariants of the generator are proved of it whatever it starts     *)
(* from: GeneratorSpec gives it an analyser that has seen nothing, Spec    *)
(* one that has accepted the program.  Three parts: the analyser and the   *)
(* graph of blocks; the values of the module; and the agreement of the     *)
(* generator with the analyser, on which the types of values rest.         *)
(***************************************************************************)
EXTENDS Compilation, StackLemmas, FiniteSetTheorems

-----------------------------------------------------------------------------
(* The analyser *)

(* The types the analyser computes are types.                              *)
LEMMA ScalarTypes == I64 \in TensorType /\ F64 \in TensorType /\ I1 \in TensorType
  <1>1. "i64" \in ElementTypes /\ "f64" \in ElementTypes /\ "i1" \in ElementTypes
    BY ElementTypesAssumption
  <1>2. ASSUME NEW e \in ElementTypes PROVE Scalar(e) \in TensorType
    BY DEF Scalar, TensorType
  <1> QED
    BY <1>1, <1>2 DEF I64, F64, I1

LEMMA BinaryTypeType ==
  ASSUME NEW op, NEW type \in TensorType
  PROVE  BinaryType(op, type) \in TensorType
  BY ScalarTypes DEF BinaryType

LEMMA MatMulTypeType ==
  ASSUME NEW lhs \in TensorType, NEW rhs \in TensorType, MatMulAllowed(lhs, rhs)
  PROVE  MatMulType(lhs, rhs) \in TensorType
  BY DEF MatMulType, MatMulAllowed, TensorType

(* The node an analysis visits is a node, of the kind its action names.    *)
LEMMA VisitedNode ==
  ASSUME SemaTypeOK, NEW kind, Visiting(kind)
  PROVE  Visited \in Node /\ Visited.kind = kind /\ semaPos + 1 \in 1 .. Len(prog) + 1
  BY DEF SemaTypeOK, Visiting, Visited

LEMMA VisitedName ==
  ASSUME SemaTypeOK, NEW kind \in {"identifier", "tensor", "assign"}, Visiting(kind)
  PROVE  Visited.name \in Names
  BY VisitedNode DEF Node, IdentifierNode, LiteralNode, BinaryNode, CallNode, TensorNode,
                     AssignmentNode, ControlNode

LEMMA VisitedTensorType ==
  ASSUME SemaTypeOK, Visiting("tensor")
  PROVE  Visited.type \in TensorType
  BY VisitedNode DEF Node, IdentifierNode, LiteralNode, BinaryNode, CallNode, TensorNode,
                     AssignmentNode, ControlNode, DeclaredType

LEMMA ConsumeType ==
  ASSUME SemaTypeOK, NEW n \in Nat, Len(exprTypes) >= n
  PROVE  Consume(n) \in Seq(TensorType)
  BY DEF SemaTypeOK, Consume

LEMMA YieldType ==
  ASSUME SemaTypeOK, NEW n \in Nat, Len(exprTypes) >= n, NEW type \in TensorType,
         Yield(n, type), semaPos + 1 \in 1 .. Len(prog) + 1
  PROVE  SemaTypeOK'
  <1>1. exprTypes' \in Seq(TensorType)
    BY ConsumeType DEF Yield
  <1> QED
    BY <1>1 DEF SemaTypeOK, Yield, Advance

LEMMA DeclareType ==
  ASSUME NEW table \in SymbolTable, NEW name \in Names, NEW type \in TensorType
  PROVE  Declare(table, name, type) \in SymbolTable
  BY DEF Declare, SymbolTable, MaybeType

LEMMA RejectType == SemaTypeOK /\ Reject => SemaTypeOK'
  BY DEF SemaTypeOK, Reject

(* One lemma per kind of step: an expression, a statement, an if statement. *)
LEMMA ExpressionStepType ==
  ASSUME SemaTypeOK,
         \/ AnalyzeIdentifier \/ AnalyzeInteger \/ AnalyzeFloat \/ AnalyzeBinary
         \/ AnalyzeCall \/ AnalyzeRelu \/ AnalyzeMatMul
  PROVE  SemaTypeOK'
  <1>1. CASE AnalyzeIdentifier
    <2>1. CASE Declared(symbols, Visited.name) /\ Yield(0, symbols[Visited.name])
      <3>1. symbols[Visited.name] \in TensorType
        BY <1>1, <2>1, VisitedName DEF AnalyzeIdentifier, Declared, SemaTypeOK, SymbolTable, MaybeType
      <3>2. Len(exprTypes) >= 0
        BY DEF SemaTypeOK
      <3> QED
        BY <1>1, <2>1, <3>1, <3>2, YieldType, VisitedNode DEF AnalyzeIdentifier
    <2> QED
      BY <1>1, <2>1, RejectType DEF AnalyzeIdentifier
  <1>2. CASE AnalyzeInteger \/ AnalyzeFloat
    <2>1. Len(exprTypes) >= 0
      BY DEF SemaTypeOK
    <2> QED
      BY <1>2, <2>1, YieldType, VisitedNode, ScalarTypes DEF AnalyzeInteger, AnalyzeFloat
  <1>3. CASE AnalyzeBinary
    <2>1. PreviousType \in TensorType
      BY <1>3 DEF AnalyzeBinary, PreviousType, SemaTypeOK
    <2> QED
      BY <1>3, <2>1, RejectType, YieldType, VisitedNode, BinaryTypeType DEF AnalyzeBinary
  <1>4. CASE AnalyzeCall
    BY <1>4, RejectType, VisitedNode DEF AnalyzeCall, Advance, SemaTypeOK
  <1>5. CASE AnalyzeRelu
    <2>1. LastType \in TensorType
      BY <1>5 DEF AnalyzeRelu, LastType, SemaTypeOK
    <2> QED
      BY <1>5, <2>1, YieldType, VisitedNode DEF AnalyzeRelu
  <1>6. CASE AnalyzeMatMul
    <2>1. PreviousType \in TensorType /\ LastType \in TensorType
      BY <1>6 DEF AnalyzeMatMul, PreviousType, LastType, SemaTypeOK
    <2> QED
      BY <1>6, <2>1, RejectType, YieldType, VisitedNode, MatMulTypeType DEF AnalyzeMatMul
  <1> QED
    BY <1>1, <1>2, <1>3, <1>4, <1>5, <1>6

LEMMA StatementStepType ==
  ASSUME SemaTypeOK,
         AnalyzeTensorDeclaration \/ AnalyzeAssignment \/ AnalyzeReturn
  PROVE  SemaTypeOK'
  <1>1. CASE AnalyzeTensorDeclaration
    <2>1. CASE Reject
      BY <2>1, RejectType
    <2>2. CASE /\ symbols' = Declare(symbols, Visited.name, Visited.type)
               /\ Advance
               /\ UNCHANGED <<returnType, exprTypes, branches>>
      <3>1. Visiting("tensor")
        BY <1>1 DEF AnalyzeTensorDeclaration
      <3>2. symbols' \in SymbolTable
        BY <2>2, <3>1, VisitedName, VisitedTensorType, DeclareType DEF SemaTypeOK
      <3> QED
        BY <2>2, <3>1, <3>2, VisitedNode DEF SemaTypeOK, Advance
    <2> QED
      BY <1>1, <2>1, <2>2 DEF AnalyzeTensorDeclaration
  <1>2. CASE AnalyzeAssignment
    <2>1. CASE Reject
      BY <2>1, RejectType
    <2>2. CASE /\ symbols' = Declare(symbols, Visited.name, LastType)
               /\ exprTypes' = Consume(1)
               /\ Advance
               /\ UNCHANGED <<returnType, branches>>
      <3>1. Visiting("assign") /\ Len(exprTypes) >= 1
        BY <1>2 DEF AnalyzeAssignment
      <3>2. LastType \in TensorType
        BY <3>1 DEF LastType, SemaTypeOK
      <3>3. symbols' \in SymbolTable
        BY <2>2, <3>1, <3>2, VisitedName, DeclareType DEF SemaTypeOK
      <3> QED
        BY <2>2, <3>1, <3>3, VisitedNode, ConsumeType DEF SemaTypeOK, Advance
    <2> QED
      BY <1>2, <2>1, <2>2 DEF AnalyzeAssignment
  <1>3. CASE AnalyzeReturn
    <2>1. CASE Reject
      BY <2>1, RejectType
    <2>2. CASE ~ Reject
      <3>1. Visiting("return") /\ Len(exprTypes) >= 1
        BY <1>3 DEF AnalyzeReturn
      <3> QED
        BY <1>3, <2>2, <3>1, VisitedNode, ConsumeType
        DEF AnalyzeReturn, ReturnAllowed, SemaTypeOK, Advance
    <2> QED
      BY <2>1, <2>2
  <1> QED
    BY <1>1, <1>2, <1>3

LEMMA IfStepType ==
  ASSUME SemaTypeOK,
         AnalyzeIf \/ AnalyzeElse \/ AnalyzeEndIf
  PROVE  SemaTypeOK'
  <1>1. CASE AnalyzeIf
    <2>1. CASE Reject
      BY <2>1, RejectType
    <2>2. CASE ~ Reject
      <3>1. Visiting("if") /\ Len(exprTypes) >= 1
        BY <1>1 DEF AnalyzeIf
      <3>2. [before |-> symbols, inElse |-> FALSE, thenSymbols |-> NoSymbols] \in IfFrame
        BY DEF IfFrame, NoSymbols, SymbolTable, MaybeType, SemaTypeOK
      <3>3. branches' \in Seq(IfFrame)
        <4>1. branches' = Append(branches, [before |-> symbols, inElse |-> FALSE, thenSymbols |-> NoSymbols])
          BY <1>1, <2>2 DEF AnalyzeIf
        <4> QED
          BY <3>2, <4>1 DEF SemaTypeOK
      <3>4. exprTypes' \in Seq(TensorType)
        BY <1>1, <2>2, <3>1, ConsumeType DEF AnalyzeIf
      <3> QED
        BY <1>1, <2>2, <3>1, <3>3, <3>4, VisitedNode DEF AnalyzeIf, SemaTypeOK, Advance
    <2> QED
      BY <2>1, <2>2
  <1>2. CASE AnalyzeElse
    <2>1. Visiting("else") /\ Frame \in IfFrame
      BY <1>2 DEF AnalyzeElse, Frame, SemaTypeOK
    <2>2. branches' \in Seq(IfFrame)
      <3>1. [Frame EXCEPT !.inElse = TRUE, !.thenSymbols = symbols] \in IfFrame
        BY <2>1 DEF IfFrame, SemaTypeOK
      <3> QED
        BY <1>2, <3>1 DEF AnalyzeElse, Frame, SemaTypeOK
    <2> QED
      BY <1>2, <2>1, <2>2, VisitedNode DEF AnalyzeElse, SemaTypeOK, IfFrame, Advance
  <1>3. CASE AnalyzeEndIf
    <2>1. CASE Reject
      BY <2>1, RejectType
    <2>2. CASE ~ Reject
      <3>1. Visiting("endif") /\ Frame \in IfFrame
        BY <1>3 DEF AnalyzeEndIf, Frame, SemaTypeOK
      <3>2. MergedSymbols(Frame.before, Frame.thenSymbols, symbols) \in SymbolTable
        BY <3>1 DEF MergedSymbols, SymbolTable, IfFrame
      <3>3. branches' \in Seq(IfFrame)
        <4>1. branches' = SubSeq(branches, 1, Len(branches) - 1)
          BY <1>3, <2>2 DEF AnalyzeEndIf
        <4>2. Len(branches) >= 1
          BY <1>3 DEF AnalyzeEndIf, SemaTypeOK
        <4> QED
          BY <4>1, <4>2 DEF SemaTypeOK
      <3> QED
        BY <1>3, <2>2, <3>1, <3>2, <3>3, VisitedNode DEF AnalyzeEndIf, SemaTypeOK, Advance
    <2> QED
      BY <2>1, <2>2
  <1> QED
    BY <1>1, <1>2, <1>3

LEMMA SemaStepType == SemaTypeOK /\ [SemaStep]_semaVars => SemaTypeOK'
  <1> SUFFICES ASSUME SemaTypeOK, [SemaStep]_semaVars PROVE SemaTypeOK'
    OBVIOUS
  <1>1. CASE Accept
    BY <1>1 DEF Accept, SemaTypeOK
  <1>2. CASE UNCHANGED semaVars
    BY <1>2 DEF semaVars, SemaTypeOK
  <1> QED
    BY <1>1, <1>2, ExpressionStepType, StatementStepType, IfStepType DEF SemaStep

LEMMA SemaInitType == SemaInit => SemaTypeOK
  BY ProgramsAssumption DEF SemaInit, SemaTypeOK, NoSymbols, SymbolTable, MaybeType

(* The state of the analyser has its type whatever the program.            *)
THEOREM SemaTypeCorrect == SemaSpec => []SemaTypeOK
  BY SemaInitType, SemaStepType, PTL DEF SemaSpec

-----------------------------------------------------------------------------
(* Scopes *)

LEMMA ExtendsTransitive ==
  ASSUME NEW a, NEW b, NEW c, Extends(a, b), Extends(b, c)
  PROVE  Extends(a, c)
  BY DEF Extends, Declared

LEMMA ExtendsReflexive == \A a : Extends(a, a)
  BY DEF Extends

LEMMA MergedExtendsBefore ==
  ASSUME NEW before, NEW thenSymbols, NEW elseSymbols
  PROVE  Extends(MergedSymbols(before, thenSymbols, elseSymbols), before)
  BY DEF Extends, MergedSymbols, Introduced

(* A step that stays in its block only adds to the table in use; one that  *)
(* opens a block leaves it; one that ends an if statement comes back to an *)
(* extension of the table the statement started from.                      *)
LEMMA TableStep ==
  ASSUME SemaTypeOK, [SemaStep]_semaVars
  PROVE  \/ branches' = branches /\ Extends(symbols', symbols)
         \/ /\ branches' = Append(branches, [before |-> symbols, inElse |-> FALSE,
                                            thenSymbols |-> NoSymbols])
            /\ symbols' = symbols
         \/ /\ branches # <<>> /\ ~ Frame.inElse
            /\ branches' = [branches EXCEPT ![Len(branches)] =
                               [@ EXCEPT !.inElse = TRUE, !.thenSymbols = symbols]]
            /\ symbols' = Frame.before
         \/ /\ branches # <<>>
            /\ branches' = SubSeq(branches, 1, Len(branches) - 1)
            /\ Extends(symbols', Frame.before)
  <1>1. CASE UNCHANGED <<symbols, branches>>
    BY <1>1, ExtendsReflexive
  <1>2. CASE AnalyzeTensorDeclaration /\ ~ Reject
    <2>1. Visited.name \in Names
      BY <1>2, VisitedName DEF AnalyzeTensorDeclaration
    <2> QED
      BY <1>2, <2>1 DEF AnalyzeTensorDeclaration, Extends, Declare, Declared, SemaTypeOK, SymbolTable
  <1>3. CASE AnalyzeAssignment /\ ~ Reject
    <2>1. Visited.name \in Names
      BY <1>3, VisitedName DEF AnalyzeAssignment
    <2> QED
      BY <1>3, <2>1 DEF AnalyzeAssignment, AssignmentAllowed, Extends, Declare, Declared,
                        SemaTypeOK, SymbolTable
  <1>4. CASE AnalyzeIf /\ ~ Reject
    BY <1>4 DEF AnalyzeIf
  <1>5. CASE AnalyzeElse
    BY <1>5 DEF AnalyzeElse
  <1>6. CASE AnalyzeEndIf /\ ~ Reject
    BY <1>6, MergedExtendsBefore DEF AnalyzeEndIf
  <1> QED
    BY <1>1, <1>2, <1>3, <1>4, <1>5, <1>6
    DEF SemaStep, semaVars, Reject, Yield, AnalyzeIdentifier, AnalyzeInteger, AnalyzeFloat,
        AnalyzeBinary, AnalyzeCall, AnalyzeRelu, AnalyzeMatMul, AnalyzeReturn, Accept

(* The properties of one table, so that the invariant is a statement on    *)
(* each frame.                                                             *)
LEMMA ScopesNestStep == SemaTypeOK /\ ScopesNest /\ [SemaStep]_semaVars => ScopesNest'
  <1> SUFFICES ASSUME SemaTypeOK, ScopesNest, [SemaStep]_semaVars PROVE ScopesNest'
    OBVIOUS
  <1>0. branches \in Seq(IfFrame)
    BY DEF SemaTypeOK
  <1>1. CASE branches' = branches /\ Extends(symbols', symbols)
    BY <1>1, ExtendsTransitive DEF ScopesNest
  <1>2. CASE /\ branches' = Append(branches, [before |-> symbols, inElse |-> FALSE,
                                             thenSymbols |-> NoSymbols])
             /\ symbols' = symbols
    BY <1>0, <1>2, ExtendsReflexive DEF ScopesNest
  <1>3. CASE /\ branches # <<>> /\ ~ Frame.inElse
             /\ branches' = [branches EXCEPT ![Len(branches)] =
                                [@ EXCEPT !.inElse = TRUE, !.thenSymbols = symbols]]
             /\ symbols' = Frame.before
    <2>1. Len(branches') = Len(branches) /\ Len(branches) \in 1 .. Len(branches)
      BY <1>0, <1>3
    <2>2. \A i \in 1 .. Len(branches) :
             /\ branches'[i].before = branches[i].before
             /\ branches'[i].inElse => \/ branches[i].inElse
                                            /\ branches'[i].thenSymbols = branches[i].thenSymbols
                                       \/ branches'[i].thenSymbols = symbols
      BY <1>0, <1>3, <2>1 DEF IfFrame
    <2>3. \A i \in 1 .. Len(branches) : Extends(symbols', branches[i].before)
      BY <1>3, <2>1 DEF ScopesNest, Frame
    <2> QED
      BY <2>1, <2>2, <2>3 DEF ScopesNest
  <1>4. CASE /\ branches # <<>>
             /\ branches' = SubSeq(branches, 1, Len(branches) - 1)
             /\ Extends(symbols', Frame.before)
    <2>1. /\ Len(branches) \in 1 .. Len(branches)
          /\ Len(branches') = Len(branches) - 1
          /\ \A i \in 1 .. Len(branches') : branches'[i] = branches[i] /\ i \in 1 .. Len(branches)
      BY <1>0, <1>4, StackTop, StackPopTop
    <2>2. \A i \in 1 .. Len(branches') : Extends(symbols', branches[i].before)
      BY <1>4, <2>1, ExtendsTransitive DEF ScopesNest, Frame
    <2> QED
      BY <2>1, <2>2 DEF ScopesNest
  <1> QED
    BY <1>1, <1>2, <1>3, <1>4, TableStep

(* No statement in a block, however deep, loses or retypes a name of the   *)
(* scopes around it.                                                       *)
THEOREM ScopesNestAlways == SemaSpec => []ScopesNest
  <1>1. SemaInit => ScopesNest
    BY DEF SemaInit, ScopesNest
  <1> QED
    BY <1>1, ScopesNestStep, SemaTypeCorrect, PTL DEF SemaSpec

(* A visible name keeps its type until the block that introduced it ends.  *)
THEOREM VisibleNamesKeepTypesAlways == SemaSpec => VisibleNamesKeepTypes
  <1>1. SemaTypeOK /\ [SemaStep]_semaVars
          => [/\ branches' = branches => Extends(symbols', symbols)
              /\ Len(branches') > Len(branches) => symbols' = symbols
              /\ Len(branches') < Len(branches) => Extends(symbols', Frame.before)]_semaVars
    <2> SUFFICES ASSUME SemaTypeOK, [SemaStep]_semaVars
                 PROVE  /\ branches' = branches => Extends(symbols', symbols)
                        /\ Len(branches') > Len(branches) => symbols' = symbols
                        /\ Len(branches') < Len(branches) => Extends(symbols', Frame.before)
      OBVIOUS
    <2>0. branches \in Seq(IfFrame)
      BY DEF SemaTypeOK
    <2>1. CASE branches' = branches /\ Extends(symbols', symbols)
      BY <2>0, <2>1
    <2>2. CASE /\ branches' = Append(branches, [before |-> symbols, inElse |-> FALSE,
                                               thenSymbols |-> NoSymbols])
               /\ symbols' = symbols
      <3>1. Len(branches') = Len(branches) + 1
        BY <2>0, <2>2
      <3> QED
        BY <2>0, <2>2, <3>1
    <2>3. CASE /\ branches # <<>> /\ ~ Frame.inElse
               /\ branches' = [branches EXCEPT ![Len(branches)] =
                                  [@ EXCEPT !.inElse = TRUE, !.thenSymbols = symbols]]
               /\ symbols' = Frame.before
      <3>1. Len(branches) \in 1 .. Len(branches) /\ Frame \in IfFrame
        BY <2>0, <2>3, StackTop DEF Frame
      <3>2. branches'[Len(branches)].inElse /\ Len(branches') = Len(branches)
        BY <2>0, <2>3, <3>1 DEF IfFrame
      <3>3. branches' # branches
        BY <2>3, <3>2, Zenon DEF Frame
      <3> QED
        BY <2>0, <2>3, <3>2, <3>3
    <2>4. CASE /\ branches # <<>>
               /\ branches' = SubSeq(branches, 1, Len(branches) - 1)
               /\ Extends(symbols', Frame.before)
      <3>1. Len(branches') = Len(branches) - 1
        BY <2>0, <2>4, StackPopTop
      <3> QED
        BY <2>0, <2>4, <3>1
    <2> QED
      BY <2>1, <2>2, <2>3, <2>4, TableStep
  <1> QED
    BY <1>1, SemaTypeCorrect, PTL DEF SemaSpec, VisibleNamesKeepTypes

-----------------------------------------------------------------------------
(* The generator: types *)

LEMMA GenNodeType ==
  ASSUME TypeOK, NEW kind, Generating(kind)
  PROVE  GenNode \in Node /\ GenNode.kind = kind /\ genPos + 1 \in 1 .. Len(prog) + 1
  BY DEF TypeOK, SemaTypeOK, Generating, GenNode

LEMMA GenNodeName ==
  ASSUME TypeOK, NEW kind \in {"identifier", "tensor", "assign"}, Generating(kind)
  PROVE  GenNode.name \in Names
  BY GenNodeType DEF Node, IdentifierNode, LiteralNode, BinaryNode, CallNode, TensorNode,
                     AssignmentNode, ControlNode

LEMMA GenNodeValue ==
  ASSUME TypeOK, NEW kind \in {"integer", "float"}, Generating(kind)
  PROVE  GenNode.value \in Nat
  BY GenNodeType DEF Node, IdentifierNode, LiteralNode, BinaryNode, CallNode, TensorNode,
                     AssignmentNode, ControlNode

LEMMA GenNodeOp ==
  ASSUME TypeOK, Generating("binary")
  PROVE  GenNode.op \in BinaryOperator
  BY GenNodeType DEF Node, IdentifierNode, LiteralNode, BinaryNode, CallNode, TensorNode,
                     AssignmentNode, ControlNode

LEMMA OperandTypes ==
  ASSUME TypeOK
  PROVE  /\ Len(operands) >= 1 => LastOperand \in ValueInfo
         /\ Len(operands) >= 2 => PreviousOperand \in ValueInfo
         /\ \A n \in Nat : Len(operands) >= n => Pop(n) \in Seq(ValueInfo)
  <1>1. operands \in Seq(ValueInfo) /\ Len(operands) \in Nat
    BY DEF TypeOK
  <1>2. ASSUME NEW n \in Nat, Len(operands) >= n PROVE Pop(n) \in Seq(ValueInfo)
    BY <1>1, <1>2, StackPop DEF Pop
  <1> QED
    BY <1>1, <1>2 DEF LastOperand, PreviousOperand

LEMMA NoTypeNotType == NoType \notin TensorType
  BY ElementTypesAssumption DEF NoType, TensorType

LEMMA NoValueNotValue == NoValue \notin ValueInfo
  BY DEF NoValue, ValueInfo, ValueId

(* Every operation the generator appends is one.                           *)
LEMMA OperationTypes ==
  ASSUME NEW result \in ValueId, NEW lhs \in ValueId, NEW rhs \in ValueId, NEW type \in TensorType
  PROVE  /\ \A value \in Nat : ConstantIntOp(result, value) \in Operation
                                 /\ ConstantFloatOp(result, value) \in Operation
         /\ \A name \in Names : TensorDeclOp(result, name, type) \in Operation
         /\ \A kind \in Arithmetic : BinaryOp(result, kind, lhs, rhs, type) \in Operation
         /\ \A kind \in Comparison : CompareOp(result, kind, lhs, rhs, type) \in Operation
         /\ MatMulOp(result, lhs, rhs, type) \in Operation
         /\ ReluOp(result, lhs, type) \in Operation
         /\ \A incoming \in Seq([predecessor : BlockId, value : ValueId]) :
               PhiOp(result, type, incoming) \in Operation
  BY DEF Operation, ConstantIntOp, ConstantFloatOp, TensorDeclOp, BinaryOp, CompareOp, MatMulOp,
         ReluOp, PhiOp

LEMMA TerminatorTypes ==
  ASSUME NEW a \in Nat, NEW b \in Nat, NEW c \in Nat
  PROVE  /\ BranchOp(a) \in Terminator
         /\ CondBranchOp(a, b, c) \in Terminator
         /\ ReturnOp(a) \in Terminator
  BY DEF Terminator, BranchOp, CondBranchOp, ReturnOp, BlockId, ValueId

LEMMA NewBlockType == \A id \in Nat : NewBlock(id) \in BasicBlock
  BY DEF NewBlock, BasicBlock, BlockId

LEMMA BlocksType == TypeOK => module.blocks \in Seq(BasicBlock) /\ module.entry \in BlockId
  BY DEF TypeOK, Module

(* Appending an operation, or setting a terminator, keeps a block a block. *)
LEMMA AppendToType ==
  ASSUME NEW blocks \in Seq(BasicBlock), NEW id, NEW operation \in Operation
  PROVE  AppendTo(blocks, id, operation) \in Seq(BasicBlock)
  <1> DEFINE extended(b) == [b EXCEPT !.operations = Append(b.operations, operation)]
  <1>1. ASSUME NEW b \in BasicBlock PROVE extended(b) \in BasicBlock
    <2>1. Append(b.operations, operation) \in Seq(Operation)
      BY DEF BasicBlock
    <2> QED
      BY <2>1 DEF BasicBlock
  <1>2. AppendTo(blocks, id, operation) = [blocks EXCEPT ![id + 1] = extended(blocks[id + 1])]
    BY DEF AppendTo
  <1> HIDE DEF extended
  <1>3. CASE id + 1 \in 1 .. Len(blocks)
    BY <1>1, <1>2, <1>3, ElementOfSeq, ExceptSeq
  <1>4. CASE id + 1 \notin 1 .. Len(blocks)
    BY <1>2, <1>4, ExceptOutside
  <1> QED
    BY <1>3, <1>4

LEMMA EmitType ==
  ASSUME TypeOK, NEW operation \in Operation, Emit(operation)
  PROVE  module' \in Module
  BY BlocksType, AppendToType DEF Emit, Module, TypeOK

LEMMA CloseType ==
  ASSUME NEW blocks \in Seq(BasicBlock), NEW id, NEW terminator \in Terminator
  PROVE  Close(blocks, id, terminator) \in Seq(BasicBlock)
  <1>1. ASSUME NEW b \in BasicBlock PROVE [b EXCEPT !.terminator = terminator] \in BasicBlock
    BY DEF BasicBlock
  <1>2. CASE id + 1 \in 1 .. Len(blocks)
    BY <1>1, <1>2, ElementOfSeq, ExceptSeq DEF Close
  <1>3. CASE id + 1 \notin 1 .. Len(blocks)
    BY <1>3, ExceptOutside DEF Close
  <1> QED
    BY <1>2, <1>3

LEMMA FailType ==
  ASSUME TypeOK, NEW error \in GenErrors, Fail(error)
  PROVE  TypeOK'
  <1>1. SemaTypeOK'
    BY DEF Fail, TypeOK, SemaTypeOK, semaVars
  <1> QED
    BY <1>1 DEF Fail, TypeOK, semaVars, codeVars, flowVars

LEMMA ContinueType ==
  ASSUME TypeOK, Continue, genPos + 1 \in 1 .. Len(prog) + 1
  PROVE  /\ SemaTypeOK'
         /\ genPos' \in 1 .. Len(prog') + 1
         /\ genStatus' \in {"idle", "generating", "done", "failed"}
         /\ genError' \in GenErrors
  BY DEF Continue, TypeOK, SemaTypeOK, semaVars

LEMMA DefineType ==
  ASSUME TypeOK, NEW operation \in Operation, NEW n \in Nat, NEW type \in TensorType,
         Len(operands) >= n, Define(operation, n, type), genPos + 1 \in 1 .. Len(prog) + 1
  PROVE  TypeOK'
  <1>1. module' \in Module
    BY EmitType DEF Define
  <1>2. operands' \in Seq(ValueInfo)
    <2>1. [value |-> nextValueId, type |-> type] \in ValueInfo
      BY DEF ValueInfo, ValueId, TypeOK
    <2> QED
      BY <2>1, OperandTypes DEF Define
  <1> QED
    BY <1>1, <1>2, ContinueType DEF Define, TypeOK, codeVars, flowVars

LEMMA ExpressionType ==
  ASSUME TypeOK,
         \/ GenerateIdentifier \/ GenerateInteger \/ GenerateFloat \/ GenerateBinary
         \/ GenerateCall \/ GenerateRelu \/ GenerateMatMul
  PROVE  TypeOK'
  <1>0. nextValueId \in ValueId /\ Len(operands) \in Nat
    BY DEF TypeOK, ValueId
  <1>1. CASE GenerateIdentifier
    <2>1. CASE Fail("unresolved")
      BY <2>1, FailType DEF GenErrors
    <2>2. CASE ~ Fail("unresolved")
      <3> DEFINE found == values[GenNode.name]
      <3>1. Generating("identifier")
        BY <1>1 DEF GenerateIdentifier, Emitting
      <3>2. found \in ValueInfo
        BY <1>1, <2>2, <3>1, GenNodeName DEF GenerateIdentifier, TypeOK, Environment
      <3>3. operands' \in Seq(ValueInfo)
        BY <1>1, <2>2, <3>2 DEF GenerateIdentifier, TypeOK
      <3> QED
        BY <1>1, <2>2, <3>1, <3>3, GenNodeType, ContinueType
        DEF GenerateIdentifier, TypeOK, codeVars, flowVars
    <2> QED
      BY <2>1, <2>2
  <1>2. CASE GenerateInteger
    BY <1>0, <1>2, GenNodeType, GenNodeValue, OperationTypes, ScalarTypes, DefineType
    DEF GenerateInteger, Emitting
  <1>3. CASE GenerateFloat
    BY <1>0, <1>3, GenNodeType, GenNodeValue, OperationTypes, ScalarTypes, DefineType
    DEF GenerateFloat, Emitting
  <1>4. CASE GenerateBinary
    <2>1. CASE Fail("binaryType")
      BY <2>1, FailType DEF GenErrors
    <2>2. CASE ~ Fail("binaryType")
      <3>1. Generating("binary") /\ Len(operands) >= 2
        BY <1>4 DEF GenerateBinary, Emitting
      <3>2. /\ PreviousOperand.value \in ValueId
            /\ LastOperand.value \in ValueId
            /\ PreviousOperand.type \in TensorType
        BY <1>0, <3>1, OperandTypes DEF ValueInfo
      <3>3. BinaryOperation(GenNode.op, PreviousOperand, LastOperand) \in Operation
        BY <1>0, <3>1, <3>2, GenNodeOp, OperationTypes DEF BinaryOperation, BinaryOperator
      <3> QED
        BY <1>4, <2>2, <3>1, <3>2, <3>3, GenNodeType, BinaryTypeType, DefineType
        DEF GenerateBinary
    <2> QED
      BY <2>1, <2>2
  <1>5. CASE GenerateCall
    <2>1. CASE Fail("unsupportedCall")
      BY <2>1, FailType DEF GenErrors
    <2>2. CASE ~ Fail("unsupportedCall")
      BY <1>5, <2>2, GenNodeType, ContinueType
      DEF GenerateCall, Emitting, TypeOK, codeVars, flowVars
    <2> QED
      BY <2>1, <2>2
  <1>6. CASE GenerateRelu
    <2>1. LastOperand.value \in ValueId /\ LastOperand.type \in TensorType
      BY <1>0, <1>6, OperandTypes DEF GenerateRelu, ValueInfo
    <2>2. ReluOp(nextValueId, LastOperand.value, LastOperand.type) \in Operation
      BY <1>0, <2>1, OperationTypes
    <2> QED
      BY <1>6, <2>1, <2>2, GenNodeType, DefineType DEF GenerateRelu, Emitting
  <1>7. CASE GenerateMatMul
    <2>1. CASE Fail("outOfRange")
      BY <2>1, FailType DEF GenErrors
    <2>2. CASE ~ Fail("outOfRange")
      <3> DEFINE type == MatMulType(PreviousOperand.type, LastOperand.type)
      <3>1. PreviousOperand \in ValueInfo /\ LastOperand \in ValueInfo
        BY <1>0, <1>7, OperandTypes DEF GenerateMatMul
      <3>2. type \in TensorType
        BY <1>7, <2>2, <3>1 DEF GenerateMatMul, ExtentsExist, MatMulType, ValueInfo, TensorType
      <3>3. MatMulOp(nextValueId, PreviousOperand.value, LastOperand.value, type) \in Operation
        BY <1>0, <3>1, <3>2, OperationTypes DEF ValueInfo
      <3> QED
        BY <1>7, <2>2, <3>2, <3>3, GenNodeType, DefineType DEF GenerateMatMul, Emitting
    <2> QED
      BY <2>1, <2>2
  <1> QED
    BY <1>1, <1>2, <1>3, <1>4, <1>5, <1>6, <1>7

LEMMA StatementType ==
  ASSUME TypeOK, GenerateTensorDeclaration \/ GenerateAssignment \/ GenerateReturn
  PROVE  TypeOK'
  <1>0. nextValueId \in ValueId /\ Len(operands) \in Nat
    BY DEF TypeOK, ValueId
  <1>1. CASE GenerateTensorDeclaration
    <2>1. CASE Fail("unknownType") \/ Fail("duplicateValue")
      BY <2>1, FailType DEF GenErrors
    <2>2. CASE ~ (Fail("unknownType") \/ Fail("duplicateValue"))
      <3> DEFINE name == GenNode.name
                 type == LookupType(name)
      <3>1. Generating("tensor") /\ name \in Names
        BY <1>1, GenNodeName DEF GenerateTensorDeclaration, Emitting
      <3>2. type \in TensorType
        BY <1>1, <2>2, <3>1
        DEF GenerateTensorDeclaration, LookupType, TypeOK, SemaTypeOK, SymbolTable, MaybeType
      <3>3. module' \in Module
        BY <1>0, <1>1, <2>2, <3>1, <3>2, OperationTypes, EmitType DEF GenerateTensorDeclaration
      <3>4. [value |-> nextValueId, type |-> type] \in ValueInfo
        BY <1>0, <3>2 DEF ValueInfo
      <3>5. values' \in Environment
        BY <1>1, <2>2, <3>4 DEF GenerateTensorDeclaration, TypeOK, Environment
      <3> QED
        BY <1>1, <2>2, <3>1, <3>3, <3>5, GenNodeType, ContinueType
        DEF GenerateTensorDeclaration, TypeOK, flowVars
    <2> QED
      BY <2>1, <2>2
  <1>2. CASE GenerateAssignment
    <2>1. LastOperand \in ValueInfo /\ operands' \in Seq(ValueInfo)
      BY <1>0, <1>2, OperandTypes DEF GenerateAssignment, Holding
    <2>2. values' \in Environment
      BY <1>2, <2>1 DEF GenerateAssignment, TypeOK, Environment
    <2> QED
      BY <1>2, <2>1, <2>2, GenNodeType, ContinueType
      DEF GenerateAssignment, Emitting, TypeOK, flowVars
  <1>3. CASE GenerateReturn
    <2>1. LastOperand \in ValueInfo /\ operands' \in Seq(ValueInfo)
      BY <1>0, <1>3, OperandTypes DEF GenerateReturn, Holding
    <2>2. ReturnOp(LastOperand.value) \in Terminator
      BY <2>1, TerminatorTypes DEF ValueInfo, ValueId
    <2>3. module' \in Module
      BY <1>3, <2>2, BlocksType, CloseType DEF GenerateReturn, Module, TypeOK
    <2> QED
      BY <1>3, <2>1, <2>3, GenNodeType, ContinueType
      DEF GenerateReturn, Emitting, TypeOK, MaybeBlock
  <1> QED
    BY <1>1, <1>2, <1>3

LEMMA IfType ==
  ASSUME TypeOK, GenerateIf
  PROVE  TypeOK'
  <1>1. CASE Fail("conditionType")
    BY <1>1, FailType DEF GenErrors
  <1>2. CASE ~ Fail("conditionType")
    <2> DEFINE branch == CondBranchOp(LastOperand.value, nextBlockId, nextBlockId + 1)
               closed == Close(module.blocks, current, branch)
               new == <<NewBlock(nextBlockId), NewBlock(nextBlockId + 1)>>
               frame == [before |-> values, elseBlock |-> nextBlockId + 1, inElse |-> FALSE,
                         thenEnd |-> NoBlock, thenValues |-> NoValues]
    <2>0. nextBlockId \in Nat /\ nextBlockId + 1 \in Nat /\ Len(operands) \in Nat
      BY DEF TypeOK
    <2>1. LastOperand \in ValueInfo /\ Pop(1) \in Seq(ValueInfo)
      BY <2>0, <1>2, OperandTypes DEF GenerateIf, Holding
    <2>2. branch \in Terminator
      BY <2>0, <2>1, TerminatorTypes DEF ValueInfo, ValueId
    <2>3. closed \in Seq(BasicBlock)
      BY <2>2, BlocksType, CloseType
    <2>4. new \in Seq(BasicBlock)
      <3>1. NewBlock(nextBlockId) \in BasicBlock /\ NewBlock(nextBlockId + 1) \in BasicBlock
        BY <2>0, NewBlockType
      <3> QED
        BY <3>1
    <2>5. closed \o new \in Seq(BasicBlock)
      BY <2>3, <2>4, ConcatProperties
    <2>6. module' = [module EXCEPT !.blocks = closed \o new]
      BY <1>2 DEF GenerateIf
    <2>7. module' \in Module
      BY <2>5, <2>6 DEF Module, TypeOK
    <2>8. frame \in GenFrame
      BY <2>0 DEF TypeOK, GenFrame, BlockId, MaybeBlock, NoValues, Environment
    <2>9. ifs' = Append(ifs, frame) /\ ifs \in Seq(GenFrame)
      BY <1>2 DEF GenerateIf, TypeOK
    <2>10. ifs' \in Seq(GenFrame)
      BY <2>8, <2>9
    <2>11. genPos + 1 \in 1 .. Len(prog) + 1 /\ Continue
      BY <1>2, GenNodeType DEF GenerateIf, Emitting
    <2>12. /\ operands' \in Seq(ValueInfo) /\ nextBlockId' \in Nat /\ current' \in MaybeBlock
           /\ UNCHANGED <<values, nextValueId>>
      BY <1>2, <2>0, <2>1 DEF GenerateIf, MaybeBlock, BlockId
    <2> QED
      BY <2>7, <2>10, <2>11, <2>12, ContinueType DEF TypeOK
  <1> QED
    BY <1>1, <1>2

LEMMA FrameType ==
  ASSUME TypeOK, ifs # <<>>
  PROVE  GenIf \in GenFrame /\ SubSeq(ifs, 1, Len(ifs) - 1) \in Seq(GenFrame)
  BY StackTop, StackPopTop DEF TypeOK, GenIf

LEMMA ElseType ==
  ASSUME TypeOK, GenerateElse
  PROVE  TypeOK'
  <1> DEFINE frame == [GenIf EXCEPT !.inElse = TRUE, !.thenEnd = current, !.thenValues = values]
  <1>1. GenIf \in GenFrame /\ ifs \in Seq(GenFrame)
    BY FrameType DEF GenerateElse, TypeOK
  <1>2. frame \in GenFrame
    BY <1>1 DEF GenFrame, TypeOK
  <1>3. ifs' = [ifs EXCEPT ![Len(ifs)] = frame]
    BY DEF GenerateElse, GenIf
  <1>4. ifs' \in Seq(GenFrame)
    BY <1>1, <1>2, <1>3, StackReplace DEF GenerateElse
  <1> QED
    BY <1>1, <1>4, GenNodeType, ContinueType
    DEF GenerateElse, GenFrame, TypeOK, MaybeBlock

LEMMA JoinedType ==
  ASSUME NEW blocks \in Seq(BasicBlock), NEW ends, NEW merge \in Nat,
         NEW operations \in Seq(Operation)
  PROVE  Joined(blocks, ends, merge, operations) \in Seq(BasicBlock)
  <1> DEFINE closed == [i \in DOMAIN blocks |->
                          IF i - 1 \in ends
                          THEN [blocks[i] EXCEPT !.terminator = BranchOp(merge)] ELSE blocks[i]]
             last == [id |-> merge, operations |-> operations, terminator |-> NoTerminator]
  <1>1. ASSUME NEW b \in BasicBlock
        PROVE  [b EXCEPT !.terminator = BranchOp(merge)] \in BasicBlock
    BY TerminatorTypes DEF BasicBlock
  <1>2. \A i \in DOMAIN blocks : closed[i] \in BasicBlock
    BY <1>1, ElementOfSeq, LenProperties
  <1>3. closed \in Seq(BasicBlock)
    BY <1>2, LenProperties
  <1>4. last \in BasicBlock
    BY DEF BasicBlock, BlockId
  <1> HIDE DEF closed, last
  <1>5. Append(closed, last) \in Seq(BasicBlock)
    BY <1>3, <1>4
  <1> QED
    BY <1>5 DEF Joined, closed, last

(* The orders in which the phis of a merge block may come.                 *)
LEMMA OrderType ==
  ASSUME NEW thenValues, NEW elseValues, NEW order \in SetToSeqs(Differing(thenValues, elseValues))
  PROVE  /\ Len(order) \in Nat
         /\ DOMAIN order = 1 .. Len(order)
         /\ \A i \in DOMAIN order : order[i] \in Differing(thenValues, elseValues)
         /\ \A i, j \in DOMAIN order : i # j => order[i] # order[j]
  <1> DEFINE S == Differing(thenValues, elseValues)
  <1>1. Cardinality(S) \in Nat
    BY NamesAssumption, FS_Subset, FS_CardinalityType DEF Differing, Common
  <1>2. order \in [1 .. Cardinality(S) -> S]
    BY DEF SetToSeqs
  <1>3. Len(order) = Cardinality(S)
    BY <1>1, <1>2
  <1> QED
    BY <1>1, <1>2, <1>3 DEF SetToSeqs

LEMMA DifferingTypes ==
  ASSUME NEW thenValues \in Environment, NEW elseValues \in Environment,
         NEW name \in Common(thenValues, elseValues)
  PROVE  name \in Names /\ thenValues[name] \in ValueInfo /\ elseValues[name] \in ValueInfo
  BY DEF Common, Environment

LEMMA PhisType ==
  ASSUME TypeOK, NEW thenEnd \in Nat, NEW elseEnd \in Nat,
         NEW thenValues \in Environment, NEW elseValues \in Environment,
         NEW order \in SetToSeqs(Differing(thenValues, elseValues))
  PROVE  Phis(order, thenEnd, elseEnd, thenValues, elseValues) \in Seq(Operation)
  <1> DEFINE phis == Phis(order, thenEnd, elseEnd, thenValues, elseValues)
  <1>1. ASSUME NEW i \in DOMAIN order PROVE phis[i] \in Operation
    <2>1. i \in 1 .. Len(order) /\ Len(order) \in Nat
      BY OrderType
    <2>2. /\ thenValues[order[i]] \in ValueInfo
          /\ elseValues[order[i]] \in ValueInfo
      BY OrderType, DifferingTypes DEF Differing
    <2>3. nextValueId + i - 1 \in ValueId
      BY <2>1 DEF TypeOK, ValueId
    <2> DEFINE incoming == <<Incoming(thenEnd, thenValues[order[i]].value),
                             Incoming(elseEnd, elseValues[order[i]].value)>>
    <2>4. /\ Incoming(thenEnd, thenValues[order[i]].value) \in [predecessor : BlockId, value : ValueId]
          /\ Incoming(elseEnd, elseValues[order[i]].value) \in [predecessor : BlockId, value : ValueId]
      BY <2>2 DEF Incoming, ValueInfo, BlockId
    <2>5. incoming \in Seq([predecessor : BlockId, value : ValueId])
      BY <2>4
    <2>6. thenValues[order[i]].type \in TensorType
      BY <2>2 DEF ValueInfo
    <2> HIDE DEF incoming
    <2>7. PhiOp(nextValueId + i - 1, thenValues[order[i]].type, incoming) \in Operation
      BY <2>3, <2>5, <2>6 DEF PhiOp, Operation
    <2> QED
      BY <2>7 DEF Phis, incoming
  <1>2. DOMAIN phis = 1 .. Len(order) /\ Len(order) \in Nat
    BY OrderType DEF Phis
  <1>3. phis = [i \in 1 .. Len(order) |-> phis[i]]
    BY <1>2 DEF Phis
  <1> HIDE DEF phis
  <1>4. phis \in Seq(Operation)
    <2>1. DOMAIN order = 1 .. Len(order)
      BY OrderType
    <2> QED
      BY <1>1, <1>2, <1>3, <2>1
  <1> QED
    BY <1>4 DEF phis

LEMMA MergedValuesType ==
  ASSUME TypeOK, NEW thenValues \in Environment, NEW elseValues \in Environment,
         NEW order \in SetToSeqs(Differing(thenValues, elseValues))
  PROVE  MergedValues(order, thenValues, elseValues) \in Environment
  <1> DEFINE merged == MergedValues(order, thenValues, elseValues)
  <1>1. ASSUME NEW name \in Names PROVE merged[name] \in ValueInfo \cup {NoValue}
    <2>1. CASE name \in Range(order)
      <3> DEFINE i == CHOOSE i \in DOMAIN order : order[i] = name
      <3>1. i \in 1 .. Len(order) /\ Len(order) \in Nat /\ order[i] = name
        BY <2>1, OrderType DEF Range
      <3>2. thenValues[name] \in ValueInfo
        BY <3>1, OrderType, DifferingTypes DEF Differing
      <3>3. nextValueId + i - 1 \in ValueId
        BY <3>1 DEF TypeOK, ValueId
      <3>4. merged[name] = [value |-> nextValueId + i - 1, type |-> thenValues[name].type]
        BY <2>1 DEF MergedValues
      <3> HIDE DEF i, merged
      <3> QED
        BY <3>2, <3>3, <3>4 DEF ValueInfo
    <2>2. CASE name \notin Range(order)
      BY <2>2, DifferingTypes DEF MergedValues
    <2> QED
      BY <2>1, <2>2
  <1> QED
    BY <1>1 DEF MergedValues, Environment

LEMMA MergeType ==
  ASSUME TypeOK, NEW ends, NEW operations \in Seq(Operation), Merge(ends, operations)
  PROVE  module' \in Module /\ nextBlockId' \in Nat /\ current' \in MaybeBlock
  <1>1. nextBlockId \in Nat
    BY DEF TypeOK
  <1>2. Joined(module.blocks, ends, nextBlockId, operations) \in Seq(BasicBlock)
    BY <1>1, BlocksType, JoinedType
  <1>3. module' = [module EXCEPT !.blocks = Joined(module.blocks, ends, nextBlockId, operations)]
    BY DEF Merge
  <1>4. module' \in Module
    BY <1>2, <1>3 DEF Module, TypeOK
  <1> QED
    BY <1>1, <1>4 DEF Merge, MaybeBlock, BlockId

LEMMA EndIfType ==
  ASSUME TypeOK, GenerateEndIfClosed \/ GenerateEndIfOne \/ GenerateEndIfBoth
  PROVE  TypeOK'
  <1>0. /\ Generating("endif")
        /\ ifs # <<>>
        /\ GenIf \in GenFrame
        /\ GenIf.before \in Environment
        /\ GenIf.thenValues \in Environment
        /\ GenIf.thenEnd \in MaybeBlock
        /\ genPos + 1 \in 1 .. Len(prog) + 1
    <2>1. Generating("endif") /\ ifs # <<>>
      BY DEF GenerateEndIfClosed, GenerateEndIfOne, GenerateEndIfBoth, EndIf
    <2> QED
      BY <2>1, FrameType, GenNodeType DEF GenFrame
  <1>1. ASSUME EndIf
        PROVE  /\ ifs' \in Seq(GenFrame)
               /\ operands' \in Seq(ValueInfo)
               /\ SemaTypeOK'
               /\ genPos' \in 1 .. Len(prog') + 1
               /\ genStatus' \in {"idle", "generating", "done", "failed"}
               /\ genError' \in GenErrors
    BY <1>0, <1>1, FrameType, ContinueType DEF EndIf, TypeOK
  <1>2. CASE GenerateEndIfClosed
    BY <1>0, <1>1, <1>2 DEF GenerateEndIfClosed, TypeOK
  <1>3. CASE GenerateEndIfOne
    <2>1. <<>> \in Seq(Operation)
      OBVIOUS
    <2>2. values' \in Environment
      BY <1>0, <1>3 DEF GenerateEndIfOne, SurvivingValues, TypeOK
    <2>3. module' \in Module /\ nextBlockId' \in Nat /\ current' \in MaybeBlock
      BY <1>3, <2>1, MergeType DEF GenerateEndIfOne
    <2> QED
      BY <1>1, <1>3, <2>2, <2>3 DEF GenerateEndIfOne, TypeOK
  <1>4. CASE GenerateEndIfBoth
    <2>1. CASE Fail("branchType")
      BY <2>1, FailType DEF GenErrors
    <2>2. CASE ~ Fail("branchType")
      <3>1. PICK order \in SetToSeqs(Differing(GenIf.thenValues, values)) :
               /\ Merge({GenIf.thenEnd, current},
                        Phis(order, GenIf.thenEnd, current, GenIf.thenValues, values))
               /\ values' = MergedValues(order, GenIf.thenValues, values)
               /\ nextValueId' = nextValueId + Len(order)
        BY <1>4, <2>2 DEF GenerateEndIfBoth
      <3>2. GenIf.thenEnd \in Nat /\ current \in Nat /\ values \in Environment
        BY <1>0, <1>4 DEF GenerateEndIfBoth, MaybeBlock, BlockId, TypeOK
      <3>3. module' \in Module /\ nextBlockId' \in Nat /\ current' \in MaybeBlock
        BY <1>0, <3>1, <3>2, PhisType, MergeType
      <3>4. values' \in Environment
        BY <1>0, <3>1, <3>2, MergedValuesType
      <3>5. nextValueId' \in Nat
        BY <3>1, OrderType DEF TypeOK
      <3> QED
        BY <1>1, <1>4, <2>2, <3>3, <3>4, <3>5 DEF GenerateEndIfBoth, TypeOK
    <2> QED
      BY <2>1, <2>2
  <1> QED
    BY <1>2, <1>3, <1>4

LEMMA GenerateType ==
  ASSUME TypeOK, StartGeneration \/ SkipUnreachable \/ RejectUnreachable \/ Finish
  PROVE  TypeOK'
  <1>1. CASE StartGeneration
    <2>1. NewBlock(nextBlockId) \in BasicBlock /\ nextBlockId \in Nat
      BY NewBlockType DEF TypeOK
    <2>2. module' \in Module
      BY <1>1, <2>1 DEF StartGeneration, Module, BlockId
    <2> QED
      BY <1>1, <2>1, <2>2 DEF StartGeneration, TypeOK, SemaTypeOK, semaVars, MaybeBlock, BlockId
  <1>2. CASE SkipUnreachable
    BY <1>2 DEF SkipUnreachable, TypeOK, SemaTypeOK, semaVars, codeVars, flowVars
  <1>3. CASE RejectUnreachable
    BY <1>3, FailType DEF RejectUnreachable, GenErrors
  <1>4. CASE Finish
    <2>1. CASE Fail("noReturn") \/ Fail("verify")
      BY <2>1, FailType DEF GenErrors
    <2>2. CASE ~ (Fail("noReturn") \/ Fail("verify"))
      BY <1>4, <2>2 DEF Finish, TypeOK, SemaTypeOK, semaVars, codeVars, flowVars
    <2> QED
      BY <2>1, <2>2
  <1> QED
    BY <1>1, <1>2, <1>3, <1>4

LEMMA StepType == TypeOK /\ [Next]_vars => TypeOK'
  <1> SUFFICES ASSUME TypeOK, [Next]_vars PROVE TypeOK'
    OBVIOUS
  <1>1. CASE SemaStep /\ UNCHANGED genVars
    <2>1. SemaTypeOK'
      BY <1>1, SemaStepType DEF TypeOK
    <2>2. prog' = prog
      BY <1>1 DEF SemaStep, Reject, Yield, Advance, AnalyzeIdentifier, AnalyzeInteger,
                  AnalyzeFloat, AnalyzeBinary, AnalyzeCall, AnalyzeRelu, AnalyzeMatMul,
                  AnalyzeTensorDeclaration, AnalyzeAssignment, AnalyzeReturn, AnalyzeIf,
                  AnalyzeElse, AnalyzeEndIf, Accept
    <2> QED
      BY <1>1, <2>1, <2>2 DEF TypeOK, genVars, codeVars, flowVars
  <1>2. CASE UNCHANGED vars
    BY <1>2 DEF vars, semaVars, genVars, codeVars, flowVars, TypeOK, SemaTypeOK
  <1> QED
    BY <1>1, <1>2, ExpressionType, StatementType, IfType, ElseType, EndIfType, GenerateType
    DEF Next, GenStep, Ended

LEMMA InitType == Init \/ UnanalysedInit => TypeOK
  <1>1. Init \/ UnanalysedInit => SemaTypeOK
    <2>1. NoSymbols \in SymbolTable
      BY DEF NoSymbols, SymbolTable, MaybeType
    <2>2. UnanalysedInit => SemaTypeOK
      BY <2>1, ProgramsAssumption DEF UnanalysedInit, SemaTypeOK
    <2> QED
      BY <2>2, SemaInitType DEF Init
  <1>2. GenInit /\ SemaTypeOK => TypeOK
    BY DEF GenInit, TypeOK, SemaTypeOK, GenErrors, Module, BlockId, NoValues, Environment, MaybeBlock
  <1> QED
    BY <1>1, <1>2 DEF Init, UnanalysedInit

(* The state of the two passes has its type, for every program; also that  *)
(* of the generator run on a program nobody has analysed.                  *)
THEOREM TypeCorrect == Spec \/ GeneratorSpec => []TypeOK
  BY InitType, StepType, PTL DEF Spec, GeneratorSpec

-----------------------------------------------------------------------------
(***************************************************************************)
(* The control-flow graph under construction: blocks are numbered by their *)
(* place, branches go forward, and the blocks still open are those the     *)
(* visitors come back to.  The three are one inductive invariant,          *)
(* GraphInvariant.  It is stated of a sequence of blocks, the block        *)
(* current and the frames of generateIf, so that each way of changing them *)
(* is a lemma without primes.                                              *)
(***************************************************************************)

(* What each way of changing the blocks does to their ids and terminators. *)

\* new is old but for the terminator of block id.
ClosedWith(old, new, id, terminator) ==
    /\ Len(new) = Len(old)
    /\ \A b \in 1 .. Len(old) :
          /\ new[b].id = old[b].id
          /\ new[b].operations = old[b].operations
          /\ b # id + 1 => new[b] = old[b]
    /\ new[id + 1].terminator = terminator

LEMMA CloseFacts ==
  ASSUME NEW blocks \in Seq(BasicBlock), NEW id, id + 1 \in 1 .. Len(blocks),
         NEW terminator \in Terminator
  PROVE  ClosedWith(blocks, Close(blocks, id, terminator), id, terminator)
  <1>1. DOMAIN blocks = 1 .. Len(blocks) /\ \A b \in 1 .. Len(blocks) : blocks[b] \in BasicBlock
    BY LenProperties, ElementOfSeq
  <1> QED
    BY <1>1 DEF Close, BasicBlock, ClosedWith

LEMMA JoinedFacts ==
  ASSUME NEW blocks \in Seq(BasicBlock), NEW ends, NEW merge \in Nat,
         NEW operations \in Seq(Operation)
  PROVE  LET t == Joined(blocks, ends, merge, operations) IN
         /\ Len(t) = Len(blocks) + 1
         /\ \A b \in 1 .. Len(blocks) :
               /\ t[b].id = blocks[b].id
               /\ t[b].operations = blocks[b].operations
               /\ b - 1 \in ends => t[b].terminator = BranchOp(merge)
               /\ b - 1 \notin ends => t[b] = blocks[b]
         /\ t[Len(blocks) + 1] =
               [id |-> merge, operations |-> operations, terminator |-> NoTerminator]
  <1> DEFINE closed == [i \in DOMAIN blocks |->
                          IF i - 1 \in ends
                          THEN [blocks[i] EXCEPT !.terminator = BranchOp(merge)] ELSE blocks[i]]
             last == [id |-> merge, operations |-> operations, terminator |-> NoTerminator]
  <1>1. DOMAIN blocks = 1 .. Len(blocks) /\ Len(blocks) \in Nat
        /\ \A b \in 1 .. Len(blocks) : blocks[b] \in BasicBlock
    BY LenProperties, ElementOfSeq
  <1>2. \A b \in 1 .. Len(blocks) :
           /\ closed[b].id = blocks[b].id
           /\ closed[b].operations = blocks[b].operations
           /\ b - 1 \in ends => closed[b].terminator = BranchOp(merge)
           /\ b - 1 \notin ends => closed[b] = blocks[b]
           /\ closed[b] \in BasicBlock
    BY <1>1, TerminatorTypes DEF BasicBlock
  <1>3. closed \in Seq(BasicBlock) /\ Len(closed) = Len(blocks)
    BY <1>1, <1>2
  <1> HIDE DEF closed, last
  <1>4. /\ Len(Append(closed, last)) = Len(blocks) + 1
        /\ \A b \in 1 .. Len(blocks) : Append(closed, last)[b] = closed[b]
        /\ Append(closed, last)[Len(blocks) + 1] = last
    BY <1>1, <1>3
  <1> QED
    BY <1>2, <1>4 DEF Joined, closed, last

LEMMA ForkFacts ==
  ASSUME NEW blocks \in Seq(BasicBlock), NEW first \in BasicBlock, NEW second \in BasicBlock
  PROVE  LET t == blocks \o <<first, second>> IN
         /\ Len(t) = Len(blocks) + 2
         /\ \A b \in 1 .. Len(blocks) : t[b] = blocks[b]
         /\ t[Len(blocks) + 1] = first
         /\ t[Len(blocks) + 2] = second
  OBVIOUS

-----------------------------------------------------------------------------
(* The invariant *)

Numbered(blocks) == \A b \in 1 .. Len(blocks) : blocks[b].id = b - 1

Forward(blocks) ==
    \A b \in 1 .. Len(blocks) : \A target \in Targets(blocks[b].terminator) :
        target \in b .. Len(blocks) - 1

Expected(c, frames) == ({c} \cup {Pending(frames[i]) : i \in DOMAIN frames}) \ {NoBlock}

OpenAreExpected(blocks, c, frames) ==
    /\ \A id \in Expected(c, frames) : id + 1 \in 1 .. Len(blocks)
    /\ \A b \in 1 .. Len(blocks) :
          blocks[b].terminator = NoTerminator <=> b - 1 \in Expected(c, frames)

PendingDiffer(c, frames) ==
    \A i \in DOMAIN frames : Pending(frames[i]) # NoBlock =>
        /\ Pending(frames[i]) # c
        /\ \A j \in DOMAIN frames : i # j => Pending(frames[i]) # Pending(frames[j])

Graph(blocks, c, frames) ==
    /\ Numbered(blocks)
    /\ Forward(blocks)
    /\ OpenAreExpected(blocks, c, frames)
    /\ PendingDiffer(c, frames)

\* The blocks closed in old are the same in new.
Kept(old, new) ==
    \A b \in 1 .. Len(old) : old[b].terminator # NoTerminator => new[b] = old[b]

GraphInvariant ==
    /\ Graph(module.blocks, current, ifs)
    /\ nextBlockId = Len(module.blocks)
    /\ genStatus = "idle" => module.blocks = <<>> /\ current = NoBlock /\ ifs = <<>>

LEMMA TerminatorFacts ==
  /\ NoTerminator \notin Terminator
  /\ \A target : BranchOp(target) # NoTerminator /\ Targets(BranchOp(target)) = {target}
  /\ \A condition, t, f : /\ CondBranchOp(condition, t, f) # NoTerminator
                          /\ Targets(CondBranchOp(condition, t, f)) = {t, f}
  /\ \A value : ReturnOp(value) # NoTerminator /\ Targets(ReturnOp(value)) = {}
  /\ Targets(NoTerminator) = {}
  BY DEF Terminator, NoTerminator, BranchOp, CondBranchOp, ReturnOp, Targets

LEMMA PendingType ==
  ASSUME NEW frames \in Seq(GenFrame), NEW i \in DOMAIN frames
  PROVE  Pending(frames[i]) \in MaybeBlock
  <1>1. frames[i] \in GenFrame
    BY ElementOfSeq, LenProperties
  <1> QED
    BY <1>1 DEF Pending, GenFrame, MaybeBlock

LEMMA EmitGraph ==
  ASSUME NEW blocks \in Seq(BasicBlock), NEW c \in Nat, NEW frames, Graph(blocks, c, frames),
         NEW operation
  PROVE  LET t == AppendTo(blocks, c, operation) IN
         Graph(t, c, frames) /\ Kept(blocks, t) /\ Len(t) = Len(blocks)
  <1> DEFINE t == AppendTo(blocks, c, operation)
  <1>1. c + 1 \in 1 .. Len(blocks) /\ blocks[c + 1].terminator = NoTerminator
    BY DEF Graph, OpenAreExpected, Expected, NoBlock
  <1>2. /\ Len(t) = Len(blocks)
        /\ \A b \in 1 .. Len(blocks) :
              /\ t[b].id = blocks[b].id
              /\ t[b].terminator = blocks[b].terminator
              /\ b # c + 1 => t[b] = blocks[b]
    <2>1. DOMAIN blocks = 1 .. Len(blocks) /\ \A b \in 1 .. Len(blocks) : blocks[b] \in BasicBlock
      BY LenProperties, ElementOfSeq
    <2> QED
      BY <1>1, <2>1 DEF AppendTo, BasicBlock
  <1> HIDE DEF t
  <1>3. Kept(blocks, t)
    BY <1>1, <1>2 DEF Kept
  <1>4. Graph(t, c, frames)
    BY <1>2 DEF Graph, Numbered, Forward, OpenAreExpected
  <1> QED
    BY <1>2, <1>3, <1>4 DEF t

LEMMA ReturnGraph ==
  ASSUME NEW blocks \in Seq(BasicBlock), NEW c \in Nat, NEW frames \in Seq(GenFrame),
         Graph(blocks, c, frames), NEW value \in ValueId
  PROVE  LET t == Close(blocks, c, ReturnOp(value)) IN
         Graph(t, NoBlock, frames) /\ Kept(blocks, t)
  <1> DEFINE t == Close(blocks, c, ReturnOp(value))
  <1>1. c + 1 \in 1 .. Len(blocks) /\ blocks[c + 1].terminator = NoTerminator
    BY DEF Graph, OpenAreExpected, Expected, NoBlock
  <1>2. /\ Len(t) = Len(blocks)
        /\ \A b \in 1 .. Len(blocks) :
              t[b].id = blocks[b].id /\ (b # c + 1 => t[b] = blocks[b])
        /\ t[c + 1].terminator = ReturnOp(value)
    <2>1. ReturnOp(value) \in Terminator
      BY DEF ReturnOp, Terminator
    <2>2. ClosedWith(blocks, t, c, ReturnOp(value))
      BY <1>1, <2>1, CloseFacts
    <2> QED
      BY <2>2 DEF ClosedWith
  <1>3. Expected(NoBlock, frames) = Expected(c, frames) \ {c}
    BY DEF Graph, PendingDiffer, Expected
  <1> HIDE DEF t
  <1>4. Kept(blocks, t)
    BY <1>1, <1>2 DEF Kept
  <1>5. Numbered(t) /\ Forward(t)
    BY <1>2, TerminatorFacts DEF Graph, Numbered, Forward
  <1>6. OpenAreExpected(t, NoBlock, frames)
    BY <1>2, <1>3, TerminatorFacts DEF Graph, OpenAreExpected
  <1>7. PendingDiffer(NoBlock, frames)
    BY DEF Graph, PendingDiffer
  <1> QED
    BY <1>4, <1>5, <1>6, <1>7 DEF Graph, t

LEMMA IfGraph ==
  ASSUME NEW blocks \in Seq(BasicBlock), NEW c \in Nat, NEW frames \in Seq(GenFrame),
         Graph(blocks, c, frames), NEW condition \in ValueId,
         NEW frame \in GenFrame, ~ frame.inElse, frame.elseBlock = Len(blocks) + 1
  PROVE  LET n == Len(blocks)
             t == Close(blocks, c, CondBranchOp(condition, n, n + 1))
                    \o <<NewBlock(n), NewBlock(n + 1)>>
         IN  Len(t) = n + 2 /\ Graph(t, n, Append(frames, frame)) /\ Kept(blocks, t)
  <1> DEFINE n == Len(blocks)
             branch == CondBranchOp(condition, n, n + 1)
             closed == Close(blocks, c, branch)
             t == closed \o <<NewBlock(n), NewBlock(n + 1)>>
             next == Append(frames, frame)
  <1>0. n \in Nat
    OBVIOUS
  <1>1. c + 1 \in 1 .. n /\ blocks[c + 1].terminator = NoTerminator
    BY DEF Graph, OpenAreExpected, Expected, NoBlock
  <1>2. branch \in Terminator
    BY <1>0 DEF CondBranchOp, Terminator, BlockId
  <1>3. /\ closed \in Seq(BasicBlock)
        /\ Len(closed) = n
        /\ \A b \in 1 .. n :
              closed[b].id = blocks[b].id /\ (b # c + 1 => closed[b] = blocks[b])
        /\ closed[c + 1].terminator = branch
    <2>1. ClosedWith(blocks, closed, c, branch)
      BY <1>1, <1>2, CloseFacts
    <2>2. closed \in Seq(BasicBlock)
      BY <1>2, CloseType
    <2> HIDE DEF closed
    <2> QED
      BY <2>1, <2>2 DEF ClosedWith
  <1>4. NewBlock(n) \in BasicBlock /\ NewBlock(n + 1) \in BasicBlock
    BY <1>0, NewBlockType
  <1> HIDE DEF closed
  <1>5. /\ Len(t) = n + 2
        /\ \A b \in 1 .. n : t[b] = closed[b]
        /\ t[n + 1] = NewBlock(n)
        /\ t[n + 2] = NewBlock(n + 1)
    BY <1>3, <1>4, ForkFacts
  <1> HIDE DEF t
  <1>6. /\ Len(next) = Len(frames) + 1
        /\ DOMAIN frames = 1 .. Len(frames)
        /\ DOMAIN next = 1 .. Len(frames) + 1
        /\ \A i \in DOMAIN frames : next[i] = frames[i]
        /\ next[Len(frames) + 1] = frame
        /\ Len(frames) \in Nat
    OBVIOUS
  <1> HIDE DEF next
  <1>7. Pending(frame) = n + 1
    BY DEF Pending
  <1>8. Expected(n, next) = (Expected(c, frames) \ {c}) \cup {n, n + 1}
    <2>1. {Pending(next[i]) : i \in DOMAIN next}
            = {Pending(frames[i]) : i \in DOMAIN frames} \cup {n + 1}
      BY <1>6, <1>7
    <2>2. c \notin {Pending(frames[i]) : i \in DOMAIN frames}
      BY DEF Graph, PendingDiffer, NoBlock
    <2> DEFINE P == {Pending(frames[i]) : i \in DOMAIN frames}
               Q == {Pending(next[i]) : i \in DOMAIN next}
    <2>3. Expected(n, next) = ({n} \cup Q) \ {NoBlock}
          /\ Expected(c, frames) = ({c} \cup P) \ {NoBlock}
      BY DEF Expected
    <2>4. Q = P \cup {n + 1}
      BY <2>1
    <2>5. c \notin P
      BY <2>2
    <2>6. n # NoBlock /\ n + 1 # NoBlock
      BY <1>0 DEF NoBlock
    <2> HIDE DEF P, Q
    <2> QED
      BY <2>3, <2>4, <2>5, <2>6
  <1>9. Kept(blocks, t)
    BY <1>1, <1>3, <1>5 DEF Kept
  <1>10. /\ t[n + 1].id = n /\ t[n + 1].terminator = NoTerminator
         /\ t[n + 2].id = n + 1 /\ t[n + 2].terminator = NoTerminator
    BY <1>5 DEF NewBlock
  <1>11. Numbered(t)
    <2>1. ASSUME NEW b \in 1 .. n + 2 PROVE t[b].id = b - 1
      <3>1. CASE b = n + 1 \/ b = n + 2
        BY <1>0, <1>10, <3>1
      <3>2. CASE b \in 1 .. n
        BY <1>3, <1>5, <3>2 DEF Graph, Numbered
      <3> QED
        BY <1>0, <3>1, <3>2
    <2> QED
      BY <1>5, <2>1 DEF Numbered
  <1>12. Forward(t)
    <2>1. ASSUME NEW b \in 1 .. n + 2, NEW target \in Targets(t[b].terminator)
          PROVE  target \in b .. n + 1
      <3>1. CASE b > n
        BY <1>0, <1>10, <2>1, <3>1, TerminatorFacts
      <3>2. CASE b = c + 1
        BY <1>1, <1>3, <1>5, <2>1, <3>2, TerminatorFacts
      <3>3. CASE b \in 1 .. n /\ b # c + 1
        <4>1. t[b] = blocks[b]
          BY <1>3, <1>5, <3>3
        <4>2. target \in b .. n - 1
          BY <2>1, <3>3, <4>1 DEF Graph, Forward
        <4> QED
          BY <1>0, <4>2
      <3> QED
        BY <1>0, <3>1, <3>2, <3>3
    <2> QED
      BY <1>0, <1>5, <2>1 DEF Forward
  <1>13. OpenAreExpected(t, n, next)
    <2>1. \A id \in Expected(c, frames) : id + 1 \in 1 .. n
      BY DEF Graph, OpenAreExpected
    <2>2. \A id \in Expected(n, next) : id + 1 \in 1 .. n + 2
      BY <1>0, <1>8, <2>1
    <2>3. ASSUME NEW b \in 1 .. n + 2
          PROVE  t[b].terminator = NoTerminator <=> b - 1 \in Expected(n, next)
      <3>1. CASE b > n
        <4>1. b = n + 1 \/ b = n + 2
          BY <1>0, <3>1
        <4>2. b - 1 \in {n, n + 1} /\ t[b].terminator = NoTerminator
          BY <1>0, <1>10, <4>1
        <4> QED
          BY <1>8, <4>2
      <3>2. CASE b = c + 1
        BY <1>1, <1>3, <1>5, <1>8, <3>2, TerminatorFacts
      <3>3. CASE b \in 1 .. n /\ b # c + 1
        BY <1>0, <1>3, <1>5, <1>8, <3>3 DEF Graph, OpenAreExpected
      <3> QED
        BY <1>0, <3>1, <3>2, <3>3
    <2> QED
      BY <1>5, <2>2, <2>3 DEF OpenAreExpected
  <1>14. PendingDiffer(n, next)
    <2>1. \A i \in DOMAIN frames :
             Pending(frames[i]) # NoBlock => Pending(frames[i]) \in 0 .. n - 1
      <3>1. ASSUME NEW i \in DOMAIN frames, Pending(frames[i]) # NoBlock
            PROVE  Pending(frames[i]) \in 0 .. n - 1
        <4>1. Pending(frames[i]) \in Expected(c, frames)
          BY <3>1 DEF Expected
        <4>2. Pending(frames[i]) \in Nat
          BY <3>1, PendingType DEF MaybeBlock, BlockId
        <4> QED
          BY <1>0, <4>1, <4>2 DEF Graph, OpenAreExpected
      <3> QED
        BY <3>1
    <2> QED
      BY <1>0, <1>6, <1>7, <2>1 DEF Graph, PendingDiffer, NoBlock
  <1> QED
    BY <1>5, <1>9, <1>11, <1>12, <1>13, <1>14 DEF Graph, t, closed, next

LEMMA ElseGraph ==
  ASSUME NEW blocks \in Seq(BasicBlock), NEW c \in MaybeBlock, NEW frames \in Seq(GenFrame),
         frames # <<>>, Graph(blocks, c, frames), ~ frames[Len(frames)].inElse,
         NEW frame \in GenFrame, frame.inElse, frame.thenEnd = c
  PROVE  Graph(blocks, frames[Len(frames)].elseBlock, [frames EXCEPT ![Len(frames)] = frame])
  <1> DEFINE n == Len(frames)
             e == frames[n].elseBlock
             next == [frames EXCEPT ![n] = frame]
  <1>1. /\ n \in 1 .. n /\ DOMAIN frames = 1 .. n
        /\ frames[n] \in GenFrame
    BY StackTop, LenProperties
  <1>2. e \in Nat /\ Pending(frames[n]) = e /\ Pending(frame) = c
    BY <1>1 DEF Pending, GenFrame, BlockId
  <1>3. /\ DOMAIN next = 1 .. n
        /\ next[n] = frame
        /\ \A i \in 1 .. n : i # n => next[i] = frames[i]
    BY <1>1
  <1> HIDE DEF next, n, e
  <1>4. \A i \in 1 .. n : Pending(next[i]) = IF i = n THEN c ELSE Pending(frames[i])
    BY <1>2, <1>3
  <1>5. Expected(e, next) = Expected(c, frames)
    <2> DEFINE others == {Pending(frames[i]) : i \in 1 .. n \ {n}}
    <2>1. {Pending(next[i]) : i \in DOMAIN next} = others \cup {c}
      BY <1>1, <1>3, <1>4
    <2>2. {Pending(frames[i]) : i \in DOMAIN frames} = others \cup {e}
      BY <1>1, <1>2
    <2> HIDE DEF others
    <2> QED
      BY <2>1, <2>2 DEF Expected
  <1>6. PendingDiffer(e, next)
    <2>1. \A i \in 1 .. n : Pending(frames[i]) # NoBlock =>
             /\ Pending(frames[i]) # c
             /\ \A j \in 1 .. n : i # j => Pending(frames[i]) # Pending(frames[j])
      BY <1>1 DEF Graph, PendingDiffer
    <2>2. e # NoBlock
      BY <1>2 DEF NoBlock
    <2>3. ASSUME NEW i \in 1 .. n, Pending(next[i]) # NoBlock
          PROVE  /\ Pending(next[i]) # e
                 /\ \A j \in 1 .. n : i # j => Pending(next[i]) # Pending(next[j])
      BY <1>1, <1>2, <1>4, <2>1, <2>2, <2>3
    <2> QED
      BY <1>3, <2>3 DEF PendingDiffer
  <1> QED
    BY <1>5, <1>6 DEF Graph, OpenAreExpected, next, n, e

LEMMA PopExpected ==
  ASSUME NEW frames \in Seq(GenFrame), frames # <<>>, NEW c
  PROVE  LET rest == SubSeq(frames, 1, Len(frames) - 1)
             top == Pending(frames[Len(frames)])
         IN  /\ \A i \in DOMAIN rest : i \in 1 .. Len(frames) - 1 /\ rest[i] = frames[i]
             /\ PendingDiffer(c, frames) => PendingDiffer(c, rest)
             /\ Expected(c, frames) = Expected(c, rest) \cup ({top} \ {NoBlock})
  <1> DEFINE n == Len(frames)
             rest == SubSeq(frames, 1, n - 1)
  <1>1. /\ n \in 1 .. n /\ n \in Nat /\ DOMAIN frames = 1 .. n
        /\ DOMAIN rest = 1 .. n - 1
        /\ \A i \in 1 .. n - 1 : rest[i] = frames[i]
    BY StackTop, StackPopTop, LenProperties
  <1> HIDE DEF rest, n
  <1>2. {Pending(frames[i]) : i \in 1 .. n}
          = {Pending(rest[i]) : i \in 1 .. n - 1} \cup {Pending(frames[n])}
    BY <1>1
  <1>3. Expected(c, frames) = Expected(c, rest) \cup ({Pending(frames[n])} \ {NoBlock})
    <2> DEFINE P == {Pending(frames[i]) : i \in 1 .. n}
               Q == {Pending(rest[i]) : i \in 1 .. n - 1}
    <2>1. /\ Expected(c, frames) = ({c} \cup P) \ {NoBlock}
          /\ Expected(c, rest) = ({c} \cup Q) \ {NoBlock}
          /\ P = Q \cup {Pending(frames[n])}
      BY <1>1, <1>2 DEF Expected
    <2> HIDE DEF P, Q
    <2> QED
      BY <2>1
  <1>4. PendingDiffer(c, frames) => PendingDiffer(c, rest)
    BY <1>1 DEF PendingDiffer
  <1> QED
    BY <1>1, <1>3, <1>4 DEF rest, n

LEMMA ClosedGraph ==
  ASSUME NEW blocks \in Seq(BasicBlock), NEW c, NEW frames \in Seq(GenFrame), frames # <<>>,
         Graph(blocks, c, frames), Pending(frames[Len(frames)]) = NoBlock
  PROVE  Graph(blocks, c, SubSeq(frames, 1, Len(frames) - 1))
  <1>1. Expected(c, SubSeq(frames, 1, Len(frames) - 1)) = Expected(c, frames)
    <2> DEFINE rest == SubSeq(frames, 1, Len(frames) - 1)
               top == Pending(frames[Len(frames)])
    <2>1. Expected(c, frames) = Expected(c, rest) \cup ({top} \ {NoBlock})
      BY PopExpected
    <2>2. top = NoBlock
      OBVIOUS
    <2> HIDE DEF rest, top
    <2>3. Expected(c, frames) = Expected(c, rest)
      BY <2>1, <2>2
    <2> QED
      BY <2>3 DEF rest
  <1>2. PendingDiffer(c, SubSeq(frames, 1, Len(frames) - 1))
    BY PopExpected DEF Graph
  <1> QED
    BY <1>1, <1>2 DEF Graph, OpenAreExpected

LEMMA MergeGraph ==
  ASSUME NEW blocks \in Seq(BasicBlock), NEW c \in MaybeBlock, NEW frames \in Seq(GenFrame),
         frames # <<>>, Graph(blocks, c, frames), frames[Len(frames)].inElse,
         NEW operations \in Seq(Operation)
  PROVE  LET n == Len(blocks)
             t == Joined(blocks, {frames[Len(frames)].thenEnd, c} \ {NoBlock}, n, operations)
         IN  /\ Len(t) = n + 1
             /\ Graph(t, n, SubSeq(frames, 1, Len(frames) - 1))
             /\ Kept(blocks, t)
  <1> DEFINE n == Len(blocks)
             top == frames[Len(frames)].thenEnd
             ends == {top, c} \ {NoBlock}
             t == Joined(blocks, ends, n, operations)
             rest == SubSeq(frames, 1, Len(frames) - 1)
  <1>0. n \in Nat
    OBVIOUS
  <1>1. top = Pending(frames[Len(frames)])
    BY DEF Pending
  <1>2. ends \subseteq Expected(c, frames)
    <2>1. Len(frames) \in DOMAIN frames
      BY StackTop, LenProperties
    <2> QED
      BY <1>1, <2>1 DEF Expected
  <1>3. /\ Len(t) = n + 1
        /\ \A b \in 1 .. n :
              /\ t[b].id = blocks[b].id
              /\ t[b].operations = blocks[b].operations
              /\ b - 1 \in ends => t[b].terminator = BranchOp(n)
              /\ b - 1 \notin ends => t[b] = blocks[b]
        /\ t[n + 1] = [id |-> n, operations |-> operations, terminator |-> NoTerminator]
    <2> HIDE DEF ends
    <2> QED
      BY <1>0, JoinedFacts
  <1>4. t[n + 1].id = n /\ t[n + 1].terminator = NoTerminator
    BY <1>3
  <1> HIDE DEF t, ends
  <1>5. Expected(n, rest) = (Expected(c, frames) \ ends) \cup {n}
    <2> DEFINE P == {Pending(rest[i]) : i \in DOMAIN rest}
    <2>1. /\ Expected(n, rest) = ({n} \cup P) \ {NoBlock}
          /\ Expected(c, rest) = ({c} \cup P) \ {NoBlock}
      BY DEF Expected
    <2>2. Expected(c, frames) = Expected(c, rest) \cup ({top} \ {NoBlock})
      BY <1>1, PopExpected
    <2>3. ASSUME NEW p \in P, p # NoBlock PROVE p # c /\ p # top
      <3>1. PICK i \in DOMAIN rest : p = Pending(rest[i])
        BY <2>3
      <3>2. i \in 1 .. Len(frames) - 1 /\ rest[i] = frames[i]
        BY PopExpected
      <3>3. /\ DOMAIN frames = 1 .. Len(frames) /\ Len(frames) \in Nat
            /\ Len(frames) \in DOMAIN frames
        BY StackTop, LenProperties
      <3>4. i \in DOMAIN frames /\ i # Len(frames) /\ p = Pending(frames[i])
        BY <3>1, <3>2, <3>3
      <3> HIDE DEF top, rest
      <3> QED
        BY <1>1, <2>3, <3>3, <3>4 DEF Graph, PendingDiffer
    <2>4. n # NoBlock
      BY <1>0 DEF NoBlock
    <2> HIDE DEF P, top, rest
    <2> QED
      BY <2>1, <2>2, <2>3, <2>4 DEF ends
  <1>6. Kept(blocks, t)
    BY <1>2, <1>3 DEF Kept, Graph, OpenAreExpected
  <1>7. Numbered(t)
    <2>1. ASSUME NEW b \in 1 .. n + 1 PROVE t[b].id = b - 1
      <3>1. CASE b = n + 1
        BY <1>0, <1>4, <3>1
      <3>2. CASE b \in 1 .. n
        BY <1>3, <3>2 DEF Graph, Numbered
      <3> QED
        BY <1>0, <3>1, <3>2
    <2> QED
      BY <1>3, <2>1 DEF Numbered
  <1>8. Forward(t)
    <2>1. ASSUME NEW b \in 1 .. n + 1, NEW target \in Targets(t[b].terminator)
          PROVE  target \in b .. n
      <3>1. CASE b = n + 1
        BY <1>4, <2>1, <3>1, TerminatorFacts
      <3>2. CASE b \in 1 .. n /\ b - 1 \in ends
        BY <1>0, <1>3, <2>1, <3>2, TerminatorFacts
      <3>3. CASE b \in 1 .. n /\ b - 1 \notin ends
        <4>1. t[b] = blocks[b]
          BY <1>3, <3>3
        <4>2. target \in b .. n - 1
          BY <2>1, <3>3, <4>1 DEF Graph, Forward
        <4> QED
          BY <1>0, <4>2
      <3> QED
        BY <1>0, <3>1, <3>2, <3>3
    <2> QED
      BY <1>0, <1>3, <2>1 DEF Forward
  <1>9. OpenAreExpected(t, n, rest)
    <2>1. \A id \in Expected(c, frames) : id + 1 \in 1 .. n
      BY DEF Graph, OpenAreExpected
    <2>2. \A id \in Expected(n, rest) : id + 1 \in 1 .. n + 1
      BY <1>0, <1>5, <2>1
    <2>3. ASSUME NEW b \in 1 .. n + 1
          PROVE  t[b].terminator = NoTerminator <=> b - 1 \in Expected(n, rest)
      <3>1. CASE b = n + 1
        BY <1>0, <1>4, <1>5, <3>1
      <3>2. CASE b \in 1 .. n /\ b - 1 \in ends
        BY <1>0, <1>3, <1>5, <3>2, TerminatorFacts
      <3>3. CASE b \in 1 .. n /\ b - 1 \notin ends
        <4>1. t[b] = blocks[b]
          BY <1>3, <3>3
        <4>2. blocks[b].terminator = NoTerminator <=> b - 1 \in Expected(c, frames)
          BY <3>3 DEF Graph, OpenAreExpected
        <4> QED
          BY <1>0, <1>5, <3>3, <4>1, <4>2
      <3> QED
        BY <1>0, <3>1, <3>2, <3>3
    <2> QED
      BY <1>3, <2>2, <2>3 DEF OpenAreExpected
  <1>10. PendingDiffer(n, rest)
    <2>1. PendingDiffer(c, rest)
      BY PopExpected DEF Graph
    <2>2. ASSUME NEW i \in DOMAIN rest, Pending(rest[i]) # NoBlock
          PROVE  Pending(rest[i]) # n
      <3>1. Pending(rest[i]) \in Expected(c, rest)
        BY <2>2 DEF Expected
      <3>2. Pending(rest[i]) \in Expected(c, frames)
        BY <3>1, PopExpected
      <3>3. Pending(rest[i]) + 1 \in 1 .. n
        BY <3>2 DEF Graph, OpenAreExpected
      <3> QED
        BY <1>0, <3>3
    <2> QED
      BY <2>1, <2>2 DEF PendingDiffer
  <1> QED
    BY <1>3, <1>6, <1>7, <1>8, <1>9, <1>10 DEF Graph, t, ends

-----------------------------------------------------------------------------
(* The steps *)

\* What every step does to the graph.
GraphStep == GraphInvariant' /\ Kept(module.blocks, module'.blocks)

LEMMA QuietStep ==
  ASSUME GraphInvariant, module' = module, UNCHANGED flowVars,
         genStatus' = "idle" => genStatus = "idle"
  PROVE  GraphStep
  BY DEF GraphInvariant, GraphStep, Kept, flowVars

LEMMA FailStep ==
  ASSUME GraphInvariant, NEW error, Fail(error)
  PROVE  GraphStep
  BY QuietStep DEF Fail, codeVars

LEMMA EmitStep ==
  ASSUME TypeOK, GraphInvariant, NEW operation, current # NoBlock, genStatus = "generating",
         Emit(operation), Continue, UNCHANGED flowVars
  PROVE  GraphStep
  <1> DEFINE t == AppendTo(module.blocks, current, operation)
  <1>1. module.blocks \in Seq(BasicBlock) /\ current \in Nat
    BY BlocksType DEF TypeOK, MaybeBlock, BlockId
  <1>2. module'.blocks = t
    BY DEF Emit, TypeOK, Module
  <1>3. Graph(module.blocks, current, ifs)
    BY DEF GraphInvariant
  <1>4. Graph(t, current, ifs) /\ Kept(module.blocks, t) /\ Len(t) = Len(module.blocks)
    BY <1>1, <1>3, EmitGraph
  <1> HIDE DEF t
  <1> QED
    BY <1>2, <1>4 DEF GraphInvariant, GraphStep, Continue, flowVars

LEMMA ExpressionStep ==
  ASSUME TypeOK, GraphInvariant,
         \/ GenerateIdentifier \/ GenerateInteger \/ GenerateFloat \/ GenerateBinary
         \/ GenerateCall \/ GenerateRelu \/ GenerateMatMul
  PROVE  GraphStep
  <1>0. ASSUME NEW kind, Emitting(kind) PROVE genStatus = "generating" /\ current # NoBlock
    BY <1>0 DEF Emitting, Generating
  <1>1. ASSUME NEW kind, NEW operation, NEW n, NEW type, Emitting(kind), Define(operation, n, type)
        PROVE  GraphStep
    BY <1>0, <1>1, EmitStep DEF Define
  <1>2. CASE GenerateIdentifier
    BY <1>0, <1>2, FailStep, QuietStep DEF GenerateIdentifier, Continue, codeVars
  <1>3. CASE GenerateInteger
    BY <1>1, <1>3 DEF GenerateInteger
  <1>4. CASE GenerateFloat
    BY <1>1, <1>4 DEF GenerateFloat
  <1>5. CASE GenerateBinary
    BY <1>1, <1>5, FailStep DEF GenerateBinary
  <1>6. CASE GenerateCall
    BY <1>0, <1>6, FailStep, QuietStep DEF GenerateCall, Continue, codeVars
  <1>7. CASE GenerateRelu
    BY <1>1, <1>7 DEF GenerateRelu
  <1>8. CASE GenerateMatMul
    BY <1>1, <1>8, FailStep DEF GenerateMatMul
  <1> QED
    BY <1>2, <1>3, <1>4, <1>5, <1>6, <1>7, <1>8

LEMMA StatementStep ==
  ASSUME TypeOK, GraphInvariant, GenerateTensorDeclaration \/ GenerateAssignment
  PROVE  GraphStep
  <1>1. CASE GenerateTensorDeclaration
    <2>1. CASE Fail("unknownType") \/ Fail("duplicateValue")
      BY <2>1, FailStep
    <2>2. CASE ~ (Fail("unknownType") \/ Fail("duplicateValue"))
      <3>1. genStatus = "generating" /\ current # NoBlock
        BY <1>1 DEF GenerateTensorDeclaration, Emitting, Generating
      <3>2. PICK operation : Emit(operation) /\ Continue /\ UNCHANGED flowVars
        BY <1>1, <2>2 DEF GenerateTensorDeclaration
      <3> QED
        BY <3>1, <3>2, EmitStep
    <2> QED
      BY <2>1, <2>2
  <1>2. CASE GenerateAssignment
    BY <1>2, QuietStep DEF GenerateAssignment, Emitting, Generating, Continue
  <1> QED
    BY <1>1, <1>2

LEMMA ReturnStep ==
  ASSUME TypeOK, GraphInvariant, GenerateReturn
  PROVE  GraphStep
  <1> DEFINE t == Close(module.blocks, current, ReturnOp(LastOperand.value))
  <1>1. module.blocks \in Seq(BasicBlock) /\ current \in Nat /\ ifs \in Seq(GenFrame)
    BY BlocksType DEF TypeOK, MaybeBlock, BlockId, GenerateReturn, Emitting
  <1>2. module'.blocks = t
    BY DEF GenerateReturn, TypeOK, Module
  <1>3. Graph(module.blocks, current, ifs)
    BY DEF GraphInvariant
  <1>4. LastOperand.value \in ValueId
    BY OperandTypes DEF GenerateReturn, Holding, ValueInfo, TypeOK
  <1>5. Graph(t, NoBlock, ifs) /\ Kept(module.blocks, t)
    BY <1>1, <1>3, <1>4, ReturnGraph
  <1>6. Len(t) = Len(module.blocks)
    <2>1. current + 1 \in 1 .. Len(module.blocks)
      BY <1>1, <1>3 DEF Graph, OpenAreExpected, Expected, NoBlock
    <2>2. ReturnOp(LastOperand.value) \in Terminator
      BY <1>4, TerminatorTypes DEF ValueId
    <2>3. ClosedWith(module.blocks, t, current, ReturnOp(LastOperand.value))
      BY <1>1, <2>1, <2>2, CloseFacts
    <2> QED
      BY <2>3 DEF ClosedWith
  <1>7. genStatus' = "generating"
    BY DEF GenerateReturn, Emitting, Generating, Continue
  <1> HIDE DEF t
  <1> QED
    BY <1>2, <1>5, <1>6, <1>7 DEF GraphInvariant, GraphStep, GenerateReturn

LEMMA IfStep ==
  ASSUME TypeOK, GraphInvariant, GenerateIf
  PROVE  GraphStep
  <1>1. CASE Fail("conditionType")
    BY <1>1, FailStep
  <1>2. CASE ~ Fail("conditionType")
    <2> DEFINE n == Len(module.blocks)
               frame == [before |-> values, elseBlock |-> n + 1, inElse |-> FALSE,
                         thenEnd |-> NoBlock, thenValues |-> NoValues]
               condition == LastOperand.value
               t == Close(module.blocks, current, CondBranchOp(condition, n, n + 1))
                      \o <<NewBlock(n), NewBlock(n + 1)>>
    <2>1. /\ module.blocks \in Seq(BasicBlock) /\ current \in Nat /\ ifs \in Seq(GenFrame)
          /\ n \in Nat /\ nextBlockId = n
      BY BlocksType DEF TypeOK, MaybeBlock, BlockId, GenerateIf, Emitting, GraphInvariant
    <2>2. module'.blocks = t
      BY <1>2, <2>1 DEF GenerateIf, TypeOK, Module
    <2>3. frame \in GenFrame /\ ~ frame.inElse /\ frame.elseBlock = n + 1
      BY <2>1 DEF TypeOK, GenFrame, BlockId, MaybeBlock, NoValues, Environment
    <2>4. condition \in ValueId
      BY OperandTypes DEF GenerateIf, Holding, ValueInfo, TypeOK
    <2>5. Graph(module.blocks, current, ifs)
      BY DEF GraphInvariant
    <2>6. current' = n /\ nextBlockId' = n + 2 /\ ifs' = Append(ifs, frame)
      BY <1>2, <2>1 DEF GenerateIf
    <2>7. genStatus' = "generating"
      BY <1>2 DEF GenerateIf, Emitting, Generating, Continue
    <2> HIDE DEF frame, condition
    <2>8. Len(t) = n + 2 /\ Graph(t, n, Append(ifs, frame)) /\ Kept(module.blocks, t)
      BY <2>1, <2>3, <2>4, <2>5, IfGraph
    <2> HIDE DEF t, n
    <2>9. GraphInvariant'
      BY <2>2, <2>6, <2>7, <2>8 DEF GraphInvariant
    <2>10. Kept(module.blocks, module'.blocks)
      BY <2>2, <2>8
    <2> QED
      BY <2>9, <2>10 DEF GraphStep
  <1> QED
    BY <1>1, <1>2

LEMMA ElseStep ==
  ASSUME TypeOK, GraphInvariant, GenerateElse
  PROVE  GraphStep
  <1> DEFINE frame == [GenIf EXCEPT !.inElse = TRUE, !.thenEnd = current, !.thenValues = values]
  <1>1. GenIf \in GenFrame /\ ifs \in Seq(GenFrame) /\ ifs # <<>> /\ ~ GenIf.inElse
    BY FrameType DEF GenerateElse, TypeOK
  <1>2. frame \in GenFrame /\ frame.inElse /\ frame.thenEnd = current
    BY <1>1 DEF GenFrame, TypeOK
  <1>3. ifs' = [ifs EXCEPT ![Len(ifs)] = frame] /\ current' = GenIf.elseBlock
    BY DEF GenerateElse, GenIf
  <1>4. module.blocks \in Seq(BasicBlock) /\ current \in MaybeBlock
    BY BlocksType DEF TypeOK
  <1> HIDE DEF frame
  <1>5. Graph(module.blocks, current', ifs')
    BY <1>1, <1>2, <1>3, <1>4, ElseGraph DEF GraphInvariant, GenIf
  <1>6. genStatus' = "generating"
    BY DEF GenerateElse, Generating, Continue
  <1> QED
    BY <1>5, <1>6 DEF GraphInvariant, GraphStep, GenerateElse, Kept

LEMMA MergeStep ==
  ASSUME TypeOK, GraphInvariant, EndIf, NEW operations \in Seq(Operation),
         Merge({GenIf.thenEnd, current} \ {NoBlock}, operations)
  PROVE  GraphStep
  <1> DEFINE n == Len(module.blocks)
             ends == {ifs[Len(ifs)].thenEnd, current} \ {NoBlock}
             t == Joined(module.blocks, ends, n, operations)
             rest == SubSeq(ifs, 1, Len(ifs) - 1)
  <1>1. /\ module.blocks \in Seq(BasicBlock) /\ current \in MaybeBlock /\ ifs \in Seq(GenFrame)
        /\ ifs # <<>> /\ ifs[Len(ifs)].inElse /\ nextBlockId = n
        /\ Graph(module.blocks, current, ifs)
    BY BlocksType DEF TypeOK, EndIf, GenIf, GraphInvariant
  <1>2. module'.blocks = t /\ current' = n /\ nextBlockId' = n + 1 /\ ifs' = rest
    BY <1>1 DEF Merge, EndIf, GenIf, TypeOK, Module
  <1>3. Len(t) = n + 1 /\ Graph(t, n, rest) /\ Kept(module.blocks, t)
    BY <1>1, MergeGraph
  <1>4. genStatus' = "generating"
    BY DEF EndIf, Generating, Continue
  <1> HIDE DEF t, n, rest
  <1>5. GraphInvariant'
    BY <1>2, <1>3, <1>4 DEF GraphInvariant
  <1> QED
    BY <1>2, <1>3, <1>5 DEF GraphStep

LEMMA EndIfStep ==
  ASSUME TypeOK, GraphInvariant, GenerateEndIfClosed \/ GenerateEndIfOne \/ GenerateEndIfBoth
  PROVE  GraphStep
  <1>1. CASE GenerateEndIfClosed
    <2>1. /\ ifs \in Seq(GenFrame) /\ ifs # <<>> /\ Pending(ifs[Len(ifs)]) = NoBlock
          /\ ifs' = SubSeq(ifs, 1, Len(ifs) - 1)
      BY <1>1 DEF GenerateEndIfClosed, EndIf, GenIf, Pending, TypeOK
    <2>2. module.blocks \in Seq(BasicBlock)
      BY BlocksType
    <2>3. Graph(module.blocks, current, ifs')
      BY <2>1, <2>2, ClosedGraph DEF GraphInvariant
    <2>4. genStatus' = "generating"
      BY <1>1 DEF GenerateEndIfClosed, EndIf, Generating, Continue
    <2> QED
      BY <1>1, <2>3, <2>4 DEF GraphInvariant, GraphStep, GenerateEndIfClosed, Kept
  <1>2. CASE GenerateEndIfOne
    <2>1. <<>> \in Seq(Operation)
      OBVIOUS
    <2> QED
      BY <1>2, <2>1, MergeStep DEF GenerateEndIfOne
  <1>3. CASE GenerateEndIfBoth
    <2>1. CASE Fail("branchType")
      BY <2>1, FailStep
    <2>2. CASE ~ Fail("branchType")
      <3>1. PICK order \in SetToSeqs(Differing(GenIf.thenValues, values)) :
               Merge({GenIf.thenEnd, current},
                     Phis(order, GenIf.thenEnd, current, GenIf.thenValues, values))
        BY <1>3, <2>2 DEF GenerateEndIfBoth
      <3>2. /\ GenIf.thenEnd \in Nat /\ current \in Nat /\ values \in Environment
            /\ GenIf.thenValues \in Environment
        BY <1>3, FrameType DEF GenerateEndIfBoth, MaybeBlock, BlockId, TypeOK, GenFrame
      <3>3. {GenIf.thenEnd, current} = {GenIf.thenEnd, current} \ {NoBlock}
        BY <3>2 DEF NoBlock
      <3>4. Phis(order, GenIf.thenEnd, current, GenIf.thenValues, values) \in Seq(Operation)
        BY <3>1, <3>2, PhisType
      <3>5. EndIf
        BY <1>3, <2>2 DEF GenerateEndIfBoth
      <3> QED
        BY <3>1, <3>3, <3>4, <3>5, MergeStep
    <2> QED
      BY <2>1, <2>2
  <1> QED
    BY <1>1, <1>2, <1>3

LEMMA GenerateStep ==
  ASSUME TypeOK, GraphInvariant, StartGeneration \/ SkipUnreachable \/ RejectUnreachable \/ Finish
  PROVE  GraphStep
  <1>1. CASE StartGeneration
    <2>1. /\ module.blocks = <<>> /\ ifs = <<>> /\ nextBlockId = 0
      BY <1>1 DEF StartGeneration, GraphInvariant
    <2>2. /\ module'.blocks = <<NewBlock(0)>> /\ current' = 0 /\ nextBlockId' = 1 /\ ifs' = <<>>
          /\ genStatus' = "generating"
      BY <1>1, <2>1 DEF StartGeneration
    <2>3. Expected(0, <<>>) = {0}
      BY DEF Expected, NoBlock
    <2>4. Graph(<<NewBlock(0)>>, 0, <<>>)
      BY <2>3, TerminatorFacts
      DEF Graph, Numbered, Forward, OpenAreExpected, PendingDiffer, NewBlock
    <2> QED
      BY <2>1, <2>2, <2>4 DEF GraphInvariant, GraphStep, Kept
  <1>2. CASE SkipUnreachable
    BY <1>2, QuietStep DEF SkipUnreachable, codeVars
  <1>3. CASE RejectUnreachable
    BY <1>3, FailStep DEF RejectUnreachable
  <1>4. CASE Finish
    BY <1>4, FailStep, QuietStep DEF Finish, codeVars
  <1> QED
    BY <1>1, <1>2, <1>3, <1>4

LEMMA NextStep ==
  ASSUME TypeOK, GraphInvariant, [Next]_vars
  PROVE  GraphStep
  <1>1. CASE SemaStep /\ UNCHANGED genVars
    BY <1>1, QuietStep DEF genVars, codeVars
  <1>2. CASE UNCHANGED vars
    BY <1>2, QuietStep DEF vars, genVars, codeVars
  <1> QED
    BY <1>1, <1>2, ExpressionStep, StatementStep, ReturnStep, IfStep, ElseStep, EndIfStep,
       GenerateStep
    DEF Next, GenStep, Ended

LEMMA InitGraph == Init \/ UnanalysedInit => GraphInvariant
  <1>1. GenInit => GraphInvariant
    BY DEF GenInit, GraphInvariant, Graph, Numbered, Forward, OpenAreExpected, PendingDiffer,
           Expected
  <1> QED
    BY <1>1 DEF Init, UnanalysedInit

LEMMA GraphAlways == Spec \/ GeneratorSpec => []GraphInvariant
  <1>1. TypeOK /\ GraphInvariant /\ [Next]_vars => GraphInvariant'
    BY NextStep DEF GraphStep
  <1> QED
    BY <1>1, InitGraph, TypeCorrect, PTL DEF Spec, GeneratorSpec

(* Block i of module_ is always at index i, for every program and any      *)
(* nesting: the generator indexes module_.blocks with block ids.           *)
THEOREM BlocksAreNumbered == Spec \/ GeneratorSpec => []BlockIdsAreIndices
  <1>1. TypeOK /\ GraphInvariant => BlockIdsAreIndices
    BY BlocksType DEF GraphInvariant, Graph, Numbered, BlockIdsAreIndices
  <1> QED
    BY <1>1, GraphAlways, TypeCorrect, PTL

(* The control-flow graph the generator builds never has a cycle, and the  *)
(* order of the blocks is a topological order of it.                       *)
THEOREM GraphIsAcyclic == Spec \/ GeneratorSpec => []BranchesGoForward
  <1>1. TypeOK /\ GraphInvariant => BranchesGoForward
    BY BlocksType DEF GraphInvariant, Graph, Forward, BranchesGoForward, Terminators
  <1> QED
    BY <1>1, GraphAlways, TypeCorrect, PTL

(* No block is forgotten without a terminator: the open ones are always    *)
(* those the active calls of generateIf come back to.                      *)
THEOREM NoBlockIsForgotten == Spec \/ GeneratorSpec => []OpenBlocksAreExpected
  <1>1. TypeOK /\ GraphInvariant => OpenBlocksAreExpected
    <2> SUFFICES ASSUME TypeOK, GraphInvariant PROVE OpenBlocksAreExpected
      OBVIOUS
    <2>1. DOMAIN module.blocks = 1 .. Len(module.blocks)
      BY BlocksType
    <2>2. Awaited = Expected(current, ifs)
      BY DEF Awaited, Expected
    <2> QED
      BY <2>1, <2>2
      DEF GraphInvariant, Graph, OpenAreExpected, PendingDiffer, OpenBlocksAreExpected, Terminators
  <1> QED
    BY <1>1, GraphAlways, TypeCorrect, PTL

(* A block with a terminator is never touched again: no statement is       *)
(* generated into a block after its return, whatever follows it.           *)
THEOREM ClosedBlocksStay == Spec \/ GeneratorSpec => ClosedBlocksAreFinal
  <1> DEFINE Final == \A b \in DOMAIN module.blocks :
                         Terminators[b] # NoTerminator => module'.blocks[b] = module.blocks[b]
  <1>1. TypeOK /\ GraphInvariant /\ [Next]_vars => [Final]_vars
    BY NextStep, BlocksType DEF GraphStep, Kept, Terminators
  <1> QED
    BY <1>1, GraphAlways, TypeCorrect, PTL DEF Spec, GeneratorSpec, ClosedBlocksAreFinal

-----------------------------------------------------------------------------
(***************************************************************************)
(* The values of the module under construction, for every program: each is *)
(* defined once, its definition dominates its uses and has the type they   *)
(* expect, and every block can be entered.  As with the graph, the         *)
(* invariant is stated of a module and of the parts of the generator's     *)
(* state that name values of it, so that each way of changing them is a    *)
(* lemma without primes.                                                   *)
(***************************************************************************)

-----------------------------------------------------------------------------
(* Places and predecessors *)

\* Blocks are at the index their id says, and branches go forward.
Structure(m) == m \in Module /\ Numbered(m.blocks) /\ Forward(m.blocks)

LEMMA BlockTypes ==
  ASSUME NEW m \in Module
  PROVE  /\ Len(m.blocks) \in Nat
         /\ DOMAIN m.blocks = 1 .. Len(m.blocks)
         /\ \A b \in 1 .. Len(m.blocks) :
               /\ m.blocks[b] \in BasicBlock
               /\ Len(m.blocks[b].operations) \in Nat
               /\ DOMAIN m.blocks[b].operations = 1 .. Len(m.blocks[b].operations)
               /\ \A k \in 1 .. Len(m.blocks[b].operations) :
                     m.blocks[b].operations[k] \in Operation
  <1>1. m.blocks \in Seq(BasicBlock)
    BY DEF Module
  <1>2. \A b \in 1 .. Len(m.blocks) : m.blocks[b] \in BasicBlock
    BY <1>1, ElementOfSeq
  <1>3. \A b \in 1 .. Len(m.blocks) : m.blocks[b].operations \in Seq(Operation)
    BY <1>2 DEF BasicBlock
  <1> QED
    BY <1>1, <1>2, <1>3, ElementOfSeq, LenProperties

LEMMA PlaceFacts ==
  ASSUME NEW m \in Module
  PROVE  /\ \A p \in Places(m) : /\ p = <<p[1], p[2]>>
                                 /\ p[1] \in 1 .. Len(m.blocks)
                                 /\ p[2] \in 1 .. Len(m.blocks[p[1]].operations)
                                 /\ OperationAt(m, p) \in Operation
         /\ \A b \in 1 .. Len(m.blocks) : \A k \in 1 .. Len(m.blocks[b].operations) :
               <<b, k>> \in Places(m) /\ OperationAt(m, <<b, k>>) = m.blocks[b].operations[k]
  <1>1. ASSUME NEW p \in Places(m)
        PROVE  /\ p = <<p[1], p[2]>>
               /\ p[1] \in 1 .. Len(m.blocks)
               /\ p[2] \in 1 .. Len(m.blocks[p[1]].operations)
    <2>1. PICK b \in DOMAIN m.blocks : p \in {b} \X DOMAIN m.blocks[b].operations
      BY DEF Places
    <2>2. p = <<p[1], p[2]>> /\ p[1] = b /\ p[2] \in DOMAIN m.blocks[b].operations
      BY <2>1
    <2> QED
      BY <2>2, BlockTypes
  <1>2. ASSUME NEW b \in 1 .. Len(m.blocks), NEW k, k \in 1 .. Len(m.blocks[b].operations)
        PROVE  <<b, k>> \in Places(m)
    BY <1>2, BlockTypes DEF Places
  <1> QED
    BY <1>1, <1>2, BlockTypes DEF OperationAt

LEMMA PredecessorFacts ==
  ASSUME NEW m, Structure(m), NEW id
  PROVE  /\ \A e \in PredecessorsOf(m, id) :
               /\ e \in 0 .. Len(m.blocks) - 1
               /\ id \in Targets(m.blocks[e + 1].terminator)
         /\ \A b \in 1 .. Len(m.blocks) :
               id \in Targets(m.blocks[b].terminator) => b - 1 \in PredecessorsOf(m, id)
  <1>0. /\ Len(m.blocks) \in Nat /\ DOMAIN m.blocks = 1 .. Len(m.blocks)
        /\ \A b \in 1 .. Len(m.blocks) : m.blocks[b].id = b - 1
    BY BlockTypes DEF Structure, Numbered
  <1>1. ASSUME NEW e \in PredecessorsOf(m, id)
        PROVE  e \in 0 .. Len(m.blocks) - 1 /\ id \in Targets(m.blocks[e + 1].terminator)
    <2>1. PICK b \in DOMAIN m.blocks : e = m.blocks[b].id /\ id \in Targets(m.blocks[b].terminator)
      BY DEF PredecessorsOf, Blocks, Range
    <2>2. e = b - 1 /\ b \in 1 .. Len(m.blocks)
      BY <1>0, <2>1
    <2>3. e + 1 = b /\ e \in 0 .. Len(m.blocks) - 1
      BY <1>0, <2>2
    <2> QED
      BY <2>1, <2>3
  <1>2. ASSUME NEW b \in 1 .. Len(m.blocks), id \in Targets(m.blocks[b].terminator)
        PROVE  b - 1 \in PredecessorsOf(m, id)
    BY <1>0, <1>2 DEF PredecessorsOf, Blocks, Range
  <1> QED
    BY <1>1, <1>2

(* The predecessors of a block come before it.                             *)
LEMMA PredecessorsComeFirst ==
  ASSUME NEW m, Structure(m), NEW id \in Int, NEW e \in PredecessorsOf(m, id)
  PROVE  e \in 0 .. id - 1
  <1>1. e \in 0 .. Len(m.blocks) - 1 /\ id \in Targets(m.blocks[e + 1].terminator)
    BY PredecessorFacts
  <1>2. Len(m.blocks) \in Nat
    BY BlockTypes DEF Structure
  <1>3. id \in e + 1 .. Len(m.blocks) - 1
    BY <1>1, <1>2 DEF Structure, Forward
  <1> QED
    BY <1>1, <1>2, <1>3

-----------------------------------------------------------------------------
(* Dominance *)

LEMMA DominatesOrder ==
  ASSUME NEW m, NEW d \in Int, NEW b \in Int, Dominates(m, d, b)
  PROVE  d <= b
  BY DEF Dominates

(* What dominates a block dominates every predecessor of it.               *)
LEMMA DominatesPredecessor ==
  ASSUME NEW m, Structure(m), NEW d \in Int, NEW b \in Int, d # b, Dominates(m, d, b),
         NEW e \in PredecessorsOf(m, b)
  PROVE  Dominates(m, d, e)
  <1>1. PICK region \in SUBSET (d + 1 .. b - 1) :
           \A c \in region \cup {b} : PredecessorsOf(m, c) \subseteq region \cup {d}
    BY DEF Dominates
  <1>2. e \in 0 .. b - 1 /\ e \in region \cup {d}
    BY <1>1, PredecessorsComeFirst
  <1>3. CASE e = d
    BY <1>3 DEF Dominates
  <1>4. CASE e \in region
    <2> DEFINE inner == region \cap (d + 1 .. e - 1)
    <2>1. e \in Int /\ d < e
      BY <1>1, <1>2, <1>4
    <2>2. ASSUME NEW c \in inner \cup {e} PROVE PredecessorsOf(m, c) \subseteq inner \cup {d}
      <3>1. c \in region /\ c \in Int /\ c <= e
        BY <1>4, <2>1
      <3>2. ASSUME NEW x \in PredecessorsOf(m, c) PROVE x \in inner \cup {d}
        <4>1. x \in 0 .. c - 1 /\ x \in region \cup {d}
          BY <1>1, <3>1, PredecessorsComeFirst
        <4> QED
          BY <3>1, <4>1, <2>1
      <3> QED
        BY <3>2
    <2>3. inner \in SUBSET (d + 1 .. e - 1)
      OBVIOUS
    <2> HIDE DEF inner
    <2> QED
      BY <2>1, <2>2, <2>3 DEF Dominates
  <1> QED
    BY <1>2, <1>3, <1>4

(* What dominates every predecessor of a block dominates the block.        *)
LEMMA DominatesBlock ==
  ASSUME NEW m, Structure(m), NEW d \in Int, NEW b \in Int, d < b,
         \A e \in PredecessorsOf(m, b) : Dominates(m, d, e)
  PROVE  Dominates(m, d, b)
  <1> DEFINE region == {y \in d + 1 .. b - 1 : Dominates(m, d, y)}
  <1>1. ASSUME NEW c \in region \cup {b}, NEW x \in PredecessorsOf(m, c)
        PROVE  x \in region \cup {d}
    <2>1. c \in Int /\ c <= b
      OBVIOUS
    <2>2. x \in 0 .. c - 1
      BY <2>1, PredecessorsComeFirst
    <2>3. Dominates(m, d, x)
      <3>1. CASE c = b
        BY <1>1, <3>1
      <3>2. CASE c \in region
        BY <1>1, <2>1, <3>2, DominatesPredecessor
      <3> QED
        BY <3>1, <3>2
    <2>4. d <= x
      BY <2>2, <2>3, DominatesOrder
    <2> QED
      BY <2>1, <2>2, <2>3, <2>4
  <1>2. region \in SUBSET (d + 1 .. b - 1)
    OBVIOUS
  <1> HIDE DEF region
  <1>3. \A c \in region \cup {b} : PredecessorsOf(m, c) \subseteq region \cup {d}
    BY <1>1
  <1> QED
    BY <1>2, <1>3 DEF Dominates

-----------------------------------------------------------------------------
(* Growth *)

(* t is m with operations appended to blocks, terminators for blocks that  *)
(* had none, and more blocks; what is new of the edges leads to new blocks. *)
Grown(m, t) ==
    /\ Len(m.blocks) <= Len(t.blocks)
    /\ \A b \in 1 .. Len(m.blocks) :
          /\ Len(m.blocks[b].operations) <= Len(t.blocks[b].operations)
          /\ \A k \in 1 .. Len(m.blocks[b].operations) :
                t.blocks[b].operations[k] = m.blocks[b].operations[k]
          /\ \/ t.blocks[b].terminator = m.blocks[b].terminator
             \/ /\ m.blocks[b].terminator = NoTerminator
                /\ \A target \in Targets(t.blocks[b].terminator) :
                      target \in Nat /\ target >= Len(m.blocks)

LEMMA GrownPlaces ==
  ASSUME NEW m \in Module, NEW t \in Module, Grown(m, t), NEW p \in Places(m)
  PROVE  p \in Places(t) /\ OperationAt(t, p) = OperationAt(m, p)
  <1> DEFINE b == p[1]
             k == p[2]
  <1>1. /\ p = <<b, k>>
        /\ b \in 1 .. Len(m.blocks)
        /\ k \in 1 .. Len(m.blocks[b].operations)
    BY PlaceFacts
  <1>2. /\ b \in 1 .. Len(t.blocks)
        /\ k \in 1 .. Len(t.blocks[b].operations)
        /\ t.blocks[b].operations[k] = m.blocks[b].operations[k]
    <2>1. Len(m.blocks) \in Nat /\ Len(t.blocks) \in Nat /\ Len(m.blocks) <= Len(t.blocks)
      BY BlockTypes DEF Grown
    <2>2. b \in 1 .. Len(t.blocks)
      BY <1>1, <2>1
    <2>3. /\ Len(m.blocks[b].operations) \in Nat /\ Len(t.blocks[b].operations) \in Nat
          /\ Len(m.blocks[b].operations) <= Len(t.blocks[b].operations)
      BY <1>1, <2>2, BlockTypes DEF Grown
    <2>4. t.blocks[b].operations[k] = m.blocks[b].operations[k]
      BY <1>1 DEF Grown
    <2> QED
      BY <1>1, <2>2, <2>3, <2>4
  <1> HIDE DEF b, k
  <1>3. /\ <<b, k>> \in Places(m) /\ OperationAt(m, <<b, k>>) = m.blocks[b].operations[k]
        /\ <<b, k>> \in Places(t) /\ OperationAt(t, <<b, k>>) = t.blocks[b].operations[k]
    BY <1>1, <1>2, PlaceFacts
  <1> QED
    BY <1>1, <1>2, <1>3

LEMMA GrownDefinitions ==
  ASSUME NEW m \in Module, NEW t \in Module, Grown(m, t), NEW value, NEW p \in Definitions(m, value)
  PROVE  p \in Definitions(t, value) /\ OperationAt(t, p) = OperationAt(m, p) /\ p \in Places(m)
  BY GrownPlaces DEF Definitions

(* A block keeps its predecessors.                                         *)
LEMMA GrownPredecessors ==
  ASSUME NEW m, Structure(m), NEW t, Structure(t), Grown(m, t),
         NEW id \in 0 .. Len(m.blocks) - 1
  PROVE  PredecessorsOf(t, id) = PredecessorsOf(m, id)
  <1>0. Len(m.blocks) \in Nat /\ Len(t.blocks) \in Nat /\ Len(m.blocks) <= Len(t.blocks)
    BY BlockTypes DEF Structure, Grown
  <1>1. ASSUME NEW e \in PredecessorsOf(m, id) PROVE e \in PredecessorsOf(t, id)
    <2>1. e \in 0 .. Len(m.blocks) - 1 /\ id \in Targets(m.blocks[e + 1].terminator)
      BY PredecessorFacts
    <2>2. e + 1 \in 1 .. Len(m.blocks) /\ e + 1 \in 1 .. Len(t.blocks) /\ e + 1 - 1 = e
      BY <1>0, <2>1
    <2>3. t.blocks[e + 1].terminator = m.blocks[e + 1].terminator
      BY <2>1, <2>2, TerminatorFacts DEF Grown
    <2>4. \A b \in 1 .. Len(t.blocks) :
             id \in Targets(t.blocks[b].terminator) => b - 1 \in PredecessorsOf(t, id)
      BY PredecessorFacts
    <2> QED
      BY <2>1, <2>2, <2>3, <2>4
  <1>2. ASSUME NEW e \in PredecessorsOf(t, id) PROVE e \in PredecessorsOf(m, id)
    <2>1. e \in 0 .. Len(t.blocks) - 1 /\ id \in Targets(t.blocks[e + 1].terminator)
      BY PredecessorFacts
    <2>2. e \in 0 .. id - 1
      BY PredecessorsComeFirst
    <2>3. e + 1 \in 1 .. Len(m.blocks) /\ e + 1 - 1 = e
      BY <1>0, <2>1, <2>2
    <2>4. t.blocks[e + 1].terminator = m.blocks[e + 1].terminator
      <3>1. CASE \A target \in Targets(t.blocks[e + 1].terminator) :
                   target \in Nat /\ target >= Len(m.blocks)
        <4>1. id \in Nat /\ id >= Len(m.blocks)
          BY <2>1, <3>1
        <4> QED
          BY <1>0, <4>1
      <3> QED
        BY <2>3, <3>1 DEF Grown
    <2>5. \A b \in 1 .. Len(m.blocks) :
             id \in Targets(m.blocks[b].terminator) => b - 1 \in PredecessorsOf(m, id)
      BY PredecessorFacts
    <2> QED
      BY <2>1, <2>3, <2>4, <2>5
  <1> QED
    BY <1>1, <1>2

LEMMA GrownDominance ==
  ASSUME NEW m, Structure(m), NEW t, Structure(t), Grown(m, t),
         NEW d \in Nat, NEW b \in 0 .. Len(m.blocks) - 1, Dominates(m, d, b)
  PROVE  Dominates(t, d, b)
  <1>1. CASE d = b
    BY <1>1 DEF Dominates
  <1>2. CASE d # b
    <2>1. PICK region \in SUBSET (d + 1 .. b - 1) :
             \A c \in region \cup {b} : PredecessorsOf(m, c) \subseteq region \cup {d}
      BY <1>2 DEF Dominates
    <2>2. \A c \in region \cup {b} : c \in 0 .. Len(m.blocks) - 1
      BY <2>1, BlockTypes DEF Structure
    <2>3. \A c \in region \cup {b} : PredecessorsOf(t, c) = PredecessorsOf(m, c)
      BY <2>2, GrownPredecessors
    <2> QED
      BY <1>2, <2>1, <2>3 DEF Dominates
  <1> QED
    BY <1>1, <1>2

(* What is defined before a place still is, also where the place is the    *)
(* end of a block that got longer.                                         *)
LEMMA GrownDefinedBefore ==
  ASSUME NEW m, Structure(m), NEW t, Structure(t), Grown(m, t), NEW value,
         NEW b \in 1 .. Len(m.blocks), NEW k \in Nat, NEW l \in Nat, k <= l,
         DefinedBefore(m, value, <<b, k>>)
  PROVE  DefinedBefore(t, value, <<b, l>>)
  <1>1. PICK p \in Definitions(m, value) :
           IF p[1] = b THEN p[2] < k ELSE Dominates(m, p[1] - 1, b - 1)
    BY DEF DefinedBefore
  <1>2. p \in Places(m) /\ p \in Definitions(t, value)
    BY GrownDefinitions DEF Structure
  <1>3. p[1] \in 1 .. Len(m.blocks) /\ p[2] \in Nat
    BY <1>2, PlaceFacts, BlockTypes DEF Structure
  <1>4. CASE p[1] = b
    BY <1>1, <1>2, <1>3, <1>4 DEF DefinedBefore
  <1>5. CASE p[1] # b
    <2>1. p[1] - 1 \in Nat /\ b - 1 \in 0 .. Len(m.blocks) - 1
      BY <1>3, BlockTypes DEF Structure
    <2>2. Dominates(t, p[1] - 1, b - 1)
      BY <1>1, <1>5, <2>1, GrownDominance
    <2> QED
      BY <1>2, <1>5, <2>2 DEF DefinedBefore
  <1> QED
    BY <1>4, <1>5

-----------------------------------------------------------------------------
(* The invariant of a module *)

\* An operation that keeps the rules of the verifier and, more than them,
\* only uses values on the paths to it.
OperationSound(m, p) ==
    LET operation == OperationAt(m, p) IN
    /\ OperationOK(m, p)
    /\ \A value \in OperandsOf(operation) : DefinedBefore(m, value, p)
    /\ operation.op = "phi" => \A i \in DOMAIN operation.incoming :
          LET end == operation.incoming[i].predecessor + 1 IN
          /\ end \in 1 .. Len(m.blocks)
          /\ DefinedBefore(m, operation.incoming[i].value,
                           <<end, Len(m.blocks[end].operations) + 1>>)

TerminatorSound(m, b) ==
    LET terminator == m.blocks[b].terminator IN
    /\ \A value \in Uses(terminator) :
          DefinedBefore(m, value, <<b, Len(m.blocks[b].operations) + 1>>)
    /\ terminator.op = "condbranch" => HasType(m, terminator.condition, I1)

\* Every block but the first can be entered.
Entered(m) == \A b \in 1 .. Len(m.blocks) : b # 1 => PredecessorsOf(m, b - 1) # {}

\* The values of m are numbered below next.
Below(m, next) == \A p \in Places(m) : resultOf(OperationAt(m, p)) < next

ModuleSound(m, next) ==
    /\ DefinitionsUnique(m)
    /\ Below(m, next)
    /\ PhisFirst(m)
    /\ \A p \in Places(m) : OperationSound(m, p)
    /\ \A b \in 1 .. Len(m.blocks) : TerminatorSound(m, b)
    /\ Entered(m)

LEMMA SuccessorOrder ==
  \A x, y \in Nat : x <= y => x + 1 \in Nat /\ y + 1 \in Nat /\ x + 1 <= y + 1
  OBVIOUS

LEMMA GrownOperand ==
  ASSUME NEW m \in Module, NEW t \in Module, Grown(m, t), NEW value, NEW type, NEW use,
         OperandOK(m, value, type, use)
  PROVE  OperandOK(t, value, type, use)
  BY GrownDefinitions DEF OperandOK

LEMMA GrownType ==
  ASSUME NEW m \in Module, NEW t \in Module, Grown(m, t), NEW value, NEW type,
         HasType(m, value, type)
  PROVE  HasType(t, value, type)
  BY GrownDefinitions DEF HasType

(* The rules of the verifier, kept by an operation, stay so.               *)
LEMMA GrownOperationOK ==
  ASSUME NEW m, Structure(m), NEW t, Structure(t), Grown(m, t), NEW p \in Places(m),
         OperationOK(m, p)
  PROVE  OperationOK(t, p)
  <1> DEFINE operation == OperationAt(m, p)
  <1>0. m \in Module /\ t \in Module
    BY DEF Structure
  <1>1. OperationAt(t, p) = operation /\ p \in Places(t)
    BY <1>0, GrownPlaces
  <1>2. CASE operation.op \in {"binary", "compare"}
    BY <1>0, <1>1, <1>2, GrownOperand DEF OperationOK
  <1>3. CASE operation.op = "phi"
    <2>1. p[1] \in 1 .. Len(m.blocks) /\ p[1] \in 1 .. Len(t.blocks)
      BY <1>0, <1>1, PlaceFacts
    <2>2. m.blocks[p[1]].id = p[1] - 1 /\ t.blocks[p[1]].id = p[1] - 1
      BY <2>1 DEF Structure, Numbered
    <2>3. p[1] - 1 \in 0 .. Len(m.blocks) - 1
      BY <1>0, <2>1, BlockTypes
    <2>4. PredecessorsOf(t, p[1] - 1) = PredecessorsOf(m, p[1] - 1)
      BY <2>3, GrownPredecessors
    <2>5. PhiOK(m, p)
      BY <1>3 DEF OperationOK
    <2>6. PhiOK(t, p)
      BY <1>0, <1>1, <2>2, <2>4, <2>5, GrownOperand DEF PhiOK
    <2> QED
      BY <1>1, <1>3, <2>6 DEF OperationOK
  <1>4. CASE operation.op \in {"matmul", "relu"}
    BY <1>0, <1>1, <1>4, GrownDefinitions DEF OperationOK, ValueExists
  <1>5. CASE operation.op \notin {"binary", "compare", "phi", "matmul", "relu"}
    BY <1>1, <1>5 DEF OperationOK
  <1> QED
    BY <1>2, <1>3, <1>4, <1>5

LEMMA GrownOperation ==
  ASSUME NEW m, Structure(m), NEW t, Structure(t), Grown(m, t), NEW p \in Places(m),
         OperationSound(m, p)
  PROVE  OperationSound(t, p)
  <1> DEFINE operation == OperationAt(m, p)
  <1>0. m \in Module /\ t \in Module
    BY DEF Structure
  <1>1. OperationAt(t, p) = operation
    BY <1>0, GrownPlaces
  <1>2. OperationOK(t, p)
    BY GrownOperationOK DEF OperationSound
  <1>3. ASSUME NEW value \in OperandsOf(operation) PROVE DefinedBefore(t, value, p)
    <2>1. /\ p = <<p[1], p[2]>> /\ p[1] \in 1 .. Len(m.blocks)
          /\ p[2] \in Nat /\ p[2] <= p[2]
      BY <1>0, PlaceFacts, BlockTypes
    <2>2. DefinedBefore(m, value, <<p[1], p[2]>>)
      BY <1>3, <2>1 DEF OperationSound
    <2>3. DefinedBefore(t, value, <<p[1], p[2]>>)
      BY ONLY <2>1, <2>2, GrownDefinedBefore, Structure(m), Structure(t), Grown(m, t)
    <2> QED
      BY <2>1, <2>3
  <1>4. ASSUME operation.op = "phi", NEW i \in DOMAIN operation.incoming
        PROVE  LET end == operation.incoming[i].predecessor + 1 IN
               /\ end \in 1 .. Len(t.blocks)
               /\ DefinedBefore(t, operation.incoming[i].value,
                                <<end, Len(t.blocks[end].operations) + 1>>)
    <2> DEFINE end == operation.incoming[i].predecessor + 1
               value == operation.incoming[i].value
               old == Len(m.blocks[end].operations) + 1
               new == Len(t.blocks[end].operations) + 1
    <2>1. end \in 1 .. Len(m.blocks) /\ DefinedBefore(m, value, <<end, old>>)
      BY <1>4 DEF OperationSound
    <2>2. end \in 1 .. Len(t.blocks)
      <3>1. Len(m.blocks) \in Nat /\ Len(t.blocks) \in Nat /\ Len(m.blocks) <= Len(t.blocks)
        BY <1>0, BlockTypes DEF Grown
      <3> QED
        BY <2>1, <3>1
    <2>3. old \in Nat /\ new \in Nat /\ old <= new
      <3>1. /\ Len(m.blocks[end].operations) \in Nat
            /\ Len(t.blocks[end].operations) \in Nat
            /\ Len(m.blocks[end].operations) <= Len(t.blocks[end].operations)
        BY <1>0, <2>1, <2>2, BlockTypes DEF Grown
      <3> QED
        BY ONLY <3>1, SuccessorOrder
    <2> HIDE DEF end, value, old, new
    <2>4. DefinedBefore(t, value, <<end, new>>)
      BY <2>1, <2>3, GrownDefinedBefore
    <2> QED
      BY <2>2, <2>4 DEF end, value, new
  <1> QED
    BY <1>1, <1>2, <1>3, <1>4 DEF OperationSound

LEMMA GrownTerminator ==
  ASSUME NEW m, Structure(m), NEW t, Structure(t), Grown(m, t),
         NEW b \in 1 .. Len(m.blocks), t.blocks[b].terminator = m.blocks[b].terminator,
         TerminatorSound(m, b)
  PROVE  TerminatorSound(t, b)
  <1> DEFINE old == Len(m.blocks[b].operations) + 1
             new == Len(t.blocks[b].operations) + 1
  <1>0. m \in Module /\ t \in Module
    BY DEF Structure
  <1>1. old \in Nat /\ new \in Nat /\ old <= new
    <2>1. b \in 1 .. Len(t.blocks)
      <3>1. Len(m.blocks) \in Nat /\ Len(t.blocks) \in Nat /\ Len(m.blocks) <= Len(t.blocks)
        BY <1>0, BlockTypes DEF Grown
      <3> QED
        BY <3>1
    <2>2. /\ Len(m.blocks[b].operations) \in Nat
          /\ Len(t.blocks[b].operations) \in Nat
          /\ Len(m.blocks[b].operations) <= Len(t.blocks[b].operations)
      BY <1>0, <2>1, BlockTypes DEF Grown
    <2> QED
      BY ONLY <2>2, SuccessorOrder
  <1>2. ASSUME NEW value \in Uses(t.blocks[b].terminator)
        PROVE  DefinedBefore(t, value, <<b, new>>)
    <2>1. DefinedBefore(m, value, <<b, old>>)
      BY <1>2 DEF TerminatorSound
    <2> HIDE DEF old, new
    <2> QED
      BY <1>1, <2>1, GrownDefinedBefore
  <1> QED
    BY <1>0, <1>2, GrownType DEF TerminatorSound

LEMMA ResultType ==
  ASSUME NEW m \in Module, NEW p \in Places(m)
  PROVE  resultOf(OperationAt(m, p)) \in Nat /\ typeOf(OperationAt(m, p)) \in TensorType
  <1>1. OperationAt(m, p) \in Operation
    BY PlaceFacts
  <1> QED
    BY <1>1, ScalarTypes DEF Operation, resultOf, typeOf, ValueId

(* A sound module that grows stays sound if what is new is sound.          *)
LEMMA GrownModule ==
  ASSUME NEW m, Structure(m), NEW t, Structure(t), Grown(m, t),
         NEW next \in Nat, NEW later \in Nat, next <= later, ModuleSound(m, next),
         \A p \in Places(t) \ Places(m) :
            resultOf(OperationAt(t, p)) \in next .. later - 1 /\ OperationSound(t, p),
         \A p, q \in Places(t) \ Places(m) :
            resultOf(OperationAt(t, p)) = resultOf(OperationAt(t, q)) => p = q,
         PhisFirst(t),
         \A b \in 1 .. Len(t.blocks) :
            b > Len(m.blocks) \/ t.blocks[b].terminator # m.blocks[b].terminator
              => TerminatorSound(t, b),
         \A b \in 1 .. Len(t.blocks) :
            b > Len(m.blocks) /\ b # 1 => PredecessorsOf(t, b - 1) # {}
  PROVE  ModuleSound(t, later)
  <1>0. /\ m \in Module /\ t \in Module
        /\ Len(m.blocks) \in Nat /\ Len(t.blocks) \in Nat /\ Len(m.blocks) <= Len(t.blocks)
    BY BlockTypes DEF Structure, Grown
  <1>1. \A p \in Places(m) : /\ p \in Places(t)
                             /\ OperationAt(t, p) = OperationAt(m, p)
                             /\ resultOf(OperationAt(m, p)) \in Nat
                             /\ resultOf(OperationAt(m, p)) < next
    BY <1>0, GrownPlaces, ResultType DEF ModuleSound, Below
  <1>2. Below(t, later)
    <2>1. ASSUME NEW p \in Places(t) PROVE resultOf(OperationAt(t, p)) < later
      <3>1. CASE p \in Places(m)
        BY <1>1, <3>1
      <3>2. CASE p \notin Places(m)
        BY <2>1, <3>2
      <3> QED
        BY <3>1, <3>2
    <2> QED
      BY <2>1 DEF Below
  <1>3. DefinitionsUnique(t)
    <2>1. ASSUME NEW p \in Places(t), NEW q \in Places(t),
                 resultOf(OperationAt(t, p)) = resultOf(OperationAt(t, q))
          PROVE  p = q
      <3>1. CASE p \in Places(m) /\ q \in Places(m)
        BY <1>1, <2>1, <3>1 DEF ModuleSound, DefinitionsUnique
      <3>2. CASE p \notin Places(m) /\ q \notin Places(m)
        BY <2>1, <3>2
      <3>3. CASE p \in Places(m) /\ q \notin Places(m)
        BY <1>1, <2>1, <3>3
      <3>4. CASE p \notin Places(m) /\ q \in Places(m)
        BY <1>1, <2>1, <3>4
      <3> QED
        BY <3>1, <3>2, <3>3, <3>4
    <2> QED
      BY <2>1 DEF DefinitionsUnique
  <1>4. \A p \in Places(t) : OperationSound(t, p)
    BY GrownOperation DEF ModuleSound
  <1>5. ASSUME NEW b \in 1 .. Len(t.blocks) PROVE TerminatorSound(t, b)
    <2>1. CASE b > Len(m.blocks) \/ t.blocks[b].terminator # m.blocks[b].terminator
      BY <2>1
    <2>2. CASE b <= Len(m.blocks) /\ t.blocks[b].terminator = m.blocks[b].terminator
      <3>1. b \in 1 .. Len(m.blocks)
        BY <1>0, <2>2
      <3> QED
        BY <2>2, <3>1, GrownTerminator DEF ModuleSound
    <2> QED
      BY <1>0, <2>1, <2>2
  <1>6. Entered(t)
    <2>1. ASSUME NEW b \in 1 .. Len(t.blocks), b # 1 PROVE PredecessorsOf(t, b - 1) # {}
      <3>1. CASE b <= Len(m.blocks)
        <4>1. b \in 1 .. Len(m.blocks) /\ b - 1 \in 0 .. Len(m.blocks) - 1
          BY <1>0, <3>1
        <4> QED
          BY <2>1, <4>1, GrownPredecessors DEF ModuleSound, Entered
      <3> QED
        BY <1>0, <2>1, <3>1
    <2> QED
      BY <2>1 DEF Entered
  <1> QED
    BY <1>2, <1>3, <1>4, <1>5, <1>6 DEF ModuleSound

-----------------------------------------------------------------------------
(* The values the generator can use *)

\* info is the value and the type of an operation on every path to block c.
Known(m, info, c) ==
    \E p \in Definitions(m, info.value) :
        typeOf(OperationAt(m, p)) = info.type /\ Dominates(m, p[1] - 1, c)

EnvironmentSound(m, environment, c) ==
    \A name \in Names : environment[name] # NoValue => Known(m, environment[name], c)

OperandsSound(m, stack, c) == \A i \in DOMAIN stack : Known(m, stack[i], c)

\* The environment generateIf goes on with in the block it comes back to.
Saved(frame) == IF frame.inElse THEN frame.thenValues ELSE frame.before

FrameSound(m, frame) ==
    Pending(frame) # NoBlock => EnvironmentSound(m, Saved(frame), Pending(frame))

FramesSound(m, frames) == \A i \in DOMAIN frames : FrameSound(m, frames[i])

LEMMA KnownFacts ==
  ASSUME NEW m \in Module, NEW info, NEW c, Known(m, info, c)
  PROVE  \E p \in Places(m) : /\ p \in Definitions(m, info.value)
                              /\ p[1] \in 1 .. Len(m.blocks) /\ p[1] - 1 \in Nat
                              /\ p[2] \in 1 .. Len(m.blocks[p[1]].operations)
                              /\ typeOf(OperationAt(m, p)) = info.type
                              /\ Dominates(m, p[1] - 1, c)
  <1>1. PICK p \in Definitions(m, info.value) :
           typeOf(OperationAt(m, p)) = info.type /\ Dominates(m, p[1] - 1, c)
    BY DEF Known
  <1>2. p \in Places(m)
    BY <1>1 DEF Definitions
  <1>3. p[1] \in 1 .. Len(m.blocks) /\ p[2] \in 1 .. Len(m.blocks[p[1]].operations)
    BY <1>2, PlaceFacts
  <1>4. p[1] - 1 \in Nat
    BY <1>3, BlockTypes
  <1> QED
    BY <1>1, <1>2, <1>3, <1>4

LEMMA GrownKnown ==
  ASSUME NEW m, Structure(m), NEW t, Structure(t), Grown(m, t), NEW info,
         NEW c \in 0 .. Len(m.blocks) - 1, Known(m, info, c)
  PROVE  Known(t, info, c)
  <1>1. PICK p \in Places(m) : /\ p \in Definitions(m, info.value)
                               /\ p[1] - 1 \in Nat
                               /\ typeOf(OperationAt(m, p)) = info.type
                               /\ Dominates(m, p[1] - 1, c)
    BY KnownFacts DEF Structure
  <1>2. p \in Definitions(t, info.value) /\ OperationAt(t, p) = OperationAt(m, p)
    BY <1>1, GrownDefinitions DEF Structure
  <1>3. Dominates(t, p[1] - 1, c)
    BY <1>1, GrownDominance
  <1> QED
    BY <1>1, <1>2, <1>3 DEF Known

(* A value known at every predecessor of a block is known in the block.    *)
LEMMA KnownAfter ==
  ASSUME NEW m, Structure(m), DefinitionsUnique(m), NEW info, NEW b \in Int,
         PredecessorsOf(m, b) # {}, \A e \in PredecessorsOf(m, b) : Known(m, info, e)
  PROVE  Known(m, info, b)
  <1>0. m \in Module
    BY DEF Structure
  <1>1. PICK first \in PredecessorsOf(m, b) : TRUE
    OBVIOUS
  <1>2. PICK p \in Places(m) : /\ p \in Definitions(m, info.value)
                               /\ p[1] - 1 \in Nat
                               /\ typeOf(OperationAt(m, p)) = info.type
                               /\ Dominates(m, p[1] - 1, first)
    BY <1>0, KnownFacts
  <1>3. ASSUME NEW e \in PredecessorsOf(m, b) PROVE Dominates(m, p[1] - 1, e)
    <2>1. PICK q \in Places(m) : q \in Definitions(m, info.value) /\ Dominates(m, q[1] - 1, e)
      BY <1>0, KnownFacts
    <2>2. q = p
      BY <1>2, <2>1 DEF Definitions, DefinitionsUnique
    <2> QED
      BY <2>1, <2>2
  <1>4. first \in 0 .. b - 1
    BY PredecessorsComeFirst
  <1>5. p[1] - 1 <= first
    BY <1>2, <1>4, DominatesOrder
  <1>6. Dominates(m, p[1] - 1, b)
    BY <1>2, <1>3, <1>4, <1>5, DominatesBlock
  <1> QED
    BY <1>2, <1>6 DEF Known

(* A value known in a block is defined before any place after the last     *)
(* operation of the block, and its type is that of its definition.         *)
LEMMA KnownDefined ==
  ASSUME NEW m \in Module, NEW info, NEW c \in 0 .. Len(m.blocks) - 1, Known(m, info, c),
         NEW k \in Nat, k > Len(m.blocks[c + 1].operations)
  PROVE  /\ DefinedBefore(m, info.value, <<c + 1, k>>)
         /\ OperandOK(m, info.value, info.type, <<c + 1, k>>)
         /\ HasType(m, info.value, info.type)
         /\ ValueExists(m, info.value)
  <1>1. PICK p \in Places(m) : /\ p \in Definitions(m, info.value)
                               /\ p[1] \in 1 .. Len(m.blocks)
                               /\ p[2] \in 1 .. Len(m.blocks[p[1]].operations)
                               /\ typeOf(OperationAt(m, p)) = info.type
                               /\ Dominates(m, p[1] - 1, c)
    BY KnownFacts
  <1>2. p[1] = c + 1 => p[2] < k
    <2>1. ASSUME p[1] = c + 1 PROVE p[2] < k
      <3>1. p[2] \in 1 .. Len(m.blocks[c + 1].operations)
        BY <1>1, <2>1
      <3>2. Len(m.blocks[c + 1].operations) \in Nat
        BY <1>1, <2>1, BlockTypes
      <3> QED
        BY <3>1, <3>2
    <2> QED
      BY <2>1
  <1>3. c + 1 - 1 = c
    BY BlockTypes
  <1> QED
    BY <1>1, <1>2, <1>3 DEF DefinedBefore, OperandOK, HasType, ValueExists

LEMMA GrownEnvironment ==
  ASSUME NEW m, Structure(m), NEW t, Structure(t), Grown(m, t), NEW environment,
         NEW c \in 0 .. Len(m.blocks) - 1, EnvironmentSound(m, environment, c)
  PROVE  EnvironmentSound(t, environment, c)
  BY GrownKnown DEF EnvironmentSound

LEMMA GrownOperands ==
  ASSUME NEW m, Structure(m), NEW t, Structure(t), Grown(m, t), NEW stack,
         NEW c \in 0 .. Len(m.blocks) - 1, OperandsSound(m, stack, c)
  PROVE  OperandsSound(t, stack, c)
  BY GrownKnown DEF OperandsSound

LEMMA PendingExists ==
  ASSUME NEW blocks \in Seq(BasicBlock), NEW c, NEW frames \in Seq(GenFrame),
         Graph(blocks, c, frames), NEW i \in DOMAIN frames, Pending(frames[i]) # NoBlock
  PROVE  Pending(frames[i]) \in 0 .. Len(blocks) - 1
  <1>1. Pending(frames[i]) \in Nat
    BY PendingType DEF MaybeBlock, BlockId
  <1>2. Pending(frames[i]) \in Expected(c, frames)
    BY DEF Expected
  <1>3. Pending(frames[i]) + 1 \in 1 .. Len(blocks)
    BY <1>2 DEF Graph, OpenAreExpected
  <1> QED
    BY <1>1, <1>3, LenProperties

LEMMA GrownFrames ==
  ASSUME NEW m, Structure(m), NEW t, Structure(t), Grown(m, t), NEW c,
         NEW frames \in Seq(GenFrame), Graph(m.blocks, c, frames), FramesSound(m, frames)
  PROVE  FramesSound(t, frames)
  <1>1. m.blocks \in Seq(BasicBlock)
    BY DEF Structure, Module
  <1>2. ASSUME NEW i \in DOMAIN frames, Pending(frames[i]) # NoBlock
        PROVE  EnvironmentSound(t, Saved(frames[i]), Pending(frames[i]))
    <2>1. Pending(frames[i]) \in 0 .. Len(m.blocks) - 1
      BY <1>1, <1>2, PendingExists
    <2>2. EnvironmentSound(m, Saved(frames[i]), Pending(frames[i]))
      BY <1>2 DEF FramesSound, FrameSound
    <2> QED
      BY <2>1, <2>2, GrownEnvironment
  <1> QED
    BY <1>2 DEF FramesSound, FrameSound

(* The block statements are generated into is open.                        *)
LEMMA CurrentIsOpen ==
  ASSUME NEW blocks \in Seq(BasicBlock), NEW c \in Nat, NEW frames, Graph(blocks, c, frames)
  PROVE  /\ c + 1 \in 1 .. Len(blocks)
         /\ c \in 0 .. Len(blocks) - 1
         /\ blocks[c + 1].terminator = NoTerminator
  <1>1. c \in Expected(c, frames)
    BY DEF Expected, NoBlock
  <1>2. c + 1 \in 1 .. Len(blocks)
    BY <1>1 DEF Graph, OpenAreExpected
  <1>3. c + 1 - 1 = c
    OBVIOUS
  <1>4. blocks[c + 1].terminator = NoTerminator
    BY <1>1, <1>2, <1>3 DEF Graph, OpenAreExpected
  <1> QED
    BY <1>2, <1>4, LenProperties

-----------------------------------------------------------------------------
(* An operation is appended *)

\* The operands of an operation about to be appended to block c.
Fits(m, operation, c) ==
    /\ operation.op # "phi"
    /\ \A value \in OperandsOf(operation) :
          \E type : Known(m, [value |-> value, type |-> type], c)
    /\ operation.op = "binary" => \A value \in OperandsOf(operation) :
          Known(m, [value |-> value, type |-> operation.type], c)
    /\ operation.op = "compare" => \A value \in OperandsOf(operation) :
          Known(m, [value |-> value, type |-> operation.operandType], c)

LEMMA AppendedFacts ==
  ASSUME NEW m \in Module, NEW c \in Nat, c + 1 \in 1 .. Len(m.blocks), NEW operation \in Operation
  PROVE  LET t == [m EXCEPT !.blocks = AppendTo(m.blocks, c, operation)]
             last == Len(m.blocks[c + 1].operations) + 1
         IN  /\ t \in Module
             /\ t.blocks = AppendTo(m.blocks, c, operation)
             /\ Len(t.blocks) = Len(m.blocks)
             /\ \A b \in 1 .. Len(m.blocks) :
                   /\ t.blocks[b].terminator = m.blocks[b].terminator
                   /\ b # c + 1 => t.blocks[b] = m.blocks[b]
             /\ Len(t.blocks[c + 1].operations) = last
             /\ \A k \in 1 .. last - 1 :
                   t.blocks[c + 1].operations[k] = m.blocks[c + 1].operations[k]
             /\ t.blocks[c + 1].operations[last] = operation
  <1> DEFINE new == AppendTo(m.blocks, c, operation)
             t == [m EXCEPT !.blocks = new]
             old == m.blocks[c + 1].operations
  <1>1. m.blocks \in Seq(BasicBlock) /\ DOMAIN m.blocks = 1 .. Len(m.blocks)
        /\ \A b \in 1 .. Len(m.blocks) : m.blocks[b] \in BasicBlock
    BY BlockTypes DEF Module
  <1>2. new \in Seq(BasicBlock)
    BY <1>1, AppendToType
  <1>3. t \in Module /\ t.blocks = new
    <2> HIDE DEF new
    <2> QED
      BY <1>2 DEF Module
  <1>4. old \in Seq(Operation)
    BY <1>1 DEF BasicBlock
  <1>5. /\ Len(new) = Len(m.blocks)
        /\ \A b \in 1 .. Len(m.blocks) :
              /\ new[b].terminator = m.blocks[b].terminator
              /\ b # c + 1 => new[b] = m.blocks[b]
        /\ new[c + 1].operations = Append(old, operation)
    BY <1>1 DEF AppendTo, BasicBlock
  <1>6. /\ Len(Append(old, operation)) = Len(old) + 1
        /\ \A k \in 1 .. Len(old) + 1 - 1 : Append(old, operation)[k] = old[k]
        /\ Append(old, operation)[Len(old) + 1] = operation
    BY <1>4
  <1> HIDE DEF new, old, t
  <1>7. /\ Len(t.blocks[c + 1].operations) = Len(old) + 1
        /\ \A k \in 1 .. Len(old) + 1 - 1 : t.blocks[c + 1].operations[k] = old[k]
        /\ t.blocks[c + 1].operations[Len(old) + 1] = operation
    BY <1>3, <1>5, <1>6
  <1> QED
    BY <1>3, <1>5, <1>7 DEF new, old, t

LEMMA PhisFirstByIndex ==
  ASSUME NEW m \in Module
  PROVE  PhisFirst(m) <=>
           \A b \in 1 .. Len(m.blocks) : \A i, j \in 1 .. Len(m.blocks[b].operations) :
              i < j /\ m.blocks[b].operations[j].op = "phi" => m.blocks[b].operations[i].op = "phi"
  BY BlockTypes DEF PhisFirst, Blocks, Range

\* t is m with operation at the new place last of block c.
AppendedAt(m, t, c, last, operation) ==
    /\ Len(t.blocks) = Len(m.blocks)
    /\ \A b \in 1 .. Len(m.blocks) : t.blocks[b].terminator = m.blocks[b].terminator
    /\ c + 1 \in 1 .. Len(m.blocks)
    /\ last \in Nat
    /\ <<c + 1, last>> \in Places(t)
    /\ OperationAt(t, <<c + 1, last>>) = operation
    /\ \A p \in Places(t) : p \in Places(m) \/ p = <<c + 1, last>>

LEMMA EmitGrows ==
  ASSUME NEW m, Structure(m), NEW c \in Nat, NEW frames, Graph(m.blocks, c, frames),
         NEW operation \in Operation
  PROVE  LET t == [m EXCEPT !.blocks = AppendTo(m.blocks, c, operation)]
             last == Len(m.blocks[c + 1].operations) + 1
         IN  /\ Structure(t)
             /\ Grown(m, t)
             /\ Graph(t.blocks, c, frames)
             /\ AppendedAt(m, t, c, last, operation)
  <1> DEFINE t == [m EXCEPT !.blocks = AppendTo(m.blocks, c, operation)]
             last == Len(m.blocks[c + 1].operations) + 1
  <1>0. m \in Module /\ m.blocks \in Seq(BasicBlock)
    BY DEF Structure, Module
  <1>1. c + 1 \in 1 .. Len(m.blocks)
    BY <1>0, CurrentIsOpen
  <1>2. /\ t \in Module
        /\ t.blocks = AppendTo(m.blocks, c, operation)
        /\ Len(t.blocks) = Len(m.blocks)
        /\ \A b \in 1 .. Len(m.blocks) :
              /\ t.blocks[b].terminator = m.blocks[b].terminator
              /\ b # c + 1 => t.blocks[b] = m.blocks[b]
        /\ Len(t.blocks[c + 1].operations) = last
        /\ \A k \in 1 .. last - 1 :
              t.blocks[c + 1].operations[k] = m.blocks[c + 1].operations[k]
        /\ t.blocks[c + 1].operations[last] = operation
    BY <1>0, <1>1, AppendedFacts, SMTT(30)
  <1>3. Graph(t.blocks, c, frames)
    BY <1>0, <1>2, EmitGraph
  <1> HIDE DEF t
  <1>4. Structure(t)
    BY <1>2, <1>3 DEF Structure, Graph
  <1>5. \A b \in 1 .. Len(m.blocks) : Len(m.blocks[b].operations) \in Nat
    BY <1>0, BlockTypes
  <1>6. Len(m.blocks) \in Nat /\ last \in Nat /\ last - 1 = Len(m.blocks[c + 1].operations)
    BY <1>0, <1>1, <1>5, BlockTypes
  <1>7. Grown(m, t)
    <2>1. ASSUME NEW b \in 1 .. Len(m.blocks)
          PROVE  /\ Len(m.blocks[b].operations) <= Len(t.blocks[b].operations)
                 /\ \A k \in 1 .. Len(m.blocks[b].operations) :
                       t.blocks[b].operations[k] = m.blocks[b].operations[k]
      <3>1. CASE b = c + 1
        <4>1. /\ Len(m.blocks[c + 1].operations) \in Nat
              /\ Len(m.blocks[c + 1].operations) = last - 1
          BY <1>1, <1>5, <1>6
        <4> HIDE DEF last
        <4> QED
          BY <1>2, <1>6, <3>1, <4>1
      <3>2. CASE b # c + 1
        BY <1>2, <1>5, <3>2
      <3> QED
        BY <3>1, <3>2
    <2> QED
      BY <1>2, <1>6, <2>1 DEF Grown
  <1>8. last \in 1 .. Len(t.blocks[c + 1].operations)
    <2>1. last >= 1
      BY <1>6, <1>5, <1>1
    <2> HIDE DEF last
    <2> QED
      BY <1>2, <1>6, <2>1
  <1>9. <<c + 1, last>> \in Places(t) /\ OperationAt(t, <<c + 1, last>>) = operation
    <2>1. c + 1 \in 1 .. Len(t.blocks)
      BY <1>1, <1>2
    <2> HIDE DEF last
    <2> QED
      BY <1>2, <1>8, <2>1, PlaceFacts
  <1>10. ASSUME NEW p \in Places(t) PROVE p \in Places(m) \/ p = <<c + 1, last>>
    <2>1. /\ p = <<p[1], p[2]>> /\ p[1] \in 1 .. Len(m.blocks)
          /\ p[2] \in 1 .. Len(t.blocks[p[1]].operations)
      BY <1>2, PlaceFacts
    <2>2. CASE p[1] = c + 1
      <3>1. p[2] = last \/ p[2] \in 1 .. Len(m.blocks[c + 1].operations)
        <4>1. p[2] \in 1 .. last
          BY <1>2, <2>1, <2>2
        <4> HIDE DEF last
        <4> QED
          BY <1>6, <4>1
      <3> QED
        BY <1>0, <2>1, <2>2, <3>1, PlaceFacts
    <2>3. CASE p[1] # c + 1
      BY <1>0, <1>2, <2>1, <2>3, PlaceFacts
    <2> QED
      BY <2>2, <2>3
  <1> QED
    BY <1>1, <1>2, <1>3, <1>4, <1>6, <1>7, <1>9, <1>10 DEF t, AppendedAt

LEMMA FitsSound ==
  ASSUME NEW m, Structure(m), NEW t, Structure(t), Grown(m, t),
         NEW c \in 0 .. Len(m.blocks) - 1, NEW operation \in Operation, Fits(m, operation, c),
         NEW k \in Nat, k > Len(m.blocks[c + 1].operations),
         OperationAt(t, <<c + 1, k>>) = operation
  PROVE  OperationSound(t, <<c + 1, k>>)
  <1> DEFINE place == <<c + 1, k>>
  <1>0. m \in Module /\ t \in Module /\ c + 1 \in 1 .. Len(m.blocks) /\ k <= k
    BY BlockTypes DEF Structure
  <1>1. ASSUME NEW value \in OperandsOf(operation), NEW type,
               Known(m, [value |-> value, type |-> type], c)
        PROVE  /\ DefinedBefore(t, value, place)
               /\ OperandOK(t, value, type, place)
               /\ ValueExists(t, value)
    <2>1. /\ DefinedBefore(m, value, place)
          /\ OperandOK(m, value, type, place)
          /\ ValueExists(m, value)
      BY <1>0, <1>1, KnownDefined
    <2>2. DefinedBefore(t, value, place)
      BY <1>0, <2>1, GrownDefinedBefore
    <2>3. OperandOK(t, value, type, place)
      BY <1>0, <2>1, GrownOperand
    <2>4. ValueExists(t, value)
      BY <1>0, <2>1, GrownDefinitions DEF ValueExists
    <2> QED
      BY <2>2, <2>3, <2>4
  <1>2. \A value \in OperandsOf(operation) : DefinedBefore(t, value, place) /\ ValueExists(t, value)
    BY <1>1 DEF Fits
  <1>3. operation.op = "binary" =>
           \A value \in OperandsOf(operation) : OperandOK(t, value, operation.type, place)
    BY <1>1 DEF Fits
  <1>4. operation.op = "compare" =>
           \A value \in OperandsOf(operation) : OperandOK(t, value, operation.operandType, place)
    BY <1>1 DEF Fits
  <1>5. operation.op # "phi"
    BY DEF Fits
  <1> HIDE DEF place
  <1>6. OperationAt(t, place) = operation
    BY DEF place
  <1>7. OperationOK(t, place)
    BY <1>2, <1>3, <1>4, <1>5, <1>6 DEF OperationOK
  <1>8. OperationSound(t, place)
    BY <1>2, <1>5, <1>6, <1>7 DEF OperationSound
  <1> QED
    BY <1>8 DEF place

LEMMA EmitSound ==
  ASSUME NEW m, Structure(m), NEW c \in Nat, NEW frames, Graph(m.blocks, c, frames),
         NEW operation \in Operation, Fits(m, operation, c),
         NEW next \in Nat, ModuleSound(m, next), resultOf(operation) = next
  PROVE  LET t == [m EXCEPT !.blocks = AppendTo(m.blocks, c, operation)] IN
         /\ Structure(t)
         /\ Grown(m, t)
         /\ ModuleSound(t, next + 1)
         /\ Known(t, [value |-> next, type |-> typeOf(operation)], c)
  <1> DEFINE t == [m EXCEPT !.blocks = AppendTo(m.blocks, c, operation)]
             last == Len(m.blocks[c + 1].operations) + 1
             place == <<c + 1, last>>
  <1>0. m \in Module /\ m.blocks \in Seq(BasicBlock) /\ c \in 0 .. Len(m.blocks) - 1
    BY CurrentIsOpen DEF Structure, Module
  <1>1. Structure(t) /\ Grown(m, t) /\ AppendedAt(m, t, c, last, operation)
    BY EmitGrows
  <1> HIDE DEF t
  <1>2. last > Len(m.blocks[c + 1].operations)
    <2>1. Len(m.blocks[c + 1].operations) \in Nat
      BY <1>0, BlockTypes
    <2> QED
      BY <2>1
  <1> USE DEF AppendedAt
  <1> HIDE DEF last
  <1>3. OperationSound(t, place)
    BY <1>0, <1>1, <1>2, FitsSound
  <1>4. PhisFirst(t)
    <2>1. t \in Module
      BY <1>1 DEF Structure
    <2>2. ASSUME NEW b \in 1 .. Len(t.blocks),
                 NEW i \in 1 .. Len(t.blocks[b].operations),
                 NEW j \in 1 .. Len(t.blocks[b].operations),
                 i < j, t.blocks[b].operations[j].op = "phi"
          PROVE  t.blocks[b].operations[i].op = "phi"
      <3>1. <<b, j>> \in Places(t) /\ OperationAt(t, <<b, j>>) = t.blocks[b].operations[j]
        BY <2>1, <2>2, PlaceFacts
      <3>2. <<b, j>> \in Places(m)
        BY <1>1, <2>2, <3>1 DEF Fits
      <3>3. b \in 1 .. Len(m.blocks) /\ j \in 1 .. Len(m.blocks[b].operations)
        BY <1>0, <3>2, PlaceFacts
      <3>4. Len(m.blocks[b].operations) \in Nat
        BY <1>0, <3>3, BlockTypes
      <3>5. i \in 1 .. Len(m.blocks[b].operations)
        BY <2>2, <3>3, <3>4
      <3>6. /\ t.blocks[b].operations[i] = m.blocks[b].operations[i]
            /\ t.blocks[b].operations[j] = m.blocks[b].operations[j]
        BY <1>1, <3>3, <3>5 DEF Grown
      <3> QED
        BY <1>0, <2>2, <3>3, <3>5, <3>6, PhisFirstByIndex DEF ModuleSound
    <2> QED
      BY <2>1, <2>2, PhisFirstByIndex
  <1>5. \A p \in Places(t) \ Places(m) : p = place
    BY <1>1
  <1>6. next + 1 \in Nat /\ next <= next + 1 /\ next \in next .. next + 1 - 1
    OBVIOUS
  <1>7. \A p \in Places(t) \ Places(m) :
           resultOf(OperationAt(t, p)) \in next .. next + 1 - 1 /\ OperationSound(t, p)
    BY <1>1, <1>3, <1>5, <1>6
  <1>8. \A p, q \in Places(t) \ Places(m) :
           resultOf(OperationAt(t, p)) = resultOf(OperationAt(t, q)) => p = q
    BY <1>5
  <1>9. \A b \in 1 .. Len(t.blocks) :
           ~ (b > Len(m.blocks)) /\ t.blocks[b].terminator = m.blocks[b].terminator
    BY <1>0, <1>1, BlockTypes
  <1>10. ModuleSound(t, next + 1)
    BY <1>1, <1>4, <1>6, <1>7, <1>8, <1>9, GrownModule
  <1>11. Known(t, [value |-> next, type |-> typeOf(operation)], c)
    <2>1. Dominates(t, place[1] - 1, c)
      BY DEF Dominates
    <2>2. place \in Definitions(t, next)
      BY <1>1 DEF Definitions
    <2> QED
      BY <1>1, <2>1, <2>2 DEF Known
  <1> QED
    BY <1>1, <1>10, <1>11 DEF t

-----------------------------------------------------------------------------
(* A block is closed by a return *)

LEMMA ClosedFacts ==
  ASSUME NEW m \in Module, NEW c \in Nat, c + 1 \in 1 .. Len(m.blocks),
         NEW terminator \in Terminator
  PROVE  LET t == [m EXCEPT !.blocks = Close(m.blocks, c, terminator)] IN
         /\ t \in Module
         /\ t.blocks = Close(m.blocks, c, terminator)
         /\ ClosedWith(m.blocks, t.blocks, c, terminator)
  <1> DEFINE new == Close(m.blocks, c, terminator)
  <1>1. m.blocks \in Seq(BasicBlock)
    BY DEF Module
  <1>2. new \in Seq(BasicBlock) /\ ClosedWith(m.blocks, new, c, terminator)
    BY <1>1, CloseType, CloseFacts
  <1> HIDE DEF new
  <1>3. [m EXCEPT !.blocks = new] \in Module /\ [m EXCEPT !.blocks = new].blocks = new
    BY <1>2 DEF Module
  <1> QED
    BY <1>2, <1>3 DEF new

(* A module whose operations stay as they are grows by its terminators and *)
(* by blocks without operations.                                           *)
LEMMA SamePlaces ==
  ASSUME NEW m \in Module, NEW t \in Module, Len(m.blocks) <= Len(t.blocks),
         \A b \in 1 .. Len(t.blocks) :
            IF b \in 1 .. Len(m.blocks) THEN t.blocks[b].operations = m.blocks[b].operations
                                        ELSE t.blocks[b].operations = <<>>
  PROVE  Places(t) = Places(m)
  <1>0. Len(m.blocks) \in Nat /\ Len(t.blocks) \in Nat
    BY BlockTypes
  <1>1. ASSUME NEW p \in Places(m) PROVE p \in Places(t)
    <2>1. /\ p = <<p[1], p[2]>> /\ p[1] \in 1 .. Len(m.blocks)
          /\ p[2] \in 1 .. Len(m.blocks[p[1]].operations)
      BY PlaceFacts
    <2>2. p[1] \in 1 .. Len(t.blocks)
      BY <1>0, <2>1
    <2>3. p[2] \in 1 .. Len(t.blocks[p[1]].operations)
      BY <2>1, <2>2
    <2> QED
      BY <2>1, <2>2, <2>3, PlaceFacts
  <1>2. ASSUME NEW p \in Places(t) PROVE p \in Places(m)
    <2>1. /\ p = <<p[1], p[2]>> /\ p[1] \in 1 .. Len(t.blocks)
          /\ p[2] \in 1 .. Len(t.blocks[p[1]].operations)
      BY PlaceFacts
    <2>2. CASE p[1] \in 1 .. Len(m.blocks)
      BY <2>1, <2>2, PlaceFacts
    <2>3. CASE p[1] \notin 1 .. Len(m.blocks)
      <3>1. t.blocks[p[1]].operations = <<>>
        BY <2>1, <2>3
      <3>2. Len(t.blocks[p[1]].operations) = 0
        BY <3>1
      <3> QED
        BY <2>1, <3>2
    <2> QED
      BY <2>2, <2>3
  <1> QED
    BY <1>1, <1>2

(* Only terminators and blocks without operations are new.                 *)
LEMMA SameValues ==
  ASSUME NEW m, Structure(m), NEW t, Structure(t), Grown(m, t), Places(t) = Places(m),
         NEW next \in Nat, ModuleSound(m, next),
         \A b \in 1 .. Len(t.blocks) :
            b > Len(m.blocks) \/ t.blocks[b].terminator # m.blocks[b].terminator
              => TerminatorSound(t, b),
         \A b \in 1 .. Len(t.blocks) :
            b > Len(m.blocks) /\ b # 1 => PredecessorsOf(t, b - 1) # {}
  PROVE  ModuleSound(t, next)
  <1>0. m \in Module /\ t \in Module /\ next <= next
    BY DEF Structure
  <1>1. PhisFirst(t)
    <2>1. ASSUME NEW b \in 1 .. Len(t.blocks),
                 NEW i \in 1 .. Len(t.blocks[b].operations),
                 NEW j \in 1 .. Len(t.blocks[b].operations),
                 i < j, t.blocks[b].operations[j].op = "phi"
          PROVE  t.blocks[b].operations[i].op = "phi"
      <3>1. <<b, i>> \in Places(m) /\ <<b, j>> \in Places(m)
        BY <1>0, <2>1, PlaceFacts
      <3>2. /\ b \in 1 .. Len(m.blocks)
            /\ i \in 1 .. Len(m.blocks[b].operations)
            /\ j \in 1 .. Len(m.blocks[b].operations)
        BY <1>0, <3>1, PlaceFacts
      <3>3. /\ t.blocks[b].operations[i] = m.blocks[b].operations[i]
            /\ t.blocks[b].operations[j] = m.blocks[b].operations[j]
        BY <3>2 DEF Grown
      <3>4. PhisFirst(m)
        BY DEF ModuleSound
      <3>5. m.blocks[b].operations[i].op = "phi"
        BY <1>0, <2>1, <3>2, <3>3, <3>4, PhisFirstByIndex
      <3> QED
        BY <3>3, <3>5
    <2> QED
      BY <1>0, <2>1, PhisFirstByIndex
  <1>2. Places(t) \ Places(m) = {}
    OBVIOUS
  <1> QED
    BY <1>0, <1>1, <1>2, GrownModule

LEMMA ClosedTerminator ==
  ASSUME NEW m, Structure(m), NEW t, Structure(t), Grown(m, t),
         NEW c \in 0 .. Len(m.blocks) - 1, NEW info, Known(m, info, c),
         t.blocks[c + 1].operations = m.blocks[c + 1].operations,
         Uses(t.blocks[c + 1].terminator) = {info.value},
         t.blocks[c + 1].terminator.op = "condbranch" =>
            t.blocks[c + 1].terminator.condition = info.value /\ info.type = I1
  PROVE  TerminatorSound(t, c + 1)
  <1> DEFINE k == Len(m.blocks[c + 1].operations) + 1
  <1>0. m \in Module /\ t \in Module /\ c + 1 \in 1 .. Len(m.blocks)
    BY BlockTypes DEF Structure
  <1>1. k \in Nat /\ k > Len(m.blocks[c + 1].operations) /\ k <= k
    BY <1>0, BlockTypes
  <1>2. k = Len(t.blocks[c + 1].operations) + 1
    OBVIOUS
  <1> HIDE DEF k
  <1>3. DefinedBefore(m, info.value, <<c + 1, k>>) /\ HasType(m, info.value, info.type)
    BY <1>0, <1>1, KnownDefined
  <1>4. DefinedBefore(t, info.value, <<c + 1, k>>)
    BY <1>0, <1>1, <1>3, GrownDefinedBefore
  <1>5. HasType(t, info.value, info.type)
    BY <1>0, <1>3, GrownType
  <1> QED
    BY <1>2, <1>4, <1>5 DEF TerminatorSound

LEMMA ReturnSound ==
  ASSUME NEW m, Structure(m), NEW c \in Nat, NEW frames \in Seq(GenFrame),
         Graph(m.blocks, c, frames), NEW info \in ValueInfo, Known(m, info, c),
         NEW next \in Nat, ModuleSound(m, next)
  PROVE  LET t == [m EXCEPT !.blocks = Close(m.blocks, c, ReturnOp(info.value))] IN
         Structure(t) /\ Grown(m, t) /\ ModuleSound(t, next)
  <1> DEFINE op == ReturnOp(info.value)
             t == [m EXCEPT !.blocks = Close(m.blocks, c, op)]
  <1>0. /\ m \in Module /\ m.blocks \in Seq(BasicBlock)
        /\ c + 1 \in 1 .. Len(m.blocks)
        /\ c \in 0 .. Len(m.blocks) - 1
        /\ m.blocks[c + 1].terminator = NoTerminator
    BY CurrentIsOpen DEF Structure, Module
  <1>1. info.value \in ValueId
    BY DEF ValueInfo
  <1>2. op \in Terminator /\ Targets(op) = {} /\ Uses(op) = {info.value} /\ op.op # "condbranch"
    BY <1>1, TerminatorTypes, TerminatorFacts DEF ValueId, Uses, ReturnOp
  <1>3. /\ t \in Module
        /\ t.blocks = Close(m.blocks, c, op)
        /\ ClosedWith(m.blocks, t.blocks, c, op)
    BY <1>0, <1>2, ClosedFacts
  <1>4. Graph(t.blocks, NoBlock, frames)
    BY <1>0, <1>1, <1>3, ReturnGraph
  <1> HIDE DEF t, op
  <1>5. Structure(t)
    BY <1>3, <1>4 DEF Structure, Graph
  <1>6. \A b \in 1 .. Len(m.blocks) : /\ Len(m.blocks[b].operations) \in Nat
                                      /\ t.blocks[b].operations = m.blocks[b].operations
                                      /\ b # c + 1 => t.blocks[b] = m.blocks[b]
    BY <1>0, <1>3, BlockTypes DEF ClosedWith
  <1>7. Len(t.blocks) = Len(m.blocks) /\ Len(m.blocks) \in Nat
        /\ t.blocks[c + 1].terminator = op
    BY <1>0, <1>3, BlockTypes DEF ClosedWith
  <1>8. Grown(m, t)
    <2>1. ASSUME NEW b \in 1 .. Len(m.blocks)
          PROVE  \/ t.blocks[b].terminator = m.blocks[b].terminator
                 \/ m.blocks[b].terminator = NoTerminator /\ Targets(t.blocks[b].terminator) = {}
      <3>1. CASE b = c + 1
        BY <1>0, <1>2, <1>7, <3>1
      <3>2. CASE b # c + 1
        BY <1>6, <3>2
      <3> QED
        BY <3>1, <3>2
    <2>2. Len(m.blocks) <= Len(t.blocks)
      BY <1>7
    <2>3. ASSUME NEW b \in 1 .. Len(m.blocks)
          PROVE  /\ Len(m.blocks[b].operations) <= Len(t.blocks[b].operations)
                 /\ \A k \in 1 .. Len(m.blocks[b].operations) :
                       t.blocks[b].operations[k] = m.blocks[b].operations[k]
      <3>1. Len(m.blocks[b].operations) \in Nat /\ t.blocks[b].operations = m.blocks[b].operations
        BY <1>6
      <3> QED
        BY <3>1
    <2> QED
      BY <2>1, <2>2, <2>3 DEF Grown
  <1>9. Places(t) = Places(m)
    BY <1>0, <1>3, <1>6, <1>7, SamePlaces
  <1>10. TerminatorSound(t, c + 1)
    BY <1>0, <1>2, <1>5, <1>6, <1>7, <1>8, ClosedTerminator
  <1>11. \A b \in 1 .. Len(t.blocks) :
            /\ ~ (b > Len(m.blocks))
            /\ t.blocks[b].terminator # m.blocks[b].terminator => b = c + 1
    BY <1>6, <1>7
  <1>12. ModuleSound(t, next)
    BY <1>5, <1>8, <1>9, <1>10, <1>11, SameValues
  <1> QED
    BY <1>5, <1>8, <1>12 DEF t, op

-----------------------------------------------------------------------------
(* A block is closed by a conditional branch to two new ones *)

ForkedBlocks(blocks, c, condition) ==
    Close(blocks, c, CondBranchOp(condition, Len(blocks), Len(blocks) + 1))
      \o <<NewBlock(Len(blocks)), NewBlock(Len(blocks) + 1)>>

\* new is old with block c closed by op, and two blocks more.
Forked(old, new, c, op) ==
    /\ Len(new) = Len(old) + 2
    /\ \A b \in 1 .. Len(old) :
          /\ new[b].operations = old[b].operations
          /\ b # c + 1 => new[b] = old[b]
    /\ new[c + 1].terminator = op
    /\ new[Len(old) + 1] = NewBlock(Len(old))
    /\ new[Len(old) + 2] = NewBlock(Len(old) + 1)

LEMMA ForkedFacts ==
  ASSUME NEW blocks \in Seq(BasicBlock), NEW c \in Nat, c + 1 \in 1 .. Len(blocks),
         NEW condition \in ValueId
  PROVE  LET new == ForkedBlocks(blocks, c, condition) IN
         /\ new \in Seq(BasicBlock)
         /\ Forked(blocks, new, c, CondBranchOp(condition, Len(blocks), Len(blocks) + 1))
  <1> DEFINE n == Len(blocks)
             op == CondBranchOp(condition, n, n + 1)
             closed == Close(blocks, c, op)
  <1>0. n \in Nat /\ n + 1 \in Nat
    BY LenProperties
  <1>1. op \in Terminator
    BY <1>0, TerminatorTypes DEF ValueId
  <1>2. closed \in Seq(BasicBlock) /\ ClosedWith(blocks, closed, c, op)
    BY <1>1, CloseType, CloseFacts
  <1>3. NewBlock(n) \in BasicBlock /\ NewBlock(n + 1) \in BasicBlock
    BY <1>0, NewBlockType
  <1> DEFINE new == closed \o <<NewBlock(n), NewBlock(n + 1)>>
  <1> HIDE DEF closed, op
  <1>4. /\ Len(new) = Len(closed) + 2
        /\ \A b \in 1 .. Len(closed) : new[b] = closed[b]
        /\ new[Len(closed) + 1] = NewBlock(n)
        /\ new[Len(closed) + 2] = NewBlock(n + 1)
    BY <1>2, <1>3, ForkFacts
  <1>5. new \in Seq(BasicBlock)
    <2>1. <<NewBlock(n), NewBlock(n + 1)>> \in Seq(BasicBlock)
      BY <1>3
    <2> QED
      BY <1>2, <2>1, ConcatProperties
  <1> HIDE DEF new
  <1>6. Forked(blocks, new, c, op)
    BY <1>0, <1>2, <1>4 DEF Forked, ClosedWith
  <1> QED
    BY <1>5, <1>6 DEF new, closed, op, ForkedBlocks

LEMMA NewTerminator ==
  ASSUME NEW t, NEW b, t.blocks[b].terminator = NoTerminator
  PROVE  TerminatorSound(t, b)
  BY DEF TerminatorSound, NoTerminator, Uses

LEMMA IfSound ==
  ASSUME NEW m, Structure(m), NEW c \in Nat, NEW frames \in Seq(GenFrame),
         Graph(m.blocks, c, frames), NEW info \in ValueInfo, Known(m, info, c), info.type = I1,
         NEW frame \in GenFrame, ~ frame.inElse, frame.elseBlock = Len(m.blocks) + 1,
         NEW next \in Nat, ModuleSound(m, next)
  PROVE  LET t == [m EXCEPT !.blocks = ForkedBlocks(m.blocks, c, info.value)]
             n == Len(m.blocks)
         IN  /\ Structure(t)
             /\ Grown(m, t)
             /\ ModuleSound(t, next)
             /\ PredecessorsOf(t, n) = {c}
             /\ PredecessorsOf(t, n + 1) = {c}
  <1> DEFINE n == Len(m.blocks)
             op == CondBranchOp(info.value, n, n + 1)
             new == ForkedBlocks(m.blocks, c, info.value)
             t == [m EXCEPT !.blocks = new]
  <1>0. /\ m \in Module /\ m.blocks \in Seq(BasicBlock)
        /\ c + 1 \in 1 .. n
        /\ c \in 0 .. n - 1
        /\ m.blocks[c + 1].terminator = NoTerminator
        /\ n \in Nat
    BY CurrentIsOpen, BlockTypes DEF Structure, Module
  <1>1. info.value \in ValueId
    BY DEF ValueInfo
  <1>2. new \in Seq(BasicBlock) /\ Forked(m.blocks, new, c, op)
    BY <1>0, <1>1, ForkedFacts
  <1>3. Graph(new, n, Append(frames, frame))
    BY <1>0, <1>1, IfGraph DEF ForkedBlocks
  <1>4. /\ Targets(op) = {n, n + 1} /\ Uses(op) = {info.value}
        /\ op.condition = info.value
        /\ op # NoTerminator
    BY TerminatorFacts DEF Uses, CondBranchOp
  <1> HIDE DEF new, op
  <1>5. t \in Module /\ t.blocks = new
    BY <1>0, <1>2 DEF Module
  <1> HIDE DEF t
  <1>6. Structure(t)
    BY <1>3, <1>5 DEF Structure, Graph
  <1>7. /\ Len(t.blocks) = n + 2
        /\ \A b \in 1 .. n : /\ Len(m.blocks[b].operations) \in Nat
                             /\ t.blocks[b].operations = m.blocks[b].operations
                             /\ b # c + 1 => t.blocks[b] = m.blocks[b]
        /\ t.blocks[c + 1].terminator = op
        /\ t.blocks[n + 1].terminator = NoTerminator /\ t.blocks[n + 1].operations = <<>>
        /\ t.blocks[n + 2].terminator = NoTerminator /\ t.blocks[n + 2].operations = <<>>
    <2>1. \A b \in 1 .. n : Len(m.blocks[b].operations) \in Nat
      BY <1>0, BlockTypes
    <2>2. Forked(m.blocks, t.blocks, c, op)
      BY <1>2, <1>5
    <2>3. /\ Len(t.blocks) = n + 2
          /\ \A b \in 1 .. n : /\ t.blocks[b].operations = m.blocks[b].operations
                               /\ b # c + 1 => t.blocks[b] = m.blocks[b]
          /\ t.blocks[c + 1].terminator = op
          /\ t.blocks[n + 1] = NewBlock(n)
          /\ t.blocks[n + 2] = NewBlock(n + 1)
      BY <2>2 DEF Forked
    <2> QED
      BY <2>1, <2>3 DEF NewBlock
  <1>8. Grown(m, t)
    <2>1. \A target \in Targets(op) : target \in Nat /\ target >= n
      BY <1>0, <1>4
    <2>2. ASSUME NEW b \in 1 .. Len(m.blocks)
          PROVE  /\ Len(m.blocks[b].operations) <= Len(t.blocks[b].operations)
                 /\ \A k \in 1 .. Len(m.blocks[b].operations) :
                       t.blocks[b].operations[k] = m.blocks[b].operations[k]
                 /\ \/ t.blocks[b].terminator = m.blocks[b].terminator
                    \/ /\ m.blocks[b].terminator = NoTerminator
                       /\ \A target \in Targets(t.blocks[b].terminator) :
                             target \in Nat /\ target >= Len(m.blocks)
      <3>0. /\ Len(m.blocks[b].operations) \in Nat
            /\ t.blocks[b].operations = m.blocks[b].operations
        BY <1>7
      <3>1. CASE b = c + 1
        <4>1. /\ m.blocks[b].terminator = NoTerminator
              /\ t.blocks[b].terminator = op
          BY <1>0, <1>7, <3>1
        <4> QED
          BY <2>1, <3>0, <4>1
      <3>2. CASE b # c + 1
        <4>1. t.blocks[b].terminator = m.blocks[b].terminator
          BY <1>7, <3>2
        <4> QED
          BY <3>0, <4>1
      <3> QED
        BY <3>1, <3>2
    <2>3. Len(m.blocks) <= Len(t.blocks)
      BY <1>0, <1>7
    <2> QED
      BY <2>2, <2>3 DEF Grown
  <1>9. \A b \in 1 .. n + 2 : b \in 1 .. n \/ b = n + 1 \/ b = n + 2
    <2>1. n \in Nat
      BY <1>0
    <2> HIDE DEF n
    <2> QED
      BY <2>1
  <1>10. Places(t) = Places(m)
    <2>1. n <= n + 2 /\ n + 1 \notin 1 .. n /\ n + 2 \notin 1 .. n
      BY <1>0
    <2>2. \A b \in 1 .. Len(t.blocks) :
             IF b \in 1 .. n THEN t.blocks[b].operations = m.blocks[b].operations
                             ELSE t.blocks[b].operations = <<>>
      BY <1>7, <1>9
    <2> QED
      BY <1>0, <1>5, <1>7, <2>1, <2>2, SamePlaces
  <1>11. \A id \in {n, n + 1} : PredecessorsOf(t, id) = {c}
    <2> SUFFICES ASSUME NEW id \in {n, n + 1} PROVE PredecessorsOf(t, id) = {c}
      OBVIOUS
    <2>1. c \in PredecessorsOf(t, id)
      <3>1. c + 1 \in 1 .. Len(t.blocks) /\ c + 1 - 1 = c
        BY <1>0, <1>7
      <3> QED
        BY <1>4, <1>6, <1>7, <3>1, PredecessorFacts
    <2>2. ASSUME NEW e \in PredecessorsOf(t, id), e # c PROVE FALSE
      <3>1. e \in 0 .. Len(t.blocks) - 1 /\ id \in Targets(t.blocks[e + 1].terminator)
        BY <1>6, PredecessorFacts
      <3>2. e + 1 \in 1 .. n + 2 /\ e + 1 # c + 1
        BY <1>0, <1>7, <2>2, <3>1
      <3>3. CASE e + 1 \in 1 .. n
        <4>1. id \in Targets(m.blocks[e + 1].terminator)
          BY <1>7, <3>1, <3>2, <3>3
        <4>2. id \in e + 1 .. n - 1
          BY <3>3, <4>1 DEF Structure, Forward
        <4> QED
          BY <1>0, <4>2
      <3>4. CASE e + 1 = n + 1 \/ e + 1 = n + 2
        BY <1>7, <3>1, <3>4, TerminatorFacts
      <3> QED
        BY <1>9, <3>2, <3>3, <3>4
    <2> QED
      BY <2>1, <2>2
  <1>12. TerminatorSound(t, c + 1)
    BY <1>0, <1>4, <1>6, <1>7, <1>8, ClosedTerminator
  <1>13. ASSUME NEW b \in 1 .. Len(t.blocks),
                b > n \/ t.blocks[b].terminator # m.blocks[b].terminator
         PROVE  TerminatorSound(t, b)
    <2>1. b = c + 1 \/ b = n + 1 \/ b = n + 2
      BY <1>0, <1>7, <1>9, <1>13
    <2> QED
      BY <1>7, <1>12, <2>1, NewTerminator
  <1>14. ASSUME NEW b \in 1 .. Len(t.blocks), b > n PROVE PredecessorsOf(t, b - 1) # {}
    <2>1. b - 1 \in {n, n + 1}
      <3>1. n \in Nat /\ b \in 1 .. n + 2 /\ b > n
        BY <1>0, <1>7, <1>14
      <3> HIDE DEF n
      <3> QED
        BY <3>1
    <2> QED
      BY <1>11, <2>1
  <1>15. ModuleSound(t, next)
    BY <1>6, <1>8, <1>10, <1>13, <1>14, SameValues
  <1> QED
    BY <1>6, <1>8, <1>11, <1>15 DEF t, new

-----------------------------------------------------------------------------
(* Blocks are closed by a branch to a new one *)

\* t is m with the blocks ends closed by a branch to a new one, which starts
\* with operations.
JoinedAt(m, t, ends, operations) ==
    /\ Len(t.blocks) = Len(m.blocks) + 1
    /\ \A b \in 1 .. Len(m.blocks) :
          /\ t.blocks[b].operations = m.blocks[b].operations
          /\ b - 1 \in ends => t.blocks[b].terminator = BranchOp(Len(m.blocks))
          /\ b - 1 \notin ends => t.blocks[b] = m.blocks[b]
    /\ t.blocks[Len(m.blocks) + 1].operations = operations
    /\ t.blocks[Len(m.blocks) + 1].terminator = NoTerminator

LEMMA JoinedModule ==
  ASSUME NEW m \in Module, NEW ends, NEW operations \in Seq(Operation)
  PROVE  LET t == [m EXCEPT !.blocks = Joined(m.blocks, ends, Len(m.blocks), operations)] IN
         /\ t \in Module
         /\ t.blocks = Joined(m.blocks, ends, Len(m.blocks), operations)
         /\ JoinedAt(m, t, ends, operations)
  <1> DEFINE n == Len(m.blocks)
             new == Joined(m.blocks, ends, n, operations)
  <1>1. m.blocks \in Seq(BasicBlock) /\ n \in Nat
    BY BlockTypes DEF Module
  <1>2. new \in Seq(BasicBlock)
    BY <1>1, JoinedType
  <1>3. /\ Len(new) = n + 1
        /\ \A b \in 1 .. n :
              /\ new[b].operations = m.blocks[b].operations
              /\ b - 1 \in ends => new[b].terminator = BranchOp(n)
              /\ b - 1 \notin ends => new[b] = m.blocks[b]
        /\ new[n + 1] = [id |-> n, operations |-> operations, terminator |-> NoTerminator]
    BY <1>1, JoinedFacts
  <1> HIDE DEF new
  <1>4. [m EXCEPT !.blocks = new] \in Module /\ [m EXCEPT !.blocks = new].blocks = new
    BY <1>2 DEF Module
  <1> QED
    BY <1>3, <1>4 DEF JoinedAt, new

\* The blocks that go on after an if statement whose frame is on top.
Ends(c, frames) == {frames[Len(frames)].thenEnd, c} \ {NoBlock}

LEMMA EndsAreOpen ==
  ASSUME NEW m \in Module, NEW c \in MaybeBlock, NEW frames \in Seq(GenFrame), frames # <<>>,
         Graph(m.blocks, c, frames), frames[Len(frames)].inElse
  PROVE  \A e \in Ends(c, frames) : /\ e \in 0 .. Len(m.blocks) - 1
                                    /\ e + 1 \in 1 .. Len(m.blocks)
                                    /\ m.blocks[e + 1].terminator = NoTerminator
  <1> DEFINE top == frames[Len(frames)]
  <1>1. top \in GenFrame /\ Len(frames) \in DOMAIN frames /\ Len(m.blocks) \in Nat
    BY StackTop, LenProperties, BlockTypes
  <1>2. Pending(top) = top.thenEnd
    BY DEF Pending
  <1>3. ASSUME NEW e \in Ends(c, frames)
        PROVE  e \in Nat /\ e \in Expected(c, frames)
    BY <1>1, <1>2 DEF Ends, Expected, GenFrame, MaybeBlock, BlockId
  <1>4. ASSUME NEW e \in Ends(c, frames)
        PROVE  /\ e \in 0 .. Len(m.blocks) - 1
               /\ e + 1 \in 1 .. Len(m.blocks)
               /\ m.blocks[e + 1].terminator = NoTerminator
    <2>1. e + 1 \in 1 .. Len(m.blocks) /\ e + 1 - 1 = e
      BY <1>3 DEF Graph, OpenAreExpected
    <2>2. m.blocks[e + 1].terminator = NoTerminator
      BY <1>3, <2>1 DEF Graph, OpenAreExpected
    <2> QED
      BY <1>1, <1>3, <2>1, <2>2
  <1> QED
    BY <1>4

LEMMA JoinedGrows ==
  ASSUME NEW m, Structure(m), NEW c \in MaybeBlock, NEW frames \in Seq(GenFrame), frames # <<>>,
         Graph(m.blocks, c, frames), frames[Len(frames)].inElse,
         NEW operations \in Seq(Operation)
  PROVE  LET n == Len(m.blocks)
             ends == Ends(c, frames)
             t == [m EXCEPT !.blocks = Joined(m.blocks, ends, n, operations)]
         IN  /\ Structure(t)
             /\ Grown(m, t)
             /\ JoinedAt(m, t, ends, operations)
             /\ PredecessorsOf(t, n) = ends
  <1> DEFINE n == Len(m.blocks)
             ends == Ends(c, frames)
             t == [m EXCEPT !.blocks = Joined(m.blocks, ends, n, operations)]
  <1>0. m \in Module /\ n \in Nat /\ m.blocks \in Seq(BasicBlock)
    BY BlockTypes DEF Structure, Module
  <1>1. /\ t \in Module
        /\ t.blocks = Joined(m.blocks, ends, n, operations)
        /\ JoinedAt(m, t, ends, operations)
    BY <1>0, JoinedModule
  <1>2. Graph(t.blocks, n, SubSeq(frames, 1, Len(frames) - 1))
    BY <1>0, <1>1, MergeGraph DEF Ends
  <1> HIDE DEF t
  <1>3. Structure(t)
    BY <1>1, <1>2 DEF Structure, Graph
  <1>4. \A e \in ends : /\ e \in 0 .. n - 1
                        /\ e + 1 \in 1 .. n
                        /\ m.blocks[e + 1].terminator = NoTerminator
    BY <1>0, EndsAreOpen
  <1> HIDE DEF ends
  <1>5. Grown(m, t)
    <2>1. ASSUME NEW b \in 1 .. Len(m.blocks)
          PROVE  /\ Len(m.blocks[b].operations) <= Len(t.blocks[b].operations)
                 /\ \A k \in 1 .. Len(m.blocks[b].operations) :
                       t.blocks[b].operations[k] = m.blocks[b].operations[k]
                 /\ \/ t.blocks[b].terminator = m.blocks[b].terminator
                    \/ /\ m.blocks[b].terminator = NoTerminator
                       /\ \A target \in Targets(t.blocks[b].terminator) :
                             target \in Nat /\ target >= Len(m.blocks)
      <3>1. /\ Len(m.blocks[b].operations) \in Nat
            /\ t.blocks[b].operations = m.blocks[b].operations
        BY <1>0, <1>1, BlockTypes DEF JoinedAt
      <3>2. CASE b - 1 \in ends
        <4>1. t.blocks[b].terminator = BranchOp(n) /\ b - 1 + 1 = b
          BY <1>1, <3>2 DEF JoinedAt
        <4>2. m.blocks[b].terminator = NoTerminator
          BY <1>4, <3>2, <4>1
        <4>3. Targets(t.blocks[b].terminator) = {n}
          BY <4>1, TerminatorFacts
        <4> QED
          BY <1>0, <3>1, <4>2, <4>3
      <3>3. CASE b - 1 \notin ends
        <4>1. t.blocks[b].terminator = m.blocks[b].terminator
          BY <1>1, <3>3 DEF JoinedAt
        <4> QED
          BY <3>1, <4>1
      <3> QED
        BY <3>2, <3>3
    <2>2. Len(m.blocks) <= Len(t.blocks)
      BY <1>0, <1>1 DEF JoinedAt
    <2> QED
      BY <2>1, <2>2 DEF Grown
  <1>6. ASSUME NEW e \in ends PROVE e \in PredecessorsOf(t, n)
    <2> DEFINE b == e + 1
    <2>1. b \in 1 .. n /\ b - 1 = e /\ b \in 1 .. Len(t.blocks)
      <3>1. e \in 0 .. n - 1 /\ n \in Nat
        BY <1>0, <1>4
      <3>2. Len(t.blocks) = n + 1
        BY <1>1 DEF JoinedAt
      <3> HIDE DEF n
      <3> QED
        BY <3>1, <3>2
    <2> HIDE DEF b
    <2>2. t.blocks[b].terminator = BranchOp(n)
      BY <1>1, <2>1 DEF JoinedAt
    <2>3. n \in Targets(t.blocks[b].terminator)
      BY <2>2, TerminatorFacts
    <2> QED
      BY <1>3, <2>1, <2>3, PredecessorFacts
  <1>7. ASSUME NEW e \in PredecessorsOf(t, n) PROVE e \in ends
    <2>1. e \in 0 .. n - 1 /\ n \in Targets(t.blocks[e + 1].terminator)
      BY <1>0, <1>3, PredecessorFacts, PredecessorsComeFirst
    <2>2. e + 1 \in 1 .. n /\ e + 1 - 1 = e
      BY <1>0, <2>1
    <2>3. CASE e \notin ends
      <3>1. n \in Targets(m.blocks[e + 1].terminator)
        BY <1>1, <2>1, <2>2, <2>3 DEF JoinedAt
      <3>2. n \in e + 1 .. n - 1
        BY <2>2, <3>1 DEF Structure, Forward
      <3> QED
        BY <1>0, <3>2
    <2> QED
      BY <2>3
  <1>8. PredecessorsOf(t, n) = ends
    BY <1>6, <1>7
  <1> QED
    BY <1>1, <1>3, <1>5, <1>8 DEF t, ends

LEMMA JoinedPlaces ==
  ASSUME NEW m \in Module, NEW t \in Module, NEW ends, NEW operations \in Seq(Operation),
         JoinedAt(m, t, ends, operations)
  PROVE  /\ \A p \in Places(t) : p \in Places(m) \/
               \E i \in 1 .. Len(operations) : p = <<Len(m.blocks) + 1, i>>
         /\ \A i \in 1 .. Len(operations) :
               /\ <<Len(m.blocks) + 1, i>> \in Places(t)
               /\ OperationAt(t, <<Len(m.blocks) + 1, i>>) = operations[i]
  <1> DEFINE n == Len(m.blocks)
  <1>0. n \in Nat /\ Len(t.blocks) = n + 1 /\ t.blocks[n + 1].operations = operations
        /\ n + 1 \in 1 .. n + 1
    BY BlockTypes DEF JoinedAt
  <1>1. ASSUME NEW p \in Places(t), p \notin Places(m)
        PROVE  \E i \in 1 .. Len(operations) : p = <<n + 1, i>>
    <2>1. /\ p = <<p[1], p[2]>> /\ p[1] \in 1 .. n + 1
          /\ p[2] \in 1 .. Len(t.blocks[p[1]].operations)
      BY <1>0, PlaceFacts
    <2>2. CASE p[1] \in 1 .. n
      <3>1. p[2] \in 1 .. Len(m.blocks[p[1]].operations)
        BY <2>1, <2>2 DEF JoinedAt
      <3> QED
        BY <1>1, <2>1, <2>2, <3>1, PlaceFacts
    <2>3. CASE p[1] = n + 1
      BY <1>0, <2>1, <2>3
    <2> QED
      BY <1>0, <2>1, <2>2, <2>3
  <1>2. \A i \in 1 .. Len(operations) :
           <<n + 1, i>> \in Places(t) /\ OperationAt(t, <<n + 1, i>>) = operations[i]
    BY <1>0, PlaceFacts
  <1> QED
    BY <1>1, <1>2

\* The operands of a phi at the head of a block entered from the blocks ends.
PhiFits(m, phi, ends) ==
    LET predecessors == [i \in DOMAIN phi.incoming |-> phi.incoming[i].predecessor] IN
    /\ phi.op = "phi"
    /\ \A i \in DOMAIN phi.incoming :
          Known(m, [value |-> phi.incoming[i].value, type |-> phi.type], predecessors[i])
    /\ IsInjective(predecessors)
    /\ Range(predecessors) = ends

LEMMA PhiSound ==
  ASSUME NEW m, Structure(m), NEW t, Structure(t), Grown(m, t),
         NEW ends \in SUBSET (0 .. Len(m.blocks) - 1), NEW operations,
         JoinedAt(m, t, ends, operations), PredecessorsOf(t, Len(m.blocks)) = ends,
         NEW place \in Places(t), place[1] = Len(m.blocks) + 1,
         PhiFits(m, OperationAt(t, place), ends)
  PROVE  OperationSound(t, place)
  <1> DEFINE n == Len(m.blocks)
             phi == OperationAt(t, place)
             predecessors == [i \in DOMAIN phi.incoming |-> phi.incoming[i].predecessor]
  <1>0. m \in Module /\ t \in Module /\ n \in Nat /\ Len(t.blocks) = n + 1
    BY BlockTypes DEF Structure, JoinedAt
  <1>1. /\ phi.op = "phi"
        /\ IsInjective(predecessors)
        /\ Range(predecessors) = ends
    BY DEF PhiFits
  <1>2. ASSUME NEW i \in DOMAIN phi.incoming
        PROVE  /\ phi.incoming[i].predecessor \in ends
               /\ Known(m, [value |-> phi.incoming[i].value, type |-> phi.type],
                        phi.incoming[i].predecessor)
    <2>1. predecessors[i] = phi.incoming[i].predecessor /\ predecessors[i] \in Range(predecessors)
      BY DEF Range
    <2> QED
      BY <1>1, <2>1 DEF PhiFits
  <1> HIDE DEF phi
  <1>3. ASSUME NEW i \in DOMAIN phi.incoming
        PROVE  OperandOK(t, phi.incoming[i].value, phi.type, place)
    <2> DEFINE info == [value |-> phi.incoming[i].value, type |-> phi.type]
    <2>1. info.value = phi.incoming[i].value /\ info.type = phi.type
      OBVIOUS
    <2>2. Known(m, info, phi.incoming[i].predecessor)
      BY <1>2
    <2> HIDE DEF info
    <2>3. PICK p \in Places(m) : /\ p \in Definitions(m, info.value)
                                 /\ p[1] \in 1 .. n
                                 /\ typeOf(OperationAt(m, p)) = info.type
      BY <1>0, <2>2, KnownFacts
    <2>4. p \in Definitions(t, info.value) /\ OperationAt(t, p) = OperationAt(m, p)
      BY <1>0, <2>3, GrownDefinitions
    <2>5. p[1] # place[1]
      BY <1>0, <2>3
    <2> QED
      BY <2>1, <2>3, <2>4, <2>5 DEF OperandOK
  <1>4. t.blocks[place[1]].id = n
    <2>1. n + 1 \in 1 .. Len(t.blocks) /\ n + 1 - 1 = n
      BY <1>0
    <2> QED
      BY <2>1 DEF Structure, Numbered
  <1>5. PhiOK(t, place)
    <2>1. \A incoming \in Range(phi.incoming) : OperandOK(t, incoming.value, phi.type, place)
      BY <1>3 DEF Range
    <2> QED
      BY <1>1, <1>4, <2>1 DEF PhiOK, phi
  <1>6. OperationOK(t, place)
    BY <1>1, <1>5 DEF OperationOK, phi
  <1>7. ASSUME NEW i \in DOMAIN phi.incoming
        PROVE  LET end == phi.incoming[i].predecessor + 1 IN
               /\ end \in 1 .. Len(t.blocks)
               /\ DefinedBefore(t, phi.incoming[i].value,
                                <<end, Len(t.blocks[end].operations) + 1>>)
    <2> DEFINE e == phi.incoming[i].predecessor
               info == [value |-> phi.incoming[i].value, type |-> phi.type]
               k == Len(m.blocks[e + 1].operations) + 1
    <2>1. e \in 0 .. n - 1 /\ e + 1 \in 1 .. n /\ e + 1 \in 1 .. Len(t.blocks)
      <3>1. e \in 0 .. n - 1 /\ n \in Nat /\ Len(t.blocks) = n + 1
        BY <1>0, <1>2
      <3> HIDE DEF e, n
      <3> QED
        BY <3>1
    <2>2. Known(m, info, e) /\ info.value = phi.incoming[i].value
      BY <1>2
    <2>3. t.blocks[e + 1].operations = m.blocks[e + 1].operations
      BY <2>1 DEF JoinedAt
    <2>4. k \in Nat /\ k > Len(m.blocks[e + 1].operations) /\ k <= k
      <3> HIDE DEF e
      <3>1. Len(m.blocks[e + 1].operations) \in Nat
        BY <1>0, <2>1, BlockTypes
      <3>2. \A x \in Nat : x + 1 \in Nat /\ x + 1 > x /\ x + 1 <= x + 1
        OBVIOUS
      <3> QED
        BY ONLY <3>1, <3>2
    <2> HIDE DEF e, info, k
    <2>5. DefinedBefore(m, info.value, <<e + 1, k>>)
      BY <1>0, <2>1, <2>2, <2>4, KnownDefined
    <2>6. DefinedBefore(t, info.value, <<e + 1, k>>)
      BY <2>1, <2>4, <2>5, GrownDefinedBefore
    <2>7. k = Len(t.blocks[e + 1].operations) + 1
      BY <2>3 DEF k
    <2> QED
      BY <2>1, <2>2, <2>6, <2>7 DEF e
  <1>8. OperandsOf(phi) = {}
    BY <1>1 DEF OperandsOf
  <1> QED
    BY <1>6, <1>7, <1>8 DEF OperationSound, phi

LEMMA MergeSound ==
  ASSUME NEW m, Structure(m), NEW c \in MaybeBlock, NEW frames \in Seq(GenFrame), frames # <<>>,
         Graph(m.blocks, c, frames), frames[Len(frames)].inElse, Ends(c, frames) # {},
         NEW next \in Nat, ModuleSound(m, next), NEW operations \in Seq(Operation),
         \A i \in 1 .. Len(operations) :
            resultOf(operations[i]) = next + i - 1 /\ PhiFits(m, operations[i], Ends(c, frames))
  PROVE  LET n == Len(m.blocks)
             t == [m EXCEPT !.blocks = Joined(m.blocks, Ends(c, frames), n, operations)]
         IN  /\ Structure(t)
             /\ Grown(m, t)
             /\ PredecessorsOf(t, n) = Ends(c, frames)
             /\ ModuleSound(t, next + Len(operations))
             /\ \A i \in 1 .. Len(operations) :
                   Known(t, [value |-> next + i - 1, type |-> typeOf(operations[i])], n)
  <1> DEFINE n == Len(m.blocks)
             ends == Ends(c, frames)
             t == [m EXCEPT !.blocks = Joined(m.blocks, ends, n, operations)]
             later == next + Len(operations)
  <1>0. m \in Module /\ n \in Nat /\ Len(operations) \in Nat
    BY BlockTypes, LenProperties DEF Structure
  <1>1. /\ Structure(t)
        /\ Grown(m, t)
        /\ JoinedAt(m, t, ends, operations)
        /\ PredecessorsOf(t, n) = ends
    BY JoinedGrows
  <1>2. ends \in SUBSET (0 .. n - 1)
    BY <1>0, EndsAreOpen
  <1> HIDE DEF t
  <1>3. t \in Module
    BY <1>1 DEF Structure
  <1>4. /\ \A p \in Places(t) : p \in Places(m) \/ \E i \in 1 .. Len(operations) : p = <<n + 1, i>>
        /\ \A i \in 1 .. Len(operations) :
              <<n + 1, i>> \in Places(t) /\ OperationAt(t, <<n + 1, i>>) = operations[i]
    BY <1>0, <1>1, <1>3, JoinedPlaces
  <1>5. ASSUME NEW p \in Places(t) \ Places(m)
        PROVE  /\ resultOf(OperationAt(t, p)) \in next .. later - 1
               /\ OperationSound(t, p)
    <2>1. PICK i \in 1 .. Len(operations) : p = <<n + 1, i>>
      BY <1>4
    <2>2. p[1] = n + 1 /\ OperationAt(t, p) = operations[i]
      BY <1>4, <2>1
    <2>3. OperationSound(t, p)
      BY <1>1, <1>2, <2>2, PhiSound
    <2>4. next + i - 1 \in next .. later - 1
      BY <1>0
    <2> QED
      BY <2>2, <2>3, <2>4
  <1>6. ASSUME NEW p \in Places(t) \ Places(m), NEW q \in Places(t) \ Places(m),
               resultOf(OperationAt(t, p)) = resultOf(OperationAt(t, q))
        PROVE  p = q
    <2>1. PICK i \in 1 .. Len(operations) : p = <<n + 1, i>>
      BY <1>4
    <2>2. PICK j \in 1 .. Len(operations) : q = <<n + 1, j>>
      BY <1>4
    <2>3. next + i - 1 = next + j - 1
      BY <1>4, <1>6, <2>1, <2>2
    <2>4. i = j
      BY <1>0, <2>3
    <2> QED
      BY <2>1, <2>2, <2>4
  <1>7. PhisFirst(t)
    <2>1. ASSUME NEW b \in 1 .. Len(t.blocks),
                 NEW i \in 1 .. Len(t.blocks[b].operations),
                 NEW j \in 1 .. Len(t.blocks[b].operations),
                 i < j, t.blocks[b].operations[j].op = "phi"
          PROVE  t.blocks[b].operations[i].op = "phi"
      <3>1. CASE b \in 1 .. n
        <4>1. t.blocks[b].operations = m.blocks[b].operations
          BY <1>1, <3>1 DEF JoinedAt
        <4> QED
          BY <1>0, <2>1, <3>1, <4>1, PhisFirstByIndex DEF ModuleSound
      <3>2. CASE b = n + 1
        <4>1. t.blocks[b].operations = operations
          BY <1>1, <3>2 DEF JoinedAt
        <4>2. PhiFits(m, operations[i], ends)
          BY <2>1, <4>1
        <4> QED
          BY <4>1, <4>2 DEF PhiFits
      <3> QED
        BY <1>0, <1>1, <3>1, <3>2 DEF JoinedAt
    <2> QED
      BY <1>3, <2>1, PhisFirstByIndex
  <1>8. ASSUME NEW b \in 1 .. Len(t.blocks),
               b > n \/ t.blocks[b].terminator # m.blocks[b].terminator
        PROVE  TerminatorSound(t, b)
    <2>1. CASE b = n + 1
      BY <1>1, <2>1, NewTerminator DEF JoinedAt
    <2>2. CASE b \in 1 .. n
      <3>1. t.blocks[b].terminator = BranchOp(n)
        BY <1>0, <1>1, <1>8, <2>2 DEF JoinedAt
      <3> QED
        BY <3>1 DEF TerminatorSound, BranchOp, Uses
    <2> QED
      BY <1>0, <1>1, <2>1, <2>2 DEF JoinedAt
  <1>9. ASSUME NEW b \in 1 .. Len(t.blocks), b > n PROVE PredecessorsOf(t, b - 1) # {}
    <2>1. b - 1 = n
      BY <1>0, <1>1, <1>9 DEF JoinedAt
    <2> QED
      BY <1>1, <2>1
  <1>10. later \in Nat /\ next <= later
    BY <1>0
  <1> HIDE DEF later
  <1>11. ModuleSound(t, later)
    BY <1>1, <1>5, <1>6, <1>7, <1>8, <1>9, <1>10, GrownModule
  <1>12. ASSUME NEW i \in 1 .. Len(operations)
         PROVE  Known(t, [value |-> next + i - 1, type |-> typeOf(operations[i])], n)
    <2> DEFINE place == <<n + 1, i>>
    <2>1. place \in Definitions(t, next + i - 1)
      BY <1>4 DEF Definitions
    <2>2. Dominates(t, place[1] - 1, n)
      BY <1>0 DEF Dominates
    <2> QED
      BY <1>4, <2>1, <2>2 DEF Known
  <1> QED
    BY <1>1, <1>11, <1>12 DEF t, later

-----------------------------------------------------------------------------
(* The environment after an if statement *)

(* What is known at the end of every block that branches to a block is     *)
(* known in it.                                                            *)
LEMMA EnvironmentAfter ==
  ASSUME NEW m, Structure(m), DefinitionsUnique(m), NEW environment, NEW b \in Int,
         PredecessorsOf(m, b) # {},
         \A e \in PredecessorsOf(m, b) : EnvironmentSound(m, environment, e)
  PROVE  EnvironmentSound(m, environment, b)
  BY KnownAfter DEF EnvironmentSound

(* An order names every difference.                                        *)
LEMMA OrderIsComplete ==
  ASSUME NEW thenValues, NEW elseValues, NEW order \in SetToSeqs(Differing(thenValues, elseValues))
  PROVE  Range(order) = Differing(thenValues, elseValues)
  <1> DEFINE S == Differing(thenValues, elseValues)
             n == Cardinality(S)
  <1>1. IsFiniteSet(S) /\ n \in Nat
    BY NamesAssumption, FS_Subset, FS_CardinalityType DEF Differing, Common
  <1>2. order \in Injection(1 .. n, S)
    BY DEF SetToSeqs, Injection, IsInjective
  <1>3. Cardinality(1 .. n) = n
    BY <1>1, FS_Interval
  <1> HIDE DEF S, n
  <1>4. order \in Surjection(1 .. n, S)
    BY <1>1, <1>2, <1>3, FS_Injection DEF n
  <1>5. DOMAIN order = 1 .. n /\ \A i \in 1 .. n : order[i] \in S
    BY <1>2 DEF Injection
  <1>6. \A name \in S : \E i \in 1 .. n : order[i] = name
    BY <1>4 DEF Surjection
  <1>7. Range(order) = S
    BY <1>5, <1>6 DEF Range
  <1> QED
    BY <1>7 DEF S

(* The phis of a merge block use values known at the ends they come from.  *)
LEMMA PhisFit ==
  ASSUME TypeOK, NEW m, NEW thenEnd \in Nat, NEW elseEnd \in Nat, thenEnd # elseEnd,
         NEW thenValues \in Environment, NEW elseValues \in Environment,
         ~ Conflict(thenValues, elseValues),
         EnvironmentSound(m, thenValues, thenEnd), EnvironmentSound(m, elseValues, elseEnd),
         NEW order \in SetToSeqs(Differing(thenValues, elseValues))
  PROVE  LET phis == Phis(order, thenEnd, elseEnd, thenValues, elseValues) IN
         /\ Len(phis) = Len(order)
         /\ \A i \in 1 .. Len(phis) :
               /\ resultOf(phis[i]) = nextValueId + i - 1
               /\ typeOf(phis[i]) = thenValues[order[i]].type
               /\ PhiFits(m, phis[i], {thenEnd, elseEnd})
  <1> DEFINE phis == Phis(order, thenEnd, elseEnd, thenValues, elseValues)
  <1>1. DOMAIN order = 1 .. Len(order) /\ Len(order) \in Nat
    BY OrderType
  <1>2. Len(phis) = Len(order) /\ DOMAIN phis = 1 .. Len(order)
    BY <1>1 DEF Phis
  <1>3. ASSUME NEW i \in 1 .. Len(order)
        PROVE  /\ resultOf(phis[i]) = nextValueId + i - 1
               /\ typeOf(phis[i]) = thenValues[order[i]].type
               /\ PhiFits(m, phis[i], {thenEnd, elseEnd})
    <2> DEFINE name == order[i]
               first == thenValues[name]
               second == elseValues[name]
               phi == PhiOp(nextValueId + i - 1, first.type,
                            <<Incoming(thenEnd, first.value), Incoming(elseEnd, second.value)>>)
               predecessors == [j \in DOMAIN phi.incoming |-> phi.incoming[j].predecessor]
    <2>1. phis[i] = phi
      BY <1>1 DEF Phis
    <2>2. name \in Common(thenValues, elseValues)
      BY <1>1, OrderType DEF Differing
    <2>3. /\ first \in ValueInfo /\ second \in ValueInfo
          /\ name \in Names /\ first # NoValue /\ second # NoValue
          /\ first.type = second.type
      BY <2>2, DifferingTypes DEF Common, Conflict
    <2>4. Known(m, first, thenEnd) /\ Known(m, second, elseEnd)
      BY <2>3 DEF EnvironmentSound
    <2>5. /\ [value |-> first.value, type |-> first.type] = first
          /\ [value |-> second.value, type |-> first.type] = second
      BY <2>3 DEF ValueInfo
    <2> HIDE DEF name, first, second
    <2>6. /\ phi.op = "phi" /\ phi.result = nextValueId + i - 1 /\ phi.type = first.type
          /\ DOMAIN phi.incoming = {1, 2}
          /\ phi.incoming[1].predecessor = thenEnd /\ phi.incoming[1].value = first.value
          /\ phi.incoming[2].predecessor = elseEnd /\ phi.incoming[2].value = second.value
      BY DEF PhiOp, Incoming
    <2> HIDE DEF phi
    <2>7. /\ DOMAIN predecessors = {1, 2}
          /\ predecessors[1] = thenEnd /\ predecessors[2] = elseEnd
      BY <2>6
    <2>8. \A j \in {1, 2} :
             Known(m, [value |-> phi.incoming[j].value, type |-> phi.type], predecessors[j])
      BY <2>4, <2>5, <2>6, <2>7
    <2> HIDE DEF predecessors
    <2>9. IsInjective(predecessors) /\ Range(predecessors) = {thenEnd, elseEnd}
      BY <2>7 DEF IsInjective, Range
    <2>10. PhiFits(m, phi, {thenEnd, elseEnd})
      BY <2>6, <2>8, <2>9 DEF PhiFits, predecessors
    <2>11. resultOf(phi) = nextValueId + i - 1 /\ typeOf(phi) = first.type
      BY <2>6 DEF resultOf, typeOf
    <2> QED
      BY <2>1, <2>10, <2>11 DEF first, name
  <1> HIDE DEF phis
  <1> QED
    BY <1>2, <1>3 DEF phis

(* After an if statement of which both blocks go on, a name has the value  *)
(* of a phi or the one value it had at both ends.                          *)
LEMMA MergedSound ==
  ASSUME NEW m, Structure(m), DefinitionsUnique(m), NEW thenEnd, NEW elseEnd, NEW b \in Int,
         PredecessorsOf(m, b) = {thenEnd, elseEnd},
         NEW thenValues \in Environment, NEW elseValues \in Environment,
         ~ Conflict(thenValues, elseValues),
         EnvironmentSound(m, thenValues, thenEnd), EnvironmentSound(m, elseValues, elseEnd),
         NEW order \in SetToSeqs(Differing(thenValues, elseValues)),
         \A i \in 1 .. Len(order) :
            Known(m, [value |-> nextValueId + i - 1, type |-> thenValues[order[i]].type], b)
  PROVE  EnvironmentSound(m, MergedValues(order, thenValues, elseValues), b)
  <1> DEFINE merged == MergedValues(order, thenValues, elseValues)
  <1>1. ASSUME NEW name \in Names, merged[name] # NoValue PROVE Known(m, merged[name], b)
    <2>1. CASE name \in Range(order)
      <3> DEFINE i == CHOOSE i \in DOMAIN order : order[i] = name
      <3>1. i \in 1 .. Len(order) /\ order[i] = name
        BY <2>1, OrderType DEF Range
      <3>2. merged[name] = [value |-> nextValueId + i - 1, type |-> thenValues[name].type]
        BY <2>1 DEF MergedValues
      <3> HIDE DEF i, merged
      <3> QED
        BY <3>1, <3>2
    <2>2. CASE name \notin Range(order)
      <3>1. name \in Common(thenValues, elseValues) /\ merged[name] = thenValues[name]
        BY <1>1, <2>2 DEF MergedValues
      <3>2. thenValues[name].value = elseValues[name].value
        BY <2>2, <3>1, OrderIsComplete DEF Differing
      <3>3. thenValues[name].type = elseValues[name].type
        BY <3>1 DEF Conflict
      <3>4. thenValues[name] = elseValues[name]
        BY <3>1, <3>2, <3>3, DifferingTypes DEF ValueInfo
      <3>5. thenValues[name] # NoValue /\ elseValues[name] # NoValue
        BY <3>1 DEF Common
      <3>6. \A e \in PredecessorsOf(m, b) : Known(m, thenValues[name], e)
        BY <3>4, <3>5 DEF EnvironmentSound
      <3>7. Known(m, thenValues[name], b)
        BY <3>6, KnownAfter
      <3> QED
        BY <3>1, <3>7
    <2> QED
      BY <2>1, <2>2
  <1> QED
    BY <1>1 DEF EnvironmentSound

-----------------------------------------------------------------------------
(* The steps *)

\* The values of the module, and those the generator can still use.
Sound ==
    /\ ModuleSound(module, nextValueId)
    /\ current # NoBlock =>
          EnvironmentSound(module, values, current) /\ OperandsSound(module, operands, current)
    /\ FramesSound(module, ifs)

LEMMA StateTypes ==
  ASSUME TypeOK, GraphInvariant
  PROVE  /\ Structure(module)
         /\ module \in Module
         /\ module.blocks \in Seq(BasicBlock)
         /\ Graph(module.blocks, current, ifs)
         /\ ifs \in Seq(GenFrame)
         /\ nextValueId \in Nat
         /\ current # NoBlock => current \in Nat /\ current \in 0 .. Len(module.blocks) - 1
  <1>1. /\ module \in Module /\ module.blocks \in Seq(BasicBlock) /\ ifs \in Seq(GenFrame)
        /\ nextValueId \in Nat
        /\ current # NoBlock => current \in Nat
    BY BlocksType DEF TypeOK, MaybeBlock, BlockId
  <1>2. Graph(module.blocks, current, ifs)
    BY DEF GraphInvariant
  <1> QED
    BY <1>1, <1>2, CurrentIsOpen DEF Structure, Graph

LEMMA QuietSound ==
  ASSUME Sound, UNCHANGED <<codeVars, flowVars, operands>>
  PROVE  Sound'
  BY DEF Sound, codeVars, flowVars

LEMMA FailSound ==
  ASSUME Sound, NEW error, Fail(error)
  PROVE  Sound'
  BY QuietSound DEF Fail

LEMMA KnownOperands ==
  ASSUME TypeOK, Sound, current # NoBlock
  PROVE  /\ Len(operands) >= 1 => Known(module, LastOperand, current)
         /\ Len(operands) >= 2 => Known(module, PreviousOperand, current)
  <1>1. /\ Len(operands) \in Nat /\ DOMAIN operands = 1 .. Len(operands)
        /\ OperandsSound(module, operands, current)
    BY LenProperties DEF TypeOK, Sound
  <1> QED
    BY <1>1 DEF OperandsSound, LastOperand, PreviousOperand

LEMMA SameInfo ==
  \A info \in ValueInfo : [value |-> info.value, type |-> info.type] = info
  BY DEF ValueInfo

(* What is left of the operands stays known in the same block.             *)
LEMMA PoppedOperands ==
  ASSUME TypeOK, NEW t, NEW c, OperandsSound(t, operands, c), NEW n \in Nat, n <= Len(operands)
  PROVE  OperandsSound(t, Pop(n), c)
  <1>1. operands \in Seq(ValueInfo) /\ DOMAIN operands = 1 .. Len(operands)
        /\ Len(operands) \in Nat
    BY LenProperties DEF TypeOK
  <1>2. /\ Pop(n) \in Seq(ValueInfo)
        /\ Len(Pop(n)) = Len(operands) - n
        /\ \A i \in 1 .. Len(operands) - n : Pop(n)[i] = operands[i]
    BY <1>1, StackPop DEF Pop
  <1>3. DOMAIN Pop(n) = 1 .. Len(operands) - n
    BY <1>2, LenProperties
  <1>4. \A i \in 1 .. Len(operands) - n : i \in 1 .. Len(operands)
    BY <1>1
  <1> QED
    BY <1>1, <1>2, <1>3, <1>4 DEF OperandsSound

LEMMA PushedOperand ==
  ASSUME NEW t, NEW c, NEW stack \in Seq(ValueInfo), OperandsSound(t, stack, c),
         NEW info \in ValueInfo, Known(t, info, c)
  PROVE  OperandsSound(t, Append(stack, info), c)
  BY DEF OperandsSound

(* An operation is generated into the current block.                       *)
LEMMA EmittedSound ==
  ASSUME TypeOK, GraphInvariant, Sound, current # NoBlock, NEW operation \in Operation,
         Fits(module, operation, current), resultOf(operation) = nextValueId, Emit(operation)
  PROVE  /\ ModuleSound(module', nextValueId + 1)
         /\ Known(module', [value |-> nextValueId, type |-> typeOf(operation)], current)
         /\ EnvironmentSound(module', values, current)
         /\ OperandsSound(module', operands, current)
         /\ FramesSound(module', ifs)
  <1> DEFINE t == [module EXCEPT !.blocks = AppendTo(module.blocks, current, operation)]
  <1>1. module' = t
    BY DEF Emit
  <1>2. /\ Structure(t)
        /\ Grown(module, t)
        /\ ModuleSound(t, nextValueId + 1)
        /\ Known(t, [value |-> nextValueId, type |-> typeOf(operation)], current)
    BY StateTypes, EmitSound DEF Sound
  <1> HIDE DEF t
  <1>3. EnvironmentSound(t, values, current) /\ OperandsSound(t, operands, current)
    BY <1>2, StateTypes, GrownEnvironment, GrownOperands DEF Sound
  <1>4. FramesSound(t, ifs)
    BY <1>2, StateTypes, GrownFrames DEF Sound
  <1> QED
    BY <1>1, <1>2, <1>3, <1>4

LEMMA DefineSound ==
  ASSUME TypeOK, GraphInvariant, Sound, current # NoBlock, NEW operation \in Operation,
         Fits(module, operation, current), resultOf(operation) = nextValueId,
         NEW n \in Nat, n <= Len(operands), Define(operation, n, typeOf(operation)),
         typeOf(operation) \in TensorType
  PROVE  Sound'
  <1> DEFINE info == [value |-> nextValueId, type |-> typeOf(operation)]
  <1>1. /\ ModuleSound(module', nextValueId + 1)
        /\ Known(module', info, current)
        /\ EnvironmentSound(module', values, current)
        /\ OperandsSound(module', operands, current)
        /\ FramesSound(module', ifs)
    BY EmittedSound DEF Define
  <1>2. info \in ValueInfo
    BY DEF ValueInfo, ValueId, TypeOK
  <1>3. Pop(n) \in Seq(ValueInfo)
    BY OperandTypes
  <1>4. operands' = Append(Pop(n), info) /\ nextValueId' = nextValueId + 1
        /\ UNCHANGED <<values, current, ifs>>
    BY DEF Define, flowVars
  <1> HIDE DEF info
  <1>5. OperandsSound(module', Pop(n), current)
    BY <1>1, PoppedOperands
  <1>6. OperandsSound(module', Append(Pop(n), info), current)
    BY <1>1, <1>2, <1>3, <1>5, PushedOperand
  <1> QED
    BY <1>1, <1>4, <1>6 DEF Sound

LEMMA ExpressionSound ==
  ASSUME TypeOK, GraphInvariant, Sound,
         \/ GenerateIdentifier \/ GenerateInteger \/ GenerateFloat \/ GenerateBinary
         \/ GenerateCall \/ GenerateRelu \/ GenerateMatMul
  PROVE  Sound'
  <1>0. /\ nextValueId \in ValueId /\ Len(operands) \in Nat /\ operands \in Seq(ValueInfo)
        /\ \A kind : Emitting(kind) => current # NoBlock /\ Generating(kind)
    BY LenProperties DEF TypeOK, ValueId, Emitting
  <1>1. CASE GenerateIdentifier
    <2>1. CASE Fail("unresolved")
      BY <2>1, FailSound
    <2>2. CASE ~ Fail("unresolved")
      <3> DEFINE found == values[GenNode.name]
      <3>1. /\ GenNode.name \in Names /\ current # NoBlock /\ found # NoValue
            /\ operands' = Append(operands, found)
            /\ UNCHANGED <<codeVars, flowVars>>
        BY <1>0, <1>1, <2>2, GenNodeName DEF GenerateIdentifier
      <3>2. found \in ValueInfo
        BY <3>1 DEF TypeOK, Environment
      <3>3. Known(module, found, current) /\ OperandsSound(module, operands, current)
        BY <3>1 DEF Sound, EnvironmentSound
      <3> HIDE DEF found
      <3>4. OperandsSound(module, Append(operands, found), current)
        BY <1>0, <3>2, <3>3, PushedOperand
      <3> QED
        BY <3>1, <3>4 DEF Sound, codeVars, flowVars
    <2> QED
      BY <2>1, <2>2
  <1>2. CASE GenerateInteger
    <2> DEFINE operation == ConstantIntOp(nextValueId, GenNode.value)
    <2>1. Generating("integer") /\ current # NoBlock /\ Define(operation, 0, I64)
      BY <1>0, <1>2 DEF GenerateInteger
    <2>2. operation \in Operation
      BY <1>0, <2>1, GenNodeValue, OperationTypes, ScalarTypes
    <2>3. /\ Fits(module, operation, current)
          /\ resultOf(operation) = nextValueId /\ typeOf(operation) = I64
      BY DEF ConstantIntOp, Fits, OperandsOf, resultOf, typeOf
    <2> HIDE DEF operation
    <2> QED
      BY <1>0, <2>1, <2>2, <2>3, ScalarTypes, DefineSound
  <1>3. CASE GenerateFloat
    <2> DEFINE operation == ConstantFloatOp(nextValueId, GenNode.value)
    <2>1. Generating("float") /\ current # NoBlock /\ Define(operation, 0, F64)
      BY <1>0, <1>3 DEF GenerateFloat
    <2>2. operation \in Operation
      BY <1>0, <2>1, GenNodeValue, OperationTypes, ScalarTypes
    <2>3. /\ Fits(module, operation, current)
          /\ resultOf(operation) = nextValueId /\ typeOf(operation) = F64
      BY DEF ConstantFloatOp, Fits, OperandsOf, resultOf, typeOf
    <2> HIDE DEF operation
    <2> QED
      BY <1>0, <2>1, <2>2, <2>3, ScalarTypes, DefineSound
  <1>4. CASE GenerateBinary
    <2>1. CASE Fail("binaryType")
      BY <2>1, FailSound
    <2>2. CASE ~ Fail("binaryType")
      <3> DEFINE lhs == PreviousOperand
                 rhs == LastOperand
                 operation == BinaryOperation(GenNode.op, lhs, rhs)
      <3>1. /\ Generating("binary") /\ current # NoBlock /\ Len(operands) >= 2
            /\ lhs.type = rhs.type
            /\ Define(operation, 2, BinaryType(GenNode.op, lhs.type))
        BY <1>0, <1>4, <2>2 DEF GenerateBinary
      <3>2. GenNode.op \in BinaryOperator
        BY <3>1, GenNodeOp
      <3>3. /\ lhs \in ValueInfo /\ rhs \in ValueInfo
            /\ Known(module, lhs, current) /\ Known(module, rhs, current)
        BY <1>0, <3>1, OperandTypes, KnownOperands
      <3>4. /\ Known(module, [value |-> lhs.value, type |-> lhs.type], current)
            /\ Known(module, [value |-> rhs.value, type |-> lhs.type], current)
        BY <3>1, <3>3, SameInfo
      <3> HIDE DEF lhs, rhs
      <3>5. operation \in Operation
        BY <1>0, <3>2, <3>3, OperationTypes DEF BinaryOperation, BinaryOperator, ValueInfo
      <3>6. /\ operation.op = IF GenNode.op \in Arithmetic THEN "binary" ELSE "compare"
            /\ OperandsOf(operation) = {lhs.value, rhs.value}
            /\ operation.op = "binary" => operation.type = lhs.type
            /\ operation.op = "compare" => operation.operandType = lhs.type
            /\ resultOf(operation) = nextValueId
        BY DEF BinaryOperation, BinaryOp, CompareOp, OperandsOf, resultOf
      <3>7. typeOf(operation) = BinaryType(GenNode.op, lhs.type)
        BY <3>2 DEF BinaryOperation, BinaryOp, CompareOp, typeOf, BinaryType, BinaryOperator,
                    Arithmetic, Comparison
      <3> HIDE DEF operation
      <3>8. Fits(module, operation, current)
        BY <3>4, <3>6 DEF Fits
      <3>9. typeOf(operation) \in TensorType
        BY <3>2, <3>3, <3>7, BinaryTypeType DEF ValueInfo
      <3> QED
        BY <1>0, <3>1, <3>5, <3>6, <3>7, <3>8, <3>9, DefineSound
    <2> QED
      BY <2>1, <2>2
  <1>5. CASE GenerateCall
    BY <1>5, FailSound, QuietSound DEF GenerateCall
  <1>6. CASE GenerateRelu
    <2> DEFINE input == LastOperand
               operation == ReluOp(nextValueId, input.value, input.type)
    <2>1. current # NoBlock /\ Len(operands) >= 1 /\ Define(operation, 1, input.type)
      BY <1>0, <1>6 DEF GenerateRelu
    <2>2. input \in ValueInfo /\ Known(module, input, current)
      BY <2>1, OperandTypes, KnownOperands
    <2>3. Known(module, [value |-> input.value, type |-> input.type], current)
      BY <2>2, SameInfo
    <2> HIDE DEF input
    <2>4. operation \in Operation /\ input.type \in TensorType
      BY <1>0, <2>2, OperationTypes DEF ValueInfo
    <2>5. /\ operation.op = "relu" /\ OperandsOf(operation) = {input.value}
          /\ resultOf(operation) = nextValueId /\ typeOf(operation) = input.type
      BY DEF ReluOp, OperandsOf, resultOf, typeOf
    <2> HIDE DEF operation
    <2>6. Fits(module, operation, current)
      BY <2>3, <2>5 DEF Fits
    <2> QED
      BY <1>0, <2>1, <2>4, <2>5, <2>6, DefineSound
  <1>7. CASE GenerateMatMul
    <2>1. CASE Fail("outOfRange")
      BY <2>1, FailSound
    <2>2. CASE ~ Fail("outOfRange")
      <3> DEFINE lhs == PreviousOperand
                 rhs == LastOperand
                 type == MatMulType(lhs.type, rhs.type)
                 operation == MatMulOp(nextValueId, lhs.value, rhs.value, type)
      <3>1. /\ current # NoBlock /\ Len(operands) >= 2 /\ ExtentsExist(lhs.type, rhs.type)
            /\ Define(operation, 2, type)
        BY <1>0, <1>7, <2>2 DEF GenerateMatMul
      <3>2. /\ lhs \in ValueInfo /\ rhs \in ValueInfo
            /\ Known(module, lhs, current) /\ Known(module, rhs, current)
        BY <1>0, <3>1, OperandTypes, KnownOperands
      <3>3. /\ Known(module, [value |-> lhs.value, type |-> lhs.type], current)
            /\ Known(module, [value |-> rhs.value, type |-> rhs.type], current)
        BY <3>2, SameInfo
      <3> HIDE DEF lhs, rhs
      <3>4. type \in TensorType
        BY <3>1, <3>2 DEF ExtentsExist, MatMulType, ValueInfo, TensorType
      <3> HIDE DEF type
      <3>5. operation \in Operation
        BY <1>0, <3>2, <3>4, OperationTypes DEF ValueInfo
      <3>6. /\ operation.op = "matmul" /\ OperandsOf(operation) = {lhs.value, rhs.value}
            /\ resultOf(operation) = nextValueId /\ typeOf(operation) = type
        BY DEF MatMulOp, OperandsOf, resultOf, typeOf
      <3> HIDE DEF operation
      <3>7. Fits(module, operation, current)
        BY <3>3, <3>6 DEF Fits
      <3> QED
        BY <1>0, <3>1, <3>4, <3>5, <3>6, <3>7, DefineSound
    <2> QED
      BY <2>1, <2>2
  <1> QED
    BY <1>1, <1>2, <1>3, <1>4, <1>5, <1>6, <1>7

LEMMA StatementSound ==
  ASSUME TypeOK, GraphInvariant, Sound, GenerateTensorDeclaration \/ GenerateAssignment
  PROVE  Sound'
  <1>1. CASE GenerateTensorDeclaration
    <2>1. CASE Fail("unknownType") \/ Fail("duplicateValue")
      BY <2>1, FailSound
    <2>2. CASE ~ (Fail("unknownType") \/ Fail("duplicateValue"))
      <3> DEFINE name == GenNode.name
                 type == LookupType(name)
                 operation == TensorDeclOp(nextValueId, name, type)
                 info == [value |-> nextValueId, type |-> type]
      <3>1. /\ Generating("tensor") /\ current # NoBlock /\ type # NoType
            /\ Emit(operation)
            /\ nextValueId' = nextValueId + 1
            /\ values' = [values EXCEPT ![name] = info]
            /\ UNCHANGED <<flowVars, operands>>
        BY <1>1, <2>2 DEF GenerateTensorDeclaration, Emitting
      <3>2. name \in Names
        BY <3>1, GenNodeName
      <3>3. type \in TensorType
        BY <3>1, <3>2 DEF LookupType, TypeOK, SemaTypeOK, SymbolTable, MaybeType
      <3> HIDE DEF name, type
      <3>4. operation \in Operation
        BY <3>2, <3>3, OperationTypes DEF TypeOK, ValueId
      <3>5. /\ Fits(module, operation, current)
            /\ resultOf(operation) = nextValueId /\ typeOf(operation) = type
        BY DEF TensorDeclOp, Fits, OperandsOf, resultOf, typeOf
      <3> HIDE DEF operation
      <3>6. /\ ModuleSound(module', nextValueId + 1)
            /\ Known(module', info, current)
            /\ EnvironmentSound(module', values, current)
            /\ OperandsSound(module', operands, current)
            /\ FramesSound(module', ifs)
        BY <3>1, <3>4, <3>5, EmittedSound
      <3> HIDE DEF info
      <3>7. EnvironmentSound(module', values', current)
        BY <3>1, <3>6 DEF EnvironmentSound, TypeOK, Environment
      <3> QED
        BY <3>1, <3>6, <3>7 DEF Sound, flowVars
    <2> QED
      BY <2>1, <2>2
  <1>2. CASE GenerateAssignment
    <2>1. /\ current # NoBlock /\ Len(operands) = 1
          /\ values' = [values EXCEPT ![GenNode.name] = LastOperand]
          /\ operands' = Pop(1)
          /\ UNCHANGED <<module, nextValueId, flowVars>>
      BY <1>2 DEF GenerateAssignment, Emitting, Holding
    <2>2. Known(module, LastOperand, current)
      BY <2>1, KnownOperands
    <2>3. EnvironmentSound(module, values', current)
      BY <2>1, <2>2 DEF EnvironmentSound, Sound, TypeOK, Environment
    <2>4. OperandsSound(module, Pop(1), current)
      BY <2>1, PoppedOperands DEF Sound
    <2> QED
      BY <2>1, <2>3, <2>4 DEF Sound, flowVars
  <1> QED
    BY <1>1, <1>2

LEMMA ReturnedSound ==
  ASSUME TypeOK, GraphInvariant, Sound, GenerateReturn
  PROVE  Sound'
  <1> DEFINE t == [module EXCEPT !.blocks = Close(module.blocks, current, ReturnOp(LastOperand.value))]
  <1>1. /\ current # NoBlock /\ Len(operands) = 1 /\ module' = t /\ current' = NoBlock
        /\ UNCHANGED <<values, nextValueId, ifs>>
    BY DEF GenerateReturn, Emitting, Holding
  <1>2. LastOperand \in ValueInfo /\ Known(module, LastOperand, current)
    BY <1>1, OperandTypes, KnownOperands
  <1>3. Structure(t) /\ Grown(module, t) /\ ModuleSound(t, nextValueId)
    BY <1>1, <1>2, StateTypes, ReturnSound DEF Sound
  <1> HIDE DEF t
  <1>4. FramesSound(t, ifs)
    BY <1>3, StateTypes, GrownFrames DEF Sound
  <1> QED
    BY <1>1, <1>3, <1>4 DEF Sound

\* No expression is being visited.
LEMMA NoOperands ==
  ASSUME TypeOK, Holding(0), NEW t, NEW c
  PROVE  OperandsSound(t, operands, c)
  <1>1. DOMAIN operands = 1 .. 0
    BY LenProperties DEF TypeOK, Holding
  <1> QED
    BY <1>1 DEF OperandsSound

LEMMA BranchedSound ==
  ASSUME TypeOK, GraphInvariant, Sound, GenerateIf
  PROVE  Sound'
  <1>1. CASE Fail("conditionType")
    BY <1>1, FailSound
  <1>2. CASE ~ Fail("conditionType")
    <2> DEFINE n == Len(module.blocks)
               frame == [before |-> values, elseBlock |-> n + 1, inElse |-> FALSE,
                         thenEnd |-> NoBlock, thenValues |-> NoValues]
               t == [module EXCEPT !.blocks = ForkedBlocks(module.blocks, current, LastOperand.value)]
    <2>1. /\ current # NoBlock /\ Len(operands) = 1 /\ LastOperand.type = I1
          /\ current' = n /\ operands' = Pop(1) /\ ifs' = Append(ifs, frame)
          /\ UNCHANGED <<values, nextValueId>>
      BY <1>2 DEF GenerateIf, Emitting, Holding, GraphInvariant
    <2>2. module' = t
      BY <1>2 DEF GenerateIf, GraphInvariant, ForkedBlocks
    <2>3. /\ n \in Nat /\ current \in 0 .. n - 1 /\ current \in Nat
          /\ Structure(module) /\ ifs \in Seq(GenFrame) /\ Graph(module.blocks, current, ifs)
      BY <2>1, StateTypes, BlockTypes
    <2>4. /\ frame \in GenFrame /\ ~ frame.inElse /\ frame.elseBlock = n + 1
          /\ Pending(frame) = n + 1 /\ Saved(frame) = values
      BY <2>3 DEF TypeOK, GenFrame, BlockId, MaybeBlock, NoValues, Environment, Pending, Saved
    <2>5. LastOperand \in ValueInfo /\ Known(module, LastOperand, current)
      BY <2>1, OperandTypes, KnownOperands
    <2> HIDE DEF frame
    <2>6. /\ Structure(t)
          /\ Grown(module, t)
          /\ ModuleSound(t, nextValueId)
          /\ PredecessorsOf(t, n) = {current}
          /\ PredecessorsOf(t, n + 1) = {current}
      BY <2>1, <2>3, <2>4, <2>5, StateTypes, IfSound DEF Sound
    <2> HIDE DEF t
    <2>7. EnvironmentSound(t, values, current)
      BY <2>1, <2>3, <2>6, GrownEnvironment DEF Sound
    <2>8. EnvironmentSound(t, values, n) /\ EnvironmentSound(t, values, n + 1)
      <3>1. n \in Int /\ n + 1 \in Int /\ DefinitionsUnique(t)
        BY <2>3, <2>6 DEF ModuleSound
      <3> HIDE DEF n
      <3> QED
        BY <2>6, <2>7, <3>1, EnvironmentAfter
    <2>9. OperandsSound(t, operands', n)
      <3>1. operands \in Seq(ValueInfo)
        BY DEF TypeOK
      <3>2. Len(Pop(1)) = 0 /\ Pop(1) \in Seq(ValueInfo)
        BY <2>1, <3>1, StackPop DEF Pop
      <3>3. DOMAIN Pop(1) = 1 .. 0
        BY <3>2, LenProperties
      <3> QED
        BY <2>1, <3>3 DEF OperandsSound
    <2>10. FramesSound(t, ifs)
      BY <2>3, <2>6, GrownFrames DEF Sound
    <2>11. FramesSound(t, Append(ifs, frame))
      <3>1. FrameSound(t, frame)
        BY <2>4, <2>8 DEF FrameSound
      <3> QED
        BY <2>3, <2>4, <2>10, <3>1 DEF FramesSound
    <2> HIDE DEF n
    <2> QED
      BY <2>1, <2>2, <2>6, <2>8, <2>9, <2>11 DEF Sound
  <1> QED
    BY <1>1, <1>2

LEMMA ElseSound ==
  ASSUME TypeOK, GraphInvariant, Sound, GenerateElse
  PROVE  Sound'
  <1> DEFINE n == Len(ifs)
             frame == [GenIf EXCEPT !.inElse = TRUE, !.thenEnd = current, !.thenValues = values]
  <1>1. /\ GenIf \in GenFrame /\ ifs \in Seq(GenFrame) /\ ifs # <<>> /\ ~ GenIf.inElse
        /\ Holding(0)
        /\ ifs' = [ifs EXCEPT ![n] = frame]
        /\ current' = GenIf.elseBlock /\ values' = GenIf.before
        /\ UNCHANGED <<module, nextValueId, operands>>
    BY FrameType DEF GenerateElse, GenIf, TypeOK
  <1>2. n \in DOMAIN ifs /\ DOMAIN ifs = 1 .. n
    BY <1>1, StackTop, LenProperties
  <1>3. Pending(frame) = current /\ Saved(frame) = values
    BY <1>1 DEF Pending, Saved, GenFrame
  <1> HIDE DEF frame
  <1>4. EnvironmentSound(module, GenIf.before, GenIf.elseBlock)
    <2>1. Pending(GenIf) = GenIf.elseBlock /\ Saved(GenIf) = GenIf.before
      BY <1>1 DEF Pending, Saved
    <2>2. GenIf.elseBlock # NoBlock
      BY <1>1 DEF GenFrame, BlockId, NoBlock
    <2>3. FrameSound(module, GenIf)
      BY <1>2 DEF Sound, FramesSound, GenIf
    <2> QED
      BY <2>1, <2>2, <2>3 DEF FrameSound
  <1>5. FramesSound(module, ifs')
    <2>1. FrameSound(module, frame)
      BY <1>3 DEF Sound, FrameSound
    <2>2. DOMAIN ifs' = DOMAIN ifs /\ \A i \in DOMAIN ifs : ifs'[i] = IF i = n THEN frame ELSE ifs[i]
      BY <1>1, <1>2
    <2> QED
      BY <2>1, <2>2 DEF Sound, FramesSound
  <1>6. OperandsSound(module, operands, GenIf.elseBlock)
    BY <1>1, NoOperands
  <1> QED
    BY <1>1, <1>4, <1>5, <1>6 DEF Sound

\* The frames of the if statements around the one that ends.
LEMMA OuterFrames ==
  ASSUME NEW t, NEW frames \in Seq(GenFrame), frames # <<>>, FramesSound(t, frames)
  PROVE  FramesSound(t, SubSeq(frames, 1, Len(frames) - 1))
  <1> DEFINE rest == SubSeq(frames, 1, Len(frames) - 1)
  <1>1. /\ Len(rest) \in Nat /\ rest \in Seq(GenFrame)
        /\ \A i \in 1 .. Len(rest) : rest[i] = frames[i] /\ i \in 1 .. Len(frames)
    BY StackPopTop
  <1>2. DOMAIN rest = 1 .. Len(rest) /\ DOMAIN frames = 1 .. Len(frames)
    BY <1>1, LenProperties
  <1> HIDE DEF rest
  <1>3. FramesSound(t, rest)
    BY <1>1, <1>2 DEF FramesSound
  <1> QED
    BY <1>3 DEF rest

\* What holds of the ends of an if statement whose frame is on top.
LEMMA EndFacts ==
  ASSUME TypeOK, GraphInvariant, Sound, ifs # <<>>, GenIf.inElse
  PROVE  /\ GenIf.thenEnd # NoBlock =>
               /\ GenIf.thenEnd \in 0 .. Len(module.blocks) - 1
               /\ GenIf.thenEnd # current
               /\ EnvironmentSound(module, GenIf.thenValues, GenIf.thenEnd)
         /\ GenIf.thenValues \in Environment
         /\ Ends(current, ifs) = {GenIf.thenEnd, current} \ {NoBlock}
         /\ \A e \in Ends(current, ifs) : e \in 0 .. Len(module.blocks) - 1
  <1>1. /\ GenIf \in GenFrame /\ ifs \in Seq(GenFrame) /\ current \in MaybeBlock
        /\ Len(ifs) \in DOMAIN ifs
    BY FrameType, StackTop, LenProperties DEF TypeOK
  <1>2. Ends(current, ifs) = {GenIf.thenEnd, current} \ {NoBlock}
    BY DEF Ends, GenIf
  <1>3. \A e \in Ends(current, ifs) : e \in 0 .. Len(module.blocks) - 1
    BY <1>1, StateTypes, EndsAreOpen DEF GenIf
  <1>4. Pending(GenIf) = GenIf.thenEnd /\ Saved(GenIf) = GenIf.thenValues
    BY DEF Pending, Saved
  <1>5. FrameSound(module, GenIf)
    BY <1>1 DEF Sound, FramesSound, GenIf
  <1>6. GenIf.thenEnd # NoBlock => GenIf.thenEnd # current
    BY <1>1, <1>4 DEF GraphInvariant, Graph, PendingDiffer, GenIf
  <1> QED
    BY <1>1, <1>2, <1>3, <1>4, <1>5, <1>6 DEF FrameSound, GenFrame

\* An if statement of which a block goes on ends with a merge block.
LEMMA MergedModule ==
  ASSUME TypeOK, GraphInvariant, Sound, EndIf, NEW operations \in Seq(Operation),
         Ends(current, ifs) # {}, Merge(Ends(current, ifs), operations),
         \A i \in 1 .. Len(operations) :
            /\ resultOf(operations[i]) = nextValueId + i - 1
            /\ PhiFits(module, operations[i], Ends(current, ifs))
  PROVE  /\ Structure(module')
         /\ Grown(module, module')
         /\ current' \in Int
         /\ PredecessorsOf(module', current') = Ends(current, ifs)
         /\ ModuleSound(module', nextValueId + Len(operations))
         /\ \A i \in 1 .. Len(operations) :
               Known(module', [value |-> nextValueId + i - 1, type |-> typeOf(operations[i])],
                     current')
         /\ OperandsSound(module', operands', current')
         /\ FramesSound(module', ifs')
  <1> DEFINE n == Len(module.blocks)
             ends == Ends(current, ifs)
             t == [module EXCEPT !.blocks = Joined(module.blocks, ends, n, operations)]
  <1>1. /\ ifs # <<>> /\ ifs[Len(ifs)].inElse /\ Holding(0)
        /\ ifs' = SubSeq(ifs, 1, Len(ifs) - 1) /\ operands' = operands
        /\ module' = t /\ current' = n
    BY DEF EndIf, GenIf, Merge, GraphInvariant
  <1>2. /\ Structure(module) /\ current \in MaybeBlock /\ ifs \in Seq(GenFrame)
        /\ Graph(module.blocks, current, ifs) /\ n \in Nat /\ nextValueId \in Nat
        /\ ModuleSound(module, nextValueId)
    BY StateTypes, BlockTypes DEF TypeOK, Sound
  <1>3. /\ Structure(t)
        /\ Grown(module, t)
        /\ PredecessorsOf(t, n) = ends
        /\ ModuleSound(t, nextValueId + Len(operations))
        /\ \A i \in 1 .. Len(operations) :
              Known(t, [value |-> nextValueId + i - 1, type |-> typeOf(operations[i])], n)
    BY <1>1, <1>2, MergeSound
  <1> HIDE DEF t, n, ends
  <1>4. FramesSound(t, ifs)
    BY <1>2, <1>3, GrownFrames DEF Sound
  <1>5. FramesSound(t, ifs')
    BY <1>1, <1>2, <1>4, OuterFrames
  <1>6. OperandsSound(t, operands', n)
    BY <1>1, NoOperands
  <1> QED
    BY <1>1, <1>2, <1>3, <1>5, <1>6 DEF ends

LEMMA EndIfSound ==
  ASSUME TypeOK, GraphInvariant, Sound,
         GenerateEndIfClosed \/ GenerateEndIfOne \/ GenerateEndIfBoth
  PROVE  Sound'
  <1>1. CASE GenerateEndIfClosed
    <2>1. /\ ifs # <<>> /\ ifs' = SubSeq(ifs, 1, Len(ifs) - 1) /\ current' = NoBlock
          /\ UNCHANGED <<module, nextValueId>>
      BY <1>1 DEF GenerateEndIfClosed, EndIf
    <2>2. FramesSound(module, ifs')
      BY <2>1, StateTypes, OuterFrames DEF Sound
    <2> QED
      BY <2>1, <2>2 DEF Sound
  <1>2. CASE GenerateEndIfOne
    <2> DEFINE ends == Ends(current, ifs)
               after == SurvivingValues
    <2>1. /\ EndIf /\ ifs # <<>> /\ GenIf.inElse
          /\ (GenIf.thenEnd = NoBlock) # (current = NoBlock)
          /\ Merge({GenIf.thenEnd, current} \ {NoBlock}, <<>>)
          /\ values' = after /\ nextValueId' = nextValueId
      BY <1>2 DEF GenerateEndIfOne, EndIf
    <2>2. /\ ends = {GenIf.thenEnd, current} \ {NoBlock}
          /\ \A e \in ends : e \in 0 .. Len(module.blocks) - 1
      BY <2>1, EndFacts
    <2>3. ends # {} /\ Merge(ends, <<>>)
      BY <2>1, <2>2
    <2>4. \A e \in ends : EnvironmentSound(module, after, e)
      BY <2>1, <2>2, EndFacts DEF SurvivingValues, Sound
    <2>5. <<>> \in Seq(Operation) /\ Len(<<>>) = 0 /\ \A i \in 1 .. 0 : FALSE
      OBVIOUS
    <2>6. /\ Structure(module') /\ Grown(module, module') /\ current' \in Int
          /\ PredecessorsOf(module', current') = ends
          /\ ModuleSound(module', nextValueId + 0)
          /\ OperandsSound(module', operands', current')
          /\ FramesSound(module', ifs')
      <3> HIDE DEF ends
      <3>1. ends = Ends(current, ifs)
        BY DEF ends
      <3> QED
        BY <2>1, <2>3, <2>5, <3>1, MergedModule
    <2> HIDE DEF ends, after
    <2>7. nextValueId + 0 = nextValueId
      BY DEF TypeOK
    <2>8. \A e \in ends : EnvironmentSound(module', after, e)
      BY <2>2, <2>4, <2>6, StateTypes, GrownEnvironment
    <2>9. EnvironmentSound(module', after, current')
      BY <2>3, <2>6, <2>8, EnvironmentAfter DEF ModuleSound
    <2> QED
      BY <2>1, <2>6, <2>7, <2>9 DEF Sound
  <1>3. CASE GenerateEndIfBoth
    <2>1. CASE Fail("branchType")
      BY <2>1, FailSound
    <2>2. CASE ~ Fail("branchType")
      <3> DEFINE thenEnd == GenIf.thenEnd
                 thenValues == GenIf.thenValues
                 ends == Ends(current, ifs)
      <3>1. /\ EndIf /\ ifs # <<>> /\ GenIf.inElse
            /\ thenEnd # NoBlock /\ current # NoBlock
            /\ ~ Conflict(thenValues, values)
        BY <1>3, <2>2 DEF GenerateEndIfBoth, EndIf
      <3>2. PICK order \in SetToSeqs(Differing(thenValues, values)) :
               /\ Merge({thenEnd, current}, Phis(order, thenEnd, current, thenValues, values))
               /\ values' = MergedValues(order, thenValues, values)
               /\ nextValueId' = nextValueId + Len(order)
        BY <1>3, <2>2 DEF GenerateEndIfBoth
      <3>3. /\ thenEnd \in Nat /\ current \in Nat /\ thenEnd # current
            /\ thenEnd \in 0 .. Len(module.blocks) - 1
            /\ current \in 0 .. Len(module.blocks) - 1
            /\ thenValues \in Environment /\ values \in Environment
            /\ EnvironmentSound(module, thenValues, thenEnd)
            /\ EnvironmentSound(module, values, current)
            /\ ends = {thenEnd, current}
        BY <3>1, EndFacts, StateTypes DEF Sound, TypeOK
      <3> DEFINE phis == Phis(order, thenEnd, current, thenValues, values)
      <3> HIDE DEF thenEnd, thenValues, ends
      <3>4. /\ Len(phis) = Len(order)
            /\ \A i \in 1 .. Len(phis) :
                  /\ resultOf(phis[i]) = nextValueId + i - 1
                  /\ typeOf(phis[i]) = thenValues[order[i]].type
                  /\ PhiFits(module, phis[i], ends)
        <4>1. /\ Len(phis) = Len(order)
              /\ \A i \in 1 .. Len(phis) :
                    /\ resultOf(phis[i]) = nextValueId + i - 1
                    /\ typeOf(phis[i]) = thenValues[order[i]].type
                    /\ PhiFits(module, phis[i], {thenEnd, current})
          BY <3>1, <3>3, PhisFit
        <4> QED
          BY <3>3, <4>1
      <3>5. phis \in Seq(Operation)
        BY <3>3, PhisType
      <3> HIDE DEF phis
      <3>6. /\ Structure(module') /\ Grown(module, module') /\ current' \in Int
            /\ PredecessorsOf(module', current') = ends
            /\ ModuleSound(module', nextValueId + Len(phis))
            /\ \A i \in 1 .. Len(phis) :
                  Known(module', [value |-> nextValueId + i - 1, type |-> typeOf(phis[i])],
                        current')
            /\ OperandsSound(module', operands', current')
            /\ FramesSound(module', ifs')
        <4>1. Merge(ends, phis) /\ ends # {}
          BY <3>2, <3>3 DEF phis
        <4>2. ends = Ends(current, ifs)
          BY DEF ends
        <4> QED
          BY <3>1, <3>4, <3>5, <4>1, <4>2, MergedModule
      <3>7. EnvironmentSound(module', thenValues, thenEnd) /\ EnvironmentSound(module', values, current)
        BY <3>3, <3>6, StateTypes, GrownEnvironment
      <3>8. EnvironmentSound(module', values', current')
        BY <3>1, <3>2, <3>3, <3>4, <3>6, <3>7, MergedSound DEF ModuleSound
      <3> QED
        BY <3>2, <3>4, <3>6, <3>8 DEF Sound
    <2> QED
      BY <2>1, <2>2
  <1> QED
    BY <1>1, <1>2, <1>3

(* The generator starts with one block, which holds nothing.               *)
LEMMA StartSound ==
  ASSUME TypeOK, GraphInvariant, StartGeneration, values = NoValues, operands = <<>>
  PROVE  Sound'
  <1>1. module.blocks = <<>> /\ ifs = <<>> /\ nextBlockId = 0
    BY DEF StartGeneration, GraphInvariant
  <1>2. /\ module'.blocks = <<NewBlock(0)>> /\ current' = 0 /\ ifs' = <<>>
        /\ values' = NoValues /\ operands' = <<>> /\ nextValueId' = nextValueId
    BY <1>1 DEF StartGeneration
  <1> DEFINE t == module'
  <1>3. /\ Len(t.blocks) = 1 /\ DOMAIN t.blocks = {1}
        /\ t.blocks[1].operations = <<>> /\ t.blocks[1].terminator = NoTerminator
    BY <1>2 DEF NewBlock
  <1> HIDE DEF t
  <1>4. Places(t) = {}
    BY <1>3 DEF Places
  <1>5. PhisFirst(t)
    BY <1>3 DEF PhisFirst, Blocks, Range
  <1>6. \A b \in 1 .. Len(t.blocks) : b = 1
    BY <1>3
  <1>7. ModuleSound(t, nextValueId)
    BY <1>3, <1>4, <1>5, <1>6, NewTerminator
    DEF ModuleSound, DefinitionsUnique, Below, Entered
  <1>8. /\ EnvironmentSound(t, NoValues, 0) /\ OperandsSound(t, <<>>, 0) /\ FramesSound(t, <<>>)
    BY DEF EnvironmentSound, OperandsSound, FramesSound, NoValues
  <1> QED
    BY <1>2, <1>7, <1>8 DEF Sound, t

-----------------------------------------------------------------------------
(* The invariant *)

\* How far generate is.
Progress ==
    /\ genStatus = "idle" => values = NoValues /\ operands = <<>>
    /\ genStatus = "idle" <=> nextBlockId = 0
    /\ genError # "none" => genStatus = "failed"
    /\ genError = "verify" => current = NoBlock /\ ifs = <<>>
    /\ module.entry = 0

ValuesInvariant == GraphInvariant /\ Sound /\ Progress

LEMMA ProgressStep ==
  ASSUME TypeOK, Progress, [Next]_vars
  PROVE  Progress'
  <1>0. nextBlockId \in Nat /\ module \in Module
    BY DEF TypeOK
  <1>1. CASE UNCHANGED genVars
    BY <1>1 DEF Progress, genVars, codeVars, flowVars
  <1>2. ASSUME NEW error, error # "verify", Fail(error), genStatus = "generating"
        PROVE  Progress'
    BY <1>2 DEF Fail, Progress, codeVars, flowVars
  <1>3. ASSUME genStatus = "generating", Continue, module'.entry = module.entry,
               nextBlockId' \in Nat, nextBlockId' >= nextBlockId
        PROVE  Progress'
    BY <1>0, <1>3 DEF Progress, Continue
  <1>4. ASSUME NEW kind, Generating(kind) PROVE genStatus = "generating"
    BY <1>4 DEF Generating
  <1>5. ASSUME NEW operation, Emit(operation) PROVE module'.entry = module.entry
    BY <1>0, <1>5 DEF Emit, Module
  <1>6. ASSUME NEW kind, Emitting(kind), NEW operation, NEW n, NEW type, Define(operation, n, type)
        PROVE  Progress'
    BY <1>0, <1>3, <1>4, <1>5, <1>6 DEF Define, Emitting, flowVars
  <1>7. CASE GenerateIdentifier \/ GenerateCall
    BY <1>0, <1>2, <1>3, <1>4, <1>7
    DEF GenerateIdentifier, GenerateCall, Emitting, codeVars, flowVars
  <1>8. CASE GenerateInteger \/ GenerateFloat \/ GenerateRelu
    BY <1>6, <1>8 DEF GenerateInteger, GenerateFloat, GenerateRelu
  <1>9. CASE GenerateBinary \/ GenerateMatMul
    BY <1>2, <1>4, <1>6, <1>9 DEF GenerateBinary, GenerateMatMul, Emitting
  <1>10. CASE GenerateTensorDeclaration
    BY <1>0, <1>2, <1>3, <1>4, <1>5, <1>10 DEF GenerateTensorDeclaration, Emitting, flowVars
  <1>11. CASE GenerateAssignment \/ GenerateReturn
    BY <1>0, <1>3, <1>4, <1>11
    DEF GenerateAssignment, GenerateReturn, Emitting, Module, flowVars
  <1>12. CASE GenerateIf
    BY <1>0, <1>2, <1>3, <1>4, <1>12 DEF GenerateIf, Emitting, Module
  <1>13. CASE GenerateElse
    BY <1>0, <1>3, <1>4, <1>13 DEF GenerateElse
  <1>14. ASSUME EndIf, NEW ends, NEW operations, Merge(ends, operations) PROVE Progress'
    BY <1>0, <1>3, <1>4, <1>14 DEF EndIf, Merge, Module
  <1>15. CASE GenerateEndIfClosed
    BY <1>0, <1>3, <1>4, <1>15 DEF GenerateEndIfClosed, EndIf
  <1>16. CASE GenerateEndIfOne
    BY <1>14, <1>16 DEF GenerateEndIfOne
  <1>17. CASE GenerateEndIfBoth
    BY <1>2, <1>4, <1>14, <1>17 DEF GenerateEndIfBoth
  <1>18. CASE StartGeneration
    BY <1>0, <1>18 DEF StartGeneration, Progress
  <1>19. CASE SkipUnreachable
    BY <1>19 DEF SkipUnreachable, Progress, codeVars, flowVars
  <1>20. CASE RejectUnreachable
    BY <1>2, <1>20 DEF RejectUnreachable
  <1>21. CASE Finish
    BY <1>2, <1>21 DEF Finish, Fail, Progress, codeVars, flowVars
  <1> QED
    BY <1>1, <1>7, <1>8, <1>9, <1>10, <1>11, <1>12, <1>13, <1>15, <1>16, <1>17, <1>18, <1>19,
       <1>20, <1>21
    DEF Next, GenStep, Ended, vars

LEMMA SoundStep ==
  ASSUME TypeOK, ValuesInvariant, [Next]_vars
  PROVE  Sound'
  <1>0. GraphInvariant /\ Sound /\ Progress
    BY DEF ValuesInvariant
  <1>1. CASE UNCHANGED genVars
    BY <1>0, <1>1, QuietSound DEF genVars, codeVars, flowVars
  <1>2. CASE StartGeneration
    BY <1>0, <1>2, StartSound DEF Progress, StartGeneration
  <1>3. CASE SkipUnreachable \/ RejectUnreachable \/ Finish
    BY <1>0, <1>3, FailSound, QuietSound DEF SkipUnreachable, RejectUnreachable, Finish
  <1> QED
    BY <1>0, <1>1, <1>2, <1>3, ExpressionSound, StatementSound, ReturnedSound, BranchedSound,
       ElseSound, EndIfSound
    DEF Next, GenStep, Ended, vars

LEMMA InitValues == Init \/ UnanalysedInit => Sound /\ Progress
  <1> SUFFICES ASSUME GenInit PROVE Sound /\ Progress
    BY DEF Init, UnanalysedInit
  <1>1. /\ module = [entry |-> 0, blocks |-> <<>>] /\ current = NoBlock /\ ifs = <<>>
        /\ values = NoValues /\ operands = <<>> /\ nextBlockId = 0
        /\ genStatus = "idle" /\ genError = "none"
    BY DEF GenInit
  <1>2. Len(module.blocks) = 0 /\ DOMAIN module.blocks = {} /\ module.entry = 0
    BY <1>1
  <1>3. Places(module) = {} /\ PhisFirst(module)
    BY <1>2 DEF Places, PhisFirst, Blocks, Range
  <1>4. ModuleSound(module, nextValueId)
    BY <1>2, <1>3 DEF ModuleSound, DefinitionsUnique, Below, Entered
  <1>5. FramesSound(module, ifs)
    BY <1>1 DEF FramesSound
  <1> QED
    BY <1>1, <1>2, <1>4, <1>5 DEF Sound, Progress

LEMMA ValuesAlways == Spec \/ GeneratorSpec => []ValuesInvariant
  <1>1. Init \/ UnanalysedInit => ValuesInvariant
    BY InitGraph, InitValues DEF ValuesInvariant
  <1>2. TypeOK /\ ValuesInvariant /\ [Next]_vars => ValuesInvariant'
    BY NextStep, SoundStep, ProgressStep DEF ValuesInvariant, GraphStep
  <1> QED
    BY <1>1, <1>2, TypeCorrect, PTL DEF Spec, GeneratorSpec

(* Names are rebound, blocks are merged in any order of the names and each *)
(* side of an if statement goes on from the same environment: still no two *)
(* operations ever define one value, for every program.                    *)
THEOREM EveryValueIsDefinedOnce == Spec \/ GeneratorSpec => []ValuesDefinedOnce
  <1>1. ValuesInvariant => ValuesDefinedOnce
    BY DEF ValuesInvariant, Sound, ModuleSound, Below, ValuesDefinedOnce
  <1> QED
    BY <1>1, ValuesAlways, PTL

(* Dominance, the rule of SSA form the verifier does not check: on every   *)
(* path of the module generate returns, a value is defined before it is    *)
(* used, for every program and without the analyser as well.               *)
THEOREM UsesAreDominated == Spec \/ GeneratorSpec => []DefinitionsDominateUses
  <1>1. TypeOK /\ ValuesInvariant => DefinitionsDominateUses
    <2> SUFFICES ASSUME TypeOK, ValuesInvariant PROVE DefinitionsDominateUses
      OBVIOUS
    <2>1. ModuleSound(module, nextValueId) /\ module \in Module
      BY DEF ValuesInvariant, Sound, TypeOK
    <2>2. ASSUME NEW p \in Places(module)
          PROVE  LET operation == OperationAt(module, p) IN
                 /\ \A value \in OperandsOf(operation) : DefinedBefore(module, value, p)
                 /\ operation.op = "phi" => \A incoming \in Range(operation.incoming) :
                       LET block == module.blocks[incoming.predecessor + 1] IN
                       DefinedBefore(module, incoming.value,
                                     <<incoming.predecessor + 1, Len(block.operations) + 1>>)
      BY <2>1 DEF ModuleSound, OperationSound, Range
    <2>3. ASSUME NEW b \in DOMAIN module.blocks, NEW value \in Uses(Terminators[b])
          PROVE  DefinedBefore(module, value, <<b, Len(module.blocks[b].operations) + 1>>)
      BY <2>1, <2>3, BlockTypes DEF ModuleSound, TerminatorSound, Terminators
    <2> QED
      BY <2>2, <2>3 DEF DefinitionsDominateUses
  <1> QED
    BY <1>1, ValuesAlways, TypeCorrect, PTL

(* The generator leaves no block that control never enters, whichever      *)
(* blocks of the program return early.                                     *)
THEOREM EveryBlockIsReachable == Spec \/ GeneratorSpec => []BlocksAreReachable
  <1>1. TypeOK /\ ValuesInvariant => BlocksAreReachable
    BY BlockTypes
    DEF TypeOK, ValuesInvariant, Sound, ModuleSound, Entered, BlocksAreReachable
  <1> QED
    BY <1>1, ValuesAlways, TypeCorrect, PTL

(* Without open blocks, a sound module keeps every rule of the verifier    *)
(* but the one that the values returned have one type.                     *)
LEMMA SoundModuleVerifies ==
  ASSUME NEW m, Structure(m), Graph(m.blocks, NoBlock, <<>>), m.blocks # <<>>, m.entry = 0,
         NEW next, ModuleSound(m, next)
  PROVE  /\ HasBlocks(m) /\ BlockIdsUnique(m) /\ Terminated(m)
         /\ PhisFirst(m) /\ DefinitionsUnique(m)
         /\ EntryExists(m) /\ TargetsExist(m)
         /\ OperationsOK(m) /\ ConditionsOK(m)
         /\ Returned(m) # {} /\ \A value \in Returned(m) : ValueExists(m, value)
  <1> DEFINE n == Len(m.blocks)
  <1>0. /\ m \in Module /\ n \in Nat /\ DOMAIN m.blocks = 1 .. n
        /\ \A b \in 1 .. n : m.blocks[b] \in BasicBlock
        /\ \A b \in 1 .. n : m.blocks[b].id = b - 1
    BY BlockTypes DEF Structure, Numbered
  <1>1. n # 0 /\ n \in 1 .. n /\ 1 \in 1 .. n
    <2>1. n # 0
      BY <1>0, EmptySeq DEF Module
    <2> HIDE DEF n
    <2> QED
      BY <1>0, <2>1
  <1>2. \A b \in 1 .. n : m.blocks[b] \in Blocks(m)
    BY <1>0 DEF Blocks, Range
  <1>3. \A block \in Blocks(m) : \E b \in 1 .. n : block = m.blocks[b]
    BY <1>0 DEF Blocks, Range
  <1>4. \A b \in 1 .. n : m.blocks[b].terminator # NoTerminator
    BY DEF Graph, OpenAreExpected, Expected
  <1>5. \A id \in 0 .. n - 1 : BlockExists(m, id)
    <2>1. ASSUME NEW id \in 0 .. n - 1 PROVE \E b \in 1 .. n : b - 1 = id
      <3> HIDE DEF n
      <3>1. id + 1 \in 1 .. n /\ id + 1 - 1 = id
        BY <1>0
      <3> QED
        BY <3>1
    <2> QED
      BY <1>0, <1>2, <2>1 DEF BlockExists
  <1>6. HasBlocks(m) /\ BlockIdsUnique(m) /\ Terminated(m)
    <2>1. BlockIdsUnique(m)
      <3>1. \A b, c \in 1 .. n : b - 1 = c - 1 => b = c
        BY <1>0
      <3> QED
        BY <1>0, <3>1 DEF BlockIdsUnique
    <2> QED
      BY <1>3, <1>4, <2>1 DEF HasBlocks, Terminated
  <1>7. EntryExists(m)
    <2>1. 0 \in 0 .. n - 1
      <3> HIDE DEF n
      <3> QED
        BY <1>0, <1>1
    <2> QED
      BY <1>5, <2>1 DEF EntryExists
  <1>8. TargetsExist(m)
    <2>1. ASSUME NEW b \in 1 .. n, NEW target \in Targets(m.blocks[b].terminator)
          PROVE  target \in 0 .. n - 1
      <3>1. target \in b .. n - 1
        BY DEF Structure, Forward
      <3> HIDE DEF n
      <3> QED
        BY <1>0, <3>1
    <2> QED
      BY <1>3, <1>5, <2>1 DEF TargetsExist
  <1>9. OperationsOK(m)
    BY DEF ModuleSound, OperationSound, OperationsOK
  <1>10. ConditionsOK(m)
    BY <1>3 DEF ModuleSound, TerminatorSound, ConditionsOK
  <1>11. ASSUME NEW value \in Returned(m) PROVE ValueExists(m, value)
    <2>1. PICK b \in 1 .. n : /\ m.blocks[b].terminator.op = "return"
                              /\ m.blocks[b].terminator.value = value
      BY <1>3 DEF Returned
    <2>2. value \in Uses(m.blocks[b].terminator)
      BY <2>1 DEF Uses
    <2>3. DefinedBefore(m, value, <<b, Len(m.blocks[b].operations) + 1>>)
      BY <2>2 DEF ModuleSound, TerminatorSound
    <2> QED
      BY <2>3 DEF DefinedBefore, ValueExists
  <1>12. Returned(m) # {}
    <2> DEFINE last == m.blocks[n].terminator
    <2>1. last \in Terminator
      BY <1>0, <1>1, <1>4 DEF BasicBlock
    <2>2. \A target \in Targets(last) : target \in n .. n - 1
      BY <1>1 DEF Structure, Forward
    <2>3. n .. n - 1 = {}
      <3> HIDE DEF n
      <3> QED
        BY <1>0
    <2>4. Targets(last) = {}
      BY <2>2, <2>3
    <2>5. last.op = "return"
      BY <2>1, <2>4 DEF Terminator, Targets
    <2>6. m.blocks[n] \in {c \in Blocks(m) : c.terminator.op = "return"}
      BY <1>1, <1>2, <2>5
    <2> QED
      BY <2>6 DEF Returned
  <1> QED
    BY <1>6, <1>7, <1>8, <1>9, <1>10, <1>11, <1>12 DEF ModuleSound

(* Whatever the generator is given, also a program nobody analysed, the    *)
(* only rule of the verifier its modules can break is that the values      *)
(* returned have one type.                                                 *)
THEOREM OnlyReturnTypesMayDiffer == Spec \/ GeneratorSpec => []OnlyReturnTypesDiffer
  <1>1. TypeOK /\ ValuesInvariant => OnlyReturnTypesDiffer
    <2> SUFFICES ASSUME TypeOK, ValuesInvariant, genError = "verify"
                 PROVE  /\ HasBlocks(module) /\ BlockIdsUnique(module) /\ Terminated(module)
                        /\ PhisFirst(module) /\ DefinitionsUnique(module)
                        /\ EntryExists(module) /\ TargetsExist(module)
                        /\ OperationsOK(module) /\ ConditionsOK(module)
                        /\ Returned(module) # {}
                        /\ \A value \in Returned(module) : ValueExists(module, value)
      BY DEF OnlyReturnTypesDiffer
    <2>1. /\ GraphInvariant /\ current = NoBlock /\ ifs = <<>> /\ nextBlockId # 0
          /\ module.entry = 0 /\ ModuleSound(module, nextValueId)
      BY DEF ValuesInvariant, Sound, Progress
    <2>2. module.blocks # <<>>
      BY <2>1 DEF GraphInvariant
    <2>3. Structure(module) /\ Graph(module.blocks, NoBlock, <<>>)
      BY <2>1, StateTypes
    <2> QED
      BY <2>1, <2>2, <2>3, SoundModuleVerifies
  <1> QED
    BY <1>1, ValuesAlways, TypeCorrect, PTL

-----------------------------------------------------------------------------
(***************************************************************************)
(* The generator follows the analyser: for every program the analyser      *)
(* accepts, what the generator knows of names, operands and if statements  *)
(* when it visits a node agrees with what the analyser knew when it        *)
(* visited the same node.  The analyser is done by then; the invariant     *)
(* says that there is a trace of its states, one per node, each following  *)
(* from the one before, and relates the generator's state to the one at    *)
(* genPos.  So no induction over programs is needed: the trace grows with  *)
(* the steps of the analyser, and the generator moves along it.            *)
(***************************************************************************)

-----------------------------------------------------------------------------
(* The analyser's visits, as a relation between its states *)

Analysis == [symbols : SymbolTable, exprTypes : Seq(TensorType), branches : Seq(IfFrame)]

Top(stack) == stack[Len(stack)]
Second(stack) == stack[Len(stack) - 1]
Drop(stack, n) == SubSeq(stack, 1, Len(stack) - n)

Yields(a, b, n, type) ==
    /\ Len(a.exprTypes) >= n
    /\ b.exprTypes = Append(Drop(a.exprTypes, n), type)
    /\ b.symbols = a.symbols
    /\ b.branches = a.branches

VisitsExpression(node, a, b) ==
    /\ node.kind = "identifier" =>
          Declared(a.symbols, node.name) /\ Yields(a, b, 0, a.symbols[node.name])
    /\ node.kind = "integer" => Yields(a, b, 0, I64)
    /\ node.kind = "float" => Yields(a, b, 0, F64)
    /\ node.kind = "binary" =>
          /\ BinaryAllowed(Second(a.exprTypes), Top(a.exprTypes))
          /\ Yields(a, b, 2, BinaryType(node.op, Second(a.exprTypes)))
    /\ node.kind = "call" => KnownCall(node.callee, node.arity) /\ b = a
    /\ node.kind = "endcall" =>
          \/ node.callee = "relu" /\ Yields(a, b, 1, Top(a.exprTypes))
          \/ /\ node.callee = "matmul"
             /\ MatMulAllowed(Second(a.exprTypes), Top(a.exprTypes))
             /\ Yields(a, b, 2, MatMulType(Second(a.exprTypes), Top(a.exprTypes)))

VisitsStatement(node, a, b) ==
    /\ node.kind = "tensor" =>
          /\ ~ Declared(a.symbols, node.name)
          /\ b.symbols = Declare(a.symbols, node.name, node.type)
          /\ b.exprTypes = a.exprTypes
          /\ b.branches = a.branches
    /\ node.kind = "assign" =>
          /\ Len(a.exprTypes) >= 1
          /\ AssignmentAllowed(a.symbols, node.name, Top(a.exprTypes))
          /\ b.symbols = Declare(a.symbols, node.name, Top(a.exprTypes))
          /\ b.exprTypes = Drop(a.exprTypes, 1)
          /\ b.branches = a.branches
    /\ node.kind = "return" =>
          /\ Len(a.exprTypes) >= 1
          /\ Top(a.exprTypes) = I64
          /\ b.symbols = a.symbols
          /\ b.exprTypes = Drop(a.exprTypes, 1)
          /\ b.branches = a.branches

VisitsBranch(node, a, b) ==
    /\ node.kind = "if" =>
          /\ Len(a.exprTypes) >= 1
          /\ ConditionAllowed(Top(a.exprTypes))
          /\ b.symbols = a.symbols
          /\ b.exprTypes = Drop(a.exprTypes, 1)
          /\ b.branches = Append(a.branches, [before |-> a.symbols, inElse |-> FALSE,
                                              thenSymbols |-> NoSymbols])
    /\ node.kind = "else" =>
          /\ a.branches # <<>> /\ ~ Top(a.branches).inElse
          /\ b.symbols = Top(a.branches).before
          /\ b.exprTypes = a.exprTypes
          /\ b.branches = [a.branches EXCEPT ![Len(a.branches)] =
                              [@ EXCEPT !.inElse = TRUE, !.thenSymbols = a.symbols]]
    /\ node.kind = "endif" =>
          /\ a.branches # <<>> /\ Top(a.branches).inElse
          /\ BranchesAgree(Top(a.branches).before, Top(a.branches).thenSymbols, a.symbols)
          /\ b.symbols = MergedSymbols(Top(a.branches).before, Top(a.branches).thenSymbols,
                                       a.symbols)
          /\ b.exprTypes = a.exprTypes
          /\ b.branches = Drop(a.branches, 1)

Visits(node, a, b) ==
    VisitsExpression(node, a, b) /\ VisitsStatement(node, a, b) /\ VisitsBranch(node, a, b)

Now == [symbols |-> symbols, exprTypes |-> exprTypes, branches |-> branches]

(* A step of the analyser that neither rejects nor accepts is such a visit. *)
LEMMA StepVisits ==
  ASSUME SemaTypeOK, SemaStep, semaStatus' = "analyzing"
  PROVE  /\ semaStatus = "analyzing" /\ semaPos \in 1 .. Len(prog)
         /\ semaPos' = semaPos + 1 /\ prog' = prog
         /\ Visits(prog[semaPos], Now, Now')
  <1>1. ~ Reject /\ ~ Accept
    BY DEF Reject, Accept
  <1>2. ASSUME NEW kind, Visiting(kind)
        PROVE  semaStatus = "analyzing" /\ semaPos \in 1 .. Len(prog)
    BY <1>2 DEF Visiting, SemaTypeOK
  <1>3. /\ Now.symbols = symbols /\ Now.exprTypes = exprTypes /\ Now.branches = branches
        /\ Now'.symbols = symbols' /\ Now'.exprTypes = exprTypes' /\ Now'.branches = branches'
    BY DEF Now
  <1>4. ASSUME NEW n, NEW type, Yield(n, type), n <= Len(exprTypes)
        PROVE  semaPos' = semaPos + 1 /\ prog' = prog /\ Yields(Now, Now', n, type)
    BY <1>3, <1>4 DEF Yield, Yields, Advance, Consume, Drop
  <1>5. LastType = Top(Now.exprTypes) /\ PreviousType = Second(Now.exprTypes)
        /\ Frame = Top(Now.branches)
    BY <1>3 DEF LastType, PreviousType, Frame, Top, Second
  <1>6. Len(exprTypes) \in Nat
    BY LenProperties DEF SemaTypeOK
  <1> HIDE DEF Now
  <1>7. CASE AnalyzeIdentifier \/ AnalyzeInteger \/ AnalyzeFloat
    BY <1>1, <1>2, <1>3, <1>4, <1>6, <1>7
    DEF AnalyzeIdentifier, AnalyzeInteger, AnalyzeFloat, Visiting, Visited,
        Visits, VisitsExpression, VisitsStatement, VisitsBranch
  <1>8. CASE AnalyzeBinary
    BY <1>1, <1>2, <1>3, <1>4, <1>5, <1>6, <1>8
    DEF AnalyzeBinary, Visiting, Visited,
        Visits, VisitsExpression, VisitsStatement, VisitsBranch
  <1>9. CASE AnalyzeCall
    <2>1. Now' = Now
      BY <1>1, <1>9 DEF AnalyzeCall, Now
    <2> QED
      BY <1>1, <1>2, <1>9, <2>1 DEF AnalyzeCall, Visiting, Visited, Advance,
         Visits, VisitsExpression, VisitsStatement, VisitsBranch
  <1>10. CASE AnalyzeRelu \/ AnalyzeMatMul
    BY <1>1, <1>2, <1>3, <1>4, <1>5, <1>6, <1>10
    DEF AnalyzeRelu, AnalyzeMatMul, Visiting, Visited,
        Visits, VisitsExpression, VisitsStatement, VisitsBranch
  <1>11. CASE AnalyzeTensorDeclaration
    BY <1>1, <1>2, <1>3, <1>11
    DEF AnalyzeTensorDeclaration, Visiting, Visited, Advance,
        Visits, VisitsExpression, VisitsStatement, VisitsBranch
  <1>12. CASE AnalyzeAssignment \/ AnalyzeReturn
    BY <1>1, <1>2, <1>3, <1>5, <1>12
    DEF AnalyzeAssignment, AnalyzeReturn, ReturnAllowed, Visiting, Visited, Advance,
        Consume, Drop, Visits, VisitsExpression, VisitsStatement, VisitsBranch
  <1>13. CASE AnalyzeIf
    BY <1>1, <1>2, <1>3, <1>5, <1>13
    DEF AnalyzeIf, Visiting, Visited, Advance, Consume, Drop,
        Visits, VisitsExpression, VisitsStatement, VisitsBranch
  <1>14. CASE AnalyzeElse
    BY <1>1, <1>2, <1>3, <1>5, <1>14
    DEF AnalyzeElse, Visiting, Visited, Advance,
        Visits, VisitsExpression, VisitsStatement, VisitsBranch
  <1>15. CASE AnalyzeEndIf
    BY <1>1, <1>2, <1>3, <1>5, <1>15
    DEF AnalyzeEndIf, Visiting, Visited, Advance, Drop,
        Visits, VisitsExpression, VisitsStatement, VisitsBranch
  <1> QED
    BY <1>1, <1>7, <1>8, <1>9, <1>10, <1>11, <1>12, <1>13, <1>14, <1>15 DEF SemaStep

-----------------------------------------------------------------------------
(* Agreement of the parts of the two states *)

\* keep: tensor declarations keep the types they state.  A scalar has one
\* type for both passes in any case.
Agree(keep, type, generated) == keep \/ type.shape = <<>> => generated = type

\* The operands generated are those analysed last.
Aligned(keep, stack, ops) ==
    /\ Len(ops) <= Len(stack)
    /\ \A i \in 1 .. Len(ops) : Agree(keep, stack[Len(stack) - Len(ops) + i], ops[i].type)

\* What the analyser has declared the generator has a value of.  straight: the
\* program returns from no block, and then the generator has nothing else.
EnvAgrees(keep, straight, table, env) ==
    \A name \in Names :
        /\ Declared(table, name) =>
              env[name] # NoValue /\ Agree(keep, table[name], env[name].type)
        /\ straight /\ env[name] # NoValue => Declared(table, name)

FrameAgrees(keep, straight, frame, gen) ==
    /\ frame.inElse <=> gen.inElse
    /\ EnvAgrees(keep, straight, frame.before, gen.before)
    /\ frame.inElse /\ gen.thenEnd # NoBlock =>
          EnvAgrees(keep, straight, frame.thenSymbols, gen.thenValues)
    /\ straight /\ frame.inElse => gen.thenEnd # NoBlock

FramesAgree(keep, straight, frames, gens) ==
    /\ Len(frames) = Len(gens)
    /\ \A i \in 1 .. Len(gens) : FrameAgrees(keep, straight, frames[i], gens[i])

(* Operands *)

LEMMA AlignedTop ==
  ASSUME NEW keep, NEW stack \in Seq(TensorType), NEW ops \in Seq(ValueInfo),
         Aligned(keep, stack, ops)
  PROVE  /\ Len(ops) >= 1 =>
               Top(stack) \in TensorType /\ Agree(keep, Top(stack), Top(ops).type)
         /\ Len(ops) >= 2 =>
               Second(stack) \in TensorType /\ Agree(keep, Second(stack), Second(ops).type)
  <1>1. Len(ops) \in Nat /\ Len(stack) \in Nat /\ Len(ops) <= Len(stack)
    BY LenProperties DEF Aligned
  <1>2. ASSUME Len(ops) >= 1
        PROVE  Top(stack) \in TensorType /\ Agree(keep, Top(stack), Top(ops).type)
    <2>1. Len(ops) \in 1 .. Len(ops) /\ (Len(stack) - Len(ops)) + Len(ops) = Len(stack)
          /\ Len(stack) \in 1 .. Len(stack)
      BY <1>1, <1>2
    <2>2. Agree(keep, stack[(Len(stack) - Len(ops)) + Len(ops)], ops[Len(ops)].type)
      BY <2>1 DEF Aligned
    <2> QED
      BY <2>1, <2>2, ElementOfSeq DEF Top
  <1>3. ASSUME Len(ops) >= 2
        PROVE  Second(stack) \in TensorType /\ Agree(keep, Second(stack), Second(ops).type)
    <2>1. Len(ops) - 1 \in 1 .. Len(ops)
          /\ (Len(stack) - Len(ops)) + (Len(ops) - 1) = Len(stack) - 1
          /\ Len(stack) - 1 \in 1 .. Len(stack)
      BY <1>1, <1>3
    <2>2. Agree(keep, stack[(Len(stack) - Len(ops)) + (Len(ops) - 1)], ops[Len(ops) - 1].type)
      BY <2>1 DEF Aligned
    <2> QED
      BY <2>1, <2>2, ElementOfSeq DEF Second
  <1> QED
    BY <1>2, <1>3

LEMMA AlignedDrop ==
  ASSUME NEW keep, NEW stack \in Seq(TensorType), NEW ops \in Seq(ValueInfo),
         Aligned(keep, stack, ops), NEW n \in Nat, n <= Len(ops)
  PROVE  /\ Aligned(keep, Drop(stack, n), Drop(ops, n))
         /\ Drop(stack, n) \in Seq(TensorType) /\ Drop(ops, n) \in Seq(ValueInfo)
  <1>1. Len(ops) \in Nat /\ Len(stack) \in Nat /\ Len(ops) <= Len(stack) /\ n <= Len(stack)
    BY LenProperties DEF Aligned
  <1>2. /\ Drop(ops, n) \in Seq(ValueInfo)
        /\ Len(Drop(ops, n)) = Len(ops) - n
        /\ \A i \in 1 .. Len(ops) - n : Drop(ops, n)[i] = ops[i]
    BY StackPop DEF Drop
  <1>3. /\ Drop(stack, n) \in Seq(TensorType)
        /\ Len(Drop(stack, n)) = Len(stack) - n
        /\ \A i \in 1 .. Len(stack) - n : Drop(stack, n)[i] = stack[i]
    BY <1>1, StackPop DEF Drop
  <1> DEFINE s == Drop(stack, n)
             o == Drop(ops, n)
  <1> HIDE DEF s, o
  <1>4. ASSUME NEW i \in 1 .. Len(ops) - n
        PROVE  Agree(keep, s[Len(s) - Len(o) + i], o[i].type)
    <2>1. /\ i \in 1 .. Len(ops)
          /\ ((Len(stack) - n) - (Len(ops) - n)) + i = (Len(stack) - Len(ops)) + i
          /\ (Len(stack) - Len(ops)) + i \in 1 .. Len(stack) - n
      BY <1>1
    <2>2. Agree(keep, stack[(Len(stack) - Len(ops)) + i], ops[i].type)
      BY <2>1 DEF Aligned
    <2> QED
      BY <1>2, <1>3, <2>1, <2>2 DEF s, o
  <1>5. Len(o) <= Len(s) /\ Len(o) = Len(ops) - n
    BY <1>1, <1>2, <1>3 DEF s, o
  <1>6. Aligned(keep, s, o)
    BY <1>4, <1>5 DEF Aligned
  <1> QED
    BY <1>2, <1>3, <1>6 DEF s, o

LEMMA AlignedPush ==
  ASSUME NEW keep, NEW stack \in Seq(TensorType), NEW ops \in Seq(ValueInfo),
         Aligned(keep, stack, ops), NEW type \in TensorType, NEW info \in ValueInfo,
         Agree(keep, type, info.type)
  PROVE  Aligned(keep, Append(stack, type), Append(ops, info))
  <1> DEFINE s == Append(stack, type)
             o == Append(ops, info)
  <1>1. Len(ops) \in Nat /\ Len(stack) \in Nat /\ Len(ops) <= Len(stack)
    BY LenProperties DEF Aligned
  <1>2. /\ Len(s) = Len(stack) + 1 /\ s[Len(stack) + 1] = type
        /\ \A i \in 1 .. Len(stack) : s[i] = stack[i]
        /\ Len(o) = Len(ops) + 1 /\ o[Len(ops) + 1] = info
        /\ \A i \in 1 .. Len(ops) : o[i] = ops[i]
    BY AppendProperties
  <1> HIDE DEF s, o
  <1>3. ASSUME NEW i \in 1 .. Len(o)
        PROVE  Agree(keep, s[Len(s) - Len(o) + i], o[i].type)
    <2>1. CASE i = Len(ops) + 1
      <3>1. Len(s) - Len(o) + i = Len(stack) + 1
        BY <1>1, <1>2, <2>1
      <3> QED
        BY <1>2, <2>1, <3>1
    <2>2. CASE i \in 1 .. Len(ops)
      <3>1. /\ Len(s) - Len(o) + i = (Len(stack) - Len(ops)) + i
            /\ (Len(stack) - Len(ops)) + i \in 1 .. Len(stack)
        BY <1>1, <1>2, <2>2
      <3>2. Agree(keep, stack[(Len(stack) - Len(ops)) + i], ops[i].type)
        BY <2>2 DEF Aligned
      <3> QED
        BY <1>2, <2>2, <3>1, <3>2
    <2> QED
      BY <1>1, <1>2, <2>1, <2>2
  <1>4. Len(o) <= Len(s)
    BY <1>1, <1>2
  <1>5. Aligned(keep, s, o)
    BY <1>3, <1>4 DEF Aligned
  <1> QED
    BY <1>5 DEF s, o

\* Without operands there is nothing to agree on.
LEMMA AlignedEmpty ==
  ASSUME NEW keep, NEW stack \in Seq(TensorType)
  PROVE  Aligned(keep, stack, <<>>)
  <1>1. Len(stack) \in Nat /\ Len(<<>>) = 0
    BY LenProperties
  <1> QED
    BY <1>1 DEF Aligned

(* Names *)

LEMMA EnvDeclare ==
  ASSUME NEW keep, NEW straight, NEW table \in SymbolTable, NEW env \in Environment,
         EnvAgrees(keep, straight, table, env), NEW name \in Names,
         NEW type \in TensorType, NEW info \in ValueInfo, Agree(keep, type, info.type)
  PROVE  EnvAgrees(keep, straight, Declare(table, name, type), [env EXCEPT ![name] = info])
  <1> DEFINE t == Declare(table, name, type)
             e == [env EXCEPT ![name] = info]
  <1>1. \A x \in Names : /\ t[x] = IF x = name THEN type ELSE table[x]
                         /\ e[x] = IF x = name THEN info ELSE env[x]
    BY DEF Declare, SymbolTable, Environment
  <1>2. type # NoType /\ info # NoValue
    BY NoTypeNotType, NoValueNotValue
  <1> HIDE DEF t, e
  <1>3. ASSUME NEW x \in Names
        PROVE  /\ Declared(t, x) => e[x] # NoValue /\ Agree(keep, t[x], e[x].type)
               /\ straight /\ e[x] # NoValue => Declared(t, x)
    <2>1. CASE x = name
      BY <1>1, <1>2, <2>1 DEF Declared
    <2>2. CASE x # name
      BY <1>1, <2>2 DEF Declared, EnvAgrees
    <2> QED
      BY <2>1, <2>2
  <1>4. EnvAgrees(keep, straight, t, e)
    BY <1>3 DEF EnvAgrees
  <1> QED
    BY <1>4 DEF t, e

\* What is visible after an if statement both of its blocks end with.
LEMMA MergedIsVisible ==
  ASSUME NEW before, NEW thenSymbols, NEW elseSymbols,
         BranchesAgree(before, thenSymbols, elseSymbols),
         Extends(thenSymbols, before), Extends(elseSymbols, before)
  PROVE  LET merged == MergedSymbols(before, thenSymbols, elseSymbols) IN
         /\ Extends(thenSymbols, merged)
         /\ Extends(elseSymbols, merged)
         /\ \A name \in Names : Declared(thenSymbols, name) /\ Declared(elseSymbols, name)
               => Declared(merged, name)
  <1> DEFINE merged == MergedSymbols(before, thenSymbols, elseSymbols)
             new == Introduced(before, thenSymbols, elseSymbols)
  <1>1. \A name \in Names : merged[name] = IF name \in new THEN thenSymbols[name] ELSE before[name]
    BY DEF MergedSymbols
  <1>2. \A name \in new : /\ thenSymbols[name] = elseSymbols[name]
                          /\ Declared(thenSymbols, name)
    BY DEF BranchesAgree, Introduced
  <1>3. \A name \in Names \ new :
           ~ Declared(before, name) => ~ Declared(thenSymbols, name) \/ ~ Declared(elseSymbols, name)
    BY DEF Introduced
  <1> HIDE DEF merged, new
  <1>4. /\ Extends(thenSymbols, merged) /\ Extends(elseSymbols, merged)
        /\ \A name \in Names : Declared(thenSymbols, name) /\ Declared(elseSymbols, name)
              => Declared(merged, name)
    BY <1>1, <1>2, <1>3 DEF Extends, Declared
  <1> QED
    BY <1>4 DEF merged

\* With returns in blocks, the generator may know more than the table has.
LEMMA EnvNarrow ==
  ASSUME NEW keep, NEW straight, ~ straight, NEW table, NEW env,
         EnvAgrees(keep, straight, table, env), NEW narrow, Extends(table, narrow)
  PROVE  EnvAgrees(keep, straight, narrow, env)
  <1>1. ASSUME NEW x \in Names, Declared(narrow, x)
        PROVE  env[x] # NoValue /\ Agree(keep, narrow[x], env[x].type)
    <2>1. table[x] = narrow[x] /\ Declared(table, x)
      BY <1>1 DEF Extends, Declared
    <2> QED
      BY <2>1 DEF EnvAgrees
  <1> QED
    BY <1>1 DEF EnvAgrees

LEMMA MergedAgrees ==
  ASSUME NEW keep, NEW straight, NEW before, NEW thenSymbols, NEW elseSymbols,
         BranchesAgree(before, thenSymbols, elseSymbols),
         Extends(thenSymbols, before), Extends(elseSymbols, before),
         NEW thenValues \in Environment, NEW elseValues \in Environment,
         EnvAgrees(keep, straight, thenSymbols, thenValues),
         EnvAgrees(keep, straight, elseSymbols, elseValues),
         NEW order \in SetToSeqs(Differing(thenValues, elseValues))
  PROVE  EnvAgrees(keep, straight, MergedSymbols(before, thenSymbols, elseSymbols),
                   MergedValues(order, thenValues, elseValues))
  <1> DEFINE merged == MergedSymbols(before, thenSymbols, elseSymbols)
             after == MergedValues(order, thenValues, elseValues)
             common == Common(thenValues, elseValues)
  <1>1. /\ Extends(thenSymbols, merged) /\ Extends(elseSymbols, merged)
        /\ \A name \in Names : Declared(thenSymbols, name) /\ Declared(elseSymbols, name)
              => Declared(merged, name)
    BY MergedIsVisible
  <1>2. Range(order) \subseteq common
    BY OrderIsComplete DEF Differing
  <1>3. \A name \in common : /\ name \in Names
                             /\ thenValues[name] \in ValueInfo
                             /\ thenValues[name].type # NoType
    BY NoTypeNotType DEF Common, Environment, ValueInfo
  <1>4. \A name \in common : after[name] # NoValue /\ after[name].type = thenValues[name].type
    BY <1>2, <1>3, NoValueNotValue DEF MergedValues, NoValue
  <1>5. \A name \in Names \ common : after[name] = NoValue
    BY <1>2 DEF MergedValues
  <1> HIDE DEF merged, after
  <1>6. ASSUME NEW x \in Names, Declared(merged, x)
        PROVE  after[x] # NoValue /\ Agree(keep, merged[x], after[x].type)
    <2>1. /\ thenSymbols[x] = merged[x] /\ Declared(thenSymbols, x)
          /\ Declared(elseSymbols, x)
      BY <1>1, <1>6 DEF Extends, Declared
    <2>2. x \in common /\ Agree(keep, thenSymbols[x], thenValues[x].type)
      BY <2>1 DEF EnvAgrees, Common
    <2> QED
      BY <1>4, <2>1, <2>2
  <1>7. ASSUME NEW x \in Names, straight, after[x] # NoValue
        PROVE  Declared(merged, x)
    <2>1. x \in common
      BY <1>5, <1>7
    <2>2. Declared(thenSymbols, x) /\ Declared(elseSymbols, x)
      BY <1>7, <2>1 DEF EnvAgrees, Common
    <2> QED
      BY <1>1, <2>2
  <1>8. EnvAgrees(keep, straight, merged, after)
    BY <1>6, <1>7 DEF EnvAgrees
  <1> QED
    BY <1>8 DEF merged, after

\* The analyser has compared the types of what both blocks define.
LEMMA NothingConflicts ==
  ASSUME NEW keep, keep, NEW straight, straight,
         NEW before, NEW thenSymbols, NEW elseSymbols,
         BranchesAgree(before, thenSymbols, elseSymbols),
         Extends(thenSymbols, before), Extends(elseSymbols, before),
         NEW thenValues, NEW elseValues,
         EnvAgrees(keep, straight, thenSymbols, thenValues),
         EnvAgrees(keep, straight, elseSymbols, elseValues)
  PROVE  ~ Conflict(thenValues, elseValues)
  <1>1. ASSUME NEW x \in Common(thenValues, elseValues)
        PROVE  thenValues[x].type = elseValues[x].type
    <2>1. x \in Names /\ Declared(thenSymbols, x) /\ Declared(elseSymbols, x)
      BY DEF Common, EnvAgrees
    <2>2. thenValues[x].type = thenSymbols[x] /\ elseValues[x].type = elseSymbols[x]
      BY <2>1 DEF EnvAgrees, Agree
    <2>3. thenSymbols[x] = elseSymbols[x]
      BY <2>1, MergedIsVisible DEF Extends
    <2> QED
      BY <2>2, <2>3
  <1> QED
    BY <1>1 DEF Conflict

(* If statements *)

LEMMA FramesPush ==
  ASSUME NEW keep, NEW straight, NEW frames \in Seq(IfFrame), NEW gens \in Seq(GenFrame),
         FramesAgree(keep, straight, frames, gens), NEW frame \in IfFrame, NEW gen \in GenFrame,
         FrameAgrees(keep, straight, frame, gen)
  PROVE  FramesAgree(keep, straight, Append(frames, frame), Append(gens, gen))
  <1>1. Len(gens) \in Nat /\ Len(frames) = Len(gens)
    BY LenProperties DEF FramesAgree
  <1> DEFINE f == Append(frames, frame)
             g == Append(gens, gen)
  <1>2. /\ Len(f) = Len(frames) + 1 /\ Len(g) = Len(gens) + 1
        /\ f[Len(frames) + 1] = frame /\ g[Len(gens) + 1] = gen
        /\ \A i \in 1 .. Len(gens) : f[i] = frames[i] /\ g[i] = gens[i]
    BY <1>1, AppendProperties
  <1> HIDE DEF f, g
  <1>3. ASSUME NEW i \in 1 .. Len(g) PROVE FrameAgrees(keep, straight, f[i], g[i])
    <2>1. CASE i \in 1 .. Len(gens)
      BY <1>2, <2>1 DEF FramesAgree
    <2>2. CASE i = Len(gens) + 1
      BY <1>1, <1>2, <2>2
    <2> QED
      BY <1>1, <1>2, <2>1, <2>2
  <1>4. FramesAgree(keep, straight, f, g)
    BY <1>1, <1>2, <1>3 DEF FramesAgree
  <1> QED
    BY <1>4 DEF f, g

LEMMA FramesDrop ==
  ASSUME NEW keep, NEW straight, NEW frames \in Seq(IfFrame), NEW gens \in Seq(GenFrame),
         FramesAgree(keep, straight, frames, gens), gens # <<>>
  PROVE  /\ frames # <<>>
         /\ FrameAgrees(keep, straight, Top(frames), Top(gens))
         /\ FramesAgree(keep, straight, Drop(frames, 1), Drop(gens, 1))
  <1>1. /\ Len(frames) = Len(gens) /\ Len(gens) \in 1 .. Len(gens) /\ Len(gens) \in Nat
        /\ Len(gens) >= 1
    BY StackTop, LenProperties DEF FramesAgree
  <1>2. frames # <<>>
    BY <1>1
  <1>3. FrameAgrees(keep, straight, Top(frames), Top(gens))
    BY <1>1 DEF FramesAgree, Top
  <1>4. /\ Len(Drop(frames, 1)) = Len(frames) - 1
        /\ \A i \in 1 .. Len(frames) - 1 : Drop(frames, 1)[i] = frames[i]
    BY <1>1, StackPop DEF Drop
  <1>5. /\ Len(Drop(gens, 1)) = Len(gens) - 1
        /\ \A i \in 1 .. Len(gens) - 1 : Drop(gens, 1)[i] = gens[i]
    BY <1>1, StackPop DEF Drop
  <1>6. \A i \in 1 .. Len(gens) - 1 : i \in 1 .. Len(gens)
    BY <1>1
  <1>7. FramesAgree(keep, straight, Drop(frames, 1), Drop(gens, 1))
    BY <1>1, <1>4, <1>5, <1>6 DEF FramesAgree
  <1> QED
    BY <1>2, <1>3, <1>7

LEMMA FramesReplace ==
  ASSUME NEW keep, NEW straight, NEW frames \in Seq(IfFrame), NEW gens \in Seq(GenFrame),
         FramesAgree(keep, straight, frames, gens), gens # <<>>,
         NEW frame \in IfFrame, NEW gen \in GenFrame, FrameAgrees(keep, straight, frame, gen)
  PROVE  FramesAgree(keep, straight, [frames EXCEPT ![Len(frames)] = frame],
                                     [gens EXCEPT ![Len(gens)] = gen])
  <1> DEFINE n == Len(gens)
             f == [frames EXCEPT ![Len(frames)] = frame]
             g == [gens EXCEPT ![Len(gens)] = gen]
  <1>1. Len(frames) = n /\ n \in 1 .. n /\ n \in Nat /\ frames # <<>>
    BY StackTop, LenProperties, FramesDrop DEF FramesAgree
  <1>2. /\ Len(f) = n /\ f[n] = frame
        /\ \A i \in 1 .. n - 1 : f[i] = frames[i]
    BY <1>1, StackReplace
  <1>3. /\ Len(g) = n /\ g[n] = gen
        /\ \A i \in 1 .. n - 1 : g[i] = gens[i]
    BY <1>1, StackReplace
  <1> HIDE DEF f, g
  <1>4. ASSUME NEW i \in 1 .. n PROVE FrameAgrees(keep, straight, f[i], g[i])
    <2>1. CASE i = n
      BY <1>2, <1>3, <2>1
    <2>2. CASE i \in 1 .. n - 1
      BY <1>2, <1>3, <2>2 DEF FramesAgree
    <2> HIDE DEF n
    <2> QED
      BY <1>1, <2>1, <2>2
  <1>5. FramesAgree(keep, straight, f, g)
    BY <1>2, <1>3, <1>4 DEF FramesAgree
  <1> QED
    BY <1>5 DEF f, g

-----------------------------------------------------------------------------
(* How deep a node is nested *)

LEMMA DepthNext ==
  ASSUME NEW p, NEW i \in Nat, NEW j \in Nat, i <= j
  PROVE  /\ Depth(p, i, i) = 0
         /\ Depth(p, i, j) \in Int
         /\ Depth(p, i, j + 1) = Depth(p, i, j)
               + (IF p[j].kind = "if" THEN 1 ELSE IF p[j].kind = "endif" THEN -1 ELSE 0)
  <1> DEFINE Of(kind, k) == {x \in i .. k - 1 : p[x].kind = kind}
  <1>1. ASSUME NEW kind, NEW k \in Nat
        PROVE  IsFiniteSet(Of(kind, k)) /\ Cardinality(Of(kind, k)) \in Nat
    <2>1. IsFiniteSet(i .. k - 1)
      BY FS_Interval
    <2> QED
      BY <2>1, FS_Subset, FS_CardinalityType
  <1>2. ASSUME NEW kind
        PROVE  Cardinality(Of(kind, j + 1))
                  = Cardinality(Of(kind, j)) + (IF p[j].kind = kind THEN 1 ELSE 0)
    <2>1. \A x \in i .. (j + 1) - 1 : x \in i .. j - 1 \/ x = j
      OBVIOUS
    <2>2. \A x \in i .. j - 1 : x \in i .. (j + 1) - 1 /\ x # j
      OBVIOUS
    <2>3. j \in i .. (j + 1) - 1
      OBVIOUS
    <2>4. CASE p[j].kind = kind
      <3>1. Of(kind, j + 1) = Of(kind, j) \cup {j} /\ j \notin Of(kind, j)
        BY <2>1, <2>2, <2>3, <2>4
      <3> HIDE DEF Of
      <3> QED
        BY <1>1, <2>4, <3>1, FS_AddElement
    <2>5. CASE p[j].kind # kind
      <3>1. Of(kind, j + 1) = Of(kind, j)
        BY <2>1, <2>2, <2>5
      <3> HIDE DEF Of
      <3> QED
        BY <1>1, <2>5, <3>1
    <2> QED
      BY <2>4, <2>5
  <1>3. Of("if", i) = {} /\ Of("endif", i) = {}
    OBVIOUS
  <1>4. \A k \in Nat : Depth(p, i, k) = Cardinality(Of("if", k)) - Cardinality(Of("endif", k))
    BY DEF Depth
  <1>5. /\ Cardinality(Of("if", i)) = 0 /\ Cardinality(Of("endif", i)) = 0
        /\ Cardinality(Of("if", j)) \in Nat /\ Cardinality(Of("endif", j)) \in Nat
    BY <1>1, <1>3, FS_EmptySet
  <1> HIDE DEF Of
  <1> QED
    BY <1>2, <1>4, <1>5

-----------------------------------------------------------------------------
(* The generator moves along a visit of the analyser *)

\* Without returns in blocks, the current block is open inside of them.
OnStraightLine ==
    /\ current = NoBlock => ifs = <<>>
    /\ Len(ifs) = Depth(prog, 1, genPos)

\* The state of the generator agrees with the analyser's at the same node.
Agrees(keep, straight, a) ==
    /\ Aligned(keep, a.exprTypes, operands)
    /\ current # NoBlock => EnvAgrees(keep, straight, a.symbols, values)
    /\ current = NoBlock => operands = <<>>
    /\ FramesAgree(keep, straight, a.branches, ifs)
    /\ straight => OnStraightLine

\* The scopes of the analyser nest.
Nested(a) ==
    \A i \in 1 .. Len(a.branches) :
        /\ Extends(a.symbols, a.branches[i].before)
        /\ a.branches[i].inElse => Extends(a.branches[i].thenSymbols, a.branches[i].before)

\* Both passes are at the same node, and the generator goes on to the next.
Follows(keep, straight, a, b) ==
    /\ TypeOK
    /\ a \in Analysis /\ b \in Analysis /\ Nested(a)
    /\ Agrees(keep, straight, a)
    /\ keep => DeclarationsKeepTheirTypes
    /\ straight => ~ HasEarlyReturn
    /\ genPos <= Len(prog)
    /\ Visits(GenNode, a, b)

\* The generator goes on to the next node, where it agrees with the analyser.
Moves(keep, straight, b) == Continue /\ Agrees(keep, straight, b)'

LEMMA FollowsFacts ==
  ASSUME NEW keep, NEW straight, NEW a, NEW b, Follows(keep, straight, a, b)
  PROVE  /\ TypeOK /\ Agrees(keep, straight, a)
         /\ a.symbols \in SymbolTable /\ a.exprTypes \in Seq(TensorType)
         /\ a.branches \in Seq(IfFrame)
         /\ b.symbols \in SymbolTable /\ b.exprTypes \in Seq(TensorType)
         /\ b.branches \in Seq(IfFrame)
         /\ operands \in Seq(ValueInfo) /\ ifs \in Seq(GenFrame) /\ values \in Environment
         /\ Aligned(keep, a.exprTypes, operands)
         /\ FramesAgree(keep, straight, a.branches, ifs)
         /\ current # NoBlock => EnvAgrees(keep, straight, a.symbols, values)
         /\ genPos <= Len(prog) /\ Visits(GenNode, a, b)
  BY DEF Follows, Agrees, Analysis, TypeOK

LEMMA SameLine ==
  ASSUME TypeOK, OnStraightLine, Continue, genPos <= Len(prog),
         GenNode.kind \notin {"if", "endif"}, UNCHANGED flowVars
  PROVE  OnStraightLine'
  <1>1. genPos \in Nat /\ 1 <= genPos /\ genPos' = genPos + 1 /\ prog' = prog /\ ifs' = ifs
        /\ current' = current
    BY DEF TypeOK, Continue, semaVars, flowVars
  <1>2. /\ Depth(prog, 1, genPos) \in Int
        /\ Depth(prog, 1, genPos + 1) = Depth(prog, 1, genPos) + 0
    BY <1>1, DepthNext DEF GenNode
  <1> QED
    BY <1>1, <1>2 DEF OnStraightLine

\* An expression is generated.
LEMMA YieldAgrees ==
  ASSUME NEW keep, NEW straight, NEW a, NEW b, Follows(keep, straight, a, b),
         NEW n \in Nat, n <= Len(operands), NEW type \in TensorType, Yields(a, b, n, type),
         NEW info \in ValueInfo, Agree(keep, type, info.type),
         operands' = Append(Pop(n), info), UNCHANGED <<values, flowVars>>, Continue,
         current # NoBlock, GenNode.kind \notin {"if", "endif"}
  PROVE  Moves(keep, straight, b)
  <1>1. /\ Aligned(keep, Drop(a.exprTypes, n), Drop(operands, n))
        /\ Drop(a.exprTypes, n) \in Seq(TensorType) /\ Drop(operands, n) \in Seq(ValueInfo)
    BY FollowsFacts, AlignedDrop
  <1>2. Pop(n) = Drop(operands, n)
    BY DEF Pop, Drop
  <1>3. Aligned(keep, b.exprTypes, operands')
    BY <1>1, <1>2, AlignedPush DEF Yields
  <1>4. /\ b.symbols = a.symbols /\ b.branches = a.branches
        /\ values' = values /\ ifs' = ifs /\ current' = current
    BY DEF Yields, flowVars
  <1>5. straight => OnStraightLine'
    BY FollowsFacts, SameLine DEF Agrees
  <1> QED
    BY <1>3, <1>4, <1>5, FollowsFacts DEF Agrees, Moves

LEMMA DropNothing ==
  ASSUME NEW S, NEW s \in Seq(S)
  PROVE  Drop(s, 0) = s
  <1>1. Len(s) \in Nat /\ 0 \in Nat /\ 0 <= Len(s) /\ Len(s) - 0 = Len(s)
    BY LenProperties
  <1>2. /\ Drop(s, 0) \in Seq(S)
        /\ Len(Drop(s, 0)) = Len(s) - 0
        /\ \A i \in 1 .. Len(s) - 0 : Drop(s, 0)[i] = s[i]
    BY ONLY <1>1, StackPop, s \in Seq(S) DEF Drop
  <1> QED
    BY <1>1, <1>2, SeqEqual

LEMMA DefineAgrees ==
  ASSUME NEW keep, NEW straight, NEW a, NEW b, Follows(keep, straight, a, b),
         NEW n \in Nat, n <= Len(operands), NEW type \in TensorType, Yields(a, b, n, type),
         NEW operation, NEW generated \in TensorType, Agree(keep, type, generated),
         Define(operation, n, generated), current # NoBlock, GenNode.kind \notin {"if", "endif"}
  PROVE  Moves(keep, straight, b)
  <1> DEFINE info == [value |-> nextValueId, type |-> generated]
  <1>1. info \in ValueInfo /\ info.type = generated
    BY FollowsFacts DEF ValueInfo, ValueId, TypeOK
  <1>2. operands' = Append(Pop(n), info) /\ UNCHANGED <<values, flowVars>> /\ Continue
    BY DEF Define
  <1> HIDE DEF info
  <1> QED
    BY <1>1, <1>2, YieldAgrees

\* The generator's operands agree with the types the analyser found.
LEMMA OperandsAgree ==
  ASSUME NEW keep, NEW straight, NEW a, NEW b, Follows(keep, straight, a, b)
  PROVE  /\ Len(operands) \in Nat
         /\ Len(operands) >= 1 =>
               /\ LastOperand \in ValueInfo /\ LastOperand.type \in TensorType
               /\ Top(a.exprTypes) \in TensorType
               /\ Agree(keep, Top(a.exprTypes), LastOperand.type)
         /\ Len(operands) >= 2 =>
               /\ PreviousOperand \in ValueInfo /\ PreviousOperand.type \in TensorType
               /\ Second(a.exprTypes) \in TensorType
               /\ Agree(keep, Second(a.exprTypes), PreviousOperand.type)
  <1>1. Top(operands) = LastOperand /\ Second(operands) = PreviousOperand
    BY DEF Top, Second, LastOperand, PreviousOperand
  <1>2. \A info \in ValueInfo : info.type \in TensorType
    BY DEF ValueInfo
  <1> QED
    BY <1>1, <1>2, FollowsFacts, AlignedTop, OperandTypes, LenProperties

LEMMA ExtentsType ==
  ASSUME NEW lhs \in TensorType, NEW rhs \in TensorType, ExtentsExist(lhs, rhs)
  PROVE  MatMulType(lhs, rhs) \in TensorType
  <1>1. lhs.shape \in Seq(Nat) /\ rhs.shape \in Seq(Nat) /\ lhs.elementType \in ElementTypes
    BY DEF TensorType
  <1>2. lhs.shape[1] \in Nat /\ rhs.shape[2] \in Nat
    BY <1>1, LenProperties, ElementOfSeq DEF ExtentsExist
  <1> QED
    BY <1>1, <1>2 DEF MatMulType, TensorType

(* Expressions: only a product of matrices can fail, of other types than   *)
(* those declared.                                                         *)
LEMMA ExpressionAgrees ==
  ASSUME NEW keep, NEW straight, NEW a, NEW b, Follows(keep, straight, a, b),
         \/ GenerateIdentifier \/ GenerateInteger \/ GenerateFloat \/ GenerateBinary
         \/ GenerateCall \/ GenerateRelu \/ GenerateMatMul
  PROVE  Moves(keep, straight, b) \/ (~ keep /\ Fail("outOfRange"))
  <1>0. /\ TypeOK /\ VisitsExpression(GenNode, a, b) /\ Len(operands) \in Nat
        /\ 0 \in Nat /\ 1 \in Nat /\ 2 \in Nat /\ 0 <= Len(operands)
    BY FollowsFacts, OperandsAgree DEF Visits
  <1>1. CASE GenerateIdentifier
    <2> DEFINE name == GenNode.name
    <2>1. /\ GenNode.kind = "identifier" /\ name \in Names /\ current # NoBlock
      BY <1>0, <1>1, GenNodeName DEF GenerateIdentifier, Emitting, Generating, GenNode
    <2>2. Declared(a.symbols, name) /\ Yields(a, b, 0, a.symbols[name])
      BY <1>0, <2>1 DEF VisitsExpression
    <2>3. /\ values[name] # NoValue /\ Agree(keep, a.symbols[name], values[name].type)
          /\ a.symbols[name] \in TensorType /\ values[name] \in ValueInfo
      BY <2>1, <2>2, FollowsFacts
      DEF EnvAgrees, Declared, SymbolTable, MaybeType, Environment
    <2>4. /\ operands' = Append(operands, values[name]) /\ Continue
          /\ UNCHANGED <<values, flowVars>>
      BY <1>1, <2>3 DEF GenerateIdentifier, codeVars
    <2>5. Pop(0) = operands
      BY FollowsFacts, DropNothing DEF Pop, Drop
    <2> QED
      BY <1>0, <2>1, <2>2, <2>3, <2>4, <2>5, YieldAgrees
  <1>2. CASE GenerateInteger \/ GenerateFloat
    <2>1. /\ current # NoBlock
          /\ \/ /\ GenNode.kind = "integer"
                /\ Define(ConstantIntOp(nextValueId, GenNode.value), 0, I64)
             \/ /\ GenNode.kind = "float"
                /\ Define(ConstantFloatOp(nextValueId, GenNode.value), 0, F64)
      BY <1>2 DEF GenerateInteger, GenerateFloat, Emitting, Generating, GenNode
    <2>2. Agree(keep, I64, I64) /\ Agree(keep, F64, F64)
      BY DEF Agree
    <2> QED
      BY <1>0, <2>1, <2>2, ScalarTypes, DefineAgrees DEF VisitsExpression
  <1>3. CASE GenerateBinary
    <2> DEFINE type == BinaryType(GenNode.op, Second(a.exprTypes))
    <2>1. GenNode.kind = "binary" /\ current # NoBlock /\ Len(operands) >= 2
      BY <1>3 DEF GenerateBinary, Emitting, Generating, GenNode
    <2>2. BinaryAllowed(Second(a.exprTypes), Top(a.exprTypes)) /\ Yields(a, b, 2, type)
      BY <1>0, <2>1 DEF VisitsExpression
    <2>3. /\ Second(a.exprTypes) \in TensorType /\ Top(a.exprTypes) \in TensorType
          /\ Agree(keep, Second(a.exprTypes), PreviousOperand.type)
          /\ Agree(keep, Top(a.exprTypes), LastOperand.type)
      BY <1>0, <2>1, OperandsAgree
    <2>4. /\ PreviousOperand.type = Second(a.exprTypes)
          /\ LastOperand.type = Top(a.exprTypes)
          /\ Second(a.exprTypes) = Top(a.exprTypes)
      BY <2>2, <2>3 DEF BinaryAllowed, Agree, TensorType
    <2>5. Define(BinaryOperation(GenNode.op, PreviousOperand, LastOperand), 2, type)
      BY <1>3, <2>4 DEF GenerateBinary
    <2>6. type \in TensorType /\ Agree(keep, type, type)
      BY <2>3, BinaryTypeType DEF Agree
    <2> QED
      BY <1>0, <2>1, <2>2, <2>5, <2>6, DefineAgrees
  <1>4. CASE GenerateCall
    <2>1. GenNode.kind = "call" /\ current # NoBlock
      BY <1>4 DEF GenerateCall, Emitting, Generating, GenNode
    <2>2. b = a /\ KnownCall(GenNode.callee, GenNode.arity)
      BY <1>0, <2>1 DEF VisitsExpression
    <2>3. Continue /\ UNCHANGED <<codeVars, flowVars, operands>>
      BY <1>4, <2>2 DEF GenerateCall
    <2>4. straight => OnStraightLine'
      BY <2>1, <2>3, FollowsFacts, SameLine DEF Agrees
    <2> QED
      BY <2>2, <2>3, <2>4, FollowsFacts DEF Agrees, Moves, codeVars, flowVars
  <1>5. CASE GenerateRelu
    <2>1. /\ GenNode.kind = "endcall" /\ GenNode.callee = "relu" /\ current # NoBlock
          /\ Len(operands) >= 1
      BY <1>5 DEF GenerateRelu, Emitting, Generating, GenNode
    <2>2. Yields(a, b, 1, Top(a.exprTypes))
      BY <1>0, <2>1 DEF VisitsExpression
    <2>3. /\ Top(a.exprTypes) \in TensorType /\ LastOperand.type \in TensorType
          /\ Agree(keep, Top(a.exprTypes), LastOperand.type)
      BY <2>1, OperandsAgree
    <2> QED
      BY <1>0, <1>5, <2>1, <2>2, <2>3, DefineAgrees DEF GenerateRelu
  <1>6. CASE GenerateMatMul
    <2> DEFINE lhs == Second(a.exprTypes)
               rhs == Top(a.exprTypes)
               generated == MatMulType(PreviousOperand.type, LastOperand.type)
    <2>1. /\ GenNode.kind = "endcall" /\ GenNode.callee = "matmul" /\ current # NoBlock
          /\ Len(operands) >= 2
      BY <1>6 DEF GenerateMatMul, Emitting, Generating, GenNode
    <2>2. MatMulAllowed(lhs, rhs) /\ Yields(a, b, 2, MatMulType(lhs, rhs))
      BY <1>0, <2>1 DEF VisitsExpression
    <2>3. /\ lhs \in TensorType /\ rhs \in TensorType
          /\ PreviousOperand.type \in TensorType /\ LastOperand.type \in TensorType
          /\ Agree(keep, lhs, PreviousOperand.type) /\ Agree(keep, rhs, LastOperand.type)
      BY <1>0, <2>1, OperandsAgree
    <2>4. ExtentsExist(PreviousOperand.type, LastOperand.type) \/ ~ keep
      BY <2>2, <2>3 DEF MatMulAllowed, ExtentsExist, Agree
    <2>5. CASE ~ ExtentsExist(PreviousOperand.type, LastOperand.type)
      BY <1>6, <2>4, <2>5 DEF GenerateMatMul
    <2>6. CASE ExtentsExist(PreviousOperand.type, LastOperand.type)
      <3>1. MatMulType(lhs, rhs) \in TensorType
        BY <2>2, <2>3, MatMulTypeType
      <3>2. generated \in TensorType
        BY <2>3, <2>6, ExtentsType
      <3>3. MatMulType(lhs, rhs).shape # <<>>
        BY DEF MatMulType
      <3>4. Agree(keep, MatMulType(lhs, rhs), generated)
        BY <2>3, <3>3 DEF Agree
      <3>5. Define(MatMulOp(nextValueId, PreviousOperand.value, LastOperand.value, generated), 2,
                   generated)
        BY <1>6, <2>6 DEF GenerateMatMul
      <3> QED
        BY <1>0, <2>1, <2>2, <3>1, <3>2, <3>4, <3>5, DefineAgrees
    <2> QED
      BY <2>5, <2>6
  <1> QED
    BY <1>1, <1>2, <1>3, <1>4, <1>5, <1>6

LEMMA GenNodeDeclared ==
  ASSUME TypeOK, Generating("tensor")
  PROVE  GenNode.type \in TensorType /\ GenNode.type.shape # <<>>
  BY GenNodeType DEF Node, IdentifierNode, LiteralNode, BinaryNode, CallNode, TensorNode,
                     AssignmentNode, ControlNode, DeclaredType

LEMMA HoldingNothing ==
  ASSUME TypeOK, Holding(0)
  PROVE  operands = <<>>
  BY EmptySeq DEF TypeOK, Holding

LEMMA DropOne ==
  ASSUME NEW keep, NEW straight, NEW a, NEW b, Follows(keep, straight, a, b), Len(operands) = 1
  PROVE  Aligned(keep, Drop(a.exprTypes, 1), Drop(operands, 1))
  <1>1. /\ a.exprTypes \in Seq(TensorType) /\ operands \in Seq(ValueInfo)
        /\ Aligned(keep, a.exprTypes, operands)
    BY FollowsFacts
  <1>2. 1 \in Nat /\ 1 <= Len(operands)
    OBVIOUS
  <1> QED
    BY <1>1, <1>2, AlignedDrop

(* Statements: a tensor declaration can fail, where its type is not the    *)
(* one stated or where the generator still has a value of the name.        *)
LEMMA StatementAgrees ==
  ASSUME NEW keep, NEW straight, NEW a, NEW b, Follows(keep, straight, a, b),
         GenerateTensorDeclaration \/ GenerateAssignment \/ GenerateReturn
  PROVE  \/ Moves(keep, straight, b)
         \/ ~ keep /\ Fail("unknownType")
         \/ ~ straight /\ Fail("duplicateValue")
  <1>0. /\ TypeOK /\ VisitsStatement(GenNode, a, b) /\ Len(operands) \in Nat
        /\ 1 \in Nat
    BY FollowsFacts, OperandsAgree DEF Visits
  <1>1. CASE GenerateTensorDeclaration
    <2> DEFINE name == GenNode.name
               type == LookupType(name)
    <2>1. /\ Generating("tensor") /\ GenNode.kind = "tensor" /\ name \in Names
          /\ current # NoBlock /\ Holding(0) /\ genPos \in DOMAIN prog
      BY <1>0, <1>1, GenNodeName
      DEF GenerateTensorDeclaration, Emitting, Generating, GenNode, TypeOK, SemaTypeOK
    <2>2. /\ ~ Declared(a.symbols, name)
          /\ b.symbols = Declare(a.symbols, name, GenNode.type)
          /\ b.exprTypes = a.exprTypes /\ b.branches = a.branches
      BY <1>0, <2>1 DEF VisitsStatement
    <2>3. GenNode.type \in TensorType /\ GenNode.type.shape # <<>>
      BY <1>0, <2>1, GenNodeDeclared
    <2>4. keep => type = GenNode.type
      BY <2>1 DEF Follows, DeclarationsKeepTheirTypes, GenNode
    <2>5. straight => values[name] = NoValue
      BY <2>1, <2>2, FollowsFacts DEF EnvAgrees
    <2>6. CASE type = NoType
      BY <1>1, <2>3, <2>4, <2>6, NoTypeNotType DEF GenerateTensorDeclaration
    <2>7. CASE type # NoType /\ values[name] # NoValue
      BY <1>1, <2>5, <2>7 DEF GenerateTensorDeclaration
    <2>8. CASE type # NoType /\ values[name] = NoValue
      <3> DEFINE info == [value |-> nextValueId, type |-> type]
      <3>1. /\ values' = [values EXCEPT ![name] = info] /\ Continue
            /\ UNCHANGED <<flowVars, operands>>
        BY <1>1, <2>8 DEF GenerateTensorDeclaration
      <3>2. info \in ValueInfo /\ info.type = type
        BY <1>0, <2>1, <2>8
        DEF LookupType, TypeOK, SemaTypeOK, SymbolTable, MaybeType, ValueInfo, ValueId
      <3> HIDE DEF info
      <3>3. Agree(keep, GenNode.type, info.type)
        BY <2>3, <2>4, <3>2 DEF Agree
      <3>4. EnvAgrees(keep, straight, b.symbols, values')
        <4>1. /\ EnvAgrees(keep, straight, a.symbols, values)
              /\ a.symbols \in SymbolTable /\ values \in Environment
          BY <2>1, FollowsFacts
        <4>2. EnvAgrees(keep, straight, Declare(a.symbols, name, GenNode.type),
                        [values EXCEPT ![name] = info])
          BY <2>1, <2>3, <3>2, <3>3, <4>1, EnvDeclare
        <4> QED
          BY <2>2, <3>1, <4>2
      <3>5. straight => OnStraightLine'
        BY <2>1, <3>1, FollowsFacts, SameLine DEF Agrees
      <3> QED
        BY <2>1, <2>2, <3>1, <3>4, <3>5, FollowsFacts DEF Agrees, Moves, flowVars
    <2> QED
      BY <2>6, <2>7, <2>8
  <1>2. CASE GenerateAssignment
    <2> DEFINE name == GenNode.name
    <2>1. /\ GenNode.kind = "assign" /\ name \in Names /\ current # NoBlock /\ Len(operands) = 1
      BY <1>0, <1>2, GenNodeName DEF GenerateAssignment, Emitting, Generating, GenNode, Holding
    <2>2. /\ b.symbols = Declare(a.symbols, name, Top(a.exprTypes))
          /\ b.exprTypes = Drop(a.exprTypes, 1) /\ b.branches = a.branches
      BY <1>0, <2>1 DEF VisitsStatement
    <2>3. /\ values' = [values EXCEPT ![name] = LastOperand] /\ operands' = Pop(1)
          /\ Continue /\ UNCHANGED flowVars
      BY <1>2 DEF GenerateAssignment
    <2>4. /\ LastOperand \in ValueInfo /\ Top(a.exprTypes) \in TensorType
          /\ Agree(keep, Top(a.exprTypes), LastOperand.type)
      BY <2>1, OperandsAgree
    <2>5. EnvAgrees(keep, straight, b.symbols, values')
      <3>1. /\ EnvAgrees(keep, straight, a.symbols, values)
            /\ a.symbols \in SymbolTable /\ values \in Environment
        BY <2>1, FollowsFacts
      <3>2. EnvAgrees(keep, straight, Declare(a.symbols, name, Top(a.exprTypes)),
                      [values EXCEPT ![name] = LastOperand])
        BY <2>1, <2>4, <3>1, EnvDeclare
      <3> QED
        BY <2>2, <2>3, <3>2
    <2>6. Aligned(keep, b.exprTypes, operands')
      <3>1. Aligned(keep, Drop(a.exprTypes, 1), Drop(operands, 1))
        BY <2>1, DropOne
      <3> QED
        BY <2>2, <2>3, <3>1 DEF Pop, Drop
    <2>7. straight => OnStraightLine'
      BY <2>1, <2>3, FollowsFacts, SameLine DEF Agrees
    <2> QED
      BY <2>1, <2>2, <2>3, <2>5, <2>6, <2>7, FollowsFacts DEF Agrees, Moves, flowVars
  <1>3. CASE GenerateReturn
    <2>1. GenNode.kind = "return" /\ current # NoBlock /\ Len(operands) = 1
      BY <1>0, <1>3 DEF GenerateReturn, Emitting, Generating, GenNode, Holding
    <2>2. b.exprTypes = Drop(a.exprTypes, 1) /\ b.branches = a.branches
      BY <1>0, <2>1 DEF VisitsStatement
    <2>3. /\ current' = NoBlock /\ operands' = Pop(1) /\ ifs' = ifs
          /\ Continue
      BY <1>3 DEF GenerateReturn
    <2>4. operands' = <<>>
      <3>1. Pop(1) \in Seq(ValueInfo) /\ Len(Pop(1)) = 0
        BY <1>0, <2>1, FollowsFacts, StackPop DEF Pop
      <3> QED
        BY <2>3, <3>1, EmptySeq
    <2>5. Aligned(keep, b.exprTypes, operands')
      BY <2>4, FollowsFacts, AlignedEmpty
    <2>6. ASSUME straight PROVE OnStraightLine'
      <3>1. OnStraightLine /\ ~ HasEarlyReturn
        BY <2>6, FollowsFacts DEF Agrees, Follows
      <3>2. ~ Depth(prog, 1, genPos) > 0 /\ Len(ifs) = Depth(prog, 1, genPos) /\ genPos \in Nat
            /\ 1 <= genPos
        BY <2>1, <3>1, FollowsFacts
        DEF HasEarlyReturn, OnStraightLine, GenNode, TypeOK, SemaTypeOK
      <3>3. ifs = <<>> /\ Len(ifs) = 0
        BY <3>2, FollowsFacts, LenProperties, EmptySeq
      <3>4. genPos' = genPos + 1 /\ prog' = prog
        BY <2>3 DEF Continue, semaVars
      <3>5. Depth(prog, 1, genPos + 1) = Depth(prog, 1, genPos) + 0
        BY <2>1, <3>2, DepthNext DEF GenNode
      <3> QED
        BY <2>3, <3>2, <3>3, <3>4, <3>5 DEF OnStraightLine
    <2> QED
      BY <2>2, <2>3, <2>4, <2>5, <2>6, FollowsFacts DEF Agrees, Moves
  <1> QED
    BY <1>1, <1>2, <1>3

(* An if statement starts: its condition is an i1 for both passes.         *)
LEMMA IfAgrees ==
  ASSUME NEW keep, NEW straight, NEW a, NEW b, Follows(keep, straight, a, b), GenerateIf
  PROVE  Moves(keep, straight, b)
  <1>0. /\ TypeOK /\ VisitsBranch(GenNode, a, b) /\ Len(operands) \in Nat
        /\ 1 \in Nat
    BY FollowsFacts, OperandsAgree DEF Visits
  <1>1. GenNode.kind = "if" /\ current # NoBlock /\ Len(operands) = 1
    BY <1>0 DEF GenerateIf, Emitting, Generating, GenNode, Holding
  <1> DEFINE frame == [before |-> a.symbols, inElse |-> FALSE, thenSymbols |-> NoSymbols]
             gen == [before |-> values, elseBlock |-> nextBlockId + 1, inElse |-> FALSE,
                     thenEnd |-> NoBlock, thenValues |-> NoValues]
  <1>2. /\ Top(a.exprTypes) = I1 /\ b.symbols = a.symbols
        /\ b.exprTypes = Drop(a.exprTypes, 1) /\ b.branches = Append(a.branches, frame)
    BY <1>0, <1>1 DEF VisitsBranch, ConditionAllowed
  <1>3. LastOperand.type = I1
    BY <1>1, <1>2, OperandsAgree DEF Agree, I1, Scalar
  <1>4. /\ current' = nextBlockId /\ operands' = Pop(1) /\ ifs' = Append(ifs, gen)
        /\ values' = values /\ Continue
    BY <1>3 DEF GenerateIf
  <1>5. frame \in IfFrame /\ gen \in GenFrame
    BY <1>0, FollowsFacts
    DEF IfFrame, GenFrame, TypeOK, BlockId, MaybeBlock, NoSymbols, SymbolTable, MaybeType,
        NoValues, Environment
  <1>6. FrameAgrees(keep, straight, frame, gen)
    BY <1>1, FollowsFacts DEF FrameAgrees
  <1> HIDE DEF frame, gen
  <1>7. FramesAgree(keep, straight, b.branches, ifs')
    BY <1>2, <1>4, <1>5, <1>6, FollowsFacts, FramesPush
  <1>8. Aligned(keep, b.exprTypes, operands')
    <2>1. Aligned(keep, Drop(a.exprTypes, 1), Drop(operands, 1))
      BY <1>1, DropOne
    <2> QED
      BY <1>2, <1>4, <2>1 DEF Pop, Drop
  <1>9. current' # NoBlock
    BY <1>0, <1>4 DEF TypeOK, NoBlock
  <1>10. ASSUME straight PROVE OnStraightLine'
    <2>1. genPos' = genPos + 1 /\ prog' = prog /\ genPos \in Nat /\ 1 <= genPos
      BY <1>0, <1>4 DEF Continue, semaVars, TypeOK
    <2>2. Depth(prog, 1, genPos + 1) = Depth(prog, 1, genPos) + 1
      BY <1>1, <2>1, DepthNext DEF GenNode
    <2>3. Len(ifs') = Len(ifs) + 1
      BY <1>4, <1>5, FollowsFacts, AppendProperties
    <2> QED
      BY <1>9, <1>10, <2>1, <2>2, <2>3, FollowsFacts DEF OnStraightLine, Agrees
  <1> QED
    BY <1>1, <1>2, <1>4, <1>7, <1>8, <1>9, <1>10, FollowsFacts DEF Agrees, Moves

(* The first block ends: both passes go back to what they knew before it.  *)
LEMMA ElseAgrees ==
  ASSUME NEW keep, NEW straight, NEW a, NEW b, Follows(keep, straight, a, b), GenerateElse
  PROVE  Moves(keep, straight, b)
  <1>0. TypeOK /\ VisitsBranch(GenNode, a, b)
    BY FollowsFacts DEF Visits
  <1> DEFINE frame == [Top(a.branches) EXCEPT !.inElse = TRUE, !.thenSymbols = a.symbols]
             gen == [GenIf EXCEPT !.inElse = TRUE, !.thenEnd = current, !.thenValues = values]
  <1>1. GenNode.kind = "else" /\ Holding(0) /\ ifs # <<>>
    BY DEF GenerateElse, Generating, GenNode
  <1>2. /\ b.symbols = Top(a.branches).before /\ b.exprTypes = a.exprTypes
        /\ b.branches = [a.branches EXCEPT ![Len(a.branches)] = frame]
    BY <1>0, <1>1 DEF VisitsBranch, Top
  <1>3. /\ ifs' = [ifs EXCEPT ![Len(ifs)] = gen]
        /\ current' = GenIf.elseBlock /\ values' = GenIf.before
        /\ operands' = operands /\ Continue
    BY DEF GenerateElse, GenIf
  <1>4. /\ a.branches # <<>> /\ Top(a.branches) \in IfFrame
        /\ GenIf \in GenFrame /\ GenIf = Top(ifs)
        /\ FrameAgrees(keep, straight, Top(a.branches), GenIf)
    <2>1. a.branches # <<>> /\ FrameAgrees(keep, straight, Top(a.branches), Top(ifs))
      BY <1>1, FollowsFacts, FramesDrop
    <2> QED
      BY <1>0, <1>1, <2>1, FollowsFacts, StackTop, FrameType DEF Top, GenIf
  <1>5. /\ frame \in IfFrame /\ frame.before = Top(a.branches).before
        /\ frame.inElse = TRUE /\ frame.thenSymbols = a.symbols
    BY <1>4, FollowsFacts DEF IfFrame
  <1>6. /\ gen \in GenFrame /\ gen.before = GenIf.before
        /\ gen.inElse = TRUE /\ gen.thenEnd = current /\ gen.thenValues = values
    BY <1>0, <1>4 DEF GenFrame, TypeOK
  <1> HIDE DEF frame, gen
  <1>7. straight => current # NoBlock
    BY <1>1, FollowsFacts DEF Agrees, OnStraightLine
  <1>8. FrameAgrees(keep, straight, frame, gen)
    BY <1>4, <1>5, <1>6, <1>7, FollowsFacts DEF FrameAgrees
  <1>9. FramesAgree(keep, straight, b.branches, ifs')
    <2>1. /\ a.branches \in Seq(IfFrame) /\ ifs \in Seq(GenFrame)
          /\ FramesAgree(keep, straight, a.branches, ifs)
      BY FollowsFacts
    <2>2. FramesAgree(keep, straight, [a.branches EXCEPT ![Len(a.branches)] = frame],
                      [ifs EXCEPT ![Len(ifs)] = gen])
      BY <1>1, <1>5, <1>6, <1>8, <2>1, FramesReplace
    <2> QED
      BY <1>2, <1>3, <2>2
  <1>10. current' # NoBlock
    BY <1>3, <1>4 DEF GenFrame, BlockId, NoBlock
  <1>11. EnvAgrees(keep, straight, b.symbols, values')
    BY <1>2, <1>3, <1>4 DEF FrameAgrees
  <1>12. ASSUME straight PROVE OnStraightLine'
    <2>1. genPos' = genPos + 1 /\ prog' = prog /\ genPos \in Nat /\ 1 <= genPos
      BY <1>0, <1>3 DEF Continue, semaVars, TypeOK
    <2>2. Depth(prog, 1, genPos + 1) = Depth(prog, 1, genPos) + 0
      BY <1>1, <2>1, DepthNext DEF GenNode
    <2>3. Depth(prog, 1, genPos) \in Int
      BY <2>1, DepthNext
    <2>4. Len(ifs') = Len(ifs)
      BY <1>1, <1>3, <1>6, FollowsFacts, StackReplace
    <2>5. Len(ifs) = Depth(prog, 1, genPos)
      BY <1>12, FollowsFacts DEF OnStraightLine, Agrees
    <2> QED
      BY <1>10, <2>1, <2>2, <2>3, <2>4, <2>5 DEF OnStraightLine
  <1> QED
    BY <1>2, <1>3, <1>9, <1>10, <1>11, <1>12, FollowsFacts DEF Agrees, Moves

\* What both passes know where an if statement ends.
LEMMA EndAgrees ==
  ASSUME NEW keep, NEW straight, NEW a, NEW b, Follows(keep, straight, a, b),
         GenNode.kind = "endif", Holding(0), ifs # <<>>
  PROVE  LET frame == Top(a.branches) IN
         /\ FrameAgrees(keep, straight, frame, GenIf)
         /\ frame.inElse /\ GenIf \in GenFrame
         /\ BranchesAgree(frame.before, frame.thenSymbols, a.symbols)
         /\ Extends(a.symbols, frame.before) /\ Extends(frame.thenSymbols, frame.before)
         /\ b.symbols = MergedSymbols(frame.before, frame.thenSymbols, a.symbols)
         /\ FramesAgree(keep, straight, b.branches, SubSeq(ifs, 1, Len(ifs) - 1))
         /\ Aligned(keep, b.exprTypes, operands) /\ operands = <<>>
         /\ straight => current # NoBlock /\ GenIf.thenEnd # NoBlock
  <1> DEFINE frame == Top(a.branches)
  <1>1. TypeOK /\ VisitsBranch(GenNode, a, b)
    BY FollowsFacts DEF Visits
  <1>2. /\ a.branches # <<>> /\ FrameAgrees(keep, straight, frame, Top(ifs))
        /\ FramesAgree(keep, straight, Drop(a.branches, 1), Drop(ifs, 1))
    BY FollowsFacts, FramesDrop
  <1>3. /\ frame.inElse
        /\ BranchesAgree(frame.before, frame.thenSymbols, a.symbols)
        /\ b.symbols = MergedSymbols(frame.before, frame.thenSymbols, a.symbols)
        /\ b.branches = Drop(a.branches, 1)
    BY <1>1 DEF VisitsBranch
  <1>4. Extends(a.symbols, frame.before) /\ Extends(frame.thenSymbols, frame.before)
    <2>1. Nested(a) /\ Len(a.branches) \in 1 .. Len(a.branches)
      BY <1>2, FollowsFacts, StackTop DEF Follows
    <2> QED
      BY <1>3, <2>1 DEF Nested, Top
  <1>5. GenIf \in GenFrame /\ GenIf = Top(ifs) /\ Drop(ifs, 1) = SubSeq(ifs, 1, Len(ifs) - 1)
    BY <1>1, FrameType DEF GenIf, Top, Drop
  <1>6. operands = <<>> /\ Aligned(keep, b.exprTypes, operands)
    BY <1>1, HoldingNothing, FollowsFacts, AlignedEmpty
  <1>7. straight => current # NoBlock
    BY FollowsFacts DEF Agrees, OnStraightLine
  <1>8. straight => GenIf.thenEnd # NoBlock
    BY <1>2, <1>3, <1>5 DEF FrameAgrees
  <1> QED
    BY <1>2, <1>3, <1>4, <1>5, <1>6, <1>7, <1>8

LEMMA EndLine ==
  ASSUME TypeOK, OnStraightLine, GenNode.kind = "endif", Continue, ifs # <<>>, current' # NoBlock,
         ifs' = SubSeq(ifs, 1, Len(ifs) - 1)
  PROVE  OnStraightLine'
  <1>1. genPos' = genPos + 1 /\ prog' = prog /\ genPos \in Nat /\ 1 <= genPos
    BY DEF Continue, semaVars, TypeOK
  <1>3. /\ Depth(prog, 1, genPos) \in Int
        /\ Depth(prog, 1, genPos + 1) = Depth(prog, 1, genPos)
              + (IF prog[genPos].kind = "if" THEN 1 ELSE IF prog[genPos].kind = "endif" THEN -1 ELSE 0)
    BY <1>1, DepthNext
  <1>2. Depth(prog, 1, genPos + 1) = Depth(prog, 1, genPos) - 1
    BY <1>3 DEF GenNode
  <1>4. Len(ifs') = Len(ifs) - 1
    BY StackPopTop DEF TypeOK
  <1> QED
    BY <1>1, <1>2, <1>3, <1>4 DEF OnStraightLine

(* An if statement ends: the generator can find types that differ only     *)
(* where blocks return, or tensors have other types than those stated.     *)
LEMMA EndIfAgrees ==
  ASSUME NEW keep, NEW straight, NEW a, NEW b, Follows(keep, straight, a, b),
         GenerateEndIfClosed \/ GenerateEndIfOne \/ GenerateEndIfBoth
  PROVE  \/ Moves(keep, straight, b)
         \/ ~ (keep /\ straight) /\ Fail("branchType")
  <1> DEFINE frame == Top(a.branches)
             merged == MergedSymbols(frame.before, frame.thenSymbols, a.symbols)
  <1>1. GenNode.kind = "endif" /\ Holding(0) /\ ifs # <<>>
    BY DEF GenerateEndIfClosed, GenerateEndIfOne, GenerateEndIfBoth, EndIf, Generating, GenNode
  <1>2. /\ TypeOK /\ values \in Environment
        /\ current # NoBlock => EnvAgrees(keep, straight, a.symbols, values)
    BY FollowsFacts
  <1>3. /\ FrameAgrees(keep, straight, frame, GenIf)
        /\ frame.inElse /\ GenIf \in GenFrame
        /\ BranchesAgree(frame.before, frame.thenSymbols, a.symbols)
        /\ Extends(a.symbols, frame.before) /\ Extends(frame.thenSymbols, frame.before)
        /\ b.symbols = merged
        /\ FramesAgree(keep, straight, b.branches, SubSeq(ifs, 1, Len(ifs) - 1))
        /\ Aligned(keep, b.exprTypes, operands) /\ operands = <<>>
        /\ straight => current # NoBlock /\ GenIf.thenEnd # NoBlock
    BY <1>1, EndAgrees
  <1>4. GenIf.thenEnd # NoBlock => EnvAgrees(keep, straight, frame.thenSymbols, GenIf.thenValues)
    BY <1>3 DEF FrameAgrees
  <1> HIDE DEF frame
  <1>5. Extends(frame.thenSymbols, merged) /\ Extends(a.symbols, merged)
    BY <1>3, MergedIsVisible
  <1> HIDE DEF merged
  <1>6. ASSUME EndIf, current' # NoBlock, EnvAgrees(keep, straight, merged, values')
        PROVE  Moves(keep, straight, b)
    <2>1. /\ ifs' = SubSeq(ifs, 1, Len(ifs) - 1) /\ operands' = operands /\ Continue
      BY <1>6 DEF EndIf
    <2>2. straight => OnStraightLine'
      BY <1>1, <1>2, <1>6, <2>1, FollowsFacts, EndLine DEF Agrees
    <2> QED
      BY <1>3, <1>6, <2>1, <2>2 DEF Agrees, Moves
  <1>7. CASE GenerateEndIfClosed
    <2>1. /\ ifs' = SubSeq(ifs, 1, Len(ifs) - 1) /\ operands' = operands
          /\ current' = NoBlock /\ current = NoBlock /\ Continue
      BY <1>7 DEF GenerateEndIfClosed, EndIf
    <2> QED
      BY <1>3, <2>1 DEF Agrees, Moves
  <1>8. CASE GenerateEndIfOne
    <2>1. /\ EndIf /\ values' = SurvivingValues /\ current' = nextBlockId
          /\ (GenIf.thenEnd = NoBlock) # (current = NoBlock)
      BY <1>8 DEF GenerateEndIfOne, Merge
    <2>2. ~ straight /\ current' # NoBlock
      BY <1>2, <1>3, <2>1 DEF TypeOK, NoBlock
    <2>3. EnvAgrees(keep, straight, merged, values')
      BY <1>2, <1>4, <1>5, <2>1, <2>2, EnvNarrow DEF SurvivingValues
    <2> QED
      BY <1>6, <2>1, <2>2, <2>3
  <1>9. CASE GenerateEndIfBoth
    <2>1. GenIf.thenEnd # NoBlock /\ current # NoBlock /\ GenIf.thenValues \in Environment
      BY <1>3, <1>9 DEF GenerateEndIfBoth, GenFrame
    <2>2. CASE Conflict(GenIf.thenValues, values)
      <3>1. ~ (keep /\ straight)
        BY <1>2, <1>3, <1>4, <2>1, <2>2, NothingConflicts
      <3> QED
        BY <1>9, <2>2, <3>1 DEF GenerateEndIfBoth
    <2>3. CASE ~ Conflict(GenIf.thenValues, values)
      <3>1. PICK order \in SetToSeqs(Differing(GenIf.thenValues, values)) :
               /\ current' = nextBlockId
               /\ values' = MergedValues(order, GenIf.thenValues, values)
        BY <1>9, <2>3 DEF GenerateEndIfBoth, Merge
      <3>2. EndIf
        BY <1>9, <2>3 DEF GenerateEndIfBoth
      <3>3. current' # NoBlock
        BY <1>2, <3>1 DEF TypeOK, NoBlock
      <3>4. EnvAgrees(keep, straight, merged, values')
        BY <1>2, <1>3, <1>4, <2>1, <3>1, MergedAgrees DEF merged
      <3> QED
        BY <1>6, <3>2, <3>3, <3>4
    <2> QED
      BY <2>2, <2>3
  <1> QED
    BY <1>7, <1>8, <1>9

-----------------------------------------------------------------------------
(* Statements the generator skips *)

\* A visit changes at most the innermost frame.
LEMMA VisitFrames ==
  ASSUME NEW node \in Node, NEW a \in Analysis, NEW b \in Analysis, Visits(node, a, b),
         NEW n \in Nat, n <= Len(a.branches),
         node.kind \in {"else", "endif"} => n + 1 <= Len(a.branches)
  PROVE  /\ Len(b.branches) = Len(a.branches)
               + (IF node.kind = "if" THEN 1 ELSE IF node.kind = "endif" THEN -1 ELSE 0)
         /\ \A i \in 1 .. n : b.branches[i] = a.branches[i]
  <1>1. a.branches \in Seq(IfFrame) /\ b.branches \in Seq(IfFrame)
        /\ Len(a.branches) \in Nat /\ a.symbols \in SymbolTable
    BY LenProperties DEF Analysis
  <1>2. VisitsExpression(node, a, b) /\ VisitsStatement(node, a, b) /\ VisitsBranch(node, a, b)
    BY DEF Visits
  <1>3. CASE node.kind = "if"
    <2> DEFINE frame == [before |-> a.symbols, inElse |-> FALSE, thenSymbols |-> NoSymbols]
    <2>1. frame \in IfFrame
      BY <1>1 DEF IfFrame, NoSymbols, SymbolTable, MaybeType
    <2>2. b.branches = Append(a.branches, frame)
      BY <1>2, <1>3 DEF VisitsBranch
    <2> HIDE DEF frame
    <2>3. /\ Len(b.branches) = Len(a.branches) + 1
          /\ \A i \in 1 .. Len(a.branches) : b.branches[i] = a.branches[i]
      BY <1>1, <2>1, <2>2, AppendProperties
    <2> QED
      BY <1>1, <1>3, <2>3
  <1>4. CASE node.kind = "else"
    <2> DEFINE frame == [Top(a.branches) EXCEPT !.inElse = TRUE, !.thenSymbols = a.symbols]
    <2>1. a.branches # <<>> /\ b.branches = [a.branches EXCEPT ![Len(a.branches)] = frame]
      BY <1>2, <1>4 DEF VisitsBranch, Top
    <2>2. Top(a.branches) \in IfFrame
      BY <1>1, <2>1, StackTop DEF Top
    <2>3. frame \in IfFrame
      BY <1>1, <2>2 DEF IfFrame
    <2> HIDE DEF frame
    <2>4. /\ Len(b.branches) = Len(a.branches)
          /\ \A i \in 1 .. Len(a.branches) - 1 : b.branches[i] = a.branches[i]
      BY <1>1, <2>1, <2>3, StackReplace
    <2>5. n + 1 <= Len(a.branches)
      BY <1>4
    <2> QED
      BY <1>1, <1>4, <2>4, <2>5
  <1>5. CASE node.kind = "endif"
    <2>1. a.branches # <<>> /\ b.branches = SubSeq(a.branches, 1, Len(a.branches) - 1)
      BY <1>2, <1>5 DEF VisitsBranch, Drop
    <2>2. /\ Len(b.branches) = Len(a.branches) - 1
          /\ \A i \in 1 .. Len(b.branches) : b.branches[i] = a.branches[i]
      BY <1>1, <2>1, StackPopTop
    <2>3. n + 1 <= Len(a.branches)
      BY <1>5
    <2> QED
      BY <1>1, <1>5, <2>2, <2>3
  <1>6. CASE node.kind \notin {"if", "else", "endif"}
    <2>1. node.kind \in {"identifier", "integer", "float", "binary", "call", "endcall",
                         "tensor", "assign", "return"}
      BY <1>6 DEF Node, IdentifierNode, LiteralNode, BinaryNode, CallNode, TensorNode,
         AssignmentNode, ControlNode
    <2>2. b.branches = a.branches
      BY <1>2, <2>1 DEF VisitsExpression, VisitsStatement, Yields
    <2>3. node.kind # "if" /\ node.kind # "endif"
      BY <1>6
    <2> QED
      BY <1>1, <2>2, <2>3
  <1> QED
    BY <1>3, <1>4, <1>5, <1>6

\* trace goes from start to end by visits of the nodes of p.
Walked(p, trace, start, end) ==
    /\ \A q \in start .. end : trace[q] \in Analysis
    /\ \A q \in start .. end - 1 : p[q] \in Node /\ Visits(p[q], trace[q], trace[q + 1])

SameFrames(a, b) ==
    /\ Len(b.branches) = Len(a.branches)
    /\ \A i \in 1 .. Len(a.branches) : b.branches[i] = a.branches[i]

\* From a node of a block to the end of the block, the analyser leaves the
\* frames of the block and of those around it as they are.
LEMMA SkipKeepsFrames ==
  ASSUME NEW p, NEW trace, NEW start \in Nat, NEW end \in Nat, start <= end,
         Walked(p, trace, start, end), EndsBlockOf(p, start, end)
  PROVE  SameFrames(trace[start], trace[end])
  <1>0. /\ \A q \in start .. end : trace[q] \in Analysis
        /\ \A q \in start .. end - 1 : p[q] \in Node /\ Visits(p[q], trace[q], trace[q + 1])
    BY DEF Walked
  <1> DEFINE n == Len(trace[start].branches)
             FramesKept(q) == /\ Depth(p, start, q) \in Nat
                        /\ Len(trace[q].branches) = n + Depth(p, start, q)
                        /\ \A i \in 1 .. n : trace[q].branches[i] = trace[start].branches[i]
             S == {d \in Nat : start + d <= end => FramesKept(start + d)}
  <1>1. n \in Nat
    <2>1. trace[start] \in Analysis
      BY <1>0
    <2> QED
      BY <2>1, LenProperties DEF Analysis
  <1>2. 0 \in S
    <2>1. start + 0 = start /\ Depth(p, start, start) = 0
      BY DepthNext
    <2> QED
      BY <1>1, <2>1
  <1>3. ASSUME NEW d \in Nat, d \in S PROVE d + 1 \in S
    <2> SUFFICES ASSUME start + (d + 1) <= end PROVE FramesKept(start + (d + 1))
      OBVIOUS
    <2> DEFINE q == start + d
    <2>1. q \in start .. end - 1 /\ q \in start .. end /\ q + 1 \in start .. end /\ q \in Nat
          /\ start <= q /\ start + (d + 1) = q + 1
      OBVIOUS
    <2>2. FramesKept(q)
      BY <1>3, <2>1
    <2> HIDE DEF q, n, S
    <2>3. /\ trace[q] \in Analysis /\ trace[q + 1] \in Analysis
          /\ p[q] \in Node /\ Visits(p[q], trace[q], trace[q + 1])
      BY <1>0, <2>1
    <2>4. p[q].kind \in {"else", "endif"} => Depth(p, start, q) # 0
      BY <2>1 DEF EndsBlockOf
    <2>5. n <= Len(trace[q].branches)
      BY <1>1, <2>2
    <2>6. p[q].kind \in {"else", "endif"} => n + 1 <= Len(trace[q].branches)
      BY <1>1, <2>2, <2>4
    <2>7. /\ Len(trace[q + 1].branches) = Len(trace[q].branches)
               + (IF p[q].kind = "if" THEN 1 ELSE IF p[q].kind = "endif" THEN -1 ELSE 0)
          /\ \A i \in 1 .. n : trace[q + 1].branches[i] = trace[q].branches[i]
      BY <1>1, <2>3, <2>5, <2>6, VisitFrames, ZenonT(40)
    <2>8. Depth(p, start, q + 1) = Depth(p, start, q)
               + (IF p[q].kind = "if" THEN 1 ELSE IF p[q].kind = "endif" THEN -1 ELSE 0)
      BY <2>1, DepthNext
    <2>9. Depth(p, start, q + 1) \in Nat
          /\ Len(trace[q + 1].branches) = n + Depth(p, start, q + 1)
      <3>1. /\ Depth(p, start, q) \in Nat
            /\ Len(trace[q].branches) = n + Depth(p, start, q)
        BY <2>2
      <3>2. CASE p[q].kind = "if"
        BY <1>1, <2>7, <2>8, <3>1, <3>2
      <3>3. CASE p[q].kind = "endif"
        <4>1. Depth(p, start, q) # 0
          BY <2>4, <3>3
        <4> QED
          BY <1>1, <2>7, <2>8, <3>1, <3>3, <4>1
      <3>4. CASE p[q].kind # "if" /\ p[q].kind # "endif"
        BY <1>1, <2>7, <2>8, <3>1, <3>4
      <3> QED
        BY <3>2, <3>3, <3>4
    <2>10. FramesKept(q + 1)
      BY <2>2, <2>7, <2>9
    <2> QED
      BY <2>1, <2>10
  <1>4. end - start \in S
    <2>1. end - start \in Nat
      OBVIOUS
    <2> HIDE DEF S
    <2>2. \A d \in Nat : d \in S
      BY <1>2, <1>3, SetInduction
    <2> QED
      BY <2>1, <2>2
  <1>5. FramesKept(end)
    <2>1. start + (end - start) = end
      OBVIOUS
    <2> QED
      BY <1>4, <2>1
  <1>6. Depth(p, start, end) = 0
    BY DEF EndsBlockOf
  <1> QED
    BY <1>1, <1>5, <1>6 DEF SameFrames

\* The generator goes on at the end of the block.
LEMMA SkipAgrees ==
  ASSUME NEW keep, NEW straight, NEW a \in Analysis, NEW b \in Analysis,
         Agrees(keep, straight, a), SkipUnreachable, SameFrames(a, b)
  PROVE  Agrees(keep, straight, b)'
  <1>1. /\ current = NoBlock /\ ifs # <<>>
        /\ current' = current /\ ifs' = ifs /\ operands' = operands
    BY DEF SkipUnreachable, flowVars
  <1>2. operands = <<>> /\ ~ straight
    BY <1>1 DEF Agrees, OnStraightLine
  <1>3. Aligned(keep, b.exprTypes, operands')
    BY <1>1, <1>2, AlignedEmpty DEF Analysis
  <1>4. FramesAgree(keep, straight, b.branches, ifs')
    BY <1>1 DEF Agrees, FramesAgree, SameFrames
  <1> QED
    BY <1>1, <1>2, <1>3, <1>4 DEF Agrees

-----------------------------------------------------------------------------
(* The values returned *)

\* The operations of m are where they were in t.
Longer(m, t) ==
    /\ Len(m.blocks) <= Len(t.blocks)
    /\ \A b \in 1 .. Len(m.blocks) :
          /\ Len(m.blocks[b].operations) <= Len(t.blocks[b].operations)
          /\ \A k \in 1 .. Len(m.blocks[b].operations) :
                t.blocks[b].operations[k] = m.blocks[b].operations[k]

\* What m returns is an i64.
ReturnsTyped(m) ==
    \A b \in 1 .. Len(m.blocks) : m.blocks[b].terminator.op = "return" =>
        HasType(m, m.blocks[b].terminator.value, I64)

\* A block of t that returns did so in m, or returns an i64.
ReturnsFollow(m, t) ==
    \A b \in 1 .. Len(t.blocks) : t.blocks[b].terminator.op = "return" =>
        \/ b <= Len(m.blocks) /\ t.blocks[b].terminator = m.blocks[b].terminator
        \/ HasType(m, t.blocks[b].terminator.value, I64)

LEMMA LongerType ==
  ASSUME NEW m \in Module, NEW t \in Module, Longer(m, t), NEW value, NEW type,
         HasType(m, value, type)
  PROVE  HasType(t, value, type)
  <1>1. PICK p \in Places(m) : /\ resultOf(OperationAt(m, p)) = value
                               /\ typeOf(OperationAt(m, p)) = type
    BY DEF HasType, Definitions
  <1>2. PICK b, k : /\ p = <<b, k>> /\ b \in 1 .. Len(m.blocks)
                    /\ k \in 1 .. Len(m.blocks[b].operations)
                    /\ OperationAt(m, p) = m.blocks[b].operations[k]
    BY PlaceFacts
  <1>3. b \in 1 .. Len(t.blocks)
    BY <1>2, BlockTypes DEF Longer
  <1>4. k \in 1 .. Len(t.blocks[b].operations)
    <2>1. Len(m.blocks[b].operations) \in Nat /\ Len(t.blocks[b].operations) \in Nat
      BY <1>2, <1>3, BlockTypes
    <2>2. Len(m.blocks[b].operations) <= Len(t.blocks[b].operations)
      BY <1>2 DEF Longer
    <2> QED
      BY <1>2, <2>1, <2>2
  <1>5. p \in Places(t) /\ OperationAt(t, p) = OperationAt(m, p)
    <2>1. <<b, k>> \in Places(t) /\ OperationAt(t, <<b, k>>) = t.blocks[b].operations[k]
      BY <1>3, <1>4, PlaceFacts
    <2>2. t.blocks[b].operations[k] = m.blocks[b].operations[k]
      BY <1>2 DEF Longer
    <2> QED
      BY <1>2, <2>1, <2>2
  <1> QED
    BY <1>1, <1>5 DEF HasType, Definitions

LEMMA LongerReturns ==
  ASSUME NEW m \in Module, NEW t \in Module, Longer(m, t), ReturnsFollow(m, t), ReturnsTyped(m)
  PROVE  ReturnsTyped(t)
  <1>1. ASSUME NEW b \in 1 .. Len(t.blocks), t.blocks[b].terminator.op = "return"
        PROVE  HasType(m, t.blocks[b].terminator.value, I64)
    <2>1. CASE b <= Len(m.blocks) /\ t.blocks[b].terminator = m.blocks[b].terminator
      <3>1. b \in 1 .. Len(m.blocks)
        BY <2>1, BlockTypes
      <3> QED
        BY <1>1, <2>1, <3>1 DEF ReturnsTyped
    <2> QED
      BY <1>1, <2>1 DEF ReturnsFollow
  <1> QED
    BY <1>1, LongerType DEF ReturnsTyped

\* Blocks change their terminators, and there may be more of them.
LEMMA SameOperations ==
  ASSUME NEW m \in Module, NEW t \in Module, Len(m.blocks) <= Len(t.blocks),
         \A b \in 1 .. Len(m.blocks) : t.blocks[b].operations = m.blocks[b].operations
  PROVE  Longer(m, t)
  BY BlockTypes DEF Longer

LEMMA EmitFollows ==
  ASSUME TypeOK, GraphInvariant, current # NoBlock, NEW operation, Emit(operation)
  PROVE  Longer(module, module') /\ ReturnsFollow(module, module')
  <1> DEFINE c == current + 1
             blocks == module.blocks
             new == module'.blocks
             ops == blocks[c].operations
  <1>1. /\ module \in Module /\ blocks \in Seq(BasicBlock) /\ current \in Nat
        /\ c \in 1 .. Len(blocks) /\ Len(blocks) \in Nat
    BY StateTypes, CurrentIsOpen, LenProperties
  <1>2. new = [blocks EXCEPT ![c].operations = Append(@, operation)]
    BY <1>1 DEF Emit, AppendTo, Module
  <1>3. \A b \in 1 .. Len(blocks) : blocks[b] \in BasicBlock
    BY <1>1, ElementOfSeq
  <1>4. /\ Len(new) = Len(blocks)
        /\ \A b \in 1 .. Len(blocks) : b # c => new[b] = blocks[b]
        /\ new[c] = [blocks[c] EXCEPT !.operations = Append(ops, operation)]
    BY <1>1, <1>2
  <1>5. /\ new[c].terminator = blocks[c].terminator
        /\ new[c].operations = Append(ops, operation)
    BY <1>1, <1>3, <1>4 DEF BasicBlock
  <1>6. /\ Len(ops) \in Nat /\ Len(Append(ops, operation)) = Len(ops) + 1
        /\ \A k \in 1 .. Len(ops) : Append(ops, operation)[k] = ops[k]
    <2>1. ops \in Seq(Operation \cup {operation})
      BY <1>1, <1>3 DEF BasicBlock
    <2> QED
      BY <2>1, AppendProperties, LenProperties
  <1> HIDE DEF new, ops
  <1>7. \A b \in 1 .. Len(blocks) :
           /\ Len(blocks[b].operations) \in Nat
           /\ Len(blocks[b].operations) <= Len(new[b].operations)
           /\ \A k \in 1 .. Len(blocks[b].operations) :
                 new[b].operations[k] = blocks[b].operations[k]
           /\ new[b].terminator = blocks[b].terminator
    <2> SUFFICES ASSUME NEW b \in 1 .. Len(blocks)
                 PROVE  /\ Len(blocks[b].operations) \in Nat
                        /\ Len(blocks[b].operations) <= Len(new[b].operations)
                        /\ \A k \in 1 .. Len(blocks[b].operations) :
                              new[b].operations[k] = blocks[b].operations[k]
                        /\ new[b].terminator = blocks[b].terminator
      OBVIOUS
    <2>1. Len(blocks[b].operations) \in Nat
      BY <1>1, BlockTypes
    <2>2. CASE b = c
      <3>1. ops = blocks[b].operations
        BY <2>2 DEF ops
      <3> QED
        <4>1. /\ Len(new[b].operations) = Len(blocks[b].operations) + 1
              /\ \A k \in 1 .. Len(blocks[b].operations) :
                    new[b].operations[k] = blocks[b].operations[k]
          BY <1>5, <1>6, <2>2, <3>1
        <4>2. new[b].terminator = blocks[b].terminator
          BY <1>5, <2>2
        <4> QED
          BY <2>1, <4>1, <4>2
    <2>3. CASE b # c
      <3>1. new[b] = blocks[b]
        BY <1>4, <2>3
      <3> QED
        BY <2>1, <3>1
    <2> QED
      BY <2>2, <2>3
  <1> QED
    BY <1>1, <1>4, <1>7 DEF Longer, ReturnsFollow, new

LEMMA ReturnFollows ==
  ASSUME TypeOK, TypeOK', GraphInvariant, GenerateReturn, HasType(module, LastOperand.value, I64)
  PROVE  Longer(module, module') /\ ReturnsFollow(module, module')
  <1> DEFINE op == ReturnOp(LastOperand.value)
  <1>1. /\ current # NoBlock /\ Len(operands) >= 1
        /\ module' = [module EXCEPT !.blocks = Close(module.blocks, current, op)]
    BY DEF GenerateReturn, Emitting, Holding
  <1>2. /\ module \in Module /\ module' \in Module /\ module.blocks \in Seq(BasicBlock)
        /\ current \in Nat /\ current + 1 \in 1 .. Len(module.blocks)
    BY <1>1, StateTypes, CurrentIsOpen DEF TypeOK
  <1>3. op \in Terminator /\ op.op = "return" /\ op.value = LastOperand.value
    BY <1>1, OperandTypes, TerminatorTypes DEF ValueInfo, ValueId, ReturnOp
  <1> HIDE DEF op
  <1>4. ClosedWith(module.blocks, module'.blocks, current, op)
    BY <1>1, <1>2, <1>3, ClosedFacts
  <1>5. Longer(module, module')
    BY <1>2, <1>4, BlockTypes, SameOperations DEF ClosedWith
  <1>6. ReturnsFollow(module, module')
    BY <1>2, <1>3, <1>4, BlockTypes DEF ReturnsFollow, ClosedWith
  <1> QED
    BY <1>5, <1>6

LEMMA IfFollows ==
  ASSUME TypeOK, TypeOK', GraphInvariant, GenerateIf
  PROVE  Longer(module, module') /\ ReturnsFollow(module, module')
  <1>1. CASE Fail("conditionType")
    BY <1>1, BlocksType, BlockTypes DEF Fail, codeVars, Longer, ReturnsFollow, TypeOK
  <1>2. CASE ~ Fail("conditionType")
    <2> DEFINE n == nextBlockId
               op == CondBranchOp(LastOperand.value, n, n + 1)
               closed == Close(module.blocks, current, op)
    <2>1. /\ current # NoBlock /\ Len(operands) >= 1
          /\ module' = [module EXCEPT !.blocks = closed \o <<NewBlock(n), NewBlock(n + 1)>>]
      BY <1>2 DEF GenerateIf, Emitting, Holding
    <2>2. /\ module \in Module /\ module' \in Module /\ module.blocks \in Seq(BasicBlock)
          /\ current \in Nat /\ current + 1 \in 1 .. Len(module.blocks) /\ n \in Nat
          /\ Len(module.blocks) \in Nat
      BY <2>1, StateTypes, CurrentIsOpen, LenProperties DEF TypeOK
    <2>3. op \in Terminator /\ op.op = "condbranch"
      <3>1. LastOperand.value \in Nat /\ n + 1 \in Nat
        BY <2>1, <2>2, OperandTypes DEF ValueInfo, ValueId
      <3> HIDE DEF n
      <3> QED
        BY <2>2, <3>1, TerminatorTypes DEF CondBranchOp
    <2>4. NewBlock(n) \in BasicBlock /\ NewBlock(n + 1) \in BasicBlock
          /\ NewBlock(n).terminator.op = "none" /\ NewBlock(n + 1).terminator.op = "none"
      BY <2>2, NewBlockType DEF NewBlock, NoTerminator
    <2>5. module'.blocks = closed \o <<NewBlock(n), NewBlock(n + 1)>>
      BY <2>1, <2>2 DEF Module
    <2> HIDE DEF op
    <2>6. closed \in Seq(BasicBlock) /\ ClosedWith(module.blocks, closed, current, op)
      BY <2>2, <2>3, CloseType, CloseFacts
    <2> HIDE DEF closed, n
    <2>7. /\ Len(module'.blocks) = Len(closed) + 2
          /\ \A b \in 1 .. Len(closed) : module'.blocks[b] = closed[b]
          /\ module'.blocks[Len(closed) + 1] = NewBlock(n)
          /\ module'.blocks[Len(closed) + 2] = NewBlock(n + 1)
      BY <2>4, <2>5, <2>6, ForkFacts
    <2>8. Longer(module, module')
      <3>1. Len(closed) = Len(module.blocks)
            /\ \A b \in 1 .. Len(module.blocks) :
                  closed[b].operations = module.blocks[b].operations
        BY <2>6 DEF ClosedWith
      <3>2. Len(module.blocks) <= Len(module'.blocks)
        BY <2>2, <2>7, <3>1
      <3> QED
        BY <2>2, <2>7, <3>1, <3>2, SameOperations
    <2>9. ASSUME NEW b \in 1 .. Len(module'.blocks), module'.blocks[b].terminator.op = "return"
          PROVE  b <= Len(module.blocks)
                 /\ module'.blocks[b].terminator = module.blocks[b].terminator
      <3>1. CASE b \in 1 .. Len(module.blocks)
        BY <2>3, <2>6, <2>7, <2>9, <3>1 DEF ClosedWith
      <3>2. CASE b = Len(closed) + 1 \/ b = Len(closed) + 2
        BY <2>4, <2>7, <2>9, <3>2
      <3> QED
        <4>1. Len(closed) = Len(module.blocks)
          BY <2>6 DEF ClosedWith
        <4>2. b \in 1 .. Len(module.blocks) + 2
          BY <2>7, <4>1
        <4>3. b \in 1 .. Len(module.blocks) \/ b = Len(closed) + 1 \/ b = Len(closed) + 2
          BY <2>2, <4>1, <4>2
        <4> QED
          BY <2>2, <3>1, <3>2, <4>3
    <2> QED
      BY <2>8, <2>9 DEF ReturnsFollow
  <1> QED
    BY <1>1, <1>2

LEMMA MergeFollows ==
  ASSUME TypeOK, TypeOK', NEW ends, NEW operations \in Seq(Operation), Merge(ends, operations)
  PROVE  Longer(module, module') /\ ReturnsFollow(module, module')
  <1>1. /\ module \in Module /\ module' \in Module /\ module.blocks \in Seq(BasicBlock)
        /\ nextBlockId \in Nat /\ Len(module.blocks) \in Nat
    BY BlocksType, LenProperties DEF TypeOK
  <1>2. module'.blocks = Joined(module.blocks, ends, nextBlockId, operations)
    BY <1>1 DEF Merge, Module
  <1>3. /\ Len(module'.blocks) = Len(module.blocks) + 1
        /\ \A b \in 1 .. Len(module.blocks) :
              /\ module'.blocks[b].operations = module.blocks[b].operations
              /\ b - 1 \in ends => module'.blocks[b].terminator = BranchOp(nextBlockId)
              /\ b - 1 \notin ends => module'.blocks[b] = module.blocks[b]
        /\ module'.blocks[Len(module.blocks) + 1].terminator = NoTerminator
    <2> DEFINE t == Joined(module.blocks, ends, nextBlockId, operations)
    <2>1. /\ Len(t) = Len(module.blocks) + 1
          /\ \A b \in 1 .. Len(module.blocks) :
                /\ t[b].operations = module.blocks[b].operations
                /\ b - 1 \in ends => t[b].terminator = BranchOp(nextBlockId)
                /\ b - 1 \notin ends => t[b] = module.blocks[b]
          /\ t[Len(module.blocks) + 1] =
                [id |-> nextBlockId, operations |-> operations, terminator |-> NoTerminator]
      BY <1>1, JoinedFacts
    <2> HIDE DEF t
    <2>2. module'.blocks = t
      BY <1>2 DEF t
    <2> QED
      BY <2>1, <2>2
  <1>4. Longer(module, module')
    BY <1>1, <1>3, SameOperations
  <1>5. BranchOp(nextBlockId).op = "branch" /\ NoTerminator.op = "none"
    BY DEF BranchOp, NoTerminator
  <1>6. ASSUME NEW b \in 1 .. Len(module'.blocks), module'.blocks[b].terminator.op = "return"
        PROVE  b <= Len(module.blocks)
               /\ module'.blocks[b].terminator = module.blocks[b].terminator
    <2>1. CASE b \in 1 .. Len(module.blocks)
      BY <1>3, <1>5, <1>6, <2>1
    <2>2. CASE b = Len(module.blocks) + 1
      BY <1>3, <1>5, <1>6, <2>2
    <2> QED
      BY <1>1, <1>3, <2>1, <2>2
  <1> QED
    BY <1>4, <1>6 DEF ReturnsFollow

-----------------------------------------------------------------------------
(* The invariant *)

\* Where the analysis starts.
Nothing == [symbols |-> NoSymbols, exprTypes |-> <<>>, branches |-> <<>>]

\* trace holds the state of the analyser at each node it has visited.
Analysed(trace) ==
    /\ trace[1] = Nothing
    /\ trace[semaPos] = Now
    /\ \A q \in 1 .. semaPos - 1 : Visits(prog[q], trace[q], trace[q + 1])
    /\ \A q \in 1 .. semaPos : Nested(trace[q])

\* What keep and straight stand for.
Allowed(keep, straight) ==
    (keep => DeclarationsKeepTheirTypes) /\ (straight => ~ HasEarlyReturn)

\* The generator agrees with the analyser's state at the node it visits.
Followed(trace) ==
    genStatus = "generating" => \A keep, straight \in BOOLEAN :
        Allowed(keep, straight) => Agrees(keep, straight, trace[genPos])

Phases ==
    /\ semaStatus = "accepted" => semaPos = Len(prog) + 1
    /\ genStatus # "idle" => semaStatus = "accepted"
    /\ genStatus = "idle" => /\ genPos = 1 /\ genError = "none" /\ values = NoValues
                             /\ current = NoBlock /\ operands = <<>> /\ ifs = <<>>

\* What the generator throws for.
Blamed(keep, straight, error) ==
    /\ error \notin {"unresolved", "binaryType", "unsupportedCall", "conditionType", "verify"}
    /\ error \in {"outOfRange", "unknownType"} => ~ keep
    /\ error = "duplicateValue" => ~ straight
    /\ error = "branchType" => ~ (keep /\ straight)

BlamesRightly ==
    \A keep, straight \in BOOLEAN : Allowed(keep, straight) => Blamed(keep, straight, genError)

Agreement ==
    /\ \E trace \in [1 .. semaPos -> Analysis] : Analysed(trace) /\ Followed(trace)
    /\ Phases
    /\ BlamesRightly
    /\ ReturnsTyped(module)

(* The analyser visits a node, or it is done.                              *)
LEMMA AnalysisEnds ==
  ASSUME SemaTypeOK, SemaStep, semaStatus' # "analyzing"
  PROVE  /\ UNCHANGED <<prog, semaPos, symbols, exprTypes, branches>>
         /\ semaStatus = "analyzing"
         /\ semaStatus' = "accepted" => semaPos = Len(prog) + 1
  <1>1. ASSUME Advance, semaStatus = "analyzing" PROVE FALSE
    BY <1>1 DEF Advance
  <1>2. semaStatus = "analyzing"
    BY DEF SemaStep, AnalyzeIdentifier, AnalyzeInteger, AnalyzeFloat, AnalyzeBinary, AnalyzeCall,
           AnalyzeRelu, AnalyzeMatMul, AnalyzeTensorDeclaration, AnalyzeAssignment, AnalyzeReturn,
           AnalyzeIf, AnalyzeElse, AnalyzeEndIf, Accept, Visiting
  <1>3. Reject \/ Accept
    BY <1>1, <1>2
    DEF SemaStep, AnalyzeIdentifier, AnalyzeInteger, AnalyzeFloat, AnalyzeBinary, AnalyzeCall,
        AnalyzeRelu, AnalyzeMatMul, AnalyzeTensorDeclaration, AnalyzeAssignment, AnalyzeReturn,
        AnalyzeIf, AnalyzeElse, AnalyzeEndIf, Yield
  <1>4. CASE Reject
    BY <1>2, <1>4 DEF Reject
  <1>5. CASE Accept
    <2>1. Len(prog) \in Nat /\ semaPos \in 1 .. Len(prog) + 1
      BY LenProperties DEF SemaTypeOK
    <2> QED
      BY <1>2, <1>5, <2>1 DEF Accept
  <1> QED
    BY <1>3, <1>4, <1>5

LEMMA NextNow ==
  ASSUME SemaTypeOK', ScopesNest', NEW next, next = Now'
  PROVE  next \in Analysis /\ Nested(next)
  <1>1. /\ next = [symbols |-> symbols', exprTypes |-> exprTypes', branches |-> branches']
        /\ next.symbols = symbols' /\ next.branches = branches'
    BY DEF Now
  <1>2. next \in Analysis
    BY <1>1 DEF SemaTypeOK, Analysis
  <1> QED
    BY <1>1, <1>2 DEF ScopesNest, Nested, Extends, Declared

\* The trace grows with the analysis.
LEMMA TraceGrows ==
  ASSUME SemaTypeOK, SemaTypeOK', ScopesNest', SemaStep,
         NEW trace \in [1 .. semaPos -> Analysis], Analysed(trace)
  PROVE  \E longer \in [1 .. semaPos' -> Analysis] : Analysed(longer)'
  <1>0. semaPos \in Nat /\ 1 <= semaPos
    BY LenProperties DEF SemaTypeOK
  <1>1. CASE semaStatus' = "analyzing"
    <2>1. /\ semaPos' = semaPos + 1 /\ prog' = prog
          /\ Visits(prog[semaPos], Now, Now')
      BY <1>1, StepVisits
    <2>2. PICK next : next = Now'
      OBVIOUS
    <2>3. next \in Analysis /\ Nested(next)
      BY <2>2, NextNow
    <2>4. PICK longer \in [1 .. semaPos + 1 -> Analysis] :
             /\ longer[semaPos + 1] = next
             /\ \A q \in 1 .. semaPos : longer[q] = trace[q]
      <3> DEFINE f == [q \in 1 .. semaPos + 1 |-> IF q = semaPos + 1 THEN next ELSE trace[q]]
      <3>1. /\ f \in [1 .. semaPos + 1 -> Analysis]
            /\ f[semaPos + 1] = next
            /\ \A q \in 1 .. semaPos : f[q] = trace[q]
        BY <1>0, <2>3
      <3> HIDE DEF f
      <3> QED
        BY <3>1
    <2>5. longer[1] = Nothing
      BY <1>0, <2>4 DEF Analysed
    <2>6. \A q \in 1 .. semaPos : Visits(prog[q], longer[q], longer[q + 1])
      <3> SUFFICES ASSUME NEW q \in 1 .. semaPos
                   PROVE  Visits(prog[q], longer[q], longer[q + 1])
        OBVIOUS
      <3>1. CASE q = semaPos
        BY <1>0, <2>1, <2>2, <2>4, <3>1 DEF Analysed
      <3>2. CASE q # semaPos
        <4>1. q \in 1 .. semaPos - 1 /\ q + 1 \in 1 .. semaPos
          BY <1>0, <3>2
        <4> QED
          BY <2>4, <4>1 DEF Analysed
      <3> QED
        BY <3>1, <3>2
    <2>7. \A q \in 1 .. semaPos + 1 : Nested(longer[q])
      <3>1. \A q \in 1 .. semaPos + 1 : q \in 1 .. semaPos \/ q = semaPos + 1
        BY <1>0
      <3> QED
        BY <2>3, <2>4, <3>1 DEF Analysed
    <2>8. (semaPos + 1) - 1 = semaPos
      BY <1>0
    <2>9. Analysed(longer)'
      BY <2>1, <2>2, <2>4, <2>5, <2>6, <2>7, <2>8 DEF Analysed
    <2> QED
      BY <2>1, <2>4, <2>9
  <1>2. CASE semaStatus' # "analyzing"
    <2>1. UNCHANGED <<prog, semaPos, symbols, exprTypes, branches>>
      BY <1>2, AnalysisEnds
    <2>2. Analysed(trace)'
      BY <2>1 DEF Analysed, Now
    <2> QED
      BY <2>1, <2>2
  <1> QED
    BY <1>1, <1>2

-----------------------------------------------------------------------------
(* The generator's steps *)

\* The generator visits a node.
Visit ==
    \/ GenerateIdentifier \/ GenerateInteger \/ GenerateFloat \/ GenerateBinary
    \/ GenerateCall \/ GenerateRelu \/ GenerateMatMul
    \/ GenerateTensorDeclaration \/ GenerateAssignment \/ GenerateReturn
    \/ GenerateIf \/ GenerateElse
    \/ GenerateEndIfClosed \/ GenerateEndIfOne \/ GenerateEndIfBoth

Excused(keep, straight) ==
    \E error \in GenErrors : Blamed(keep, straight, error) /\ Fail(error)

LEMMA VisitsGenerate ==
  ASSUME TypeOK, Visit
  PROVE  genStatus = "generating" /\ genPos \in 1 .. Len(prog)
  <1>1. ASSUME NEW kind, Generating(kind)
        PROVE  genStatus = "generating" /\ genPos \in 1 .. Len(prog)
    BY <1>1 DEF Generating, TypeOK
  <1> QED
    BY <1>1
    DEF Visit, GenerateIdentifier, GenerateInteger, GenerateFloat, GenerateBinary, GenerateCall,
        GenerateRelu, GenerateMatMul, GenerateTensorDeclaration, GenerateAssignment,
        GenerateReturn, GenerateIf, GenerateElse, GenerateEndIfClosed, GenerateEndIfOne,
        GenerateEndIfBoth, EndIf, Emitting

\* What the two passes know when the generator visits a node.
LEMMA VisitFollows ==
  ASSUME TypeOK, Phases, NEW trace \in [1 .. semaPos -> Analysis], Analysed(trace),
         Followed(trace), Visit, NEW keep \in BOOLEAN, NEW straight \in BOOLEAN,
         Allowed(keep, straight)
  PROVE  Follows(keep, straight, trace[genPos], trace[genPos + 1])
  <1>1. genStatus = "generating" /\ genPos \in 1 .. Len(prog) /\ Len(prog) \in Nat
    BY VisitsGenerate, LenProperties DEF TypeOK, SemaTypeOK
  <1>2. semaPos = Len(prog) + 1
    BY <1>1 DEF Phases
  <1>3. /\ genPos \in 1 .. semaPos /\ genPos + 1 \in 1 .. semaPos
        /\ genPos \in 1 .. semaPos - 1 /\ genPos <= Len(prog)
    BY <1>1, <1>2
  <1>4. trace[genPos] \in Analysis /\ trace[genPos + 1] \in Analysis
    BY <1>3
  <1>5. Nested(trace[genPos]) /\ Visits(prog[genPos], trace[genPos], trace[genPos + 1])
    BY <1>3 DEF Analysed
  <1>6. Agrees(keep, straight, trace[genPos])
    BY <1>1 DEF Followed
  <1> QED
    BY <1>3, <1>4, <1>5, <1>6 DEF Follows, Allowed, GenNode

LEMMA VisitAgrees ==
  ASSUME TypeOK, NEW keep, NEW straight, NEW a, NEW b, Follows(keep, straight, a, b), Visit
  PROVE  Moves(keep, straight, b) \/ Excused(keep, straight)
  <1>1. /\ "outOfRange" \in GenErrors /\ "unknownType" \in GenErrors
        /\ "duplicateValue" \in GenErrors /\ "branchType" \in GenErrors
    BY DEF GenErrors
  <1>2. ASSUME ~ keep, Fail("outOfRange") \/ Fail("unknownType") PROVE Excused(keep, straight)
    BY <1>1, <1>2 DEF Excused, Blamed
  <1>3. ASSUME ~ straight, Fail("duplicateValue") PROVE Excused(keep, straight)
    BY <1>1, <1>3 DEF Excused, Blamed
  <1>4. ASSUME ~ (keep /\ straight), Fail("branchType") PROVE Excused(keep, straight)
    BY <1>1, <1>4 DEF Excused, Blamed
  <1>5. CASE \/ GenerateIdentifier \/ GenerateInteger \/ GenerateFloat \/ GenerateBinary
             \/ GenerateCall \/ GenerateRelu \/ GenerateMatMul
    BY <1>2, <1>5, ExpressionAgrees
  <1>6. CASE GenerateTensorDeclaration \/ GenerateAssignment \/ GenerateReturn
    BY <1>2, <1>3, <1>6, StatementAgrees
  <1>7. CASE GenerateIf
    BY <1>7, IfAgrees
  <1>8. CASE GenerateElse
    BY <1>8, ElseAgrees
  <1>9. CASE GenerateEndIfClosed \/ GenerateEndIfOne \/ GenerateEndIfBoth
    BY <1>4, <1>9, EndIfAgrees
  <1> QED
    BY <1>5, <1>6, <1>7, <1>8, <1>9 DEF Visit

\* What it generates returns nothing but an i64.
LEMMA VisitReturns ==
  ASSUME TypeOK, TypeOK', ValuesInvariant, ReturnsTyped(module), Visit,
         NEW a, NEW b, Follows(FALSE, FALSE, a, b)
  PROVE  ReturnsTyped(module')
  <1>0. /\ module \in Module /\ module' \in Module /\ GraphInvariant
    BY DEF TypeOK, ValuesInvariant
  <1>1. ASSUME module' = module PROVE ReturnsTyped(module')
    BY <1>1
  <1>2. ASSUME NEW error, Fail(error) PROVE ReturnsTyped(module')
    BY <1>1, <1>2 DEF Fail, codeVars
  <1>3. ASSUME Longer(module, module'), ReturnsFollow(module, module')
        PROVE  ReturnsTyped(module')
    BY <1>0, <1>3, LongerReturns
  <1>4. ASSUME NEW kind, Emitting(kind), NEW operation, NEW n, NEW type, Define(operation, n, type)
        PROVE  ReturnsTyped(module')
    BY <1>0, <1>3, <1>4, EmitFollows DEF Define, Emitting
  <1>5. CASE GenerateIdentifier \/ GenerateCall
    BY <1>1, <1>2, <1>5 DEF GenerateIdentifier, GenerateCall, codeVars
  <1>6. CASE GenerateInteger \/ GenerateFloat \/ GenerateRelu
    BY <1>4, <1>6 DEF GenerateInteger, GenerateFloat, GenerateRelu
  <1>7. CASE GenerateBinary \/ GenerateMatMul
    BY <1>2, <1>4, <1>7 DEF GenerateBinary, GenerateMatMul
  <1>8. CASE GenerateTensorDeclaration
    BY <1>0, <1>2, <1>3, <1>8, EmitFollows DEF GenerateTensorDeclaration, Emitting
  <1>9. CASE GenerateAssignment \/ GenerateElse \/ GenerateEndIfClosed
    BY <1>1, <1>9 DEF GenerateAssignment, GenerateElse, GenerateEndIfClosed
  <1>10. CASE GenerateReturn
    <2>1. GenNode.kind = "return" /\ current # NoBlock /\ Len(operands) >= 1
      BY <1>10 DEF GenerateReturn, Emitting, Generating, GenNode, Holding
    <2>2. Top(a.exprTypes) = I64
      BY <2>1, FollowsFacts DEF Visits, VisitsStatement
    <2>3. LastOperand.type = I64
      <3>1. Agree(FALSE, I64, LastOperand.type)
        BY <2>1, <2>2, OperandsAgree
      <3> QED
        BY <3>1 DEF Agree, I64, Scalar
    <2>4. Known(module, LastOperand, current)
      BY <2>1, KnownOperands DEF ValuesInvariant
    <2>5. HasType(module, LastOperand.value, I64)
      BY <2>3, <2>4 DEF Known, HasType
    <2> QED
      BY <1>0, <1>3, <1>10, <2>5, ReturnFollows
  <1>11. CASE GenerateIf
    BY <1>0, <1>3, <1>11, IfFollows
  <1>12. CASE GenerateEndIfOne
    <2>1. <<>> \in Seq(Operation)
      OBVIOUS
    <2> QED
      BY <1>0, <1>3, <1>12, <2>1, MergeFollows DEF GenerateEndIfOne
  <1>13. CASE GenerateEndIfBoth
    <2>1. CASE Conflict(GenIf.thenValues, values)
      BY <1>2, <1>13, <2>1 DEF GenerateEndIfBoth
    <2>2. CASE ~ Conflict(GenIf.thenValues, values)
      <3>1. /\ GenIf.thenEnd # NoBlock /\ current # NoBlock /\ ifs # <<>>
        BY <1>13 DEF GenerateEndIfBoth
      <3>2. PICK order \in SetToSeqs(Differing(GenIf.thenValues, values)) :
               Merge({GenIf.thenEnd, current},
                     Phis(order, GenIf.thenEnd, current, GenIf.thenValues, values))
        BY <1>13, <2>2 DEF GenerateEndIfBoth
      <3>3. Phis(order, GenIf.thenEnd, current, GenIf.thenValues, values) \in Seq(Operation)
        <4>1. /\ GenIf.thenEnd \in MaybeBlock /\ current \in MaybeBlock
              /\ GenIf.thenValues \in Environment /\ values \in Environment
          BY <3>1, FrameType DEF TypeOK, GenFrame
        <4>2. GenIf.thenEnd \in Nat /\ current \in Nat
          BY <3>1, <4>1 DEF MaybeBlock, BlockId
        <4> QED
          BY <4>1, <4>2, PhisType
      <3> QED
        BY <1>3, <3>2, <3>3, MergeFollows
    <2> QED
      BY <2>1, <2>2
  <1> QED
    BY <1>5, <1>6, <1>7, <1>8, <1>9, <1>10, <1>11, <1>12, <1>13 DEF Visit

LEMMA SameAllowed ==
  ASSUME UNCHANGED semaVars, NEW keep, NEW straight
  PROVE  Allowed(keep, straight)' <=> Allowed(keep, straight)
  <1>1. prog' = prog /\ symbols' = symbols
    BY DEF semaVars
  <1>2. DeclarationsKeepTheirTypes' <=> DeclarationsKeepTheirTypes
    BY <1>1 DEF DeclarationsKeepTheirTypes, LookupType
  <1>3. HasEarlyReturn' <=> HasEarlyReturn
    BY <1>1 DEF HasEarlyReturn
  <1> QED
    BY <1>2, <1>3 DEF Allowed

LEMMA VisitKeepsAgreement ==
  ASSUME TypeOK, TypeOK', ValuesInvariant, Agreement, Visit
  PROVE  Agreement'
  <1>1. PICK trace \in [1 .. semaPos -> Analysis] : Analysed(trace) /\ Followed(trace)
    BY DEF Agreement
  <1>2. genStatus = "generating" /\ genError = "none" /\ Phases
    BY VisitsGenerate DEF Agreement, ValuesInvariant, Progress
  <1>12. PICK a, b : a = trace[genPos] /\ b = trace[genPos + 1]
    OBVIOUS
  <1>3. ASSUME NEW keep \in BOOLEAN, NEW straight \in BOOLEAN, Allowed(keep, straight)
        PROVE  /\ Follows(keep, straight, a, b)
               /\ Moves(keep, straight, b) \/ Excused(keep, straight)
    <2>1. Follows(keep, straight, a, b)
      BY <1>1, <1>2, <1>12, <1>3, VisitFollows
    <2> QED
      BY <2>1, VisitAgrees
  <1>4. Allowed(FALSE, FALSE)
    BY DEF Allowed
  <1>5. ReturnsTyped(module)'
    <2>1. Follows(FALSE, FALSE, a, b)
      BY <1>3, <1>4
    <2>2. ReturnsTyped(module)
      BY DEF Agreement
    <2> QED
      BY <2>1, <2>2, VisitReturns DEF ReturnsTyped
  <1>6. /\ UNCHANGED semaVars /\ genStatus' \in {"generating", "failed"}
        /\ genStatus' = "generating" => genPos' = genPos + 1
    BY <1>2, <1>3, <1>4 DEF Moves, Excused, Continue, Fail
  <1>7. Analysed(trace)' /\ semaPos' = semaPos
    <2>1. /\ semaPos' = semaPos /\ prog' = prog /\ symbols' = symbols
          /\ exprTypes' = exprTypes /\ branches' = branches
      BY <1>6 DEF semaVars
    <2> QED
      BY <1>1, <2>1 DEF Analysed, Now
  <1>8. ASSUME NEW keep \in BOOLEAN, NEW straight \in BOOLEAN, Allowed(keep, straight)'
        PROVE  /\ genStatus' = "generating" => Agrees(keep, straight, b)'
               /\ Blamed(keep, straight, genError')
    <2>1. Allowed(keep, straight)
      BY <1>6, <1>8, SameAllowed
    <2>2. CASE Moves(keep, straight, b)
      BY <1>2, <2>2 DEF Moves, Continue, Blamed
    <2>3. CASE Excused(keep, straight)
      BY <2>3 DEF Excused, Fail
    <2> QED
      BY <1>3, <2>1, <2>2, <2>3
  <1>9. Followed(trace)'
    <2>1. ASSUME genStatus' = "generating" PROVE b = trace[genPos']
      BY <1>6, <1>12, <2>1
    <2> QED
      BY <1>8, <2>1 DEF Followed, Agrees
  <1>10. BlamesRightly'
    BY <1>8 DEF BlamesRightly
  <1>11. Phases'
    <2>1. genStatus' # "idle" /\ genStatus # "idle"
          /\ semaStatus' = semaStatus /\ semaPos' = semaPos /\ prog' = prog
      BY <1>2, <1>6 DEF semaVars
    <2> QED
      BY <1>2, <2>1 DEF Phases
  <1> QED
    BY <1>5, <1>7, <1>9, <1>10, <1>11 DEF Agreement

\* What a step leaves alone besides the state of the generator it names.
LEMMA AnalysedStays ==
  ASSUME UNCHANGED semaVars, NEW trace, Analysed(trace)
  PROVE  Analysed(trace)' /\ semaPos' = semaPos /\ prog' = prog /\ semaStatus' = semaStatus
  <1>1. /\ semaPos' = semaPos /\ prog' = prog /\ symbols' = symbols /\ semaStatus' = semaStatus
        /\ exprTypes' = exprTypes /\ branches' = branches
    BY DEF semaVars
  <1> QED
    BY <1>1 DEF Analysed, Now

\* Before the first node neither pass knows anything.
LEMMA StartAgrees ==
  ASSUME StartGeneration, genPos = 1, values = NoValues, operands = <<>>, ifs = <<>>,
         nextBlockId \in Nat, NEW keep, NEW straight
  PROVE  Agrees(keep, straight, Nothing)'
  <1>1. /\ operands' = <<>> /\ ifs' = <<>> /\ values' = NoValues /\ genPos' = 1
        /\ current' # NoBlock /\ prog' = prog
    BY DEF StartGeneration, semaVars, NoBlock
  <1>2. Aligned(keep, <<>>, <<>>)
    <2>1. <<>> \in Seq(TensorType)
      OBVIOUS
    <2> QED
      BY <2>1, AlignedEmpty
  <1>3. EnvAgrees(keep, straight, NoSymbols, NoValues)
    BY DEF EnvAgrees, NoSymbols, NoValues, Declared
  <1>4. FramesAgree(keep, straight, <<>>, <<>>)
    BY DEF FramesAgree
  <1>5. OnStraightLine'
    <2>1. Depth(prog, 1, 1) = 0 /\ Len(<<>>) = 0
      BY DepthNext
    <2> QED
      BY <1>1, <2>1 DEF OnStraightLine
  <1>6. /\ Nothing.exprTypes = <<>> /\ Nothing.symbols = NoSymbols /\ Nothing.branches = <<>>
    BY DEF Nothing
  <1> QED
    BY <1>1, <1>2, <1>3, <1>4, <1>5, <1>6 DEF Agrees

LEMMA StartKeepsAgreement ==
  ASSUME TypeOK, Agreement, StartGeneration
  PROVE  Agreement'
  <1>1. PICK trace \in [1 .. semaPos -> Analysis] : Analysed(trace)
    BY DEF Agreement
  <1>2. /\ genStatus = "idle" /\ semaStatus = "accepted" /\ genStatus' = "generating"
        /\ UNCHANGED semaVars /\ genPos' = genPos /\ genError' = genError
    BY DEF StartGeneration
  <1>3. /\ semaPos = Len(prog) + 1 /\ genPos = 1 /\ genError = "none" /\ values = NoValues
        /\ operands = <<>> /\ ifs = <<>>
    BY <1>2 DEF Agreement, Phases
  <1>4. Analysed(trace)' /\ semaPos' = semaPos /\ prog' = prog /\ semaStatus' = semaStatus
    BY <1>1, <1>2, AnalysedStays
  <1>5. Followed(trace)'
    <2>1. trace[genPos'] = Nothing
      BY <1>1, <1>2, <1>3 DEF Analysed
    <2>2. ASSUME NEW keep \in BOOLEAN, NEW straight \in BOOLEAN
          PROVE  Agrees(keep, straight, Nothing)'
      BY <1>3, StartAgrees DEF TypeOK
    <2> QED
      BY <2>1, <2>2 DEF Followed, Agrees
  <1>6. Phases'
    BY <1>2, <1>3, <1>4 DEF Phases
  <1>7. BlamesRightly'
    BY <1>2, <1>3 DEF BlamesRightly, Blamed
  <1>8. ReturnsTyped(module)'
    <2>1. module'.blocks = <<NewBlock(nextBlockId)>>
      BY DEF StartGeneration
    <2>2. \A b \in 1 .. Len(module'.blocks) : module'.blocks[b].terminator.op = "none"
      BY <2>1 DEF NewBlock, NoTerminator
    <2> QED
      BY <2>2 DEF ReturnsTyped
  <1> QED
    BY <1>1, <1>4, <1>5, <1>6, <1>7, <1>8 DEF Agreement

LEMMA SkipKeepsAgreement ==
  ASSUME TypeOK, Agreement, SkipUnreachable
  PROVE  Agreement'
  <1>1. PICK trace \in [1 .. semaPos -> Analysis] : Analysed(trace) /\ Followed(trace)
    BY DEF Agreement
  <1>2. /\ genStatus = "generating" /\ genStatus' = genStatus /\ genError' = genError
        /\ UNCHANGED semaVars /\ module' = module
    BY DEF SkipUnreachable, codeVars
  <1>3. /\ semaPos = Len(prog) + 1 /\ genPos \in Nat /\ 1 <= genPos /\ Len(prog) \in Nat
    BY <1>2, LenProperties DEF Agreement, Phases, TypeOK, SemaTypeOK
  <1>4. PICK end \in genPos + 1 .. Len(prog) : EndsBlockOf(prog, genPos, end) /\ genPos' = end
    BY DEF SkipUnreachable
  <1>5. PICK a, b : a = trace[genPos] /\ b = trace[end]
    OBVIOUS
  <1>6. /\ end \in Nat /\ genPos <= end
        /\ \A q \in genPos .. end : q \in 1 .. semaPos
        /\ \A q \in genPos .. end - 1 : q \in 1 .. semaPos - 1 /\ q \in 1 .. Len(prog)
        /\ genPos \in genPos .. end /\ end \in genPos .. end
    BY <1>3, <1>4
  <1>7. /\ \A q \in genPos .. end : trace[q] \in Analysis
        /\ \A q \in genPos .. end - 1 : prog[q] \in Node /\ Visits(prog[q], trace[q], trace[q + 1])
    <2>1. \A q \in 1 .. Len(prog) : prog[q] \in Node
      BY ElementOfSeq DEF TypeOK, SemaTypeOK
    <2> QED
      BY <1>1, <1>6, <2>1 DEF Analysed
  <1>8. SameFrames(a, b)
    <2>1. Walked(prog, trace, genPos, end)
      BY <1>7 DEF Walked
    <2>2. genPos \in Nat /\ end \in Nat /\ genPos <= end
      BY <1>3, <1>6
    <2>3. EndsBlockOf(prog, genPos, end)
      BY <1>4
    <2>4. SameFrames(trace[genPos], trace[end])
      BY <2>1, <2>2, <2>3, SkipKeepsFrames
    <2> QED
      BY <1>5, <2>4
  <1>9. a \in Analysis /\ b \in Analysis
    BY <1>5, <1>6, <1>7
  <1>10. Analysed(trace)' /\ semaPos' = semaPos /\ prog' = prog /\ semaStatus' = semaStatus
    BY <1>1, <1>2, AnalysedStays
  <1>11. Followed(trace)'
    <2>1. ASSUME NEW keep \in BOOLEAN, NEW straight \in BOOLEAN, Allowed(keep, straight)'
          PROVE  Agrees(keep, straight, b)'
      <3>1. Allowed(keep, straight)
        BY <1>2, <2>1, SameAllowed
      <3>2. Agrees(keep, straight, a)
        BY <1>1, <1>2, <1>5, <3>1 DEF Followed
      <3> QED
        BY <1>8, <1>9, <3>2, SkipAgrees
    <2>2. b = trace[genPos']
      BY <1>4, <1>5
    <2> QED
      BY <2>1, <2>2 DEF Followed, Agrees
  <1>12. Phases'
    BY <1>2, <1>10 DEF Agreement, Phases
  <1>13. BlamesRightly'
    <2>1. ASSUME NEW keep \in BOOLEAN, NEW straight \in BOOLEAN, Allowed(keep, straight)'
          PROVE  Blamed(keep, straight, genError')
      <3>1. Allowed(keep, straight)
        BY <1>2, <2>1, SameAllowed
      <3> QED
        BY <1>2, <3>1 DEF Agreement, BlamesRightly
    <2> QED
      BY <2>1 DEF BlamesRightly
  <1>14. ReturnsTyped(module)'
    BY <1>2 DEF Agreement, ReturnsTyped
  <1> QED
    BY <1>1, <1>10, <1>11, <1>12, <1>13, <1>14 DEF Agreement

\* A program with a statement after a return, or with no return, is rejected
\* for that whatever its names and types are.
LEMMA FailKeepsAgreement ==
  ASSUME TypeOK, Agreement, genStatus = "generating",
         NEW error \in {"unreachable", "noReturn"}, Fail(error)
  PROVE  Agreement'
  <1>1. PICK trace \in [1 .. semaPos -> Analysis] : Analysed(trace)
    BY DEF Agreement
  <1>2. /\ genStatus' = "failed" /\ genError' = error /\ UNCHANGED semaVars /\ module' = module
    BY DEF Fail, codeVars
  <1>3. Analysed(trace)' /\ semaPos' = semaPos /\ prog' = prog /\ semaStatus' = semaStatus
    BY <1>1, <1>2, AnalysedStays
  <1>4. Followed(trace)'
    BY <1>2 DEF Followed
  <1>5. Phases'
    BY <1>2, <1>3 DEF Agreement, Phases
  <1>6. BlamesRightly'
    BY <1>2 DEF BlamesRightly, Blamed
  <1>7. ReturnsTyped(module)'
    BY <1>2 DEF Agreement, ReturnsTyped
  <1> QED
    BY <1>1, <1>3, <1>4, <1>5, <1>6, <1>7 DEF Agreement

\* The values a module returns have one type if all of them are i64.
LEMMA TypedReturnsAreOne ==
  ASSUME NEW m \in Module, ReturnsTyped(m), NEW value \in Returned(m)
  PROVE  HasType(m, value, I64)
  <1>1. PICK block \in Blocks(m) : block.terminator.op = "return"
                                   /\ block.terminator.value = value
    BY DEF Returned
  <1>2. PICK b \in 1 .. Len(m.blocks) : m.blocks[b] = block
    BY BlockTypes DEF Blocks, Range
  <1> QED
    BY <1>1, <1>2 DEF ReturnsTyped

LEMMA AgreeingModuleVerifies ==
  ASSUME TypeOK, ValuesInvariant, ReturnsTyped(module), genStatus # "idle", current = NoBlock,
         ifs = <<>>
  PROVE  Verify(module)
  <1>1. /\ GraphInvariant /\ nextBlockId # 0 /\ module.entry = 0
        /\ ModuleSound(module, nextValueId)
    BY DEF ValuesInvariant, Sound, Progress
  <1>2. module.blocks # <<>>
    BY <1>1 DEF GraphInvariant
  <1>3. Structure(module) /\ Graph(module.blocks, NoBlock, <<>>) /\ module \in Module
    BY <1>1, StateTypes
  <1>4. /\ HasBlocks(module) /\ BlockIdsUnique(module) /\ Terminated(module)
        /\ PhisFirst(module) /\ DefinitionsUnique(module)
        /\ EntryExists(module) /\ TargetsExist(module)
        /\ OperationsOK(module) /\ ConditionsOK(module)
        /\ Returned(module) # {} /\ \A value \in Returned(module) : ValueExists(module, value)
    BY <1>1, <1>2, <1>3, SoundModuleVerifies
  <1>5. ReturnsOK(module)
    <2>1. ASSUME NEW v \in Returned(module), NEW w \in Returned(module)
          PROVE  \E type \in {typeOf(OperationAt(module, p)) : p \in Definitions(module, v)} :
                     HasType(module, w, type)
      <3>1. HasType(module, v, I64) /\ HasType(module, w, I64)
        BY <1>3, TypedReturnsAreOne
      <3>2. I64 \in {typeOf(OperationAt(module, p)) : p \in Definitions(module, v)}
        BY <3>1 DEF HasType
      <3> QED
        BY <3>1, <3>2
    <2> QED
      BY <1>4, <2>1 DEF ReturnsOK
  <1> QED
    BY <1>4, <1>5 DEF Verify

LEMMA FinishKeepsAgreement ==
  ASSUME TypeOK, ValuesInvariant, Agreement, Finish
  PROVE  Agreement'
  <1>1. /\ genStatus = "generating" /\ ifs = <<>> /\ ReturnsTyped(module)
    BY DEF Finish, Agreement
  <1>2. CASE current # NoBlock
    <2>1. Fail("noReturn")
      BY <1>2 DEF Finish
    <2> QED
      BY <1>1, <2>1, FailKeepsAgreement
  <1>3. CASE current = NoBlock
    <2>1. Verify(module)
      BY <1>1, <1>3, AgreeingModuleVerifies
    <2>2. /\ genStatus' = "done" /\ genError' = genError /\ UNCHANGED semaVars
          /\ module' = module
      BY <1>3, <2>1 DEF Finish, codeVars
    <2>3. PICK trace \in [1 .. semaPos -> Analysis] : Analysed(trace)
      BY DEF Agreement
    <2>4. Analysed(trace)' /\ semaPos' = semaPos /\ prog' = prog /\ semaStatus' = semaStatus
      BY <2>2, <2>3, AnalysedStays
    <2>5. Followed(trace)'
      BY <2>2 DEF Followed
    <2>6. Phases'
      BY <1>1, <2>2, <2>4 DEF Agreement, Phases
    <2>7. BlamesRightly'
      <3>1. ASSUME NEW keep \in BOOLEAN, NEW straight \in BOOLEAN, Allowed(keep, straight)'
            PROVE  Blamed(keep, straight, genError')
        <4>1. Allowed(keep, straight)
          BY <2>2, <3>1, SameAllowed
        <4> QED
          BY <2>2, <4>1 DEF Agreement, BlamesRightly
      <3> QED
        BY <3>1 DEF BlamesRightly
    <2>8. ReturnsTyped(module)'
      BY <1>1, <2>2 DEF ReturnsTyped
    <2> QED
      BY <2>3, <2>4, <2>5, <2>6, <2>7, <2>8 DEF Agreement
  <1> QED
    BY <1>2, <1>3

-----------------------------------------------------------------------------
(* Both passes *)

\* While the analyser runs, the generator has not started.
LEMMA AnalysisKeepsAgreement ==
  ASSUME TypeOK, SemaTypeOK', ScopesNest', Agreement, SemaStep, UNCHANGED genVars
  PROVE  Agreement'
  <1>1. PICK trace \in [1 .. semaPos -> Analysis] : Analysed(trace)
    BY DEF Agreement
  <1>2. semaStatus = "analyzing" /\ SemaTypeOK
    BY StepVisits, AnalysisEnds DEF TypeOK
  <1>3. /\ genStatus = "idle" /\ genStatus' = "idle" /\ UNCHANGED genVars /\ Phases
    BY <1>2 DEF Agreement, Phases, genVars
  <1>4. PICK longer \in [1 .. semaPos' -> Analysis] : Analysed(longer)'
    BY <1>1, <1>2, TraceGrows
  <1>5. Followed(longer)'
    BY <1>3 DEF Followed
  <1>6. Phases'
    <2>1. semaStatus' = "accepted" => semaPos' = Len(prog') + 1
      BY <1>2, AnalysisEnds
    <2> QED
      BY <1>3, <2>1 DEF Phases, genVars, codeVars, flowVars
  <1>7. BlamesRightly'
    BY <1>3 DEF Phases, BlamesRightly, Blamed, genVars
  <1>8. ReturnsTyped(module)'
    BY <1>3 DEF Agreement, ReturnsTyped, genVars, codeVars
  <1> QED
    BY <1>4, <1>5, <1>6, <1>7, <1>8 DEF Agreement

LEMMA AgreementStep ==
  ASSUME TypeOK, TypeOK', ScopesNest', ValuesInvariant, Agreement, [Next]_vars
  PROVE  Agreement'
  <1>1. CASE SemaStep /\ UNCHANGED genVars
    BY <1>1, AnalysisKeepsAgreement DEF TypeOK
  <1>2. CASE Visit
    BY <1>2, VisitKeepsAgreement
  <1>3. CASE StartGeneration
    BY <1>3, StartKeepsAgreement
  <1>4. CASE SkipUnreachable
    BY <1>4, SkipKeepsAgreement
  <1>5. CASE RejectUnreachable
    BY <1>5, FailKeepsAgreement DEF RejectUnreachable
  <1>6. CASE Finish
    BY <1>6, FinishKeepsAgreement
  <1>7. CASE UNCHANGED vars
    <2>1. /\ UNCHANGED semaVars /\ UNCHANGED genVars
      BY <1>7 DEF vars
    <2>2. /\ genStatus' = genStatus /\ genError' = genError /\ module' = module
          /\ genPos' = genPos /\ values' = values /\ current' = current
          /\ operands' = operands /\ ifs' = ifs
      BY <2>1 DEF genVars, codeVars, flowVars
    <2>3. PICK trace \in [1 .. semaPos -> Analysis] : Analysed(trace) /\ Followed(trace)
      BY DEF Agreement
    <2>4. Analysed(trace)' /\ semaPos' = semaPos /\ prog' = prog /\ semaStatus' = semaStatus
      BY <2>1, <2>3, AnalysedStays
    <2>5. ASSUME NEW keep \in BOOLEAN, NEW straight \in BOOLEAN, Allowed(keep, straight)'
          PROVE  Allowed(keep, straight)
      BY <2>1, <2>5, SameAllowed
    <2>6. Followed(trace)'
      <3>1. PICK a : a = trace[genPos]
        OBVIOUS
      <3>2. ASSUME NEW keep, NEW straight, Agrees(keep, straight, a)
            PROVE  Agrees(keep, straight, a)'
        BY <2>2, <2>4, <3>2 DEF Agrees, OnStraightLine
      <3> QED
        BY <2>2, <2>3, <2>5, <3>1, <3>2 DEF Followed, Agrees
    <2>7. Phases'
      BY <2>2, <2>4 DEF Agreement, Phases
    <2>8. BlamesRightly'
      BY <2>2, <2>5 DEF Agreement, BlamesRightly
    <2>9. ReturnsTyped(module)'
      BY <2>2 DEF Agreement, ReturnsTyped
    <2> QED
      BY <2>3, <2>4, <2>6, <2>7, <2>8, <2>9 DEF Agreement
  <1> QED
    BY <1>1, <1>2, <1>3, <1>4, <1>5, <1>6, <1>7 DEF Next, GenStep, Visit, Ended

LEMMA InitAgreement == Init => Agreement
  <1> SUFFICES ASSUME Init PROVE Agreement
    OBVIOUS
  <1>1. /\ semaPos = 1 /\ semaStatus = "analyzing" /\ symbols = NoSymbols /\ exprTypes = <<>>
        /\ branches = <<>>
    BY DEF Init, SemaInit
  <1>2. /\ genStatus = "idle" /\ genPos = 1 /\ genError = "none" /\ values = NoValues
        /\ current = NoBlock /\ operands = <<>> /\ ifs = <<>> /\ module.blocks = <<>>
    BY DEF Init, GenInit
  <1>3. Nothing \in Analysis
    BY DEF Nothing, Analysis, NoSymbols, SymbolTable, MaybeType
  <1>4. PICK trace \in [1 .. semaPos -> Analysis] : trace = [q \in 1 .. 1 |-> Nothing]
    BY <1>1, <1>3
  <1>5. Analysed(trace)
    <2>1. trace[1] = Nothing /\ Now = Nothing /\ Nested(Nothing)
      BY <1>1, <1>4 DEF Now, Nothing, Nested
    <2>2. \A q \in 1 .. 1 : q = 1
      OBVIOUS
    <2> QED
      BY <1>1, <2>1, <2>2 DEF Analysed
  <1>6. Followed(trace) /\ Phases
    BY <1>1, <1>2 DEF Followed, Phases
  <1>7. BlamesRightly
    BY <1>2 DEF BlamesRightly, Blamed
  <1>8. ReturnsTyped(module)
    BY <1>2 DEF ReturnsTyped
  <1> QED
    BY <1>5, <1>6, <1>7, <1>8 DEF Agreement

\* The generator leaves the analyser's tables alone.
LEMMA AnalyserAlone == [Next]_vars => [SemaStep]_semaVars
  <1>1. ASSUME NEW error, Fail(error) PROVE UNCHANGED semaVars
    BY <1>1 DEF Fail
  <1>2. ASSUME Continue PROVE UNCHANGED semaVars
    BY <1>2 DEF Continue
  <1>3. ASSUME NEW operation, NEW n, NEW type, Define(operation, n, type)
        PROVE  UNCHANGED semaVars
    BY <1>2, <1>3 DEF Define
  <1>4. CASE Visit
    BY <1>1, <1>2, <1>3, <1>4
    DEF Visit, GenerateIdentifier, GenerateInteger, GenerateFloat, GenerateBinary, GenerateCall,
        GenerateRelu, GenerateMatMul, GenerateTensorDeclaration, GenerateAssignment,
        GenerateReturn, GenerateIf, GenerateElse, GenerateEndIfClosed, GenerateEndIfOne,
        GenerateEndIfBoth, EndIf
  <1>5. CASE StartGeneration \/ SkipUnreachable \/ RejectUnreachable \/ Finish
    BY <1>1, <1>5 DEF StartGeneration, SkipUnreachable, RejectUnreachable, Finish
  <1> QED
    BY <1>4, <1>5 DEF Next, GenStep, Visit, Ended, vars

LEMMA AgreementAlways == Spec => []Agreement
  <1>1. Init => ScopesNest
    BY DEF Init, SemaInit, ScopesNest
  <1>2. TypeOK /\ ScopesNest /\ [Next]_vars => ScopesNest'
    BY AnalyserAlone, ScopesNestStep DEF TypeOK
  <1>3. TypeOK /\ TypeOK' /\ ScopesNest' /\ ValuesInvariant /\ Agreement /\ [Next]_vars
            => Agreement'
    BY AgreementStep
  <1> QED
    BY <1>1, <1>2, <1>3, InitAgreement, TypeCorrect, ValuesAlways, PTL DEF Spec

-----------------------------------------------------------------------------
(* What the two passes promise together *)

(* Whatever mix of blocks returns, and whichever scopes the values come    *)
(* from, what the module returns is a scalar i64: the exit status main of  *)
(* the executable needs.                                                   *)
THEOREM OnlyI64IsReturned == Spec => []ReturnsAreI64
  <1>1. TypeOK /\ Agreement => ReturnsAreI64
    BY TypedReturnsAreOne DEF TypeOK, Agreement, ReturnsAreI64
  <1> QED
    BY <1>1, AgreementAlways, TypeCorrect, PTL

(* The generator throws for no name, type, call or shape in a program the  *)
(* analyser accepts, however its scopes nest and whichever of its blocks   *)
(* return, if the last symbol table agrees with its tensor declarations.   *)
THEOREM AnalysedProgramsAreWellTyped == Spec => []AcceptedProgramsAreWellTyped
  <1>1. Agreement => AcceptedProgramsAreWellTyped
    <2> SUFFICES ASSUME Agreement, DeclarationsKeepTheirTypes
                 PROVE  genError \notin {"unresolved", "binaryType", "unsupportedCall",
                                         "outOfRange", "unknownType", "conditionType"}
      BY DEF AcceptedProgramsAreWellTyped
    <2>1. Allowed(TRUE, FALSE)
      BY DEF Allowed
    <2>2. Blamed(TRUE, FALSE, genError)
      BY <2>1 DEF Agreement, BlamesRightly
    <2> QED
      BY <2>2 DEF Blamed
  <1> QED
    BY <1>1, AgreementAlways, PTL

(* The verifier never rejects what generate hands it for a program the     *)
(* analyser accepted: its exception is a fault of the compiler.            *)
THEOREM VerifierNeverRejects == Spec => []VerifierAcceptsOutput
  <1>1. Agreement => VerifierAcceptsOutput
    <2> SUFFICES ASSUME Agreement PROVE genError # "verify"
      BY DEF VerifierAcceptsOutput
    <2>1. Allowed(FALSE, FALSE)
      BY DEF Allowed
    <2>2. Blamed(FALSE, FALSE, genError)
      BY <2>1 DEF Agreement, BlamesRightly
    <2> QED
      BY <2>2 DEF Blamed
  <1> QED
    BY <1>1, AgreementAlways, PTL

(* The two passes merge the environments of an if statement differently,   *)
(* and only programs that return from inside a block can tell: any other   *)
(* program the analyser accepts is compiled, if it redeclares no tensor    *)
(* and its one return statement is its last statement.                     *)
THEOREM ProgramsWithoutEarlyReturnsCompile == Spec => []StraightProgramsCompile
  <1>1. TypeOK /\ Agreement => StraightProgramsCompile
    <2> SUFFICES ASSUME TypeOK, Agreement, DeclarationsKeepTheirTypes, ~ HasEarlyReturn
                 PROVE  genError \in {"none", "unreachable", "noReturn"}
      BY DEF StraightProgramsCompile
    <2>1. Allowed(TRUE, TRUE)
      BY DEF Allowed
    <2>2. Blamed(TRUE, TRUE, genError)
      BY <2>1 DEF Agreement, BlamesRightly
    <2> QED
      BY <2>2 DEF Blamed, TypeOK, GenErrors
  <1> QED
    BY <1>1, AgreementAlways, TypeCorrect, PTL

-----------------------------------------------------------------------------
(* What the proofs of the backend share: kinds of operations, and lists    *)

\* The operations that are lowered to constants, and those that have code.
Constant(operation) == operation.op \in {"int", "float"}
Coded(operation) == operation.op \in {"tensor", "binary", "compare", "phi"}

\* A sequence, of elements of some set.
IsList(s) == s \in Seq(Range(s))

LEMMA ListLength ==
  ASSUME NEW s, IsList(s)
  PROVE  Len(s) \in Nat /\ DOMAIN s = 1 .. Len(s)
  BY LenProperties DEF IsList

LEMMA ListAppend ==
  ASSUME NEW s, IsList(s), NEW inst
  PROVE  /\ IsList(Append(s, inst))
         /\ Len(Append(s, inst)) = Len(s) + 1
         /\ \A i \in 1 .. Len(s) : Append(s, inst)[i] = s[i]
         /\ Append(s, inst)[Len(s) + 1] = inst
  <1> DEFINE S == Range(s) \cup {inst}
             t == Append(s, inst)
  <1>1. s \in Seq(S) /\ inst \in S /\ Len(s) \in Nat
    BY ListLength DEF IsList
  <1> HIDE DEF S
  <1>2. /\ t \in Seq(S)
        /\ Len(t) = Len(s) + 1
        /\ \A i \in 1 .. Len(s) : t[i] = s[i]
        /\ t[Len(s) + 1] = inst
    BY <1>1, AppendProperties
  <1>3. t \in Seq(Range(t))
    <2>1. DOMAIN t = 1 .. Len(t) /\ Len(t) \in Nat
      BY <1>2, LenProperties
    <2> HIDE DEF t
    <2>2. \A i \in 1 .. Len(t) : t[i] \in Range(t)
      BY <2>1 DEF Range
    <2> QED
      BY <1>2, <2>1, <2>2
  <1> QED
    BY <1>2, <1>3 DEF IsList

LEMMA ListConcatenation ==
  ASSUME NEW s, IsList(s), NEW t, IsList(t)
  PROVE  /\ IsList(s \o t)
         /\ Len(s \o t) = Len(s) + Len(t)
         /\ \A i \in 1 .. Len(s) : (s \o t)[i] = s[i]
         /\ \A i \in 1 .. Len(t) : (s \o t)[Len(s) + i] = t[i]
  <1> DEFINE S == Range(s) \cup Range(t)
             u == s \o t
  <1>1. s \in Seq(S) /\ t \in Seq(S) /\ Len(s) \in Nat /\ Len(t) \in Nat
    BY ListLength DEF IsList
  <1> HIDE DEF S
  <1>2. /\ u \in Seq(S)
        /\ Len(u) = Len(s) + Len(t)
        /\ \A i \in 1 .. Len(s) : u[i] = s[i]
        /\ \A i \in 1 .. Len(t) : u[Len(s) + i] = t[i]
    BY <1>1, ConcatProperties
  <1>3. u \in Seq(Range(u))
    <2>1. DOMAIN u = 1 .. Len(u) /\ Len(u) \in Nat
      BY <1>2, LenProperties
    <2> HIDE DEF u
    <2>2. \A i \in 1 .. Len(u) : u[i] \in Range(u)
      BY <2>1 DEF Range
    <2> QED
      BY <1>2, <2>1, <2>2
  <1> QED
    BY <1>2, <1>3 DEF IsList

\* A list has the places of a list it begins with.
Begins(s, t) == Len(s) <= Len(t) /\ \A i \in 1 .. Len(s) : t[i] = s[i]
=============================================================================
