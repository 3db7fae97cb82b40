------------------------------ MODULE Lowering ------------------------------
(***************************************************************************)
(* codegen::LLVMCodeGenerator::generate, run on the module the frontend    *)
(* returns.  One step per operation and per terminator of that module, in  *)
(* the order of its blocks.  The function being built is llvmBlocks, a     *)
(* list of instructions for each block; registers keep the numbers of the  *)
(* values of the IR.  LLVM itself is external: of its builder and its      *)
(* verifier only what the backend relies on is modelled.                   *)
(***************************************************************************)
EXTENDS Compilation, TensorStorage

VARIABLES
    lowStatus,     \* "idle", "lowering", "done" or "failed"
    lowError,      \* the exception thrown, "none" if there is none
    lowBlock,      \* the block lowered, a position in module.blocks
    lowNext,       \* the operation lowered next; past the last one, the terminator
    lowered,       \* values: the operand each value of the IR was lowered to
    cleanupSlots,  \* cleanupSlots: the values with a slot, in iteration order
    llvmBlocks     \* the instructions of each block

lowVars == <<lowStatus, lowError, lowBlock, lowNext, lowered, cleanupSlots, llvmBlocks>>

LowInit ==
    /\ lowStatus = "idle"
    /\ lowError = "none"
    /\ lowBlock = 1
    /\ lowNext = 1
    /\ lowered = <<>>
    /\ cleanupSlots = <<>>
    /\ llvmBlocks = <<>>

\* An operand: a constant, or the result of an instruction.
ConstantInt(n) == [operand |-> "int", value |-> n]
ConstantFP == [operand |-> "float"]
Register(value) == [operand |-> "register", value |-> value]

\* alloca, and the store of a null pointer.
SlotInst(slot) == [inst |-> "slot", slot |-> slot]
\* A call of ocelotl_rt_v1_alloc, and the store of its result in slot.
AllocInst(result, size, alignment, slot) ==
    [inst |-> "alloc", result |-> result, size |-> size, alignment |-> alignment, slot |-> slot]
ArithmeticInst(result, kind, lhs, rhs, floating) ==
    [inst |-> "binary", result |-> result, kind |-> kind, lhs |-> lhs, rhs |-> rhs,
     floating |-> floating]
CompareInst(result, predicate, lhs, rhs) ==
    [inst |-> "compare", result |-> result, predicate |-> predicate, lhs |-> lhs, rhs |-> rhs]
PhiInst(result, incoming) == [inst |-> "phi", result |-> result, incoming |-> incoming]
\* A load of slot, and a call of ocelotl_rt_v1_free.
FreeInst(slot) == [inst |-> "free", slot |-> slot]
BranchInst(target) == [inst |-> "branch", target |-> target]
CondBranchInst(condition, trueTarget, falseTarget) ==
    [inst |-> "condbranch", condition |-> condition, trueTarget |-> trueTarget,
     falseTarget |-> falseTarget]
\* The truncation to the exit status, and the return.
ReturnInst(value) == [inst |-> "return", value |-> value]

-----------------------------------------------------------------------------

LowFail(error) ==
    /\ lowStatus' = "failed"
    /\ lowError' = error
    /\ UNCHANGED <<lowBlock, lowNext, lowered, cleanupSlots, llvmBlocks>>

\* The type of the first return in block order; the verifier has found the others equal.
ReturnedType ==
    LET first == CHOOSE b \in DOMAIN module.blocks :
                    /\ Terminators[b].op = "return"
                    /\ \A c \in 1 .. b - 1 : Terminators[c].op # "return"
    IN  typeOf(OperationAt(module, CHOOSE p \in Definitions(module, Terminators[first].value) : TRUE))

ModuleError ==
    IF ~ Verify(module) THEN "verify"
    ELSE IF ReturnedType # I64 THEN "returnType" ELSE "none"

TensorDeclarations ==
    {resultOf(OperationAt(module, p)) : p \in {q \in Places(module) : OperationAt(module, q).op = "tensor"}}

\* The places of the tensors are in the order of the blocks.
InBlockOrder(tensors) ==
    \A i, j \in DOMAIN tensors : i < j =>
        \A p \in Definitions(module, tensors[i]), q \in Definitions(module, tensors[j]) :
            p[1] < q[1] \/ (p[1] = q[1] /\ p[2] < q[2])

\* Mutant: a slot is left as alloca creates it.
SlotsUninitialised(tensors) == [b \in DOMAIN module.blocks |-> <<>>]

\* The entry block starts with a slot for each of the tensors.
SlotsInEntry(tensors) ==
    [b \in DOMAIN module.blocks |->
        IF module.blocks[b].id = module.entry
        THEN [i \in DOMAIN tensors |-> SlotInst(tensors[i])] ELSE <<>>]

\* generate up to its main loop.  The slots are made in the order of the
\* blocks, and kept in an unordered map, which every return iterates in the
\* same order, any one.
StartLowering ==
    /\ genStatus = "done"
    /\ lowStatus = "idle"
    /\ IF ModuleError # "none" THEN LowFail(ModuleError)
       ELSE /\ lowStatus' = "lowering"
            /\ \E tensors \in SetToSeqs(TensorDeclarations) :
                  InBlockOrder(tensors) /\ llvmBlocks' = SlotsInEntry(tensors)
            /\ \E order \in SetToSeqs(TensorDeclarations) : cleanupSlots' = order
            /\ UNCHANGED <<lowError, lowBlock, lowNext, lowered>>
    /\ UNCHANGED vars

-----------------------------------------------------------------------------
(* Operations *)

LoweredBlock == module.blocks[lowBlock]

\* An operation of kind op is lowered next.
LoweringOf(op) ==
    /\ lowStatus = "lowering"
    /\ lowBlock <= Len(module.blocks)
    /\ lowNext <= Len(LoweredBlock.operations)
    /\ LoweredBlock.operations[lowNext].op = op

LoweredOp == LoweredBlock.operations[lowNext]

\* values.at finds the values.
Has(vals) == vals \subseteq DOMAIN lowered

\* values.emplace: the first operand a value gets is kept.
Bound(value, operand) ==
    [v \in DOMAIN lowered \cup {value} |-> IF v \in DOMAIN lowered THEN lowered[v] ELSE operand]

\* The current block gets one more instruction.
EmitInst(inst) == llvmBlocks' = [llvmBlocks EXCEPT ![lowBlock] = Append(@, inst)]

\* An instruction whose result is the value of the operation.
DefineInst(inst) ==
    /\ EmitInst(inst)
    /\ lowered' = Bound(LoweredOp.result, Register(LoweredOp.result))
    /\ lowNext' = lowNext + 1
    /\ UNCHANGED <<lowStatus, lowError, lowBlock, cleanupSlots>>

LowerTensorDecl ==
    /\ LoweringOf("tensor")
    /\ LET size == StorageSize(LoweredOp.type) IN
       IF size = Refused THEN LowFail("storage")
       ELSE DefineInst(AllocInst(LoweredOp.result, size, 64, LoweredOp.result))
    /\ UNCHANGED vars

\* A constant is an operand of the instructions that use it, not an instruction.
LowerConstant ==
    /\ LoweringOf("int") \/ LoweringOf("float")
    /\ lowered' = Bound(LoweredOp.result, IF LoweredOp.op = "int" THEN ConstantInt(LoweredOp.value)
                                                                   ELSE ConstantFP)
    /\ lowNext' = lowNext + 1
    /\ UNCHANGED <<vars, lowStatus, lowError, lowBlock, cleanupSlots, llvmBlocks>>

\* Mutant: integer instructions for every type.
NeverFloating(type) == FALSE

Floating(type) == type.elementType = "f64"

ArithmeticOf(operation) ==
    ArithmeticInst(operation.result, operation.kind, lowered[operation.lhs], lowered[operation.rhs],
                   Floating(operation.type))

LowerBinary ==
    /\ LoweringOf("binary")
    /\ IF ~ Has(OperandsOf(LoweredOp)) THEN LowFail("missingValue")
       ELSE DefineInst(ArithmeticOf(LoweredOp))
    /\ UNCHANGED vars

\* The predicate of icmp or fcmp: those of fcmp are ordered, but for NotEqual.
Predicate(kind, floating) == [kind |-> kind, ordered |-> ~ floating \/ kind # "NotEqual"]

LowerCompare ==
    /\ LoweringOf("compare")
    /\ IF ~ Has(OperandsOf(LoweredOp)) THEN LowFail("missingValue")
       ELSE DefineInst(CompareInst(LoweredOp.result,
                                   Predicate(LoweredOp.kind, Floating(LoweredOp.operandType)),
                                   lowered[LoweredOp.lhs], lowered[LoweredOp.rhs]))
    /\ UNCHANGED vars

\* Mutant: lowerType knows the numbers only.
NumberTypes == {I64, F64}

\* The types lowerType has a type of LLVM for.
LowerableTypes == {I1, I64, F64}

\* The phi is in values before its operands are looked up.
LowerPhi ==
    /\ LoweringOf("phi")
    /\ LET known == Bound(LoweredOp.result, Register(LoweredOp.result))
           incoming == LoweredOp.incoming
       IN  IF LoweredOp.type \notin LowerableTypes THEN LowFail("phiType")
           ELSE IF \E i \in DOMAIN incoming : incoming[i].value \notin DOMAIN known
           THEN LowFail("missingValue")
           ELSE DefineInst(PhiInst(LoweredOp.result,
                                   [i \in DOMAIN incoming |->
                                       [incoming[i] EXCEPT !.value = known[@]]]))
    /\ UNCHANGED vars

LowerTensorOperation ==
    /\ LoweringOf("matmul") \/ LoweringOf("relu")
    /\ LowFail("notImplemented")
    /\ UNCHANGED vars

-----------------------------------------------------------------------------
(* Terminators *)

LoweringTerminator(op) ==
    /\ lowStatus = "lowering"
    /\ lowBlock <= Len(module.blocks)
    /\ lowNext > Len(LoweredBlock.operations)
    /\ LoweredBlock.terminator.op = op

\* The instructions that close the block.
CloseWith(insts) ==
    /\ llvmBlocks' = [llvmBlocks EXCEPT ![lowBlock] = @ \o insts]
    /\ lowBlock' = lowBlock + 1
    /\ lowNext' = 1
    /\ UNCHANGED <<lowStatus, lowError, lowered, cleanupSlots>>

LowerBranch ==
    /\ LoweringTerminator("branch")
    /\ CloseWith(<<BranchInst(LoweredBlock.terminator.target)>>)
    /\ UNCHANGED vars

\* Mutant: the targets are exchanged.
CondBranchExchanged(terminator) ==
    CondBranchInst(lowered[terminator.condition], terminator.falseTarget, terminator.trueTarget)

CondBranchOf(terminator) ==
    CondBranchInst(lowered[terminator.condition], terminator.trueTarget, terminator.falseTarget)

LowerCondBranch ==
    /\ LoweringTerminator("condbranch")
    /\ IF ~ Has(Uses(LoweredBlock.terminator)) THEN LowFail("missingValue")
       ELSE CloseWith(<<CondBranchOf(LoweredBlock.terminator)>>)
    /\ UNCHANGED vars

\* Mutant: a return releases the tensors of its own block.
ReleaseOwnSlots ==
    LET own == SelectSeq(cleanupSlots, LAMBDA slot : \E p \in Definitions(module, slot) : p[1] = lowBlock)
    IN  [i \in DOMAIN own |-> FreeInst(own[i])]

\* Every return releases every slot.
ReleaseSlots == [i \in DOMAIN cleanupSlots |-> FreeInst(cleanupSlots[i])]

LowerReturn ==
    /\ LoweringTerminator("return")
    /\ IF ~ Has(Uses(LoweredBlock.terminator)) THEN LowFail("missingValue")
       ELSE CloseWith(ReleaseSlots \o <<ReturnInst(lowered[LoweredBlock.terminator.value])>>)
    /\ UNCHANGED vars

-----------------------------------------------------------------------------

\* llvm::verifyModule: definitions dominate uses.  Constants need no definition.
ValidLLVM ==
    LET registers(vals) == {v \in vals : lowered[v].operand = "register"}
        after(b) == <<b, Len(module.blocks[b].operations) + 1>>
    IN  /\ \A p \in Places(module) : LET operation == OperationAt(module, p) IN
              /\ \A v \in registers(OperandsOf(operation)) : DefinedBefore(module, v, p)
              /\ operation.op = "phi" =>
                    \A i \in DOMAIN operation.incoming :
                        \A v \in registers({operation.incoming[i].value}) :
                            DefinedBefore(module, v, after(operation.incoming[i].predecessor + 1))
        /\ \A b \in DOMAIN module.blocks :
              \A v \in registers(Uses(Terminators[b])) : DefinedBefore(module, v, after(b))

FinishLowering ==
    /\ lowStatus = "lowering"
    /\ lowBlock > Len(module.blocks)
    /\ IF ~ ValidLLVM THEN LowFail("invalidLLVM")
       ELSE /\ lowStatus' = "done"
            /\ UNCHANGED <<lowError, lowBlock, lowNext, lowered, cleanupSlots, llvmBlocks>>
    /\ UNCHANGED vars

LowerStep ==
    \/ StartLowering
    \/ LowerTensorDecl
    \/ LowerConstant
    \/ LowerBinary
    \/ LowerCompare
    \/ LowerPhi
    \/ LowerTensorOperation
    \/ LowerBranch
    \/ LowerCondBranch
    \/ LowerReturn
    \/ FinishLowering

BackendInit == Init /\ LowInit

-----------------------------------------------------------------------------
(* Properties *)

(* The backend relies on the frontend for everything the verifier of the   *)
(* IR leaves unchecked: it reads values with at(), builds instructions     *)
(* without looking at the types of their operands, and takes the type of   *)
(* one return for that of all.  No module of a program the analyser        *)
(* accepted makes it throw a lookup error or build what LLVM refuses.      *)
BackendTrustsFrontend ==
    lowError \notin {"verify", "returnType", "missingValue", "invalidLLVM"}

(* Every program without tensors and calls the frontend compiles is        *)
(* lowered: scalars of each type, conditions among them, can meet in a phi. *)
ScalarProgramsLower ==
    (\A i \in DOMAIN prog : prog[i].kind \notin {"tensor", "call", "endcall"}) => lowError = "none"

=============================================================================
