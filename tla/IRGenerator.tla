---------------------------- MODULE IRGenerator ----------------------------
(***************************************************************************)
(* ir::IRGenerator, run after sema::SemanticAnalyzer on the same program   *)
(* as the driver's compileToLLVM does.  One action per visitor; genPos is  *)
(* the node being visited.  Local variables of the recursive visitors are  *)
(* two stacks: operands holds the values of the sub-expressions already    *)
(* generated, ifs the frames of generateIf.  A thrown exception discards   *)
(* the module: genStatus becomes "failed" and genError says which one.     *)
(***************************************************************************)
EXTENDS SemanticAnalyzer, IRVerifier

VARIABLES
    genPos,       \* the node visited next
    genStatus,    \* "idle", "generating", "done" or "failed"
    genError,     \* the exception thrown, "none" if there is none
    module,       \* module_
    values,       \* values_: the SSA value of each name, NoValue if it has none
    nextValueId,  \* nextValueId_
    nextBlockId,  \* nextBlockId_
    current,      \* currentBlockId_: NoBlock after a return
    operands,     \* the values generated and not yet consumed
    ifs           \* the frames of generateIf, outermost first

codeVars == <<module, values, nextValueId>>
flowVars == <<nextBlockId, current, ifs>>
genVars == <<genPos, genStatus, genError, codeVars, flowVars, operands>>
vars == <<semaVars, genVars>>

ValueInfo == [value : ValueId, type : TensorType]
NoValue == [value |-> -1, type |-> NoType]
Environment == [Names -> ValueInfo \cup {NoValue}]
NoValues == [name \in Names |-> NoValue]
MaybeBlock == BlockId \cup {NoBlock}

\* inElse: the first block is generated, and the second one has started.
GenFrame == [before : Environment, elseBlock : BlockId, inElse : BOOLEAN,
             thenEnd : MaybeBlock, thenValues : Environment]

GenInit ==
    /\ genPos = 1
    /\ genStatus = "idle"
    /\ genError = "none"
    /\ module = [entry |-> 0, blocks |-> <<>>]
    /\ values = NoValues
    /\ nextValueId = 0
    /\ nextBlockId = 0
    /\ current = NoBlock
    /\ operands = <<>>
    /\ ifs = <<>>

Init == SemaInit /\ GenInit

\* generate is public: it can be given an analyser that has not seen the
\* program, and then relies on nothing but its own checks.
UnanalysedInit ==
    /\ prog \in Programs
    /\ semaPos = 1
    /\ semaStatus = "accepted"
    /\ symbols = NoSymbols
    /\ returnType = NoType
    /\ exprTypes = <<>>
    /\ branches = <<>>
    /\ GenInit

-----------------------------------------------------------------------------
(* The visitors' common steps *)

Generating(kind) ==
    /\ genStatus = "generating"
    /\ genPos <= Len(prog)
    /\ prog[genPos].kind = kind

\* A statement is only generated while there is a block to put it in.
Emitting(kind) == Generating(kind) /\ current # NoBlock

GenNode == prog[genPos]

Continue == genPos' = genPos + 1 /\ UNCHANGED <<semaVars, genStatus, genError>>

Fail(error) ==
    /\ genStatus' = "failed"
    /\ genError' = error
    /\ UNCHANGED <<semaVars, genPos, codeVars, flowVars, operands>>

\* A statement is visited with the values of the expressions it has itself:
\* generate and generateIf call its visitor when no expression is being visited.
Holding(n) == Len(operands) = n

LastOperand == operands[Len(operands)]
PreviousOperand == operands[Len(operands) - 1]
Pop(n) == SubSeq(operands, 1, Len(operands) - n)

\* createBlock
NewBlock(id) == [id |-> id, operations |-> <<>>, terminator |-> NoTerminator]

\* The block at index id gets one more operation; its terminator is set.
AppendTo(blocks, id, operation) ==
    [blocks EXCEPT ![id + 1].operations = Append(@, operation)]
Close(blocks, id, terminator) ==
    [blocks EXCEPT ![id + 1].terminator = terminator]

\* currentBlock().operations.emplace_back(operation)
Emit(operation) == module' = [module EXCEPT !.blocks = AppendTo(@, current, operation)]

\* createValue, the operation that defines the value, and the value of the
\* expression, which consumes n operands.
Define(operation, n, type) ==
    /\ nextValueId' = nextValueId + 1
    /\ Emit(operation)
    /\ operands' = Append(Pop(n), [value |-> nextValueId, type |-> type])
    /\ Continue
    /\ UNCHANGED <<values, flowVars>>

-----------------------------------------------------------------------------
(* Expressions *)

\* Mutant: the result of find is not compared with end().
GenerateIdentifierUnchecked ==
    /\ Emitting("identifier")
    /\ operands' = Append(operands, values[GenNode.name])
    /\ Continue
    /\ UNCHANGED <<codeVars, flowVars>>

GenerateIdentifier ==
    /\ Emitting("identifier")
    /\ LET found == values[GenNode.name] IN
          \/ found = NoValue /\ Fail("unresolved")
          \/ /\ found # NoValue
             /\ operands' = Append(operands, found)
             /\ Continue
             /\ UNCHANGED <<codeVars, flowVars>>

GenerateInteger ==
    Emitting("integer") /\ Define(ConstantIntOp(nextValueId, GenNode.value), 0, I64)

GenerateFloat ==
    Emitting("float") /\ Define(ConstantFloatOp(nextValueId, GenNode.value), 0, F64)

BinaryOperation(op, lhs, rhs) ==
    IF op \in Arithmetic
    THEN BinaryOp(nextValueId, op, lhs.value, rhs.value, lhs.type)
    ELSE CompareOp(nextValueId, op, lhs.value, rhs.value, lhs.type)

GenerateBinary ==
    /\ Emitting("binary")
    /\ Len(operands) >= 2
    /\ LET lhs == PreviousOperand
           rhs == LastOperand
       IN  \/ lhs.type # rhs.type /\ Fail("binaryType")
           \/ /\ lhs.type = rhs.type
              /\ Define(BinaryOperation(GenNode.op, lhs, rhs), 2, BinaryType(GenNode.op, lhs.type))

\* generateCall up to its arguments.
GenerateCall ==
    /\ Emitting("call")
    /\ \/ ~ KnownCall(GenNode.callee, GenNode.arity) /\ Fail("unsupportedCall")
       \/ /\ KnownCall(GenNode.callee, GenNode.arity)
          /\ Continue
          /\ UNCHANGED <<codeVars, flowVars, operands>>

\* generateCall once its arguments are generated.
GenerateRelu ==
    /\ Emitting("endcall")
    /\ GenNode.callee = "relu"
    /\ Len(operands) >= 1
    /\ Define(ReluOp(nextValueId, LastOperand.value, LastOperand.type), 1, LastOperand.type)

\* The extents are read with at(), which throws if there is none.
ExtentsExist(lhs, rhs) == Len(lhs.shape) >= 1 /\ Len(rhs.shape) >= 2

GenerateMatMul ==
    /\ Emitting("endcall")
    /\ GenNode.callee = "matmul"
    /\ Len(operands) >= 2
    /\ LET lhs == PreviousOperand
           rhs == LastOperand
           type == MatMulType(lhs.type, rhs.type)
       IN  \/ ~ ExtentsExist(lhs.type, rhs.type) /\ Fail("outOfRange")
           \/ /\ ExtentsExist(lhs.type, rhs.type)
              /\ Define(MatMulOp(nextValueId, lhs.value, rhs.value, type), 2, type)

-----------------------------------------------------------------------------
(* Statements *)

\* The analyser is done: this is the type the name has in its last symbol
\* table, whatever the declaration says.
LookupType(name) == symbols[name]

GenerateTensorDeclaration ==
    /\ Emitting("tensor")
    /\ Holding(0)
    /\ LET name == GenNode.name
           type == LookupType(name)
       IN  \/ type = NoType /\ Fail("unknownType")
           \/ type # NoType /\ values[name] # NoValue /\ Fail("duplicateValue")
           \/ /\ type # NoType
              /\ values[name] = NoValue
              /\ nextValueId' = nextValueId + 1
              /\ Emit(TensorDeclOp(nextValueId, name, type))
              /\ values' = [values EXCEPT ![name] = [value |-> nextValueId, type |-> type]]
              /\ Continue
              /\ UNCHANGED <<flowVars, operands>>

GenerateAssignment ==
    /\ Emitting("assign")
    /\ Holding(1)
    /\ values' = [values EXCEPT ![GenNode.name] = LastOperand]
    /\ operands' = Pop(1)
    /\ Continue
    /\ UNCHANGED <<module, nextValueId, flowVars>>

\* Mutant: the current block is not reset.
GenerateReturnStaysOpen ==
    /\ Emitting("return")
    /\ Holding(1)
    /\ module' = [module EXCEPT !.blocks = Close(@, current, ReturnOp(LastOperand.value))]
    /\ operands' = Pop(1)
    /\ Continue
    /\ UNCHANGED <<values, nextValueId, flowVars>>

GenerateReturn ==
    /\ Emitting("return")
    /\ Holding(1)
    /\ module' = [module EXCEPT !.blocks = Close(@, current, ReturnOp(LastOperand.value))]
    /\ current' = NoBlock
    /\ operands' = Pop(1)
    /\ Continue
    /\ UNCHANGED <<values, nextValueId, nextBlockId, ifs>>

\* generateIf up to its first block: both successors are created, and the
\* block the condition is in branches to them.
GenerateIf ==
    /\ Emitting("if")
    /\ Holding(1)
    /\ LET condition == LastOperand
           thenBlock == nextBlockId
           elseBlock == nextBlockId + 1
       IN  \/ condition.type # I1 /\ Fail("conditionType")
           \/ /\ condition.type = I1
              /\ module' = [module EXCEPT !.blocks =
                    Close(@, current, CondBranchOp(condition.value, thenBlock, elseBlock))
                        \o <<NewBlock(thenBlock), NewBlock(elseBlock)>>]
              /\ nextBlockId' = nextBlockId + 2
              /\ current' = thenBlock
              /\ operands' = Pop(1)
              /\ ifs' = Append(ifs, [before |-> values, elseBlock |-> elseBlock, inElse |-> FALSE,
                                     thenEnd |-> NoBlock, thenValues |-> NoValues])
              /\ Continue
              /\ UNCHANGED <<values, nextValueId>>

GenIf == ifs[Len(ifs)]

\* generateIf between its blocks.
GenerateElse ==
    /\ Generating("else")
    /\ Holding(0)
    /\ ifs # <<>> /\ ~ GenIf.inElse
    /\ ifs' = [ifs EXCEPT ![Len(ifs)] = [@ EXCEPT !.inElse = TRUE, !.thenEnd = current,
                                                 !.thenValues = values]]
    /\ current' = GenIf.elseBlock
    /\ values' = GenIf.before
    /\ Continue
    /\ UNCHANGED <<module, nextValueId, nextBlockId, operands>>

\* generateIf after its blocks; the three cases differ in which block goes on.
EndIf ==
    /\ Generating("endif")
    /\ Holding(0)
    /\ ifs # <<>> /\ GenIf.inElse
    /\ ifs' = SubSeq(ifs, 1, Len(ifs) - 1)
    /\ Continue
    /\ UNCHANGED operands

\* Mutant: the merge block is created after its id is read.
JoinedToLast(blocks, ends, merge, operations) ==
    Append([i \in DOMAIN blocks |->
               IF i - 1 \in ends THEN [blocks[i] EXCEPT !.terminator = BranchOp(merge - 1)]
                                 ELSE blocks[i]],
           [id |-> merge, operations |-> operations, terminator |-> NoTerminator])

\* Mutant: only the end of the last block branches to the merge block.
JoinedOnce(blocks, ends, merge, operations) ==
    Append([i \in DOMAIN blocks |->
               IF i - 1 \in ends /\ \A end \in ends : end <= i - 1
               THEN [blocks[i] EXCEPT !.terminator = BranchOp(merge)]
               ELSE blocks[i]],
           [id |-> merge, operations |-> operations, terminator |-> NoTerminator])

\* The blocks ends are closed by a branch to a new one, the merge block.
Joined(blocks, ends, merge, operations) ==
    Append([i \in DOMAIN blocks |->
               IF i - 1 \in ends THEN [blocks[i] EXCEPT !.terminator = BranchOp(merge)]
                                 ELSE blocks[i]],
           [id |-> merge, operations |-> operations, terminator |-> NoTerminator])

\* Mutant: the next block gets the id of the merge block.
MergeKeepsId(ends, operations) ==
    /\ module' = [module EXCEPT !.blocks = Joined(@, ends, nextBlockId, operations)]
    /\ nextBlockId' = nextBlockId
    /\ current' = nextBlockId

Merge(ends, operations) ==
    /\ module' = [module EXCEPT !.blocks = Joined(@, ends, nextBlockId, operations)]
    /\ nextBlockId' = nextBlockId + 1
    /\ current' = nextBlockId

\* Mutant: there is a merge block even if nothing branches to it.
GenerateEndIfAlwaysMerges ==
    /\ EndIf
    /\ GenIf.thenEnd = NoBlock
    /\ current = NoBlock
    /\ values' = GenIf.before
    /\ Merge({}, <<>>)
    /\ UNCHANGED nextValueId

\* Neither does: nothing after the if statement is reached.
GenerateEndIfClosed ==
    /\ EndIf
    /\ GenIf.thenEnd = NoBlock
    /\ current = NoBlock
    /\ values' = GenIf.before
    /\ UNCHANGED <<module, nextValueId, nextBlockId, current>>

\* Mutant: the environments are exchanged.
ReturnedValues == IF GenIf.thenEnd = NoBlock THEN GenIf.thenValues ELSE values

\* The environment after an if statement of which one block goes on.
SurvivingValues == IF GenIf.thenEnd = NoBlock THEN values ELSE GenIf.thenValues

GenerateEndIfOne ==
    /\ EndIf
    /\ (GenIf.thenEnd = NoBlock) # (current = NoBlock)
    /\ Merge({GenIf.thenEnd, current} \ {NoBlock}, <<>>)
    /\ values' = SurvivingValues
    /\ UNCHANGED nextValueId

\* The names both environments hold, and those they hold different values of.
Common(thenValues, elseValues) ==
    {name \in Names : thenValues[name] # NoValue /\ elseValues[name] # NoValue}
Differing(thenValues, elseValues) ==
    {name \in Common(thenValues, elseValues) : thenValues[name].value # elseValues[name].value}
Conflict(thenValues, elseValues) ==
    \E name \in Common(thenValues, elseValues) : thenValues[name].type # elseValues[name].type

\* Mutant: createValue is called once, before the loop.
PhisOfOneValue(order, thenEnd, elseEnd, thenValues, elseValues) ==
    [i \in DOMAIN order |->
        PhiOp(nextValueId, thenValues[order[i]].type,
              <<Incoming(thenEnd, thenValues[order[i]].value),
                Incoming(elseEnd, elseValues[order[i]].value)>>)]

\* Mutant: the second value comes from the block the branch went to, not
\* from the one the else statements end in.
PhisFromBranch(order, thenEnd, elseEnd, thenValues, elseValues) ==
    [i \in DOMAIN order |->
        PhiOp(nextValueId + i - 1, thenValues[order[i]].type,
              <<Incoming(thenEnd, thenValues[order[i]].value),
                Incoming(GenIf.elseBlock, elseValues[order[i]].value)>>)]

\* One phi for each name, in order.
Phis(order, thenEnd, elseEnd, thenValues, elseValues) ==
    [i \in DOMAIN order |->
        PhiOp(nextValueId + i - 1, thenValues[order[i]].type,
              <<Incoming(thenEnd, thenValues[order[i]].value),
                Incoming(elseEnd, elseValues[order[i]].value)>>)]

MergedValues(order, thenValues, elseValues) ==
    [name \in Names |->
        IF name \in Range(order)
        THEN [value |-> nextValueId + (CHOOSE i \in DOMAIN order : order[i] = name) - 1,
              type |-> thenValues[name].type]
        ELSE IF name \in Common(thenValues, elseValues) THEN thenValues[name] ELSE NoValue]

\* Both do.  The names are visited in the order of an unordered map: any order.
GenerateEndIfBoth ==
    /\ Generating("endif")
    /\ Holding(0)
    /\ ifs # <<>> /\ GenIf.inElse
    /\ GenIf.thenEnd # NoBlock
    /\ current # NoBlock
    /\ LET thenValues == GenIf.thenValues IN
          \/ Conflict(thenValues, values) /\ Fail("branchType")
          \/ /\ ~ Conflict(thenValues, values)
             /\ EndIf
             /\ \E order \in SetToSeqs(Differing(thenValues, values)) :
                   /\ Merge({GenIf.thenEnd, current},
                            Phis(order, GenIf.thenEnd, current, thenValues, values))
                   /\ values' = MergedValues(order, thenValues, values)
                   /\ nextValueId' = nextValueId + Len(order)

-----------------------------------------------------------------------------
(* Statements after a return *)

\* The if statements p opens, less those it closes, from i to j - 1.
Depth(p, i, j) ==
    Cardinality({k \in i .. j - 1 : p[k].kind = "if"})
        - Cardinality({k \in i .. j - 1 : p[k].kind = "endif"})

\* Mutant: the first block that ends is taken for the one node i is in.
EndsFirstBlock(p, i, j) ==
    /\ p[j].kind \in {"else", "endif"}
    /\ \A k \in i .. j - 1 : p[k].kind \notin {"else", "endif"}

\* Node j is the "else" or "endif" that ends the block node i is in.
EndsBlockOf(p, i, j) ==
    /\ p[j].kind \in {"else", "endif"}
    /\ Depth(p, i, j) = 0
    /\ \A k \in i .. j - 1 : p[k].kind \in {"else", "endif"} => Depth(p, i, k) # 0

\* In a block, generateIf's loop stops: the block's other statements are skipped.
SkipUnreachable ==
    /\ genStatus = "generating"
    /\ current = NoBlock
    /\ ifs # <<>>
    /\ \E end \in genPos + 1 .. Len(prog) : EndsBlockOf(prog, genPos, end) /\ genPos' = end
    /\ UNCHANGED <<semaVars, genStatus, genError, codeVars, flowVars, operands>>

\* At the top level, generate's loop throws.
RejectUnreachable ==
    /\ genStatus = "generating"
    /\ current = NoBlock
    /\ ifs = <<>>
    /\ genPos <= Len(prog)
    /\ Fail("unreachable")

-----------------------------------------------------------------------------
(* generate *)

\* generate up to its loop.
StartGeneration ==
    /\ semaStatus = "accepted"
    /\ genStatus = "idle"
    /\ genStatus' = "generating"
    /\ module' = [entry |-> nextBlockId, blocks |-> <<NewBlock(nextBlockId)>>]
    /\ nextBlockId' = nextBlockId + 1
    /\ current' = nextBlockId
    /\ UNCHANGED <<semaVars, genPos, genError, values, nextValueId, operands, ifs>>

\* generate after its loop: a block left open is an error, and the module is
\* verified before it is returned.
Finish ==
    /\ genStatus = "generating"
    /\ ifs = <<>>
    /\ genPos > Len(prog)
    /\ \/ current # NoBlock /\ Fail("noReturn")
       \/ current = NoBlock /\ ~ Verify(module) /\ Fail("verify")
       \/ /\ current = NoBlock
          /\ Verify(module)
          /\ genStatus' = "done"
          /\ UNCHANGED <<semaVars, genPos, genError, codeVars, flowVars, operands>>

\* The program is rejected, or generation is over: the process ends.
Ended ==
    /\ semaStatus = "rejected" \/ genStatus \in {"done", "failed"}
    /\ UNCHANGED vars

GenStep ==
    \/ StartGeneration
    \/ GenerateIdentifier
    \/ GenerateInteger
    \/ GenerateFloat
    \/ GenerateBinary
    \/ GenerateCall
    \/ GenerateRelu
    \/ GenerateMatMul
    \/ GenerateTensorDeclaration
    \/ GenerateAssignment
    \/ GenerateReturn
    \/ GenerateIf
    \/ GenerateElse
    \/ GenerateEndIfClosed
    \/ GenerateEndIfOne
    \/ GenerateEndIfBoth
    \/ SkipUnreachable
    \/ RejectUnreachable
    \/ Finish

Next ==
    \/ SemaStep /\ UNCHANGED genVars
    \/ GenStep
    \/ Ended

Spec == Init /\ [][Next]_vars

\* generate on its own.
GeneratorSpec == UnanalysedInit /\ [][Next]_vars

\* The compiler is one sequential process, which runs as long as it can.
FairSpec == Spec /\ WF_vars(Next)

=============================================================================
