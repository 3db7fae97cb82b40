---------------------------- MODULE Compilation ----------------------------
(***************************************************************************)
(* What the semantic analyser, the IR generator and the IR verifier        *)
(* promise together about the module compileToLLVM hands to the backend.   *)
(***************************************************************************)
EXTENDS IRGenerator

GenErrors == {"none", "unresolved", "binaryType", "unsupportedCall", "outOfRange", "unknownType",
              "duplicateValue", "conditionType", "branchType", "unreachable", "noReturn", "verify"}

(* The state of the analyser and of the generator has its type.            *)
TypeOK ==
    /\ SemaTypeOK
    /\ genPos \in 1 .. Len(prog) + 1
    /\ genStatus \in {"idle", "generating", "done", "failed"}
    /\ genError \in GenErrors
    /\ module \in Module
    /\ values \in Environment
    /\ nextValueId \in Nat
    /\ nextBlockId \in Nat
    /\ current \in MaybeBlock
    /\ operands \in Seq(ValueInfo)
    /\ ifs \in Seq(GenFrame)

-----------------------------------------------------------------------------
(* The module under construction *)

Terminators == [b \in DOMAIN module.blocks |-> module.blocks[b].terminator]

(* Block ids double as indices into module_.blocks: block i is at i.       *)
BlockIdsAreIndices ==
    /\ nextBlockId = Len(module.blocks)
    /\ \A b \in DOMAIN module.blocks : module.blocks[b].id = b - 1

(* SSA: no two operations define the same value, and no value created      *)
(* later can be one already defined.                                       *)
ValuesDefinedOnce ==
    /\ DefinitionsUnique(module)
    /\ \A p \in Places(module) : resultOf(OperationAt(module, p)) < nextValueId

(* Branches only go to blocks created later: the control-flow graph has no *)
(* cycle, so every execution of the compiled program ends, and the order   *)
(* of the blocks, in which the backend lowers them, is a topological one.  *)
BranchesGoForward ==
    \A b \in DOMAIN module.blocks : \A target \in Targets(Terminators[b]) :
        target \in b .. Len(module.blocks) - 1

\* The block generateIf will come back to: the second one while the first is
\* generated, then the end of the first one.
Pending(frame) == IF frame.inElse THEN frame.thenEnd ELSE frame.elseBlock

\* The blocks the generator will still write to.
Awaited == ({current} \cup {Pending(ifs[i]) : i \in DOMAIN ifs}) \ {NoBlock}

(* The blocks without a terminator are the current one and the pending one *)
(* of each if statement being generated, all different.  So no block is    *)
(* left open by an early return, and none is closed twice.                 *)
OpenBlocksAreExpected ==
    /\ \A id \in Awaited : id + 1 \in DOMAIN module.blocks
    /\ \A b \in DOMAIN module.blocks : Terminators[b] = NoTerminator <=> b - 1 \in Awaited
    /\ \A i \in DOMAIN ifs : Pending(ifs[i]) # NoBlock =>
          /\ Pending(ifs[i]) # current
          /\ \A j \in DOMAIN ifs : i # j => Pending(ifs[i]) # Pending(ifs[j])

(* A block that has its terminator is never changed again: nothing is      *)
(* appended after a terminator, and no terminator is overwritten.          *)
ClosedBlocksAreFinal ==
    [][\A b \in DOMAIN module.blocks :
          Terminators[b] # NoTerminator => module'.blocks[b] = module.blocks[b]]_vars

-----------------------------------------------------------------------------
(* The module returned *)

(* Block d dominates block b of a module, two ids of an acyclic module in  *)
(* topological order: some set of blocks after d holds b and is only       *)
(* entered from itself and from d.                                         *)
Dominates(m, d, b) ==
    \/ d = b
    \/ /\ d < b
       /\ \E region \in SUBSET (d + 1 .. b - 1) :
             \A c \in region \cup {b} : PredecessorsOf(m, c) \subseteq region \cup {d}

DefinedBefore(m, value, place) ==
    \E p \in Definitions(m, value) :
        IF p[1] = place[1] THEN p[2] < place[2]
                           ELSE Dominates(m, p[1] - 1, place[1] - 1)

(* Dominance, which the verifier leaves unchecked: on every path of the    *)
(* module returned, a value is defined before it is used by an operation,  *)
(* by a terminator, or at the end of a predecessor by a phi.               *)
DefinitionsDominateUses ==
    genStatus = "done" =>
        /\ \A p \in Places(module) : LET operation == OperationAt(module, p) IN
              /\ \A value \in OperandsOf(operation) : DefinedBefore(module, value, p)
              /\ operation.op = "phi" => \A incoming \in Range(operation.incoming) :
                    LET block == module.blocks[incoming.predecessor + 1] IN
                    DefinedBefore(module, incoming.value,
                                  <<incoming.predecessor + 1, Len(block.operations) + 1>>)
        /\ \A b \in DOMAIN module.blocks : \A value \in Uses(Terminators[b]) :
              DefinedBefore(module, value, <<b, Len(module.blocks[b].operations) + 1>>)

(* Every block but the entry has a predecessor: with BranchesGoForward,    *)
(* every block of the module returned is reachable.                        *)
BlocksAreReachable ==
    genStatus = "done" =>
        \A b \in DOMAIN module.blocks \ {1} : PredecessorsOf(module, b - 1) # {}

(* The generator's output never breaks a rule of the verifier, which is    *)
(* there to catch faults of the compiler, not of programs.                 *)
VerifierAcceptsOutput == genError # "verify"

(* On its own, without the analyser, the generator can break one rule      *)
(* only: that all the values returned have one type.                       *)
OnlyReturnTypesDiffer ==
    genError = "verify" =>
        /\ HasBlocks(module) /\ BlockIdsUnique(module) /\ Terminated(module)
        /\ PhisFirst(module) /\ DefinitionsUnique(module)
        /\ EntryExists(module) /\ TargetsExist(module)
        /\ OperationsOK(module) /\ ConditionsOK(module)
        /\ Returned(module) # {} /\ \A value \in Returned(module) : ValueExists(module, value)

-----------------------------------------------------------------------------
(* The programs the generator compiles *)

\* No tensor declaration gets another type than the one it states.
DeclarationsKeepTheirTypes ==
    \A i \in DOMAIN prog : prog[i].kind = "tensor" => LookupType(prog[i].name) = prog[i].type

(* The analyser is the only pass that reports errors of types and scopes:  *)
(* if the last symbol table agrees with the tensor declarations, the       *)
(* generator never throws for a name, a type, a call or a shape in a       *)
(* program the analyser accepts.                                           *)
AcceptedProgramsAreWellTyped ==
    semaStatus = "accepted" /\ DeclarationsKeepTheirTypes =>
        genError \notin {"unresolved", "binaryType", "unsupportedCall", "outOfRange",
                         "unknownType", "conditionType"}

(* Every value the module returns is a scalar i64, the only type that the   *)
(* entry point the backend generates can turn into an exit status.         *)
ReturnsAreI64 ==
    genStatus = "done" => \A value \in Returned(module) : HasType(module, value, I64)

\* Some block of the program has a return statement.
HasEarlyReturn ==
    \E i \in DOMAIN prog : prog[i].kind = "return" /\ Depth(prog, 1, i) > 0

(* The analyser merges the tables of both blocks of an if statement, the   *)
(* generator those of the blocks that go on.  The two only disagree on     *)
(* programs that return from inside a block: every other program the       *)
(* analyser accepts, tensors redeclared apart, is compiled, unless its     *)
(* return statement is missing or is not the last statement.               *)
StraightProgramsCompile ==
    semaStatus = "accepted" /\ DeclarationsKeepTheirTypes /\ ~ HasEarlyReturn =>
        genError \in {"none", "unreachable", "noReturn"}

(* The compiler always ends, with a diagnostic or with a module: no        *)
(* program leaves a visitor without a next step.                           *)
CompilationEnds == <>(semaStatus = "rejected" \/ genStatus \in {"done", "failed"})

-----------------------------------------------------------------------------
(* What the documentation says, and the code does not do *)

(* docs/language.md: a block holds statements, tensor declarations among   *)
(* them, and tensor declarations lower to runtime-backed storage.  So no   *)
(* declaration the analyser accepts stops the generator.                   *)
AcceptedDeclarationsAreGenerated == genError # "unknownType"

(* README.md: for matrix multiplication, shape compatibility is validated  *)
(* before IR generation.  So the shapes of the operands of a matmul of the *)
(* module returned are compatible.                                         *)
MatMulShapesAreCompatible ==
    genStatus = "done" => \A p \in Places(module) :
        LET operation == OperationAt(module, p)
            shape(value) == typeOf(OperationAt(module, CHOOSE q \in Definitions(module, value) : TRUE)).shape
        IN  operation.op = "matmul" => shape(operation.lhs)[2] = shape(operation.rhs)[1]

(* docs/language.md: nested conditionals and returns from blocks are        *)
(* supported, and a name the blocks that go on do not agree on is just not *)
(* available after them.  So such a name is never an error.                *)
NestedReturnsAreSupported == genError # "branchType"

(* docs/language.md gives a tensor program as an example of the language:  *)
(* the analyser accepts it.                                                *)
TensorExampleIsAccepted == semaStatus # "rejected"

=============================================================================
