----------------------------- MODULE IRVerifier -----------------------------
(***************************************************************************)
(* ir::IRVerifier::verify: a pass over a module that throws at the first   *)
(* rule it finds broken and otherwise changes nothing.  The rules are the  *)
(* conjuncts of Verify, in the order the pass checks them; Verify(module)  *)
(* holds if and only if the pass returns.                                  *)
(***************************************************************************)
EXTENDS IR

Blocks(module) == Range(module.blocks)

HasBlocks(module) == module.blocks # <<>>

BlockIdsUnique(module) ==
    \A b, c \in DOMAIN module.blocks : module.blocks[b].id = module.blocks[c].id => b = c

Terminated(module) == \A block \in Blocks(module) : block.terminator # NoTerminator

PhisFirst(module) ==
    \A block \in Blocks(module) : \A i, j \in DOMAIN block.operations :
        i < j /\ block.operations[j].op = "phi" => block.operations[i].op = "phi"

DefinitionsUnique(module) ==
    \A p, q \in Places(module) :
        resultOf(OperationAt(module, p)) = resultOf(OperationAt(module, q)) => p = q

BlockExists(module, id) == \E block \in Blocks(module) : block.id = id

EntryExists(module) == BlockExists(module, module.entry)

TargetsExist(module) ==
    \A block \in Blocks(module) : \A target \in Targets(block.terminator) :
        BlockExists(module, target)

\* definitions: the places that define value; at most one, once the
\* definitions are known to be unique.
Definitions(module, value) ==
    {p \in Places(module) : resultOf(OperationAt(module, p)) = value}

PredecessorsOf(module, id) ==
    {block.id : block \in {c \in Blocks(module) : id \in Targets(c.terminator)}}

\* requireValue.
ValueExists(module, value) == Definitions(module, value) # {}

\* requireOperand: value has type, and a definition in the block that uses
\* it comes first.
OperandOK(module, value, type, use) ==
    \E p \in Definitions(module, value) :
        /\ typeOf(OperationAt(module, p)) = type
        /\ p[1] = use[1] => p[2] < use[2]

PhiOK(module, place) ==
    LET phi == OperationAt(module, place)
        predecessors == [i \in DOMAIN phi.incoming |-> phi.incoming[i].predecessor]
    IN  /\ \A incoming \in Range(phi.incoming) : OperandOK(module, incoming.value, phi.type, place)
        /\ IsInjective(predecessors)
        /\ Range(predecessors) = PredecessorsOf(module, module.blocks[place[1]].id)

OperationOK(module, place) ==
    LET operation == OperationAt(module, place) IN
    CASE operation.op = "binary" ->
            \A value \in OperandsOf(operation) : OperandOK(module, value, operation.type, place)
      [] operation.op = "compare" ->
            \A value \in OperandsOf(operation) : OperandOK(module, value, operation.operandType, place)
      [] operation.op = "phi" -> PhiOK(module, place)
      [] operation.op \in {"matmul", "relu"} ->
            \A value \in OperandsOf(operation) : ValueExists(module, value)
      [] OTHER -> TRUE

OperationsOK(module) == \A place \in Places(module) : OperationOK(module, place)

HasType(module, value, type) ==
    \E p \in Definitions(module, value) : typeOf(OperationAt(module, p)) = type

ConditionsOK(module) ==
    \A block \in Blocks(module) :
        block.terminator.op = "condbranch" => HasType(module, block.terminator.condition, I1)

Returned(module) ==
    {block.terminator.value : block \in {c \in Blocks(module) : c.terminator.op = "return"}}

ReturnsOK(module) ==
    /\ \A value \in Returned(module) : ValueExists(module, value)
    /\ \A v, w \in Returned(module) :
          \E type \in {typeOf(OperationAt(module, p)) : p \in Definitions(module, v)} :
              HasType(module, w, type)
    /\ Returned(module) # {}

Verify(module) ==
    /\ HasBlocks(module)
    /\ BlockIdsUnique(module)
    /\ Terminated(module)
    /\ PhisFirst(module)
    /\ DefinitionsUnique(module)
    /\ EntryExists(module)
    /\ TargetsExist(module)
    /\ OperationsOK(module)
    /\ ConditionsOK(module)
    /\ ReturnsOK(module)

=============================================================================
