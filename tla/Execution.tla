----------------------------- MODULE Execution -----------------------------
(***************************************************************************)
(* The program, compiled without optimisation and run: one step per        *)
(* instruction of the function main that the backend built, with calls of  *)
(* the runtime.  The machine that executes LLVM is external.               *)
(***************************************************************************)
EXTENDS Lowering, MachineArithmetic

CONSTANTS Storage, NULL, WordBits, SizeMax, PointerSize

\* Of the target: storage can be aligned to 64 bytes.
ASSUME TargetAssumption ==
    /\ NULL \notin Storage
    /\ WordBits \in Nat
    /\ SizeMax \in 0 .. 2 ^ WordBits - 1 /\ PointerSize \in 0 .. 2 ^ WordBits - 1
    /\ PointerSize <= 64 /\ 64 <= SizeMax /\ \E k \in 0 .. WordBits - 1 : 64 = 2 ^ k

VARIABLES
    relation,    \* how any two floats relate
    execStatus,  \* "idle", "running" or "ended"
    block,       \* the block executed
    index,       \* the instruction executed next
    previous,    \* the block executed before this one
    regs,        \* the values of the registers
    slots,       \* the contents of the cleanup slots
    trace,       \* a history variable: the events observed
    promised,    \* an auxiliary variable: the events the source means
    owned, rtError, lastAlloc

Run == INSTANCE Runtime WITH Threads <- {"main"}

RefusedByCompiler == semaStatus = "rejected" \/ genStatus = "failed" \/ lowStatus = "failed"

Source == INSTANCE SourceMeaning WITH
             program <- prog, observed <- trace, refused <- RefusedByCompiler

pathVars == <<block, index, previous>>
heapVars == <<slots, owned, rtError, lastAlloc>>
execVars == <<relation, promised, execStatus, pathVars, regs, heapVars, trace>>
allVars == <<vars, lowVars, execVars>>

ExecInit ==
    /\ relation \in IF \E i \in DOMAIN prog : prog[i].kind = "float" THEN Relations ELSE {"equal"}
    /\ execStatus = "idle"
    /\ block = NoBlock
    /\ index = 1
    /\ previous = NoBlock
    /\ regs = <<>>
    /\ slots = <<>>
    /\ trace = <<>>
    /\ promised = Source!Meaning
    /\ Run!RtInit

-----------------------------------------------------------------------------

StartMain ==
    /\ lowStatus = "done"
    /\ execStatus = "idle"
    /\ execStatus' = "running"
    /\ block' = module.entry
    /\ UNCHANGED <<relation, promised, index, previous, regs, heapVars, trace>>

Inst == llvmBlocks[block + 1][index]
Executing(inst) == execStatus = "running" /\ Inst.inst = inst

Operand(operand) ==
    CASE operand.operand = "int" -> Int64(operand.value)
      [] operand.operand = "float" -> Double
      [] operand.operand = "register" -> regs[operand.value]

\* The next instruction of the block.
Step == index' = index + 1 /\ UNCHANGED <<relation, promised, execStatus, block, previous>>

\* map with a value for key, the one it had if there was one replaced.
With(map, key, value) ==
    [k \in DOMAIN map \cup {key} |-> IF k = key THEN value ELSE map[k]]

Set(register, value) == regs' = With(regs, register, value)

Stop(event) ==
    /\ execStatus' = "ended"
    /\ trace' = Append(trace, event)
    /\ UNCHANGED <<relation, promised, pathVars, regs, heapVars>>

ExecSlot ==
    /\ Executing("slot")
    /\ slots' = With(slots, Inst.slot, NULL)
    /\ Step
    /\ UNCHANGED <<regs, owned, rtError, lastAlloc, trace>>

\* The allocation may fail; the program goes on with the null pointer.
ExecAlloc ==
    /\ Executing("alloc")
    /\ \E pointer \in Storage \cup {NULL} :
          /\ Run!Alloc("main", Inst.size, Inst.alignment, pointer)
          /\ slots' = With(slots, Inst.slot, pointer)
    /\ Set(Inst.result, [type |-> "tensor", value |-> 0])
    /\ trace' = Append(trace, [event |-> "allocation", size |-> Inst.size])
    /\ Step

ExecBinary ==
    /\ Executing("binary")
    /\ LET lhs == Operand(Inst.lhs).value
           rhs == Operand(Inst.rhs).value
       IN  \/ /\ ~ Inst.floating /\ DivisionUndefined(Inst.kind, lhs, rhs)
              /\ Stop([event |-> "undefined"])
           \/ /\ Inst.floating \/ ~ DivisionUndefined(Inst.kind, lhs, rhs)
              /\ Set(Inst.result,
                     IF Inst.floating THEN Double ELSE Int64(Compute(Inst.kind, lhs, rhs)))
              /\ Step
              /\ UNCHANGED <<heapVars, trace>>

\* fcmp with an ordered predicate is false of unordered operands, with an unordered one true.
Holds(predicate, related) ==
    related \in Satisfying(predicate.kind) \/ (related = "unordered" /\ ~ predicate.ordered)

ExecCompare ==
    /\ Executing("compare")
    /\ LET lhs == Operand(Inst.lhs)
           rhs == Operand(Inst.rhs)
           related == IF lhs.type = "i64" THEN IntegerRelation(lhs.value, rhs.value)
                      ELSE relation
       IN  Set(Inst.result, Int1(Holds(Inst.predicate, related)))
    /\ Step
    /\ UNCHANGED <<heapVars, trace>>

ExecPhi ==
    /\ Executing("phi")
    /\ \E i \in DOMAIN Inst.incoming :
          /\ Inst.incoming[i].predecessor = previous
          /\ Set(Inst.result, Operand(Inst.incoming[i].value))
    /\ Step
    /\ UNCHANGED <<heapVars, trace>>

ExecFree ==
    /\ Executing("free")
    /\ Inst.slot \in DOMAIN slots
    /\ Run!Free(slots[Inst.slot])
    /\ Step
    /\ UNCHANGED <<regs, slots, trace>>

Jump(target) ==
    /\ block' = target
    /\ index' = 1
    /\ previous' = block
    /\ UNCHANGED <<relation, promised, execStatus, regs, heapVars, trace>>

ExecBranch == Executing("branch") /\ Jump(Inst.target)

ExecCondBranch ==
    /\ Executing("condbranch")
    /\ Jump(IF Operand(Inst.condition).value = 1 THEN Inst.trueTarget ELSE Inst.falseTarget)

ExecReturn ==
    /\ Executing("return")
    /\ Stop([event |-> "exit", status |-> Wrap(Operand(Inst.value).value, StatusWidth)])

ExecStep ==
    \/ StartMain
    \/ ExecSlot
    \/ ExecAlloc
    \/ ExecBinary
    \/ ExecCompare
    \/ ExecPhi
    \/ ExecFree
    \/ ExecBranch
    \/ ExecCondBranch
    \/ ExecReturn

\* The compiler has refused the program, or the program is over.
ExecEnded == (RefusedByCompiler \/ execStatus = "ended") /\ UNCHANGED allVars

ExecutionInit == BackendInit /\ ExecInit

ExecutionNext ==
    \/ SemaStep /\ UNCHANGED <<genVars, lowVars, execVars>>
    \/ GenStep /\ UNCHANGED <<lowVars, execVars>>
    \/ LowerStep /\ UNCHANGED execVars
    \/ ExecStep /\ UNCHANGED <<vars, lowVars>>
    \/ ExecEnded

\* The compiler and the compiled program are sequential and run as long as they can.
ExecutionSpec == ExecutionInit /\ [][ExecutionNext]_allVars /\ WF_allVars(ExecutionNext)

-----------------------------------------------------------------------------

(* A program the compiler accepts does what its source means, and all of   *)
(* it: the early returns, the merges and the phis of the generator and the *)
(* lowering of the backend neither lose, add nor reorder an allocation,    *)
(* and the exit status is that of the return reached first.  The exception *)
(* are programs that declare the tensor of one name with two types, where  *)
(* the size allocated is the wrong one (IRGenerator.cpp:296).              *)
SourceIsImplemented == Source!Spec

(* Every slot a return releases holds the null pointer, if the path taken  *)
(* never reached the declaration or its allocation failed, or storage that *)
(* is still allocated: nothing is freed twice, or before it is known.      *)
ReleasesAreValid ==
    execStatus = "running" /\ Inst.inst = "free" =>
        Inst.slot \in DOMAIN slots /\ Run!MayFree(slots[Inst.slot])

(* docs/runtime-abi.md: the backend frees on every return path.  A program *)
(* that exits has released all storage it was given.                       *)
NothingLeaks ==
    execStatus = "ended" /\ Last(trace).event = "exit" => owned = {}

(* The compiler never generates a call the runtime refuses for its size or *)
(* alignment: running out of memory is the only way an allocation fails.   *)
ArgumentsAreLegal == rtError["main"] \in {"", "memory"}

(* The type each register has at run time is the one the IR gives the      *)
(* value, whatever path led to the phi that merges it.                     *)
TypesArePreserved ==
    \A p \in Places(module) :
        LET operation == OperationAt(module, p)
            type == typeOf(operation)
        IN  execStatus # "idle" /\ resultOf(operation) \in DOMAIN regs =>
               regs[resultOf(operation)].type = IF type.shape = <<>> THEN type.elementType
                                                                    ELSE "tensor"

=============================================================================
