-------------------------- MODULE Execution_proofs --------------------------
(***************************************************************************)
(* The backend, run on what the frontend returns, for every program.  What *)
(* is proved of the frontend holds here too: a step of the whole compiler, *)
(* or of the program it compiles, is a step of the frontend or leaves it   *)
(* alone.                                                                  *)
(***************************************************************************)
EXTENDS Execution, Compilation_proofs

-----------------------------------------------------------------------------
(* The frontend, as the backend sees it *)

LEMMA FrontendStep == [ExecutionNext]_allVars => [Next]_vars
  <1>1. CASE LowerStep
    BY <1>1
    DEF LowerStep, StartLowering, LowerTensorDecl, LowerConstant, LowerBinary, LowerCompare,
        LowerPhi, LowerTensorOperation, LowerBranch, LowerCondBranch, LowerReturn, FinishLowering
  <1> QED
    BY <1>1 DEF ExecutionNext, ExecEnded, allVars, Next

LEMMA FrontendRuns == ExecutionSpec => Spec
  <1>1. ExecutionInit => Init
    BY DEF ExecutionInit, BackendInit
  <1> QED
    BY <1>1, FrontendStep, PTL DEF ExecutionSpec, Spec

\* The module handed over has passed the verifier and stays as it is.
ModuleVerified == genStatus = "done" => Verify(module)

\* A step other than Finish does not hand the module over.
LEMMA OnlyFinishHandsOver ==
  ASSUME [Next]_vars, genStatus' = "done", genStatus # "done"
  PROVE  Finish
  <1>1. ASSUME NEW error, Fail(error) PROVE FALSE
    BY <1>1 DEF Fail
  <1>2. ASSUME Continue PROVE FALSE
    BY <1>2 DEF Continue
  <1>3. ASSUME NEW operation, NEW n, NEW type, Define(operation, n, type) PROVE FALSE
    BY <1>2, <1>3 DEF Define
  <1>4. CASE Visit
    BY <1>1, <1>2, <1>3, <1>4
    DEF Visit, GenerateIdentifier, GenerateInteger, GenerateFloat, GenerateBinary, GenerateCall,
        GenerateRelu, GenerateMatMul, GenerateTensorDeclaration, GenerateAssignment,
        GenerateReturn, GenerateIf, GenerateElse, GenerateEndIfClosed, GenerateEndIfOne,
        GenerateEndIfBoth, EndIf
  <1>5. CASE StartGeneration \/ SkipUnreachable \/ RejectUnreachable
    BY <1>1, <1>5 DEF StartGeneration, SkipUnreachable, RejectUnreachable
  <1>6. CASE UNCHANGED genVars
    BY <1>6 DEF genVars
  <1> QED
    BY <1>4, <1>5, <1>6 DEF Next, GenStep, Visit, Ended, vars

\* Once the module is handed over, the generator rests.
LEMMA GeneratorRests ==
  ASSUME [Next]_vars, genStatus = "done"
  PROVE  UNCHANGED genVars
  <1>1. ASSUME NEW kind, Generating(kind) PROVE FALSE
    BY <1>1 DEF Generating
  <1>2. ASSUME NEW kind, Emitting(kind) PROVE FALSE
    BY <1>1, <1>2 DEF Emitting
  <1>3. CASE GenStep
    BY <1>1, <1>2, <1>3
    DEF GenStep, GenerateIdentifier, GenerateInteger, GenerateFloat, GenerateBinary,
        GenerateCall, GenerateRelu, GenerateMatMul, GenerateTensorDeclaration,
        GenerateAssignment, GenerateReturn, GenerateIf, GenerateElse, GenerateEndIfClosed,
        GenerateEndIfOne, GenerateEndIfBoth, EndIf, StartGeneration, SkipUnreachable,
        RejectUnreachable, Finish
  <1> QED
    BY <1>3 DEF Next, Ended, vars

LEMMA ModuleVerifiedStep ==
  ASSUME ModuleVerified, [Next]_vars
  PROVE  ModuleVerified'
  <1>1. CASE genStatus = "done"
    <2>1. genStatus' = genStatus /\ module' = module
      BY <1>1, GeneratorRests DEF genVars, codeVars
    <2> QED
      BY <1>1, <2>1 DEF ModuleVerified
  <1>2. CASE genStatus # "done" /\ genStatus' = "done"
    <2>1. Verify(module) /\ module' = module
      BY <1>2, OnlyFinishHandsOver DEF Finish, Fail, codeVars
    <2> QED
      BY <2>1 DEF ModuleVerified
  <1>3. CASE genStatus' # "done"
    BY <1>3 DEF ModuleVerified
  <1> QED
    BY <1>1, <1>2, <1>3

\* What the frontend promises the backend.
Promised ==
    /\ TypeOK
    /\ ValuesInvariant
    /\ ModuleVerified
    /\ ReturnsAreI64
    /\ DefinitionsDominateUses

LEMMA PromisedAlways == ExecutionSpec => []Promised
  <1>1. Init => ModuleVerified
    BY DEF Init, GenInit, ModuleVerified
  <1>2. Spec => []ModuleVerified
    BY <1>1, ModuleVerifiedStep, PTL DEF Spec
  <1> QED
    BY <1>2, FrontendRuns, TypeCorrect, ValuesAlways, OnlyI64IsReturned, UsesAreDominated, PTL
    DEF Promised

-----------------------------------------------------------------------------
(* The values the backend knows *)

\* The operation at place p has been lowered.
Passed(p, b, k) == p[1] < b \/ (p[1] = b /\ p[2] < k)

\* known holds the value of every operation before operation k of block b.
KnowsPassed(m, b, k, known) ==
    \A p \in Places(m) : Passed(p, b, k) => resultOf(OperationAt(m, p)) \in known

\* A definition before a place has been lowered when the place is.
LEMMA DefinedIsPassed ==
  ASSUME NEW m \in Module, NEW value, NEW b \in Nat, NEW k \in Nat, NEW known,
         KnowsPassed(m, b, k, known), DefinedBefore(m, value, <<b, k>>)
  PROVE  value \in known
  <1>1. PICK p \in Definitions(m, value) :
           IF p[1] = b THEN p[2] < k ELSE Dominates(m, p[1] - 1, b - 1)
    BY DEF DefinedBefore
  <1>2. p \in Places(m) /\ resultOf(OperationAt(m, p)) = value
    BY DEF Definitions
  <1>3. p[1] \in Nat /\ p[2] \in Nat
    BY <1>2, PlaceFacts, BlockTypes
  <1>4. Passed(p, b, k)
    <2>1. CASE p[1] = b
      BY <1>1, <2>1 DEF Passed
    <2>2. CASE p[1] # b
      <3>1. p[1] - 1 \in Int /\ b - 1 \in Int
        BY <1>3
      <3>2. p[1] - 1 <= b - 1
        BY <1>1, <2>2, <3>1, DominatesOrder
      <3> QED
        BY <1>3, <2>2, <3>2 DEF Passed
    <2> QED
      BY <2>1, <2>2
  <1> QED
    BY <1>2, <1>4 DEF KnowsPassed

\* The predecessors of a block are lowered before the block, so that a phi
\* finds the values it merges.
LEMMA PredecessorsArePassed ==
  ASSUME NEW m, Structure(m), NEW b \in 1 .. Len(m.blocks), NEW k \in Nat, NEW known,
         KnowsPassed(m, b, k, known), NEW e \in PredecessorsOf(m, b - 1), NEW value,
         DefinedBefore(m, value, <<e + 1, Len(m.blocks[e + 1].operations) + 1>>)
  PROVE  value \in known
  <1>0. m \in Module /\ b \in Nat
    BY BlockTypes DEF Structure
  <1>1. e \in 0 .. b - 2
    <2>1. b - 1 \in Int
      BY <1>0
    <2>2. e \in 0 .. b - 1 - 1
      BY <2>1, PredecessorsComeFirst
    <2> QED
      BY <1>0, <2>2
  <1>2. e + 1 \in 1 .. Len(m.blocks)
    BY <1>0, <1>1, BlockTypes
  <1>3. PICK l : l = Len(m.blocks[e + 1].operations) + 1
    OBVIOUS
  <1>4. l \in Nat
    BY <1>0, <1>2, <1>3, BlockTypes
  <1>5. KnowsPassed(m, e + 1, l, known)
    <2>1. ASSUME NEW p \in Places(m), Passed(p, e + 1, l) PROVE Passed(p, b, k)
      <3>1. p[1] \in Nat
        BY <1>0, PlaceFacts, BlockTypes
      <3>2. p[1] <= e + 1
        BY <1>1, <2>1, <3>1 DEF Passed
      <3> QED
        BY <1>0, <1>1, <3>1, <3>2 DEF Passed
    <2> QED
      BY <2>1 DEF KnowsPassed
  <1>6. DefinedBefore(m, value, <<e + 1, l>>) /\ e + 1 \in Nat
    BY <1>1, <1>3
  <1> QED
    BY <1>0, <1>4, <1>5, <1>6, DefinedIsPassed

\* One operation more has been lowered.
LEMMA PassedNext ==
  ASSUME NEW m \in Module, NEW b \in 1 .. Len(m.blocks), NEW k \in Nat, NEW known, NEW more,
         KnowsPassed(m, b, k, known), known \subseteq more,
         m.blocks[b].operations[k].result \in more
  PROVE  KnowsPassed(m, b, k + 1, more)
  <1>1. ASSUME NEW p \in Places(m), Passed(p, b, k + 1)
        PROVE  resultOf(OperationAt(m, p)) \in more
    <2>1. p[1] \in Nat /\ p[2] \in Nat /\ b \in Nat
      BY PlaceFacts, BlockTypes
    <2>2. CASE Passed(p, b, k)
      BY <2>2 DEF KnowsPassed
    <2>3. CASE ~ Passed(p, b, k)
      <3>1. p[1] = b /\ p[2] = k
        BY <1>1, <2>1, <2>3 DEF Passed
      <3> QED
        BY <3>1 DEF OperationAt, resultOf
    <2> QED
      BY <2>2, <2>3
  <1> QED
    BY <1>1 DEF KnowsPassed

\* One block more has been lowered.
LEMMA PassedBlock ==
  ASSUME NEW m \in Module, NEW b \in 1 .. Len(m.blocks), NEW k \in Nat, NEW known,
         k > Len(m.blocks[b].operations), KnowsPassed(m, b, k, known)
  PROVE  KnowsPassed(m, b + 1, 1, known)
  <1>1. ASSUME NEW p \in Places(m), Passed(p, b + 1, 1)
        PROVE  Passed(p, b, k)
    <2>1. p[1] \in Nat /\ b \in Nat /\ p[2] \in 1 .. Len(m.blocks[p[1]].operations)
      BY PlaceFacts, BlockTypes
    <2>2. p[2] \in Nat /\ Len(m.blocks[b].operations) \in Nat
      BY <2>1, BlockTypes
    <2>3. CASE p[1] = b
      BY <2>1, <2>2, <2>3 DEF Passed
    <2>4. CASE p[1] # b
      BY <1>1, <2>1, <2>2, <2>4 DEF Passed
    <2> QED
      BY <2>3, <2>4
  <1> QED
    BY <1>1 DEF KnowsPassed

-----------------------------------------------------------------------------
(* What the backend checks or relies on *)

\* The returns are i64, and so is the first one in block order.
LEMMA FirstReturnIsI64 ==
  ASSUME TypeOK, Verify(module), genStatus = "done", ReturnsAreI64
  PROVE  ReturnedType = I64
  <1>0. /\ module \in Module /\ DOMAIN module.blocks = 1 .. Len(module.blocks)
        /\ Len(module.blocks) \in Nat
    BY BlockTypes DEF TypeOK
  <1> DEFINE Returns(b) == b \in DOMAIN module.blocks /\ Terminators[b].op = "return"
             returning == {b \in DOMAIN module.blocks : Terminators[b].op = "return"}
             first == CHOOSE b \in DOMAIN module.blocks :
                        /\ Terminators[b].op = "return"
                        /\ \A c \in 1 .. b - 1 : Terminators[c].op # "return"
  <1>1. returning # {} /\ returning \subseteq Nat
    <2>1. PICK source \in Blocks(module) : source.terminator.op = "return"
      BY DEF Verify, ReturnsOK, Returned
    <2>2. PICK b \in DOMAIN module.blocks : module.blocks[b] = source
      BY DEF Blocks, Range
    <2> QED
      BY <1>0, <2>1, <2>2 DEF Terminators
  <1>2. PICK least \in returning : \A c \in returning : least <= c
    <2> HIDE DEF returning
    <2> QED
      BY <1>1, LeastNatural
  <1>3. \A c \in 1 .. least - 1 : Terminators[c].op # "return"
    <2>1. ASSUME NEW c \in 1 .. least - 1, Terminators[c].op = "return" PROVE FALSE
      <3>1. c \in returning
        BY <1>0, <1>1, <2>1
      <3> QED
        BY <1>0, <1>2, <3>1
    <2> QED
      BY <2>1
  <1>4. first \in DOMAIN module.blocks /\ Terminators[first].op = "return"
    BY <1>2, <1>3
  <1>5. Terminators[first].value \in Returned(module)
    <2>1. /\ Terminators[first] = module.blocks[first].terminator
          /\ module.blocks[first] \in Blocks(module)
      BY <1>4 DEF Terminators, Blocks, Range
    <2> QED
      BY <1>4, <2>1 DEF Returned
  <1> HIDE DEF first
  <1>6. PICK value : value = Terminators[first].value
    OBVIOUS
  <1>7. PICK p \in Definitions(module, value) : typeOf(OperationAt(module, p)) = I64
    BY <1>5, <1>6 DEF ReturnsAreI64, HasType
  <1>8. \A q \in Definitions(module, value) : q = p
    BY DEF Verify, DefinitionsUnique, Definitions
  <1>9. (CHOOSE q \in Definitions(module, value) : TRUE) = p
    BY <1>7, <1>8
  <1> QED
    BY <1>6, <1>7, <1>9 DEF ReturnedType, first

\* No value is used where LLVM would not find it defined.
LEMMA DominanceIsValid ==
  ASSUME TypeOK, ValuesInvariant, genStatus = "done", DefinitionsDominateUses
  PROVE  ValidLLVM
  <1>0. ModuleSound(module, nextValueId)
    BY DEF ValuesInvariant, Sound
  <1>1. ASSUME NEW p \in Places(module)
        PROVE  LET operation == OperationAt(module, p) IN
               /\ \A v \in OperandsOf(operation) : DefinedBefore(module, v, p)
               /\ operation.op = "phi" => \A i \in DOMAIN operation.incoming :
                     LET end == operation.incoming[i].predecessor + 1 IN
                     DefinedBefore(module, operation.incoming[i].value,
                                   <<end, Len(module.blocks[end].operations) + 1>>)
    BY <1>0 DEF ModuleSound, OperationSound
  <1>2. \A b \in DOMAIN module.blocks : \A v \in Uses(Terminators[b]) :
           DefinedBefore(module, v, <<b, Len(module.blocks[b].operations) + 1>>)
    BY DEF DefinitionsDominateUses
  <1> QED
    BY <1>1, <1>2 DEF ValidLLVM

-----------------------------------------------------------------------------
(* The steps of the backend *)

LowInvariant ==
    /\ lowBlock \in Nat \ {0}
    /\ lowNext \in Nat \ {0}
    /\ KnowsPassed(module, lowBlock, lowNext, DOMAIN lowered)
    /\ lowStatus = "idle" => lowBlock = 1 /\ lowNext = 1 /\ lowError = "none"
    /\ lowStatus # "idle" => genStatus = "done"
    /\ BackendTrustsFrontend

LEMMA BoundDomain ==
  ASSUME NEW value, NEW operand
  PROVE  DOMAIN Bound(value, operand) = DOMAIN lowered \cup {value}
  BY DEF Bound

LEMMA HandedOver ==
  ASSUME Promised
  PROVE  /\ module \in Module
         /\ Structure(module)
         /\ ModuleSound(module, nextValueId)
         /\ DOMAIN module.blocks = 1 .. Len(module.blocks)
         /\ Len(module.blocks) \in Nat
  <1>1. Structure(module) /\ module \in Module
    BY StateTypes DEF Promised, ValuesInvariant, TypeOK
  <1> QED
    BY <1>1, BlockTypes DEF Promised, ValuesInvariant, Sound

LEMMA QuietLowering ==
  ASSUME LowInvariant, UNCHANGED <<genStatus, module>>, UNCHANGED lowVars
  PROVE  LowInvariant'
  BY DEF LowInvariant, lowVars, BackendTrustsFrontend

\* The exceptions a program can cause, not the frontend.
LEMMA FailKeepsLowering ==
  ASSUME LowInvariant, UNCHANGED vars, genStatus = "done", NEW error, LowFail(error),
         error \notin {"verify", "returnType", "missingValue", "invalidLLVM"}
  PROVE  LowInvariant'
  BY DEF LowInvariant, LowFail, BackendTrustsFrontend, vars, genVars, codeVars

\* Where the backend is when it lowers an operation.
LEMMA OperationPlace ==
  ASSUME Promised, LowInvariant, NEW op, LoweringOf(op)
  PROVE  /\ genStatus = "done" /\ lowStatus = "lowering"
         /\ lowBlock \in 1 .. Len(module.blocks)
         /\ <<lowBlock, lowNext>> \in Places(module)
         /\ LoweredOp = OperationAt(module, <<lowBlock, lowNext>>)
         /\ LoweredOp.op = op
  <1>1. lowBlock \in 1 .. Len(module.blocks)
    BY HandedOver DEF LoweringOf, LowInvariant
  <1>2. lowNext \in 1 .. Len(module.blocks[lowBlock].operations)
    <2>1. Len(module.blocks[lowBlock].operations) \in Nat
      BY <1>1, HandedOver, BlockTypes
    <2> QED
      BY <2>1 DEF LoweringOf, LoweredBlock, LowInvariant
  <1>3. <<lowBlock, lowNext>> \in Places(module)
    BY <1>1, <1>2, HandedOver, PlaceFacts
  <1> QED
    BY <1>1, <1>3 DEF LoweringOf, LoweredOp, LoweredBlock, OperationAt, LowInvariant

LEMMA DefineKeepsLowering ==
  ASSUME Promised, LowInvariant, NEW op, LoweringOf(op), NEW operand,
         lowered' = Bound(LoweredOp.result, operand), lowNext' = lowNext + 1,
         UNCHANGED <<lowStatus, lowError, lowBlock>>, UNCHANGED vars
  PROVE  LowInvariant'
  <1>1. genStatus = "done" /\ lowStatus = "lowering" /\ lowBlock \in 1 .. Len(module.blocks)
    BY OperationPlace
  <1>2. PICK more : more = DOMAIN lowered'
    OBVIOUS
  <1>3. more = DOMAIN lowered \cup {LoweredOp.result}
    BY <1>2, BoundDomain
  <1>4. KnowsPassed(module, lowBlock, lowNext + 1, more)
    <2>1. /\ module \in Module /\ lowNext \in Nat
          /\ KnowsPassed(module, lowBlock, lowNext, DOMAIN lowered)
      BY HandedOver DEF LowInvariant
    <2>2. DOMAIN lowered \subseteq more
      BY <1>3
    <2>3. module.blocks[lowBlock].operations[lowNext].result \in more
      BY <1>3 DEF LoweredOp, LoweredBlock
    <2> QED
      BY <1>1, <2>1, <2>2, <2>3, PassedNext
  <1>5. module' = module /\ genStatus' = genStatus /\ lowStatus' = lowStatus
    BY DEF vars, genVars, codeVars
  <1>6. KnowsPassed(module, lowBlock, lowNext, DOMAIN lowered)'
    BY <1>2, <1>4, <1>5
  <1> QED
    BY <1>1, <1>5, <1>6 DEF LowInvariant, BackendTrustsFrontend

\* The operands of an operation have been lowered before it is.
LEMMA OperandsAreKnown ==
  ASSUME Promised, LowInvariant, NEW op, LoweringOf(op)
  PROVE  Has(OperandsOf(LoweredOp))
  <1>1. ASSUME NEW value \in OperandsOf(LoweredOp) PROVE value \in DOMAIN lowered
    <2>1. DefinedBefore(module, value, <<lowBlock, lowNext>>)
      BY <1>1, OperationPlace, HandedOver DEF ModuleSound, OperationSound
    <2>2. /\ module \in Module /\ lowNext \in Nat /\ lowBlock \in Nat
          /\ KnowsPassed(module, lowBlock, lowNext, DOMAIN lowered)
      BY HandedOver DEF LowInvariant
    <2>3. PICK known : known = DOMAIN lowered
      OBVIOUS
    <2>4. value \in known
      BY <2>1, <2>2, <2>3, DefinedIsPassed
    <2> QED
      BY <2>3, <2>4
  <1> QED
    BY <1>1 DEF Has

LEMMA IncomingIsKnown ==
  ASSUME Promised, LowInvariant, LoweringOf("phi"), NEW i \in DOMAIN LoweredOp.incoming
  PROVE  LoweredOp.incoming[i].value \in DOMAIN lowered
  <1> DEFINE e == LoweredOp.incoming[i].predecessor
             value == LoweredOp.incoming[i].value
             place == <<lowBlock, lowNext>>
  <1>1. /\ place \in Places(module) /\ LoweredOp = OperationAt(module, place)
        /\ LoweredOp.op = "phi" /\ lowBlock \in 1 .. Len(module.blocks)
    BY OperationPlace
  <1>2. OperationSound(module, place) /\ Structure(module)
    BY <1>1, HandedOver DEF ModuleSound
  <1>3. PhiOK(module, place)
    BY <1>1, <1>2 DEF OperationSound, OperationOK
  <1>4. module.blocks[lowBlock].id = lowBlock - 1
    BY <1>1, <1>2 DEF Structure, Numbered
  <1>5. e \in PredecessorsOf(module, lowBlock - 1)
    <2> DEFINE predecessors == [j \in DOMAIN LoweredOp.incoming |->
                                   LoweredOp.incoming[j].predecessor]
    <2>1. Range(predecessors) = PredecessorsOf(module, lowBlock - 1)
      BY <1>1, <1>3, <1>4 DEF PhiOK
    <2>2. e \in Range(predecessors)
      BY DEF Range
    <2> QED
      BY <2>1, <2>2
  <1>6. DefinedBefore(module, value, <<e + 1, Len(module.blocks[e + 1].operations) + 1>>)
    BY <1>1, <1>2 DEF OperationSound
  <1>7. lowNext \in Nat /\ KnowsPassed(module, lowBlock, lowNext, DOMAIN lowered)
    BY DEF LowInvariant
  <1>8. PICK known, v, d : known = DOMAIN lowered /\ v = value /\ d = e
    OBVIOUS
  <1>9. v \in known
    BY <1>1, <1>2, <1>5, <1>6, <1>7, <1>8, PredecessorsArePassed
  <1> QED
    BY <1>8, <1>9

\* Where the backend is when it lowers a terminator.
LEMMA TerminatorPlace ==
  ASSUME Promised, LowInvariant, NEW op, LoweringTerminator(op)
  PROVE  /\ genStatus = "done" /\ lowStatus = "lowering"
         /\ lowBlock \in 1 .. Len(module.blocks)
         /\ Has(Uses(LoweredBlock.terminator))
  <1>1. lowBlock \in 1 .. Len(module.blocks)
    BY HandedOver DEF LoweringTerminator, LowInvariant
  <1>2. ASSUME NEW value \in Uses(LoweredBlock.terminator) PROVE value \in DOMAIN lowered
    <2> DEFINE l == Len(module.blocks[lowBlock].operations) + 1
    <2>1. DefinedBefore(module, value, <<lowBlock, l>>)
      BY <1>1, <1>2, HandedOver DEF ModuleSound, TerminatorSound, LoweredBlock
    <2>2. l \in Nat /\ l <= lowNext /\ lowNext \in Nat /\ lowBlock \in Nat /\ module \in Module
      BY <1>1, HandedOver, BlockTypes DEF LoweringTerminator, LoweredBlock, LowInvariant
    <2> HIDE DEF l
    <2>3. KnowsPassed(module, lowBlock, l, DOMAIN lowered)
      <3>1. ASSUME NEW p \in Places(module), Passed(p, lowBlock, l)
            PROVE  Passed(p, lowBlock, lowNext)
        <4>1. p[2] \in Nat
          BY <2>2, PlaceFacts, BlockTypes
        <4> QED
          BY <2>2, <3>1, <4>1 DEF Passed
      <3> QED
        BY <3>1 DEF KnowsPassed, LowInvariant
    <2>4. PICK known : known = DOMAIN lowered
      OBVIOUS
    <2>5. value \in known
      BY <2>1, <2>2, <2>3, <2>4, DefinedIsPassed
    <2> QED
      BY <2>4, <2>5
  <1> QED
    BY <1>1, <1>2 DEF LoweringTerminator, LowInvariant, Has

LEMMA CloseKeepsLowering ==
  ASSUME Promised, LowInvariant, NEW op, LoweringTerminator(op), NEW insts, CloseWith(insts),
         UNCHANGED vars
  PROVE  LowInvariant'
  <1>1. /\ genStatus = "done" /\ lowStatus = "lowering"
        /\ lowBlock \in 1 .. Len(module.blocks)
    BY TerminatorPlace
  <1>2. lowBlock' = lowBlock + 1 /\ lowNext' = 1 /\ lowered' = lowered /\ lowError' = lowError
        /\ lowStatus' = lowStatus
    BY DEF CloseWith
  <1>3. PICK known : known = DOMAIN lowered
    OBVIOUS
  <1>4. KnowsPassed(module, lowBlock + 1, 1, known)
    <2>1. /\ module \in Module /\ lowNext \in Nat /\ KnowsPassed(module, lowBlock, lowNext, known)
          /\ lowNext > Len(module.blocks[lowBlock].operations)
      BY <1>3, HandedOver DEF LowInvariant, LoweringTerminator, LoweredBlock
    <2> QED
      BY <1>1, <2>1, PassedBlock
  <1>5. module' = module /\ genStatus' = genStatus
    BY DEF vars, genVars, codeVars
  <1>6. KnowsPassed(module, lowBlock, lowNext, DOMAIN lowered)'
    BY <1>2, <1>3, <1>4, <1>5
  <1> QED
    BY <1>1, <1>2, <1>5, <1>6 DEF LowInvariant, BackendTrustsFrontend

LEMMA StartKeepsLowering ==
  ASSUME Promised, LowInvariant, StartLowering
  PROVE  LowInvariant'
  <1>1. Verify(module) /\ ReturnedType = I64
    BY FirstReturnIsI64 DEF StartLowering, Promised, ModuleVerified
  <1>2. ModuleError = "none"
    BY <1>1 DEF ModuleError
  <1> QED
    BY <1>2
    DEF StartLowering, LowInvariant, BackendTrustsFrontend, vars, genVars, codeVars

LEMMA OperationKeepsLowering ==
  ASSUME Promised, LowInvariant,
         \/ LowerTensorDecl \/ LowerConstant \/ LowerBinary \/ LowerCompare \/ LowerPhi
         \/ LowerTensorOperation
  PROVE  LowInvariant'
  <1>1. ASSUME NEW op, LoweringOf(op), UNCHANGED vars, NEW inst, DefineInst(inst)
        PROVE  LowInvariant'
    BY <1>1, DefineKeepsLowering DEF DefineInst
  <1>2. ASSUME NEW op, LoweringOf(op), UNCHANGED vars, NEW error, LowFail(error),
               error \notin {"verify", "returnType", "missingValue", "invalidLLVM"}
        PROVE  LowInvariant'
    BY <1>2, OperationPlace, FailKeepsLowering
  <1>3. CASE LowerTensorDecl
    BY <1>1, <1>2, <1>3 DEF LowerTensorDecl
  <1>4. CASE LowerConstant
    BY <1>4, DefineKeepsLowering DEF LowerConstant
  <1>5. CASE LowerBinary
    BY <1>1, <1>5, OperandsAreKnown DEF LowerBinary
  <1>6. CASE LowerCompare
    BY <1>1, <1>6, OperandsAreKnown DEF LowerCompare
  <1>7. CASE LowerPhi
    <2>1. ASSUME NEW i \in DOMAIN LoweredOp.incoming
          PROVE  LoweredOp.incoming[i].value
                    \in DOMAIN Bound(LoweredOp.result, Register(LoweredOp.result))
      BY <1>7, BoundDomain, IncomingIsKnown DEF LowerPhi
    <2>2. \/ LowFail("phiType")
          \/ \E inst : DefineInst(inst)
      BY <1>7, <2>1 DEF LowerPhi
    <2> QED
      BY <1>1, <1>2, <1>7, <2>2 DEF LowerPhi
  <1>8. CASE LowerTensorOperation
    BY <1>2, <1>8 DEF LowerTensorOperation
  <1> QED
    BY <1>3, <1>4, <1>5, <1>6, <1>7, <1>8

LEMMA TerminatorKeepsLowering ==
  ASSUME Promised, LowInvariant, LowerBranch \/ LowerCondBranch \/ LowerReturn
  PROVE  LowInvariant'
  <1>1. ASSUME NEW op, LoweringTerminator(op), UNCHANGED vars, NEW insts, CloseWith(insts)
        PROVE  LowInvariant'
    BY <1>1, CloseKeepsLowering
  <1>2. CASE LowerBranch
    BY <1>1, <1>2 DEF LowerBranch
  <1>3. CASE LowerCondBranch
    BY <1>1, <1>3, TerminatorPlace DEF LowerCondBranch
  <1>4. CASE LowerReturn
    BY <1>1, <1>4, TerminatorPlace DEF LowerReturn
  <1> QED
    BY <1>2, <1>3, <1>4

LEMMA FinishKeepsLowering ==
  ASSUME Promised, LowInvariant, FinishLowering
  PROVE  LowInvariant'
  <1>1. ValidLLVM
    BY DominanceIsValid DEF FinishLowering, LowInvariant, Promised
  <1> QED
    BY <1>1
    DEF FinishLowering, LowInvariant, BackendTrustsFrontend, vars, genVars, codeVars

\* A step of the frontend comes before all of the backend's.
LEMMA FrontendKeepsLowering ==
  ASSUME Promised, Promised', LowInvariant, [Next]_vars, UNCHANGED lowVars
  PROVE  LowInvariant'
  <1>1. CASE genStatus = "done"
    BY <1>1, GeneratorRests, QuietLowering DEF genVars, codeVars
  <1>2. CASE genStatus # "done"
    <2>1. lowStatus = "idle" /\ lowBlock = 1 /\ lowNext = 1 /\ lowError = "none"
      BY <1>2 DEF LowInvariant
    <2>2. UNCHANGED <<lowStatus, lowBlock, lowNext, lowError, lowered>>
      BY DEF lowVars
    <2>3. module' \in Module
      BY DEF Promised, TypeOK
    <2>4. ASSUME NEW p \in Places(module') PROVE ~ Passed(p, 1, 1)
      BY <2>3, PlaceFacts DEF Passed
    <2>5. KnowsPassed(module', 1, 1, DOMAIN lowered)
      BY <2>4 DEF KnowsPassed
    <2> QED
      BY <2>1, <2>2, <2>5 DEF LowInvariant, BackendTrustsFrontend
  <1> QED
    BY <1>1, <1>2

LEMMA LoweringStep ==
  ASSUME Promised, Promised', LowInvariant, [ExecutionNext]_allVars
  PROVE  LowInvariant'
  <1>1. CASE LowerStep
    BY <1>1, StartKeepsLowering, OperationKeepsLowering, TerminatorKeepsLowering,
       FinishKeepsLowering DEF LowerStep
  <1>2. CASE UNCHANGED lowVars
    BY <1>2, FrontendStep, FrontendKeepsLowering
  <1> QED
    BY <1>1, <1>2 DEF ExecutionNext, ExecEnded, allVars

LEMMA LoweringAlways == ExecutionSpec => []LowInvariant
  <1>1. ExecutionInit => LowInvariant
    <2> SUFFICES ASSUME ExecutionInit PROVE LowInvariant
      OBVIOUS
    <2>1. /\ lowStatus = "idle" /\ lowError = "none" /\ lowBlock = 1 /\ lowNext = 1
          /\ module = [entry |-> 0, blocks |-> <<>>]
      BY DEF ExecutionInit, BackendInit, LowInit, Init, GenInit
    <2>2. Places(module) = {}
      BY <2>1 DEF Places
    <2> QED
      BY <2>1, <2>2 DEF LowInvariant, KnowsPassed, BackendTrustsFrontend
  <1> QED
    BY <1>1, LoweringStep, PromisedAlways, PTL DEF ExecutionSpec

(* No program the analyser accepts makes the backend look up a value it    *)
(* has not lowered, take a return of another type for that of main, or     *)
(* build a function LLVM refuses: what the frontend proves of values, of   *)
(* their types and of the order of blocks is all the backend relies on.    *)
THEOREM FrontendIsTrusted == ExecutionSpec => []BackendTrustsFrontend
  BY LoweringAlways, PTL DEF LowInvariant

-----------------------------------------------------------------------------
(* The operations of the module under construction *)

\* Every operation of the blocks is in S.
OperationsIn(blocks, S) ==
    \A b \in 1 .. Len(blocks) : \A k \in 1 .. Len(blocks[b].operations) :
        blocks[b].operations[k] \in S

LEMMA OperationsEmit ==
  ASSUME TypeOK, GraphInvariant, current # NoBlock, NEW S, OperationsIn(module.blocks, S),
         NEW operation \in Operation \cap S, Emit(operation)
  PROVE  OperationsIn(module'.blocks, S)
  <1> DEFINE c == current
             t == [module EXCEPT !.blocks = AppendTo(module.blocks, c, operation)]
             last == Len(module.blocks[c + 1].operations) + 1
  <1>1. /\ module \in Module /\ c \in Nat /\ c + 1 \in 1 .. Len(module.blocks)
    BY StateTypes, CurrentIsOpen
  <1>2. /\ Len(t.blocks) = Len(module.blocks)
        /\ \A b \in 1 .. Len(module.blocks) : b # c + 1 => t.blocks[b] = module.blocks[b]
        /\ Len(t.blocks[c + 1].operations) = last
        /\ \A k \in 1 .. last - 1 :
              t.blocks[c + 1].operations[k] = module.blocks[c + 1].operations[k]
        /\ t.blocks[c + 1].operations[last] = operation
    <2>1. /\ t \in Module
          /\ t.blocks = AppendTo(module.blocks, c, operation)
          /\ Len(t.blocks) = Len(module.blocks)
          /\ \A b \in 1 .. Len(module.blocks) :
                /\ t.blocks[b].terminator = module.blocks[b].terminator
                /\ b # c + 1 => t.blocks[b] = module.blocks[b]
          /\ Len(t.blocks[c + 1].operations) = last
          /\ \A k \in 1 .. last - 1 :
                t.blocks[c + 1].operations[k] = module.blocks[c + 1].operations[k]
          /\ t.blocks[c + 1].operations[last] = operation
      BY <1>1, AppendedFacts, SMTT(30)
    <2> QED
      BY <2>1
  <1>3. last \in Nat /\ last - 1 = Len(module.blocks[c + 1].operations)
    BY <1>1, BlockTypes
  <1>4. module' = t
    BY DEF Emit
  <1> HIDE DEF t, last, c
  <1>5. ASSUME NEW b \in 1 .. Len(t.blocks), NEW k \in 1 .. Len(t.blocks[b].operations)
        PROVE  t.blocks[b].operations[k] \in S
    <2>1. CASE b # c + 1
      BY <1>2, <2>1 DEF OperationsIn
    <2>2. CASE b = c + 1 /\ k # last
      <3>1. k \in 1 .. last - 1
        BY <1>2, <1>3, <2>2
      <3> QED
        BY <1>1, <1>2, <1>3, <2>2, <3>1 DEF OperationsIn
    <2>3. CASE b = c + 1 /\ k = last
      BY <1>2, <2>3
    <2> QED
      BY <2>1, <2>2, <2>3
  <1> QED
    BY <1>4, <1>5 DEF OperationsIn

LEMMA OperationsMerge ==
  ASSUME TypeOK, GraphInvariant, NEW S, OperationsIn(module.blocks, S), NEW ends,
         NEW operations \in Seq(Operation), Merge(ends, operations),
         \A i \in 1 .. Len(operations) : operations[i] \in S
  PROVE  OperationsIn(module'.blocks, S)
  <1> DEFINE n == Len(module.blocks)
             t == [module EXCEPT !.blocks = Joined(module.blocks, ends, n, operations)]
  <1>1. module \in Module /\ nextBlockId = n /\ n \in Nat
    BY StateTypes, BlockTypes DEF GraphInvariant
  <1>2. JoinedAt(module, t, ends, operations)
    BY <1>1, JoinedModule
  <1>3. module' = t
    BY <1>1 DEF Merge
  <1> HIDE DEF t, n
  <1>4. /\ Len(t.blocks) = n + 1
        /\ \A b \in 1 .. n : t.blocks[b].operations = module.blocks[b].operations
        /\ t.blocks[n + 1].operations = operations
    BY <1>2 DEF JoinedAt, n
  <1>5. ASSUME NEW b \in 1 .. Len(t.blocks), NEW k \in 1 .. Len(t.blocks[b].operations)
        PROVE  t.blocks[b].operations[k] \in S
    <2>1. CASE b \in 1 .. n
      BY <1>4, <2>1 DEF OperationsIn, n
    <2>2. CASE b = n + 1
      BY <1>4, <2>2
    <2> QED
      BY <1>1, <1>4, <2>1, <2>2
  <1> QED
    BY <1>3, <1>5 DEF OperationsIn

LEMMA OperationsFork ==
  ASSUME TypeOK, GraphInvariant, NEW S, OperationsIn(module.blocks, S), current # NoBlock,
         NEW condition \in ValueId,
         module'.blocks = ForkedBlocks(module.blocks, current, condition)
  PROVE  OperationsIn(module'.blocks, S)
  <1>1. /\ module.blocks \in Seq(BasicBlock) /\ current \in Nat
        /\ current + 1 \in 1 .. Len(module.blocks) /\ Len(module.blocks) \in Nat
    BY StateTypes, CurrentIsOpen, LenProperties
  <1>2. PICK op : Forked(module.blocks, module'.blocks, current, op)
    BY <1>1, ForkedFacts
  <1>3. /\ NewBlock(Len(module.blocks)).operations = <<>>
        /\ NewBlock(Len(module.blocks) + 1).operations = <<>>
        /\ Len(<<>>) = 0
    BY DEF NewBlock
  <1>4. ASSUME NEW b \in 1 .. Len(module'.blocks), NEW k \in 1 .. Len(module'.blocks[b].operations)
        PROVE  module'.blocks[b].operations[k] \in S
    <2>0. b \in 1 .. Len(module.blocks) + 2
      BY <1>2 DEF Forked
    <2>1. CASE b \in 1 .. Len(module.blocks)
      BY <1>2, <2>1 DEF OperationsIn, Forked
    <2>2. CASE b = Len(module.blocks) + 1 \/ b = Len(module.blocks) + 2
      <3>1. module'.blocks[b].operations = <<>>
        BY <1>2, <1>3, <2>2 DEF Forked
      <3>2. k \in 1 .. 0
        BY <1>3, <3>1
      <3> QED
        BY <3>2
    <2> QED
      <3>1. b \in 1 .. Len(module.blocks) \/ b = Len(module.blocks) + 1 \/ b = Len(module.blocks) + 2
        BY <1>1, <2>0
      <3> QED
        BY <2>1, <2>2, <3>1
  <1> QED
    BY <1>4 DEF OperationsIn

LEMMA OperationsClose ==
  ASSUME TypeOK, GraphInvariant, NEW S, OperationsIn(module.blocks, S), current # NoBlock,
         NEW terminator \in Terminator,
         module' = [module EXCEPT !.blocks = Close(module.blocks, current, terminator)]
  PROVE  OperationsIn(module'.blocks, S)
  <1>1. module \in Module /\ current \in Nat /\ current + 1 \in 1 .. Len(module.blocks)
    BY StateTypes, CurrentIsOpen
  <1>2. ClosedWith(module.blocks, module'.blocks, current, terminator)
    BY <1>1, ClosedFacts
  <1> QED
    BY <1>2 DEF OperationsIn, ClosedWith

-----------------------------------------------------------------------------
(* Programs of scalars *)

\* No tensor is declared and nothing is called.
OnlyScalars == \A i \in DOMAIN prog : prog[i].kind \notin {"tensor", "call", "endcall"}

\* An operation that has a lowering.
Lowerable(operation) ==
    /\ operation.op \in {"int", "float", "binary", "compare", "phi"}
    /\ operation.op = "phi" => operation.type \in LowerableTypes

LowerableBlocks(blocks) == OperationsIn(blocks, {operation \in Operation : Lowerable(operation)})

LowerableEnvironment(environment) ==
    \A name \in Names : environment[name] # NoValue => environment[name].type \in LowerableTypes

LowerableStack(stack) == \A i \in 1 .. Len(stack) : stack[i].type \in LowerableTypes

LowerableFrames(frames) ==
    \A i \in 1 .. Len(frames) : /\ LowerableEnvironment(frames[i].before)
                                /\ LowerableEnvironment(frames[i].thenValues)

\* Every value the generator can come back to has a type LLVM has, too.
Scalars ==
    /\ LowerableBlocks(module.blocks)
    /\ LowerableEnvironment(values)
    /\ LowerableStack(operands)
    /\ LowerableFrames(ifs)

LEMMA LowerablePop ==
  ASSUME NEW stack \in Seq(ValueInfo), LowerableStack(stack), NEW n \in Nat, n <= Len(stack)
  PROVE  LowerableStack(SubSeq(stack, 1, Len(stack) - n))
  BY StackPop, LenProperties DEF LowerableStack

LEMMA LowerablePush ==
  ASSUME NEW stack \in Seq(ValueInfo), LowerableStack(stack), NEW info \in ValueInfo,
         info.type \in LowerableTypes
  PROVE  LowerableStack(Append(stack, info))
  BY AppendProperties, LenProperties DEF LowerableStack
\* A step that appends an operation, and pushes its value.
LEMMA ScalarsDefine ==
  ASSUME TypeOK, GraphInvariant, Scalars, NEW kind, Emitting(kind), NEW operation \in Operation,
         Lowerable(operation), NEW n \in Nat, n <= Len(operands),
         NEW type \in TensorType \cap LowerableTypes, Define(operation, n, type)
  PROVE  Scalars'
  <1>1. current # NoBlock
    BY DEF Emitting
  <1>2. LowerableBlocks(module'.blocks)
    BY <1>1, OperationsEmit DEF Scalars, Define, LowerableBlocks
  <1>3. LowerableStack(operands')
    <2> DEFINE info == [value |-> nextValueId, type |-> type]
    <2>1. info \in ValueInfo /\ info.type \in LowerableTypes
      BY DEF ValueInfo, ValueId, TypeOK
    <2>2. /\ Pop(n) \in Seq(ValueInfo) /\ LowerableStack(Pop(n))
      BY OperandTypes, LowerablePop DEF Pop, Scalars, TypeOK
    <2> HIDE DEF info
    <2>3. LowerableStack(Append(Pop(n), info))
      BY <2>1, <2>2, LowerablePush
    <2> QED
      BY <2>3 DEF Define, info
  <1> QED
    BY <1>2, <1>3 DEF Scalars, Define, flowVars

LEMMA ScalarsRest ==
  ASSUME Scalars, module' = module, values' = values, operands' = operands, ifs' = ifs
  PROVE  Scalars'
  BY DEF Scalars

LEMMA ScalarsFail ==
  ASSUME Scalars, NEW error, Fail(error)
  PROVE  Scalars'
  BY ScalarsRest DEF Fail, codeVars, flowVars

LEMMA NumbersAreLowerable ==
  /\ I64 \in TensorType \cap LowerableTypes
  /\ F64 \in TensorType \cap LowerableTypes
  /\ I1 \in TensorType \cap LowerableTypes
  BY ScalarTypes DEF LowerableTypes

\* The operands the generator holds are scalars, whatever is popped.
LEMMA ScalarOperands ==
  ASSUME TypeOK, Scalars
  PROVE  /\ Len(operands) >= 1 => LastOperand.type \in TensorType \cap LowerableTypes
         /\ Len(operands) >= 2 => PreviousOperand.type \in TensorType \cap LowerableTypes
  <1>1. operands \in Seq(ValueInfo) /\ Len(operands) \in Nat
    BY DEF TypeOK
  <1> QED
    BY <1>1, OperandTypes DEF Scalars, LowerableStack, LastOperand, PreviousOperand, ValueInfo

LEMMA ScalarExpressions ==
  ASSUME TypeOK, GraphInvariant, Scalars, OnlyScalars,
         \/ GenerateIdentifier \/ GenerateInteger \/ GenerateFloat \/ GenerateBinary
         \/ GenerateCall \/ GenerateRelu \/ GenerateMatMul
  PROVE  Scalars'
  <1>0. /\ operands \in Seq(ValueInfo) /\ Len(operands) \in Nat /\ nextValueId \in ValueId
        /\ genPos \in 1 .. Len(prog) + 1 /\ prog \in Seq(Node)
    BY DEF TypeOK, SemaTypeOK, ValueId
  <1>1. ASSUME NEW kind \in {"call", "endcall"}, Emitting(kind) PROVE FALSE
    <2>1. genPos \in DOMAIN prog /\ prog[genPos].kind = kind
      BY <1>0, <1>1 DEF Emitting, Generating
    <2> QED
      BY <2>1 DEF OnlyScalars
  <1>2. CASE GenerateIdentifier
    <2>1. CASE Fail("unresolved")
      BY <2>1, ScalarsFail
    <2>2. CASE ~ Fail("unresolved")
      <3> DEFINE found == values[GenNode.name]
      <3>1. GenNode.name \in Names /\ found # NoValue
        BY <1>2, <2>2, GenNodeName DEF GenerateIdentifier, Emitting
      <3>2. found \in ValueInfo /\ found.type \in LowerableTypes
        BY <3>1 DEF TypeOK, Environment, Scalars, LowerableEnvironment
      <3>3. operands' = Append(operands, found) /\ UNCHANGED <<codeVars, flowVars>>
        BY <1>2, <2>2 DEF GenerateIdentifier
      <3> HIDE DEF found
      <3>4. LowerableStack(operands')
        BY <1>0, <3>2, <3>3, LowerablePush DEF Scalars
      <3> QED
        BY <3>3, <3>4 DEF Scalars, codeVars, flowVars
    <2> QED
      BY <2>1, <2>2
  <1>3. CASE GenerateInteger
    <2> DEFINE operation == ConstantIntOp(nextValueId, GenNode.value)
    <2>1. Emitting("integer") /\ Define(operation, 0, I64) /\ GenNode.value \in Nat
      BY <1>3, GenNodeValue DEF GenerateInteger, Emitting
    <2>2. operation \in Operation /\ Lowerable(operation)
      BY <1>0, <2>1, ScalarTypes, OperationTypes DEF Lowerable, ConstantIntOp
    <2> HIDE DEF operation
    <2> QED
      BY <1>0, <2>1, <2>2, NumbersAreLowerable, ScalarsDefine
  <1>4. CASE GenerateFloat
    <2> DEFINE operation == ConstantFloatOp(nextValueId, GenNode.value)
    <2>1. Emitting("float") /\ Define(operation, 0, F64) /\ GenNode.value \in Nat
      BY <1>4, GenNodeValue DEF GenerateFloat, Emitting
    <2>2. operation \in Operation /\ Lowerable(operation)
      BY <1>0, <2>1, ScalarTypes, OperationTypes DEF Lowerable, ConstantFloatOp
    <2> HIDE DEF operation
    <2> QED
      BY <1>0, <2>1, <2>2, NumbersAreLowerable, ScalarsDefine
  <1>5. CASE GenerateBinary
    <2>1. CASE Fail("binaryType")
      BY <2>1, ScalarsFail
    <2>2. CASE ~ Fail("binaryType")
      <3> DEFINE operation == BinaryOperation(GenNode.op, PreviousOperand, LastOperand)
                 type == BinaryType(GenNode.op, PreviousOperand.type)
      <3>1. /\ Emitting("binary") /\ Len(operands) >= 2
            /\ Define(operation, 2, type)
        BY <1>5, <2>2 DEF GenerateBinary
      <3>2. GenNode.op \in BinaryOperator
        BY <3>1, GenNodeOp DEF Emitting
      <3>3. /\ PreviousOperand \in ValueInfo /\ LastOperand \in ValueInfo
            /\ PreviousOperand.type \in TensorType \cap LowerableTypes
        BY <1>0, <3>1, OperandTypes, ScalarOperands
      <3>4. type \in TensorType \cap LowerableTypes
        BY <3>3, NumbersAreLowerable DEF BinaryType
      <3>5. operation \in Operation /\ Lowerable(operation)
        <4>1. /\ PreviousOperand.value \in ValueId /\ LastOperand.value \in ValueId
              /\ PreviousOperand.type \in TensorType
          BY <3>3 DEF ValueInfo
        <4>2. CASE GenNode.op \in Arithmetic
          BY <1>0, <4>1, <4>2, OperationTypes DEF BinaryOperation, Lowerable, BinaryOp
        <4>3. CASE GenNode.op \notin Arithmetic
          BY <1>0, <3>2, <4>1, <4>3, OperationTypes
          DEF BinaryOperation, Lowerable, CompareOp, BinaryOperator
        <4> QED
          BY <4>2, <4>3
      <3> HIDE DEF operation, type
      <3> QED
        BY <1>0, <3>1, <3>4, <3>5, ScalarsDefine
    <2> QED
      BY <2>1, <2>2
  <1>6. CASE GenerateCall \/ GenerateRelu \/ GenerateMatMul
    BY <1>1, <1>6 DEF GenerateCall, GenerateRelu, GenerateMatMul
  <1> QED
    BY <1>2, <1>3, <1>4, <1>5, <1>6

LEMMA ScalarStatements ==
  ASSUME TypeOK, GraphInvariant, Scalars, OnlyScalars,
         GenerateTensorDeclaration \/ GenerateAssignment \/ GenerateReturn
  PROVE  Scalars'
  <1>0. /\ operands \in Seq(ValueInfo) /\ Len(operands) \in Nat
        /\ genPos \in 1 .. Len(prog) + 1 /\ prog \in Seq(Node)
    BY DEF TypeOK, SemaTypeOK
  <1>1. CASE GenerateTensorDeclaration
    <2>1. genPos \in DOMAIN prog /\ prog[genPos].kind = "tensor"
      BY <1>0, <1>1 DEF GenerateTensorDeclaration, Emitting, Generating
    <2> QED
      BY <2>1 DEF OnlyScalars
  <1>2. ASSUME Holding(1) PROVE LowerableStack(Pop(1)) /\ LastOperand \in ValueInfo
    BY <1>0, <1>2, LowerablePop, OperandTypes DEF Holding, Pop, Scalars
  <1>3. CASE GenerateAssignment
    <2>1. /\ Holding(1) /\ operands' = Pop(1)
          /\ values' = [values EXCEPT ![GenNode.name] = LastOperand]
          /\ UNCHANGED <<module, flowVars>>
      BY <1>3 DEF GenerateAssignment
    <2>2. LastOperand.type \in LowerableTypes
      BY <1>0, <2>1, ScalarOperands DEF Holding
    <2>3. LowerableEnvironment(values')
      BY <2>1, <2>2 DEF Scalars, LowerableEnvironment, TypeOK, Environment
    <2> QED
      BY <1>2, <2>1, <2>3 DEF Scalars, flowVars
  <1>4. CASE GenerateReturn
    <2> DEFINE op == ReturnOp(LastOperand.value)
    <2>1. /\ Holding(1) /\ operands' = Pop(1) /\ current # NoBlock
          /\ module' = [module EXCEPT !.blocks = Close(module.blocks, current, op)]
          /\ values' = values /\ ifs' = ifs
      BY <1>4 DEF GenerateReturn, Emitting
    <2>2. op \in Terminator
      BY <1>2, <2>1, TerminatorTypes DEF ValueInfo, ValueId
    <2> HIDE DEF op
    <2>3. LowerableBlocks(module'.blocks)
      BY <2>1, <2>2, OperationsClose DEF Scalars, LowerableBlocks
    <2> QED
      BY <1>2, <2>1, <2>3 DEF Scalars
  <1> QED
    BY <1>1, <1>3, <1>4

LEMMA ScalarBranches ==
  ASSUME TypeOK, GraphInvariant, Scalars, GenerateIf \/ GenerateElse
  PROVE  Scalars'
  <1>0. operands \in Seq(ValueInfo) /\ Len(operands) \in Nat /\ ifs \in Seq(GenFrame)
        /\ Len(ifs) \in Nat
    BY DEF TypeOK
  <1>1. CASE GenerateIf
    <2>1. CASE Fail("conditionType")
      BY <2>1, ScalarsFail
    <2>2. CASE ~ Fail("conditionType")
      <3> DEFINE frame == [before |-> values, elseBlock |-> nextBlockId + 1, inElse |-> FALSE,
                           thenEnd |-> NoBlock, thenValues |-> NoValues]
                 condition == LastOperand.value
      <3>1. /\ Holding(1) /\ operands' = Pop(1) /\ current # NoBlock /\ values' = values
            /\ ifs' = Append(ifs, frame) /\ nextBlockId = Len(module.blocks)
            /\ module' = [module EXCEPT !.blocks =
                             ForkedBlocks(module.blocks, current, condition)]
        BY <1>1, <2>2 DEF GenerateIf, Emitting, GraphInvariant, ForkedBlocks
      <3>2. LowerableStack(operands')
        <4>1. Len(operands) = 1 /\ LowerableStack(operands)
          BY <3>1 DEF Holding, Scalars
        <4>2. LowerableStack(SubSeq(operands, 1, Len(operands) - 1))
          BY ONLY <1>0, <4>1, LowerablePop
        <4> QED
          BY <3>1, <4>2 DEF Pop
      <3>3. condition \in ValueId
        BY <1>0, <3>1, OperandTypes DEF Holding, ValueInfo
      <3>4. LowerableEnvironment(frame.before) /\ LowerableEnvironment(frame.thenValues)
        BY DEF Scalars, LowerableEnvironment, NoValues
      <3> HIDE DEF condition, frame
      <3>5. module'.blocks = ForkedBlocks(module.blocks, current, condition)
        BY <3>1 DEF TypeOK, Module
      <3>6. LowerableBlocks(module'.blocks)
        BY <3>1, <3>3, <3>5, OperationsFork DEF Scalars, LowerableBlocks
      <3>7. LowerableFrames(ifs')
        <4>1. /\ Len(ifs') = Len(ifs) + 1 /\ ifs'[Len(ifs) + 1] = frame
              /\ \A i \in 1 .. Len(ifs) : ifs'[i] = ifs[i]
          <5>1. ifs \in Seq(GenFrame \cup {frame})
            BY <1>0
          <5> QED
            BY <3>1, <5>1, AppendProperties
        <4> QED
          BY <1>0, <3>4, <4>1 DEF Scalars, LowerableFrames
      <3> QED
        BY <3>1, <3>2, <3>6, <3>7 DEF Scalars
    <2> QED
      BY <2>1, <2>2
  <1>2. CASE GenerateElse
    <2> DEFINE frame == [GenIf EXCEPT !.inElse = TRUE, !.thenEnd = current, !.thenValues = values]
    <2>1. /\ ifs # <<>> /\ ifs' = [ifs EXCEPT ![Len(ifs)] = frame] /\ values' = GenIf.before
          /\ UNCHANGED <<module, operands>>
      BY <1>2 DEF GenerateElse, GenIf
    <2>2. /\ GenIf \in GenFrame /\ Len(ifs) \in 1 .. Len(ifs)
          /\ LowerableEnvironment(GenIf.before)
      BY <1>0, <2>1, StackTop DEF GenIf, Scalars, LowerableFrames
    <2>3. /\ frame \in GenFrame
          /\ LowerableEnvironment(frame.before) /\ LowerableEnvironment(frame.thenValues)
      BY <2>2 DEF GenFrame, TypeOK, Scalars
    <2> HIDE DEF frame
    <2>4. /\ Len(ifs') = Len(ifs) /\ ifs'[Len(ifs)] = frame
          /\ \A i \in 1 .. Len(ifs) - 1 : ifs'[i] = ifs[i]
      BY <1>0, <2>1, <2>3, StackReplace
    <2>5. LowerableFrames(ifs')
      BY <1>0, <2>3, <2>4 DEF Scalars, LowerableFrames
    <2> QED
      BY <2>1, <2>2, <2>5 DEF Scalars
  <1> QED
    BY <1>1, <1>2

\* After an if statement: the frame is popped, and its environments merge.
LEMMA ScalarEnds ==
  ASSUME TypeOK, GraphInvariant, Scalars,
         GenerateEndIfClosed \/ GenerateEndIfOne \/ GenerateEndIfBoth
  PROVE  Scalars'
  <1>0. ifs \in Seq(GenFrame) /\ Len(ifs) \in Nat
    BY DEF TypeOK
  <1>1. ASSUME ifs # <<>>
        PROVE  /\ GenIf \in GenFrame
               /\ LowerableEnvironment(GenIf.before)
               /\ LowerableEnvironment(GenIf.thenValues)
    BY <1>0, <1>1, StackTop DEF GenIf, Scalars, LowerableFrames
  <1>2. ASSUME EndIf PROVE LowerableFrames(ifs') /\ operands' = operands
    <2>1. ifs # <<>> /\ ifs' = SubSeq(ifs, 1, Len(ifs) - 1) /\ operands' = operands
      BY <1>2 DEF EndIf
    <2>2. Len(ifs') \in Nat /\ \A i \in 1 .. Len(ifs') : ifs'[i] = ifs[i] /\ i \in 1 .. Len(ifs)
      BY <1>0, <2>1, StackPopTop
    <2> QED
      BY <2>1, <2>2 DEF Scalars, LowerableFrames
  <1>3. CASE GenerateEndIfClosed
    <2>1. EndIf /\ ifs # <<>> /\ module' = module /\ values' = GenIf.before
      BY <1>3 DEF GenerateEndIfClosed, EndIf
    <2> QED
      BY <1>1, <1>2, <2>1 DEF Scalars
  <1>4. CASE GenerateEndIfOne
    <2>1. /\ EndIf /\ ifs # <<>> /\ values' = SurvivingValues
          /\ Merge({GenIf.thenEnd, current} \ {NoBlock}, <<>>)
      BY <1>4 DEF GenerateEndIfOne, EndIf
    <2>2. <<>> \in Seq(Operation)
      OBVIOUS
    <2>3. \A S, i : i \in 1 .. Len(<<>>) => <<>>[i] \in S
      OBVIOUS
    <2>4. LowerableBlocks(module.blocks)
      BY DEF Scalars
    <2>5. LowerableBlocks(module'.blocks)
      BY <2>1, <2>2, <2>3, <2>4, OperationsMerge DEF LowerableBlocks
    <2>6. LowerableEnvironment(values')
      BY <1>1, <2>1 DEF SurvivingValues, Scalars
    <2> QED
      BY <1>2, <2>1, <2>5, <2>6 DEF Scalars
  <1>5. CASE GenerateEndIfBoth
    <2>1. CASE Fail("branchType")
      BY <2>1, ScalarsFail
    <2>2. CASE ~ Fail("branchType")
      <3>1. /\ EndIf /\ ifs # <<>> /\ GenIf.thenEnd # NoBlock /\ current # NoBlock
        BY <1>5, <2>2 DEF GenerateEndIfBoth
      <3>2. PICK order \in SetToSeqs(Differing(GenIf.thenValues, values)) :
               /\ Merge({GenIf.thenEnd, current},
                        Phis(order, GenIf.thenEnd, current, GenIf.thenValues, values))
               /\ values' = MergedValues(order, GenIf.thenValues, values)
        BY <1>5, <2>2 DEF GenerateEndIfBoth
      <3>3. /\ GenIf.thenEnd \in Nat /\ current \in Nat /\ values \in Environment
            /\ GenIf.thenValues \in Environment
        BY <1>1, <3>1 DEF MaybeBlock, BlockId, TypeOK, GenFrame
      <3> DEFINE phis == Phis(order, GenIf.thenEnd, current, GenIf.thenValues, values)
      <3>4. phis \in Seq(Operation)
        BY <3>2, <3>3, PhisType
      <3>5. \A i \in DOMAIN order : /\ order[i] \in Names
                                    /\ GenIf.thenValues[order[i]] # NoValue
        BY OrderType DEF Differing, Common
      <3>6. ASSUME NEW i \in 1 .. Len(phis) PROVE Lowerable(phis[i])
        <4>1. i \in DOMAIN order
          BY <3>4, LenProperties DEF Phis
        <4>2. /\ phis[i].op = "phi"
              /\ phis[i].type = GenIf.thenValues[order[i]].type
          BY <4>1 DEF Phis, PhiOp
        <4> HIDE DEF phis
        <4>3. phis[i].type \in LowerableTypes
          BY <1>1, <3>1, <3>5, <4>1, <4>2 DEF LowerableEnvironment
        <4> QED
          BY <4>2, <4>3 DEF Lowerable
      <3> HIDE DEF phis
      <3>7. LowerableBlocks(module'.blocks)
        <4> DEFINE S == {operation \in Operation : Lowerable(operation)}
        <4>1. \A i \in 1 .. Len(phis) : phis[i] \in S
          BY <3>4, <3>6, ElementOfSeq
        <4> HIDE DEF S
        <4>2. OperationsIn(module.blocks, S)
          BY DEF Scalars, LowerableBlocks, S
        <4>3. OperationsIn(module'.blocks, S)
          BY <3>2, <3>4, <4>1, <4>2, OperationsMerge DEF phis
        <4> QED
          BY <4>3 DEF LowerableBlocks, S
      <3>8. LowerableEnvironment(values')
        <4>1. ASSUME NEW name \in Names, values'[name] # NoValue
              PROVE  values'[name].type \in LowerableTypes
          <5>1. CASE name \in Range(order)
            <6>1. GenIf.thenValues[name] # NoValue
              BY <3>5, <5>1 DEF Range
            <6>2. values'[name].type = GenIf.thenValues[name].type
              BY <3>2, <5>1 DEF MergedValues
            <6> QED
              BY <1>1, <3>1, <6>1, <6>2 DEF LowerableEnvironment
          <5>2. CASE name \notin Range(order)
            <6>1. /\ values'[name] = GenIf.thenValues[name]
                  /\ GenIf.thenValues[name] # NoValue
              BY <3>2, <4>1, <5>2 DEF MergedValues, Common
            <6> QED
              BY <1>1, <3>1, <6>1 DEF LowerableEnvironment
          <5> QED
            BY <5>1, <5>2
        <4> QED
          BY <4>1 DEF LowerableEnvironment
      <3> QED
        BY <1>2, <3>1, <3>7, <3>8 DEF Scalars
    <2> QED
      BY <2>1, <2>2
  <1> QED
    BY <1>3, <1>4, <1>5

LEMMA ScalarStart ==
  ASSUME TypeOK, GraphInvariant, Scalars, StartGeneration
  PROVE  Scalars'
  <1>1. /\ module.blocks = <<>> /\ ifs = <<>> /\ nextBlockId = 0
    BY DEF StartGeneration, GraphInvariant
  <1>2. /\ module'.blocks = <<NewBlock(0)>> /\ ifs' = <<>> /\ values' = values
        /\ operands' = operands
    BY <1>1 DEF StartGeneration
  <1>3. /\ Len(module'.blocks) = 1 /\ module'.blocks[1].operations = <<>>
        /\ Len(<<>>) = 0
    BY <1>2 DEF NewBlock
  <1>4. LowerableBlocks(module'.blocks)
    BY <1>3 DEF LowerableBlocks, OperationsIn
  <1> QED
    BY <1>2, <1>4 DEF Scalars, LowerableFrames

LEMMA ScalarsStep ==
  ASSUME TypeOK, GraphInvariant, Scalars, OnlyScalars, [Next]_vars
  PROVE  Scalars'
  <1>1. CASE UNCHANGED genVars
    BY <1>1, ScalarsRest DEF genVars, codeVars, flowVars
  <1>2. CASE SkipUnreachable \/ RejectUnreachable \/ Finish
    BY <1>2, ScalarsFail, ScalarsRest
    DEF SkipUnreachable, RejectUnreachable, Finish, codeVars, flowVars
  <1> QED
    BY <1>1, <1>2, ScalarExpressions, ScalarStatements, ScalarBranches, ScalarEnds, ScalarStart
    DEF Next, GenStep, Ended, vars

LEMMA ScalarsKeepLowering ==
  ASSUME Promised, LowInvariant, LowInvariant', Scalars, OnlyScalars, lowError = "none", LowerStep
  PROVE  lowError' = "none"
  <1>1. ASSUME NEW op, LoweringOf(op)
        PROVE  op # "tensor" /\ op # "matmul" /\ op # "relu"
               /\ (op = "phi" => LoweredOp.type \in LowerableTypes)
    <2>1. /\ lowBlock \in 1 .. Len(module.blocks) /\ LoweredOp.op = op
          /\ <<lowBlock, lowNext>> \in Places(module)
          /\ LoweredOp = OperationAt(module, <<lowBlock, lowNext>>)
      BY <1>1, OperationPlace
    <2>2. PICK p : p = <<lowBlock, lowNext>>
      OBVIOUS
    <2>3. /\ p[1] = lowBlock /\ p[2] = lowNext
          /\ p[2] \in 1 .. Len(module.blocks[p[1]].operations)
      BY <2>1, <2>2, HandedOver, PlaceFacts
    <2>4. Lowerable(module.blocks[lowBlock].operations[lowNext])
      BY <2>1, <2>3 DEF Scalars, LowerableBlocks, OperationsIn
    <2>5. Lowerable(LoweredOp)
      BY <2>4 DEF LoweredOp, LoweredBlock
    <2> QED
      BY <2>1, <2>5 DEF Lowerable
  <1>2. ASSUME NEW inst, DefineInst(inst) PROVE lowError' = "none"
    BY <1>2 DEF DefineInst
  <1>3. ASSUME NEW error, LowFail(error),
               error \in {"verify", "returnType", "missingValue", "invalidLLVM"}
        PROVE  FALSE
    BY <1>3 DEF LowFail, LowInvariant, BackendTrustsFrontend
  <1>4. ASSUME NEW insts, CloseWith(insts) PROVE lowError' = "none"
    BY <1>4 DEF CloseWith
  <1>5. CASE StartLowering
    BY <1>3, <1>5 DEF StartLowering, ModuleError
  <1>6. CASE LowerTensorDecl \/ LowerTensorOperation
    BY <1>1, <1>6 DEF LowerTensorDecl, LowerTensorOperation
  <1>7. CASE LowerConstant
    BY <1>7 DEF LowerConstant
  <1>8. CASE LowerBinary \/ LowerCompare
    BY <1>2, <1>3, <1>8 DEF LowerBinary, LowerCompare
  <1>9. CASE LowerPhi
    <2>1. LoweredOp.type \in LowerableTypes
      BY <1>1, <1>9 DEF LowerPhi
    <2>2. LowFail("missingValue") \/ \E inst : DefineInst(inst)
      BY <1>9, <2>1 DEF LowerPhi
    <2> QED
      BY <1>2, <1>3, <2>2
  <1>10. CASE LowerBranch \/ LowerCondBranch \/ LowerReturn
    BY <1>3, <1>4, <1>10 DEF LowerBranch, LowerCondBranch, LowerReturn
  <1>11. CASE FinishLowering
    BY <1>3, <1>11 DEF FinishLowering
  <1> QED
    BY <1>5, <1>6, <1>7, <1>8, <1>9, <1>10, <1>11 DEF LowerStep

LEMMA ProgramStays ==
  ASSUME TypeOK, [Next]_vars
  PROVE  prog' = prog
  <1>1. CASE SemaStep
    BY <1>1, StepVisits, AnalysisEnds DEF TypeOK
  <1>2. CASE UNCHANGED semaVars
    BY <1>2 DEF semaVars
  <1> QED
    BY <1>1, <1>2, AnalyserAlone

LowersScalars == OnlyScalars => Scalars /\ lowError = "none"

LEMMA LowersScalarsStep ==
  ASSUME Promised, LowInvariant, LowInvariant', LowersScalars, [ExecutionNext]_allVars
  PROVE  LowersScalars'
  <1>1. [Next]_vars
    BY FrontendStep
  <1>2. prog' = prog
    BY <1>1, ProgramStays DEF Promised
  <1> SUFFICES ASSUME OnlyScalars PROVE Scalars' /\ lowError' = "none"
    BY <1>2 DEF LowersScalars, OnlyScalars
  <1>3. TypeOK /\ GraphInvariant /\ Scalars /\ lowError = "none"
    BY DEF Promised, ValuesInvariant, LowersScalars
  <1>4. Scalars'
    BY <1>1, <1>3, ScalarsStep
  <1>5. CASE LowerStep
    BY <1>3, <1>4, <1>5, ScalarsKeepLowering
  <1>6. CASE UNCHANGED lowVars
    BY <1>3, <1>4, <1>6 DEF lowVars
  <1> QED
    BY <1>5, <1>6 DEF ExecutionNext, ExecEnded, allVars

(* A program without tensors and calls, once the frontend has compiled it, *)
(* never makes the backend throw: each of its operations has a lowering,   *)
(* and each value that meets another in a phi, whichever blocks return,    *)
(* has a type lowerType knows.                                             *)
THEOREM ScalarProgramsAreLowered == ExecutionSpec => []ScalarProgramsLower
  <1>1. ExecutionInit => LowersScalars
    <2> SUFFICES ASSUME ExecutionInit PROVE Scalars /\ lowError = "none"
      BY DEF LowersScalars
    <2>1. /\ module = [entry |-> 0, blocks |-> <<>>] /\ values = NoValues /\ operands = <<>>
          /\ ifs = <<>> /\ lowError = "none"
      BY DEF ExecutionInit, BackendInit, LowInit, Init, GenInit
    <2>2. Len(module.blocks) = 0 /\ Len(operands) = 0 /\ Len(ifs) = 0
      BY <2>1
    <2> QED
      BY <2>1, <2>2
      DEF Scalars, LowerableBlocks, OperationsIn, LowerableEnvironment, LowerableStack, LowerableFrames, NoValues
  <1>2. LowersScalars => ScalarProgramsLower
    BY DEF LowersScalars, OnlyScalars, ScalarProgramsLower
  <1> QED
    BY <1>1, <1>2, LowersScalarsStep, LoweringAlways, PromisedAlways, PTL DEF ExecutionSpec

-----------------------------------------------------------------------------
(* The code of a block *)

DefinitionOf(m, value) == CHOOSE p \in Definitions(m, value) : TRUE

\* The operand the value of an operation is lowered to.
ResultOperand(operation) ==
    IF operation.op = "int" THEN ConstantInt(operation.value)
    ELSE IF operation.op = "float" THEN ConstantFP ELSE Register(resultOf(operation))

\* The operand a value is lowered to: of its definition alone.
ValueOperand(m, value) == ResultOperand(OperationAt(m, DefinitionOf(m, value)))

\* The instruction an operation is lowered to.
Translation(m, operation) ==
    CASE operation.op = "tensor" ->
            AllocInst(operation.result, StorageSize(operation.type), 64, operation.result)
      [] operation.op = "binary" ->
            ArithmeticInst(operation.result, operation.kind, ValueOperand(m, operation.lhs),
                           ValueOperand(m, operation.rhs), Floating(operation.type))
      [] operation.op = "compare" ->
            CompareInst(operation.result,
                        Predicate(operation.kind, Floating(operation.operandType)),
                        ValueOperand(m, operation.lhs), ValueOperand(m, operation.rhs))
      [] operation.op = "phi" ->
            PhiInst(operation.result,
                    [i \in DOMAIN operation.incoming |->
                        [operation.incoming[i] EXCEPT !.value = ValueOperand(m, @)]])

Defines(inst, value) == inst.inst \in {"alloc", "binary", "compare", "phi"} /\ inst.result = value

Tensors(m) == {resultOf(OperationAt(m, p)) : p \in {q \in Places(m) : OperationAt(m, q).op = "tensor"}}

\* Instruction i of list s makes a slot; so do those before it.
SlotAt(m, b, s, i) ==
    /\ b = 1
    /\ \E v \in Tensors(m) : s[i] = SlotInst(v)
    /\ \A j \in 1 .. i - 1 : s[j].inst = "slot"

\* Operation l of block b has a value: it is a constant, or an instruction
\* before instruction i of list s defines it.
Available(m, b, s, i, l) ==
    LET operation == m.blocks[b].operations[l] IN
    Constant(operation) \/ \E j \in 1 .. i - 1 : Defines(s[j], operation.result)

\* Instruction i of list s is operation k of block b, after those before it.
OperationCodeAt(m, b, s, i, k) ==
    LET operation == m.blocks[b].operations[k] IN
    /\ Coded(operation)
    /\ operation.op = "tensor" => StorageSize(operation.type) # Refused
    /\ s[i] = Translation(m, operation)
    /\ \A l \in 1 .. k - 1 : Available(m, b, s, i, l)

\* List s is the code of block b up to operation n: the slots, if the block
\* is the entry, and its operations in their order, each of them once.
Body(m, b, s, n) ==
    /\ IsList(s)
    /\ \A i \in 1 .. Len(s) :
          \/ SlotAt(m, b, s, i)
          \/ \E k \in 1 .. Len(m.blocks[b].operations) : k < n /\ OperationCodeAt(m, b, s, i, k)
    /\ \A k \in 1 .. Len(m.blocks[b].operations) : k < n => Available(m, b, s, Len(s) + 1, k)
    /\ \A i, j \in 1 .. Len(s) : \A value : Defines(s[i], value) /\ Defines(s[j], value) => i = j
    /\ b = 1 => \A v \in Tensors(m) : \E i \in 1 .. Len(s) : s[i] = SlotInst(v)

LEMMA SlotKind == \A v : SlotInst(v).inst = "slot" /\ SlotInst(v).slot = v
  BY DEF SlotInst

\* The instruction of an operation defines the value of the operation.
LEMMA TranslationDefines ==
  ASSUME NEW m, NEW operation, Coded(operation)
  PROVE  /\ Translation(m, operation).inst \in {"alloc", "binary", "compare", "phi"}
         /\ Translation(m, operation).result = operation.result
  <1>1. CASE operation.op = "tensor"
    BY <1>1 DEF Translation, AllocInst
  <1>2. CASE operation.op = "binary"
    BY <1>2 DEF Translation, ArithmeticInst
  <1>3. CASE operation.op = "compare"
    BY <1>3 DEF Translation, CompareInst
  <1>4. CASE operation.op = "phi"
    BY <1>4 DEF Translation, PhiInst
  <1> QED
    BY <1>1, <1>2, <1>3, <1>4 DEF Coded

LEMMA BeginsFacts ==
  ASSUME NEW s, IsList(s), NEW t, IsList(t), Begins(s, t), NEW m, NEW b
  PROVE  /\ \A i \in 1 .. Len(s) : SlotAt(m, b, s, i) => SlotAt(m, b, t, i)
         /\ \A i \in 1 .. Len(s) + 1 : \A l : Available(m, b, s, i, l) => Available(m, b, t, i, l)
         /\ \A i \in 1 .. Len(s), k \in Nat :
               OperationCodeAt(m, b, s, i, k) => OperationCodeAt(m, b, t, i, k)
  <1>0. Len(s) \in Nat /\ Len(t) \in Nat
    BY ListLength
  <1>1. ASSUME NEW i \in 1 .. Len(s), SlotAt(m, b, s, i) PROVE SlotAt(m, b, t, i)
    <2>1. \A j \in 1 .. i - 1 : j \in 1 .. Len(s)
      BY <1>0
    <2> QED
      BY <1>1, <2>1 DEF SlotAt, Begins
  <1>2. ASSUME NEW i \in 1 .. Len(s) + 1, NEW l, Available(m, b, s, i, l)
        PROVE  Available(m, b, t, i, l)
    <2>1. \A j \in 1 .. i - 1 : j \in 1 .. Len(s)
      BY <1>0
    <2> QED
      BY <1>2, <2>1 DEF Available, Begins
  <1>3. ASSUME NEW i \in 1 .. Len(s), NEW k \in Nat, OperationCodeAt(m, b, s, i, k)
        PROVE  OperationCodeAt(m, b, t, i, k)
    <2>1. i \in 1 .. Len(s) + 1
      BY <1>0
    <2> QED
      BY <1>2, <1>3, <2>1 DEF OperationCodeAt, Begins
  <1> QED
    BY <1>1, <1>2, <1>3

LEMMA BodyConstant ==
  ASSUME NEW m \in Module, NEW b \in 1 .. Len(m.blocks), NEW s,
         NEW k \in 1 .. Len(m.blocks[b].operations),
         Body(m, b, s, k), Constant(m.blocks[b].operations[k])
  PROVE  Body(m, b, s, k + 1)
  <1>0. Len(m.blocks[b].operations) \in Nat
    BY BlockTypes
  <1>1. \A l \in 1 .. Len(m.blocks[b].operations) : l < k => l < k + 1
    BY <1>0
  <1>2. \A l \in 1 .. Len(m.blocks[b].operations) : l < k + 1 => l < k \/ l = k
    BY <1>0
  <1>3. Available(m, b, s, Len(s) + 1, k)
    BY DEF Available
  <1> QED
    BY <1>1, <1>2, <1>3 DEF Body

\* The next operation is appended to the code of its block.
LEMMA BodyAppend ==
  ASSUME NEW m \in Module, DefinitionsUnique(m), NEW b \in 1 .. Len(m.blocks), NEW s,
         NEW k \in 1 .. Len(m.blocks[b].operations), Body(m, b, s, k),
         Coded(m.blocks[b].operations[k]),
         m.blocks[b].operations[k].op = "tensor" =>
            StorageSize(m.blocks[b].operations[k].type) # Refused
  PROVE  Body(m, b, Append(s, Translation(m, m.blocks[b].operations[k])), k + 1)
  <1> DEFINE ops == m.blocks[b].operations
             inst == Translation(m, ops[k])
             t == Append(s, inst)
             last == Len(s) + 1
  <1>0. Len(ops) \in Nat /\ Len(s) \in Nat /\ IsList(s)
    BY BlockTypes, ListLength DEF Body
  <1>1. /\ IsList(t) /\ Len(t) = last /\ t[last] = inst
        /\ \A i \in 1 .. Len(s) : t[i] = s[i]
    BY <1>0, ListAppend
  <1>2. inst.inst \in {"alloc", "binary", "compare", "phi"} /\ inst.result = ops[k].result
    BY TranslationDefines
  <1> HIDE DEF t, inst
  <1>3. Begins(s, t)
    BY <1>0, <1>1 DEF Begins
  <1>4. Defines(t[last], ops[k].result)
    BY <1>1, <1>2 DEF Defines
  <1>5. ASSUME NEW l \in 1 .. Len(ops), l < k PROVE Available(m, b, t, last, l)
    <2>1. Available(m, b, s, last, l) /\ last \in 1 .. Len(s) + 1
      BY <1>0, <1>5 DEF Body
    <2> QED
      BY <1>0, <1>1, <1>3, <2>1, BeginsFacts
  <1>6. ASSUME NEW i \in 1 .. Len(t)
        PROVE  \/ SlotAt(m, b, t, i)
               \/ \E l \in 1 .. Len(ops) : l < k + 1 /\ OperationCodeAt(m, b, t, i, l)
    <2>1. CASE i = last
      <3>1. \A l \in 1 .. k - 1 : l \in 1 .. Len(ops) /\ l < k
        BY <1>0
      <3>2. OperationCodeAt(m, b, t, last, k)
        BY <1>1, <1>5, <3>1 DEF OperationCodeAt, inst
      <3> QED
        BY <1>0, <2>1, <3>2
    <2>2. CASE i \in 1 .. Len(s)
      <3>1. CASE SlotAt(m, b, s, i)
        BY <1>0, <1>1, <1>3, <2>2, <3>1, BeginsFacts
      <3>2. CASE \E l \in 1 .. Len(ops) : l < k /\ OperationCodeAt(m, b, s, i, l)
        <4>1. PICK l \in 1 .. Len(ops) : l < k /\ OperationCodeAt(m, b, s, i, l)
          BY <3>2
        <4>2. l \in Nat /\ l < k + 1
          BY <1>0, <4>1
        <4>3. OperationCodeAt(m, b, t, i, l)
          BY <1>0, <1>1, <1>3, <2>2, <4>1, <4>2, BeginsFacts
        <4> QED
          BY <4>2, <4>3
      <3> QED
        BY <2>2, <3>1, <3>2 DEF Body
    <2> QED
      BY <1>0, <1>1, <2>1, <2>2
  <1>7. ASSUME NEW l \in 1 .. Len(ops), l < k + 1 PROVE Available(m, b, t, Len(t) + 1, l)
    <2>1. \A i : (\E j \in 1 .. last - 1 : Defines(t[j], i)) =>
                    \E j \in 1 .. Len(t) + 1 - 1 : Defines(t[j], i)
      BY <1>0, <1>1
    <2>2. CASE l < k
      <3>1. Available(m, b, t, last, l)
        BY <1>5, <2>2
      <3>2. CASE Constant(ops[l])
        BY <3>2 DEF Available
      <3>3. CASE \E j \in 1 .. last - 1 : Defines(t[j], ops[l].result)
        <4>1. \E j \in 1 .. Len(t) + 1 - 1 : Defines(t[j], ops[l].result)
          BY <2>1, <3>3
        <4> QED
          BY <4>1 DEF Available
      <3> QED
        BY <3>1, <3>2, <3>3 DEF Available
    <2>3. CASE l = k
      <3>1. last \in 1 .. Len(t) + 1 - 1
        BY <1>0, <1>1
      <3> QED
        BY <1>4, <2>3, <3>1 DEF Available
    <2> QED
      BY <1>0, <1>7, <2>2, <2>3
  <1>8. ASSUME NEW i \in 1 .. Len(s), NEW value, Defines(s[i], value) PROVE value # ops[k].result
    <2>1. ~ SlotAt(m, b, s, i)
      <3>1. s[i].inst # "slot"
        BY <1>8 DEF Defines
      <3> QED
        BY <3>1, SlotKind DEF SlotAt
    <2>2. PICK l \in 1 .. Len(ops) : l < k /\ OperationCodeAt(m, b, s, i, l)
      BY <2>1 DEF Body
    <2>3. value = ops[l].result
      <3>1. Coded(ops[l]) /\ s[i] = Translation(m, ops[l])
        BY <2>2 DEF OperationCodeAt
      <3>2. s[i].result = ops[l].result
        BY <3>1, TranslationDefines
      <3> QED
        BY <1>8, <3>2 DEF Defines
    <2>4. /\ <<b, l>> \in Places(m) /\ OperationAt(m, <<b, l>>) = ops[l]
          /\ <<b, k>> \in Places(m) /\ OperationAt(m, <<b, k>>) = ops[k]
      BY PlaceFacts
    <2>5. <<b, l>> # <<b, k>>
      BY <1>0, <2>2
    <2> QED
      BY <2>3, <2>4, <2>5 DEF DefinitionsUnique, resultOf
  <1>9. ASSUME NEW i \in 1 .. Len(t), NEW value, Defines(t[i], value)
        PROVE  value = ops[k].result <=> i = last
    <2>1. CASE i = last
      BY <1>1, <1>2, <1>9, <2>1 DEF Defines
    <2>2. CASE i # last
      <3>1. i \in 1 .. Len(s)
        BY <1>0, <1>1, <2>2
      <3>2. t[i] = s[i]
        BY <1>1, <3>1
      <3> QED
        BY <1>8, <1>9, <2>2, <3>1, <3>2
    <2> QED
      BY <2>1, <2>2
  <1>10. ASSUME NEW i \in 1 .. Len(t), NEW j \in 1 .. Len(t), NEW value,
               Defines(t[i], value), Defines(t[j], value)
        PROVE  i = j
    <2>1. value = ops[k].result <=> i = last
      BY <1>9, <1>10
    <2>2. value = ops[k].result <=> j = last
      BY <1>9, <1>10
    <2>3. CASE i # last /\ j # last
      <3>1. i \in 1 .. Len(s) /\ j \in 1 .. Len(s) /\ t[i] = s[i] /\ t[j] = s[j]
        BY <1>0, <1>1, <2>3
      <3> QED
        BY <1>10, <3>1 DEF Body
    <2> QED
      BY <2>1, <2>2, <2>3
  <1>11. ASSUME b = 1, NEW v \in Tensors(m) PROVE \E i \in 1 .. Len(t) : t[i] = SlotInst(v)
    BY <1>0, <1>1, <1>11 DEF Body
  <1>12. Body(m, b, t, k + 1)
    BY <1>1, <1>6, <1>7, <1>10, <1>11 DEF Body
  <1> QED
    BY <1>12 DEF t, inst

\* The instruction a block ends with.
Closing(m, terminator) ==
    CASE terminator.op = "branch" -> BranchInst(terminator.target)
      [] terminator.op = "condbranch" ->
            CondBranchInst(ValueOperand(m, terminator.condition), terminator.trueTarget,
                           terminator.falseTarget)
      [] terminator.op = "return" -> ReturnInst(ValueOperand(m, terminator.value))

\* Instruction i releases a slot; so do those after it, but for the last.
ReleaseAt(m, b, t, i) ==
    /\ m.blocks[b].terminator.op = "return"
    /\ \E v \in Tensors(m) : t[i] = FreeInst(v)
    /\ \A j \in i .. Len(t) - 1 : t[j].inst = "free"

\* List t is the code of block b: the slots, the operations, the releases
\* if the block returns, each slot once, and the terminator.
Closed(m, b, t) ==
    LET terminator == m.blocks[b].terminator
        body == 1 .. Len(t) - 1
    IN  /\ IsList(t) /\ Len(t) >= 1
        /\ t[Len(t)] = Closing(m, terminator)
        /\ \A i \in body :
              \/ SlotAt(m, b, t, i)
              \/ \E k \in 1 .. Len(m.blocks[b].operations) : OperationCodeAt(m, b, t, i, k)
              \/ ReleaseAt(m, b, t, i)
        /\ \A k \in 1 .. Len(m.blocks[b].operations) : Available(m, b, t, Len(t), k)
        /\ \A i, j \in body : \A value : Defines(t[i], value) /\ Defines(t[j], value) => i = j
        /\ b = 1 => \A v \in Tensors(m) : \E i \in body : t[i] = SlotInst(v)
        /\ terminator.op = "return" => \A v \in Tensors(m) : \E i \in body : t[i] = FreeInst(v)
        /\ \A i, j \in body : \A v : t[i] = FreeInst(v) /\ t[j] = FreeInst(v) => i = j

\* List tail closes block b.
Ending(m, b, tail) ==
    LET terminator == m.blocks[b].terminator
        releases == 1 .. Len(tail) - 1
    IN  /\ IsList(tail) /\ Len(tail) >= 1
        /\ tail[Len(tail)] = Closing(m, terminator)
        /\ \A j \in releases : \E v \in Tensors(m) : tail[j] = FreeInst(v)
        /\ terminator.op # "return" => releases = {}
        /\ terminator.op = "return" =>
              \A v \in Tensors(m) : \E j \in releases : tail[j] = FreeInst(v)
        /\ \A i, j \in releases : \A v : tail[i] = FreeInst(v) /\ tail[j] = FreeInst(v) => i = j

LEMMA FreeKind == \A v : FreeInst(v).inst = "free" /\ FreeInst(v).slot = v
  BY DEF FreeInst

\* No instruction of the code of the operations releases a slot.
LEMMA BodyKinds ==
  ASSUME NEW m, NEW b, NEW s, NEW n, Body(m, b, s, n), NEW i \in 1 .. Len(s)
  PROVE  s[i].inst \in {"slot", "alloc", "binary", "compare", "phi"}
  <1>1. CASE SlotAt(m, b, s, i)
    BY <1>1, SlotKind DEF SlotAt
  <1>2. CASE \E k \in 1 .. Len(m.blocks[b].operations) : OperationCodeAt(m, b, s, i, k)
    <2>1. PICK k \in 1 .. Len(m.blocks[b].operations) : OperationCodeAt(m, b, s, i, k)
      BY <1>2
    <2>2. PICK operation : Coded(operation) /\ s[i] = Translation(m, operation)
      BY <2>1 DEF OperationCodeAt
    <2> QED
      BY <2>2, TranslationDefines
  <1> QED
    BY <1>1, <1>2 DEF Body

LEMMA BodyClose ==
  ASSUME NEW m \in Module, NEW b \in 1 .. Len(m.blocks), NEW s, NEW n \in Nat,
         n > Len(m.blocks[b].operations), Body(m, b, s, n), NEW tail, Ending(m, b, tail)
  PROVE  Closed(m, b, s \o tail)
  <1> DEFINE ops == m.blocks[b].operations
             op == m.blocks[b].terminator.op
             t == s \o tail
  <1>0. Len(ops) \in Nat /\ Len(s) \in Nat /\ IsList(s) /\ IsList(tail) /\ Len(tail) \in Nat
    BY BlockTypes, ListLength DEF Body, Ending
  <1>1. /\ IsList(t) /\ Len(t) = Len(s) + Len(tail)
        /\ \A i \in 1 .. Len(s) : t[i] = s[i]
        /\ \A i \in 1 .. Len(tail) : t[Len(s) + i] = tail[i]
    BY <1>0, ListConcatenation
  <1> HIDE DEF t
  <1>2. /\ Len(tail) >= 1 /\ tail[Len(tail)] = Closing(m, m.blocks[b].terminator)
        /\ \A j \in 1 .. Len(tail) - 1 : \E v \in Tensors(m) : tail[j] = FreeInst(v)
        /\ op # "return" => 1 .. Len(tail) - 1 = {}
        /\ op = "return" => \A v \in Tensors(m) : \E j \in 1 .. Len(tail) - 1 : tail[j] = FreeInst(v)
        /\ \A i, j \in 1 .. Len(tail) - 1 : \A v :
              tail[i] = FreeInst(v) /\ tail[j] = FreeInst(v) => i = j
    BY DEF Ending
  <1>3. Begins(s, t)
    BY <1>0, <1>1 DEF Begins
  <1>4. Len(t) \in Nat /\ Len(t) >= 1 /\ t[Len(t)] = Closing(m, m.blocks[b].terminator)
    <2>1. t[Len(s) + Len(tail)] = tail[Len(tail)]
      BY <1>0, <1>1, <1>2
    <2> QED
      BY <1>0, <1>1, <1>2, <2>1
  <1>5. ASSUME NEW i \in 1 .. Len(t) - 1, i \notin 1 .. Len(s)
        PROVE  /\ i - Len(s) \in 1 .. Len(tail) - 1
               /\ t[i] = tail[i - Len(s)]
               /\ \E v \in Tensors(m) : t[i] = FreeInst(v)
    <2>1. i - Len(s) \in 1 .. Len(tail) - 1 /\ Len(s) + (i - Len(s)) = i
          /\ i - Len(s) \in 1 .. Len(tail)
      BY <1>0, <1>1, <1>5
    <2>2. t[i] = tail[i - Len(s)]
      BY <1>1, <2>1
    <2> QED
      BY <1>2, <2>1, <2>2
  <1>6. ASSUME NEW i \in 1 .. Len(t) - 1
        PROVE  \/ SlotAt(m, b, t, i)
               \/ \E k \in 1 .. Len(ops) : OperationCodeAt(m, b, t, i, k)
               \/ ReleaseAt(m, b, t, i)
    <2>1. CASE i \in 1 .. Len(s)
      <3>1. CASE SlotAt(m, b, s, i)
        BY <1>0, <1>1, <1>3, <2>1, <3>1, BeginsFacts
      <3>2. CASE \E k \in 1 .. Len(ops) : OperationCodeAt(m, b, s, i, k)
        <4>1. PICK k \in 1 .. Len(ops) : OperationCodeAt(m, b, s, i, k)
          BY <3>2
        <4>2. k \in Nat
          BY <1>0
        <4>3. OperationCodeAt(m, b, t, i, k)
          BY <1>0, <1>1, <1>3, <2>1, <4>1, <4>2, BeginsFacts
        <4> QED
          BY <4>3
      <3> QED
        BY <2>1, <3>1, <3>2 DEF Body
    <2>2. CASE i \notin 1 .. Len(s)
      <3>1. op = "return"
        BY <1>2, <1>5, <2>2
      <3>2. ASSUME NEW j \in i .. Len(t) - 1 PROVE t[j].inst = "free"
        <4>1. j \in 1 .. Len(t) - 1 /\ j \notin 1 .. Len(s)
          BY <1>0, <1>4, <2>2
        <4> QED
          BY <1>5, <4>1, FreeKind
      <3> QED
        BY <1>5, <2>2, <3>1, <3>2 DEF ReleaseAt
    <2> QED
      BY <2>1, <2>2
  <1>7. ASSUME NEW k \in 1 .. Len(ops) PROVE Available(m, b, t, Len(t), k)
    <2>1. Available(m, b, s, Len(s) + 1, k) /\ Len(s) + 1 \in 1 .. Len(s) + 1
      BY <1>0 DEF Body
    <2>2. Available(m, b, t, Len(s) + 1, k)
      BY <1>0, <1>1, <1>3, <2>1, BeginsFacts
    <2>3. \A j \in 1 .. Len(s) + 1 - 1 : j \in 1 .. Len(t) - 1
      BY <1>0, <1>1, <1>2
    <2> QED
      BY <2>2, <2>3 DEF Available
  <1>8. ASSUME NEW i \in 1 .. Len(t) - 1, NEW value, Defines(t[i], value) PROVE i \in 1 .. Len(s)
    <2>1. t[i].inst # "free"
      BY <1>8 DEF Defines
    <2> QED
      BY <1>5, <2>1, FreeKind
  <1>9. ASSUME NEW i \in 1 .. Len(t) - 1, NEW j \in 1 .. Len(t) - 1, NEW value,
               Defines(t[i], value), Defines(t[j], value)
        PROVE  i = j
    <2>1. i \in 1 .. Len(s) /\ j \in 1 .. Len(s) /\ t[i] = s[i] /\ t[j] = s[j]
      BY <1>1, <1>8, <1>9
    <2> QED
      BY <1>9, <2>1 DEF Body
  <1>10. ASSUME b = 1, NEW v \in Tensors(m) PROVE \E i \in 1 .. Len(t) - 1 : t[i] = SlotInst(v)
    <2>1. PICK i \in 1 .. Len(s) : s[i] = SlotInst(v)
      BY <1>10 DEF Body
    <2>2. i \in 1 .. Len(t) - 1 /\ t[i] = s[i]
      BY <1>0, <1>1, <1>2
    <2> QED
      BY <2>1, <2>2
  <1>11. ASSUME op = "return", NEW v \in Tensors(m)
         PROVE  \E i \in 1 .. Len(t) - 1 : t[i] = FreeInst(v)
    <2>1. PICK j \in 1 .. Len(tail) - 1 : tail[j] = FreeInst(v)
      BY <1>2, <1>11
    <2>2. j \in 1 .. Len(tail) /\ Len(s) + j \in 1 .. Len(t) - 1
      BY <1>0, <1>1
    <2>3. t[Len(s) + j] = FreeInst(v)
      BY <1>1, <2>1, <2>2
    <2> QED
      BY <2>2, <2>3
  <1>12. ASSUME NEW i \in 1 .. Len(t) - 1, NEW v, t[i] = FreeInst(v) PROVE i \notin 1 .. Len(s)
    <2>1. t[i].inst = "free"
      BY <1>12, FreeKind
    <2>2. i \in 1 .. Len(s) => s[i].inst \in {"slot", "alloc", "binary", "compare", "phi"}
      BY BodyKinds
    <2> QED
      BY <1>1, <2>1, <2>2
  <1>13. ASSUME NEW i \in 1 .. Len(t) - 1, NEW j \in 1 .. Len(t) - 1, NEW v,
                t[i] = FreeInst(v), t[j] = FreeInst(v)
         PROVE  i = j
    <2>1. i \notin 1 .. Len(s) /\ j \notin 1 .. Len(s)
      BY <1>12, <1>13
    <2>2. /\ i - Len(s) \in 1 .. Len(tail) - 1 /\ t[i] = tail[i - Len(s)]
          /\ j - Len(s) \in 1 .. Len(tail) - 1 /\ t[j] = tail[j - Len(s)]
      BY <1>5, <2>1
    <2>3. i - Len(s) = j - Len(s)
      <3>1. PICK a, c : a = i - Len(s) /\ c = j - Len(s)
        OBVIOUS
      <3>2. /\ a \in 1 .. Len(tail) - 1 /\ tail[a] = FreeInst(v)
            /\ c \in 1 .. Len(tail) - 1 /\ tail[c] = FreeInst(v)
        BY <1>13, <2>2, <3>1
      <3>3. a = c
        BY <1>2, <3>2
      <3> QED
        BY <3>1, <3>3
    <2> QED
      BY <1>0, <1>4, <2>3
  <1>14. Closed(m, b, t)
    BY <1>1, <1>4, <1>6, <1>7, <1>9, <1>10, <1>11, <1>13 DEF Closed
  <1> QED
    BY <1>14 DEF t

-----------------------------------------------------------------------------
(* The code the backend builds *)

\* An order of a finite set lists each element once.
LEMMA ListedSet ==
  ASSUME NEW S, IsFiniteSet(S), NEW order \in SetToSeqs(S)
  PROVE  /\ Len(order) \in Nat
         /\ DOMAIN order = 1 .. Len(order)
         /\ \A i \in 1 .. Len(order) : order[i] \in S
         /\ \A i, j \in 1 .. Len(order) : order[i] = order[j] => i = j
         /\ \A v \in S : \E i \in 1 .. Len(order) : order[i] = v
  <1> DEFINE n == Cardinality(S)
  <1>1. n \in Nat
    BY FS_CardinalityType
  <1>2. order \in Injection(1 .. n, S)
    BY DEF SetToSeqs, Injection, IsInjective
  <1>3. Cardinality(1 .. n) = n
    BY <1>1, FS_Interval
  <1> HIDE DEF n
  <1>4. order \in Surjection(1 .. n, S)
    BY <1>1, <1>2, <1>3, FS_Injection DEF n
  <1>5. DOMAIN order = 1 .. n /\ \A i \in 1 .. n : order[i] \in S
    BY <1>2 DEF Injection
  <1>6. \A v \in S : \E i \in 1 .. n : order[i] = v
    BY <1>4 DEF Surjection
  <1>7. \A i, j \in 1 .. n : order[i] = order[j] => i = j
    BY <1>2 DEF Injection, IsInjective
  <1>8. Len(order) = n
    BY <1>1, <1>2, <1>5 DEF Injection
  <1> QED
    BY <1>1, <1>5, <1>6, <1>7, <1>8

LEMMA TensorsFinite ==
  ASSUME NEW m \in Module, NEW next \in Nat, Below(m, next)
  PROVE  IsFiniteSet(Tensors(m))
  <1>1. ASSUME NEW v \in Tensors(m) PROVE v \in 0 .. next
    <2>1. PICK p \in Places(m) : v = resultOf(OperationAt(m, p))
      BY <1>1 DEF Tensors
    <2>2. v < next /\ v \in Nat
      BY <2>1, PlaceFacts, ResultType DEF Below, ValueId
    <2> QED
      BY <2>2
  <1>2. IsFiniteSet(0 .. next)
    BY FS_Interval
  <1> QED
    BY <1>1, <1>2, FS_Subset

\* The operand of the value an operation defines.
LEMMA DefinedOperand ==
  ASSUME NEW m, DefinitionsUnique(m), NEW value, NEW p \in Definitions(m, value)
  PROVE  ValueOperand(m, value) = ResultOperand(OperationAt(m, p))
  <1>1. \A q \in Definitions(m, value) : q = p
    BY DEF Definitions, DefinitionsUnique
  <1>2. DefinitionOf(m, value) = p
    BY <1>1 DEF DefinitionOf
  <1> QED
    BY <1>2 DEF ValueOperand

\* Before the first operation, the code of a block is the slots.
LEMMA BodyStart ==
  ASSUME NEW m \in Module, NEW b \in 1 .. Len(m.blocks), NEW order, IsFiniteSet(Tensors(m)),
         order \in SetToSeqs(Tensors(m)), NEW s,
         s = IF b = 1 THEN [i \in DOMAIN order |-> SlotInst(order[i])] ELSE <<>>
  PROVE  Body(m, b, s, 1)
  <1>0. \A k \in 1 .. Len(m.blocks[b].operations) : ~ (k < 1)
    OBVIOUS
  <1>1. CASE b # 1
    <2>1. s = <<>> /\ IsList(s) /\ 1 .. Len(s) = {}
      BY <1>1 DEF IsList
    <2> QED
      BY <1>0, <1>1, <2>1 DEF Body
  <1>2. CASE b = 1
    <2>1. /\ Len(order) \in Nat /\ DOMAIN order = 1 .. Len(order)
          /\ \A i \in 1 .. Len(order) : order[i] \in Tensors(m)
          /\ \A v \in Tensors(m) : \E i \in 1 .. Len(order) : order[i] = v
      BY ListedSet
    <2>2. s = [i \in 1 .. Len(order) |-> SlotInst(order[i])]
      BY <1>2, <2>1
    <2>3. IsList(s) /\ Len(s) = Len(order)
      <3>1. s \in Seq(Range(s))
        <4>1. \A i \in 1 .. Len(order) : s[i] \in Range(s)
          BY <2>2 DEF Range
        <4> QED
          BY <2>1, <2>2, <4>1, IsASeq
      <3> QED
        BY <2>1, <2>2, <3>1, LenProperties DEF IsList
    <2>4. \A i \in 1 .. Len(s) : s[i] = SlotInst(order[i])
      BY <2>2, <2>3
    <2>5. \A i \in 1 .. Len(s) : s[i].inst = "slot"
      BY <2>4, SlotKind
    <2>6. ASSUME NEW i \in 1 .. Len(s) PROVE SlotAt(m, b, s, i)
      <3>1. \A j \in 1 .. i - 1 : j \in 1 .. Len(s)
        BY <2>1, <2>3
      <3> QED
        BY <1>2, <2>1, <2>3, <2>4, <2>5, <3>1 DEF SlotAt
    <2>7. \A i \in 1 .. Len(s) : \A value : ~ Defines(s[i], value)
      BY <2>5 DEF Defines
    <2>8. \A v \in Tensors(m) : \E i \in 1 .. Len(s) : s[i] = SlotInst(v)
      BY <2>1, <2>3, <2>4
    <2> QED
      BY <1>0, <2>3, <2>6, <2>7, <2>8 DEF Body
  <1> QED
    BY <1>1, <1>2

\* The code built so far, and the operands of the values lowered.
Built ==
    /\ \A v \in DOMAIN lowered : lowered[v] = ValueOperand(module, v)
    /\ DOMAIN llvmBlocks = 1 .. Len(module.blocks)
    /\ cleanupSlots \in SetToSeqs(Tensors(module))
    /\ \A b \in 1 .. Len(module.blocks) :
          /\ b < lowBlock => Closed(module, b, llvmBlocks[b])
          /\ b = lowBlock => Body(module, b, llvmBlocks[b], lowNext)
          /\ b > lowBlock => Body(module, b, llvmBlocks[b], 1)

CodeInvariant ==
    /\ lowStatus = "idle" => DOMAIN lowered = {}
    /\ lowStatus \in {"lowering", "done"} => Built
    /\ lowStatus = "done" => lowBlock > Len(module.blocks)

LEMMA StartBuilds ==
  ASSUME Promised, LowInvariant, CodeInvariant, StartLowering
  PROVE  CodeInvariant'
  <1>1. CASE lowStatus' = "failed"
    BY <1>1 DEF CodeInvariant
  <1>2. CASE lowStatus' # "failed"
    <2>1. /\ lowStatus = "idle" /\ lowStatus' = "lowering" /\ module' = module
          /\ UNCHANGED <<lowBlock, lowNext, lowered>>
          /\ TensorDeclarations = Tensors(module)
          /\ \E order \in SetToSeqs(TensorDeclarations) : cleanupSlots' = order
      BY <1>2 DEF StartLowering, LowFail, vars, genVars, codeVars, TensorDeclarations, Tensors
    <2>2. PICK order \in SetToSeqs(TensorDeclarations) : llvmBlocks' = SlotsInEntry(order)
      BY <1>2 DEF StartLowering, LowFail
    <2>3. /\ module \in Module /\ DOMAIN module.blocks = 1 .. Len(module.blocks)
          /\ Structure(module) /\ module.entry = 0 /\ Len(module.blocks) \in Nat
      BY HandedOver DEF Promised, ValuesInvariant, Progress
    <2>4. IsFiniteSet(Tensors(module))
      <3>1. Below(module, nextValueId) /\ nextValueId \in Nat
        BY HandedOver, StateTypes DEF ModuleSound, Promised, ValuesInvariant
      <3> QED
        BY <2>3, <3>1, TensorsFinite
    <2>5. ASSUME NEW b \in 1 .. Len(module.blocks)
          PROVE  Body(module, b, llvmBlocks'[b], 1)
      <3>1. module.blocks[b].id = b - 1
        BY <2>3 DEF Structure, Numbered
      <3>2. llvmBlocks'[b] = IF b = 1 THEN [i \in DOMAIN order |-> SlotInst(order[i])] ELSE <<>>
        BY <2>2, <2>3, <3>1 DEF SlotsInEntry
      <3> QED
        BY <2>1, <2>3, <2>4, <3>2, BodyStart
    <2>6. DOMAIN lowered' = {} /\ lowBlock' = 1 /\ lowNext' = 1
      BY <2>1 DEF CodeInvariant, LowInvariant
    <2>7. DOMAIN llvmBlocks' = 1 .. Len(module.blocks)
      BY <2>2, <2>3 DEF SlotsInEntry
    <2>8. Built'
      BY <2>1, <2>3, <2>5, <2>6, <2>7 DEF Built
    <2> QED
      BY <2>1, <2>8 DEF CodeInvariant
  <1> QED
    BY <1>1, <1>2

\* The operation lowered next, in its block.
LEMMA LoweredPlace ==
  ASSUME Promised, LowInvariant, CodeInvariant, NEW op, LoweringOf(op)
  PROVE  /\ Built /\ lowStatus = "lowering" /\ genStatus = "done"
         /\ module \in Module /\ DefinitionsUnique(module)
         /\ DOMAIN module.blocks = 1 .. Len(module.blocks) /\ Len(module.blocks) \in Nat
         /\ lowBlock \in 1 .. Len(module.blocks)
         /\ lowNext \in 1 .. Len(module.blocks[lowBlock].operations)
         /\ LoweredOp = module.blocks[lowBlock].operations[lowNext]
         /\ LoweredOp.op = op
         /\ <<lowBlock, lowNext>> \in Definitions(module, LoweredOp.result)
         /\ OperationAt(module, <<lowBlock, lowNext>>) = LoweredOp
  <1>1. /\ genStatus = "done" /\ lowStatus = "lowering" /\ lowBlock \in 1 .. Len(module.blocks)
        /\ <<lowBlock, lowNext>> \in Places(module)
        /\ LoweredOp = OperationAt(module, <<lowBlock, lowNext>>)
        /\ LoweredOp.op = op
    BY OperationPlace
  <1>2. /\ module \in Module /\ DefinitionsUnique(module)
        /\ DOMAIN module.blocks = 1 .. Len(module.blocks) /\ Len(module.blocks) \in Nat
    BY HandedOver DEF ModuleSound
  <1>3. PICK p : p = <<lowBlock, lowNext>>
    OBVIOUS
  <1>4. p[1] = lowBlock /\ p[2] = lowNext /\ p[2] \in 1 .. Len(module.blocks[p[1]].operations)
    BY <1>1, <1>2, <1>3, PlaceFacts
  <1>5. lowNext \in 1 .. Len(module.blocks[lowBlock].operations)
    BY <1>4
  <1>6. LoweredOp = module.blocks[lowBlock].operations[lowNext]
    BY DEF LoweredOp, LoweredBlock
  <1>7. <<lowBlock, lowNext>> \in Definitions(module, LoweredOp.result)
    BY <1>1 DEF Definitions, resultOf
  <1>8. Built
    BY <1>1 DEF CodeInvariant
  <1> QED
    BY <1>1, <1>2, <1>5, <1>6, <1>7, <1>8

\* The operation has been lowered: its value has the operand it should have.
LEMMA OperandsKept ==
  ASSUME Promised, LowInvariant, CodeInvariant, NEW op, LoweringOf(op),
         lowered' = Bound(LoweredOp.result, ResultOperand(LoweredOp)), module' = module
  PROVE  \A v \in DOMAIN lowered' : lowered'[v] = ValueOperand(module', v)
  <1>1. /\ Built /\ DefinitionsUnique(module)
        /\ <<lowBlock, lowNext>> \in Definitions(module, LoweredOp.result)
        /\ OperationAt(module, <<lowBlock, lowNext>>) = LoweredOp
    BY LoweredPlace
  <1>2. ValueOperand(module, LoweredOp.result) = ResultOperand(LoweredOp)
    BY <1>1, DefinedOperand
  <1>3. \A v \in DOMAIN lowered : lowered[v] = ValueOperand(module, v)
    BY <1>1 DEF Built
  <1> QED
    BY <1>2, <1>3 DEF Bound

\* The code of a block other than the one lowered stays.
LEMMA CodeDefine ==
  ASSUME Promised, LowInvariant, CodeInvariant, NEW op, LoweringOf(op), UNCHANGED vars,
         Coded(LoweredOp), op = "tensor" => StorageSize(LoweredOp.type) # Refused,
         DefineInst(Translation(module, LoweredOp))
  PROVE  CodeInvariant'
  <1> DEFINE inst == Translation(module, LoweredOp)
  <1>1. /\ Built /\ lowStatus = "lowering" /\ genStatus = "done"
        /\ module \in Module /\ DefinitionsUnique(module)
        /\ Len(module.blocks) \in Nat
        /\ lowBlock \in 1 .. Len(module.blocks)
        /\ lowNext \in 1 .. Len(module.blocks[lowBlock].operations)
        /\ LoweredOp = module.blocks[lowBlock].operations[lowNext]
        /\ LoweredOp.op = op
    BY LoweredPlace
  <1> HIDE DEF inst
  <1>2. /\ llvmBlocks' = [llvmBlocks EXCEPT ![lowBlock] = Append(@, inst)]
        /\ lowered' = Bound(LoweredOp.result, Register(LoweredOp.result))
        /\ lowNext' = lowNext + 1 /\ lowBlock' = lowBlock /\ lowStatus' = lowStatus
        /\ cleanupSlots' = cleanupSlots /\ module' = module
    BY DEF DefineInst, EmitInst, vars, genVars, codeVars, inst
  <1>3. ResultOperand(LoweredOp) = Register(LoweredOp.result)
    BY DEF ResultOperand, Coded, resultOf
  <1>4. \A v \in DOMAIN lowered' : lowered'[v] = ValueOperand(module, v)
    BY <1>2, <1>3, OperandsKept
  <1>5. /\ DOMAIN llvmBlocks = 1 .. Len(module.blocks)
        /\ cleanupSlots \in SetToSeqs(Tensors(module))
        /\ \A b \in 1 .. Len(module.blocks) :
              /\ b < lowBlock => Closed(module, b, llvmBlocks[b])
              /\ b = lowBlock => Body(module, b, llvmBlocks[b], lowNext)
              /\ b > lowBlock => Body(module, b, llvmBlocks[b], 1)
    BY <1>1 DEF Built
  <1>6. Body(module, lowBlock, Append(llvmBlocks[lowBlock], inst), lowNext + 1)
    BY <1>1, <1>5, BodyAppend DEF inst
  <1>7. /\ DOMAIN llvmBlocks' = 1 .. Len(module.blocks)
        /\ llvmBlocks'[lowBlock] = Append(llvmBlocks[lowBlock], inst)
        /\ \A b \in 1 .. Len(module.blocks) : b # lowBlock => llvmBlocks'[b] = llvmBlocks[b]
    BY <1>1, <1>2, <1>5
  <1>8. ASSUME NEW b \in 1 .. Len(module.blocks)
        PROVE  /\ b < lowBlock => Closed(module, b, llvmBlocks'[b])
               /\ b = lowBlock => Body(module, b, llvmBlocks'[b], lowNext + 1)
               /\ b > lowBlock => Body(module, b, llvmBlocks'[b], 1)
    <2>1. CASE b = lowBlock
      <3>1. ~ (b < lowBlock) /\ ~ (b > lowBlock)
        BY <1>1, <2>1
      <3> QED
        BY <1>6, <1>7, <2>1, <3>1
    <2>2. CASE b # lowBlock
      BY <1>5, <1>7, <2>2
    <2> QED
      BY <2>1, <2>2
  <1>9. Built'
    BY <1>2, <1>4, <1>5, <1>7, <1>8 DEF Built
  <1> QED
    BY <1>1, <1>2, <1>9 DEF CodeInvariant

LEMMA CodeConstant ==
  ASSUME Promised, LowInvariant, CodeInvariant, LowerConstant
  PROVE  CodeInvariant'
  <1>1. PICK op \in {"int", "float"} : LoweringOf(op)
    BY DEF LowerConstant
  <1>2. /\ Built /\ lowStatus = "lowering" /\ genStatus = "done"
        /\ module \in Module /\ DefinitionsUnique(module)
        /\ Len(module.blocks) \in Nat
        /\ lowBlock \in 1 .. Len(module.blocks)
        /\ lowNext \in 1 .. Len(module.blocks[lowBlock].operations)
        /\ LoweredOp = module.blocks[lowBlock].operations[lowNext]
        /\ LoweredOp.op = op
    BY <1>1, LoweredPlace
  <1>3. /\ lowered' = Bound(LoweredOp.result,
                            IF LoweredOp.op = "int" THEN ConstantInt(LoweredOp.value) ELSE ConstantFP)
        /\ lowNext' = lowNext + 1 /\ module' = module
        /\ UNCHANGED <<lowStatus, lowBlock, cleanupSlots, llvmBlocks>>
    BY DEF LowerConstant, vars, genVars, codeVars
  <1>4. lowered' = Bound(LoweredOp.result, ResultOperand(LoweredOp))
    BY <1>2, <1>3 DEF ResultOperand
  <1>5. \A v \in DOMAIN lowered' : lowered'[v] = ValueOperand(module, v)
    BY <1>1, <1>3, <1>4, OperandsKept
  <1>6. Body(module, lowBlock, llvmBlocks[lowBlock], lowNext)
    BY <1>2 DEF Built
  <1>7. Constant(module.blocks[lowBlock].operations[lowNext])
    BY <1>2 DEF Constant
  <1>8. Body(module, lowBlock, llvmBlocks[lowBlock], lowNext + 1)
    BY <1>2, <1>6, <1>7, BodyConstant
  <1>9. Built'
    BY <1>2, <1>3, <1>5, <1>8 DEF Built
  <1> QED
    BY <1>2, <1>3, <1>9 DEF CodeInvariant

LEMMA CodeFails ==
  ASSUME CodeInvariant, NEW error, LowFail(error)
  PROVE  CodeInvariant'
  BY DEF CodeInvariant, LowFail

LEMMA CodeOperation ==
  ASSUME Promised, LowInvariant, CodeInvariant,
         \/ LowerTensorDecl \/ LowerBinary \/ LowerCompare \/ LowerPhi \/ LowerTensorOperation
  PROVE  CodeInvariant'
  <1>1. ASSUME NEW op, LoweringOf(op), NEW value \in OperandsOf(LoweredOp)
        PROVE  lowered[value] = ValueOperand(module, value)
    BY <1>1, OperandsAreKnown, LoweredPlace DEF Has, Built
  <1>2. CASE LowerTensorDecl
    <2>1. LoweringOf("tensor") /\ LoweredOp.op = "tensor" /\ UNCHANGED vars
      BY <1>2, LoweredPlace DEF LowerTensorDecl
    <2>2. CASE LowFail("storage")
      BY <2>2, CodeFails
    <2>3. CASE ~ LowFail("storage")
      <3>1. Coded(LoweredOp)
        BY <2>1 DEF Coded
      <3>2. /\ StorageSize(LoweredOp.type) # Refused
            /\ DefineInst(AllocInst(LoweredOp.result, StorageSize(LoweredOp.type), 64, LoweredOp.result))
        BY <1>2, <2>3 DEF LowerTensorDecl
      <3>3. Translation(module, LoweredOp) =
               AllocInst(LoweredOp.result, StorageSize(LoweredOp.type), 64, LoweredOp.result)
        BY <2>1 DEF Translation
      <3> QED
        BY <2>1, <3>1, <3>2, <3>3, CodeDefine
    <2> QED
      BY <2>2, <2>3
  <1>3. CASE LowerBinary
    <2>1. LoweringOf("binary") /\ LoweredOp.op = "binary" /\ UNCHANGED vars
      BY <1>3, LoweredPlace DEF LowerBinary
    <2>2. Has(OperandsOf(LoweredOp))
      BY <2>1, OperandsAreKnown
    <2>3. DefineInst(ArithmeticOf(LoweredOp))
      BY <1>3, <2>2 DEF LowerBinary
    <2>4. LoweredOp.lhs \in OperandsOf(LoweredOp) /\ LoweredOp.rhs \in OperandsOf(LoweredOp)
      BY <2>1 DEF OperandsOf
    <2>5. ArithmeticOf(LoweredOp) = Translation(module, LoweredOp)
      BY <1>1, <2>1, <2>4 DEF ArithmeticOf, Translation
    <2> QED
      BY <2>1, <2>3, <2>5, CodeDefine DEF Coded
  <1>4. CASE LowerCompare
    <2>1. LoweringOf("compare") /\ LoweredOp.op = "compare" /\ UNCHANGED vars
      BY <1>4, LoweredPlace DEF LowerCompare
    <2>2. Has(OperandsOf(LoweredOp))
      BY <2>1, OperandsAreKnown
    <2>3. DefineInst(CompareInst(LoweredOp.result,
                                 Predicate(LoweredOp.kind, Floating(LoweredOp.operandType)),
                                 lowered[LoweredOp.lhs], lowered[LoweredOp.rhs]))
      BY <1>4, <2>2 DEF LowerCompare
    <2>4. LoweredOp.lhs \in OperandsOf(LoweredOp) /\ LoweredOp.rhs \in OperandsOf(LoweredOp)
      BY <2>1 DEF OperandsOf
    <2>5. CompareInst(LoweredOp.result,
                      Predicate(LoweredOp.kind, Floating(LoweredOp.operandType)),
                      lowered[LoweredOp.lhs], lowered[LoweredOp.rhs])
             = Translation(module, LoweredOp)
      BY <1>1, <2>1, <2>4 DEF Translation
    <2> QED
      BY <2>1, <2>3, <2>5, CodeDefine DEF Coded
  <1>5. CASE LowerPhi
    <2> DEFINE known == Bound(LoweredOp.result, Register(LoweredOp.result))
               incoming == LoweredOp.incoming
    <2>1. LoweringOf("phi") /\ LoweredOp.op = "phi" /\ UNCHANGED vars
      BY <1>5, LoweredPlace DEF LowerPhi
    <2>2. ASSUME NEW i \in DOMAIN incoming
          PROVE  /\ incoming[i].value \in DOMAIN known
                 /\ known[incoming[i].value] = ValueOperand(module, incoming[i].value)
      <3>1. incoming[i].value \in DOMAIN lowered
        BY <2>1, IncomingIsKnown
      <3>2. lowered[incoming[i].value] = ValueOperand(module, incoming[i].value)
        BY <2>1, <3>1, LoweredPlace DEF Built
      <3> QED
        BY <3>1, <3>2 DEF Bound
    <2>3. CASE LowFail("phiType")
      BY <2>3, CodeFails
    <2>4. CASE ~ LowFail("phiType")
      <3> DEFINE inst == PhiInst(LoweredOp.result,
                                 [i \in DOMAIN incoming |-> [incoming[i] EXCEPT !.value = known[@]]])
      <3>1. DefineInst(inst)
        BY <1>5, <2>2, <2>4 DEF LowerPhi
      <3>2. inst = Translation(module, LoweredOp)
        BY <2>1, <2>2 DEF Translation
      <3> HIDE DEF inst
      <3> QED
        BY <2>1, <3>1, <3>2, CodeDefine DEF Coded
    <2> QED
      BY <2>3, <2>4
  <1>6. CASE LowerTensorOperation
    BY <1>6, CodeFails DEF LowerTensorOperation
  <1> QED
    BY <1>2, <1>3, <1>4, <1>5, <1>6

LEMMA SingleList ==
  ASSUME NEW inst
  PROVE  /\ IsList(<<inst>>)
         /\ Len(<<inst>>) = 1 /\ <<inst>>[1] = inst
  <1>1. DOMAIN <<inst>> = 1 .. 1 /\ <<inst>>[1] = inst /\ Len(<<inst>>) = 1
    OBVIOUS
  <1>2. inst \in Range(<<inst>>)
    BY <1>1 DEF Range
  <1>3. <<inst>> \in Seq(Range(<<inst>>))
    BY <1>2
  <1> QED
    BY <1>1, <1>3 DEF IsList

LEMMA ListEnd ==
  ASSUME NEW s, IsList(s), NEW inst
  PROVE  /\ IsList(s \o <<inst>>) /\ Len(s \o <<inst>>) = Len(s) + 1
         /\ \A i \in 1 .. Len(s) : (s \o <<inst>>)[i] = s[i]
         /\ (s \o <<inst>>)[Len(s) + 1] = inst
  <1>1. IsList(<<inst>>) /\ Len(<<inst>>) = 1 /\ <<inst>>[1] = inst
    BY SingleList
  <1>2. PICK one : one = <<inst>>
    OBVIOUS
  <1>3. IsList(one)
    BY <1>1, <1>2
  <1>4. /\ IsList(s \o one)
        /\ Len(s \o one) = Len(s) + Len(one)
        /\ \A i \in 1 .. Len(s) : (s \o one)[i] = s[i]
        /\ \A i \in 1 .. Len(one) : (s \o one)[Len(s) + i] = one[i]
    BY <1>3, ListConcatenation
  <1>5. Len(one) = 1 /\ one[1] = inst
    BY <1>1, <1>2
  <1>6. 1 \in 1 .. Len(one)
    BY <1>5
  <1>7. (s \o one)[Len(s) + 1] = inst
    BY <1>4, <1>5, <1>6
  <1> QED
    BY <1>2, <1>4, <1>5, <1>7

LEMMA CodeClose ==
  ASSUME Promised, LowInvariant, CodeInvariant, NEW op, LoweringTerminator(op), UNCHANGED vars,
         NEW tail, CloseWith(tail), Ending(module, lowBlock, tail)
  PROVE  CodeInvariant'
  <1>1. /\ Built /\ lowStatus = "lowering" /\ lowBlock \in 1 .. Len(module.blocks)
        /\ module \in Module /\ Len(module.blocks) \in Nat
        /\ lowNext \in Nat /\ lowNext > Len(module.blocks[lowBlock].operations)
    BY TerminatorPlace, HandedOver
    DEF LowInvariant, CodeInvariant, LoweringTerminator, LoweredBlock
  <1>2. /\ llvmBlocks' = [llvmBlocks EXCEPT ![lowBlock] = @ \o tail]
        /\ lowNext' = 1 /\ lowBlock' = lowBlock + 1 /\ lowStatus' = lowStatus
        /\ cleanupSlots' = cleanupSlots /\ module' = module /\ lowered' = lowered
    BY DEF CloseWith, vars, genVars, codeVars
  <1>3. /\ DOMAIN llvmBlocks = 1 .. Len(module.blocks)
        /\ cleanupSlots \in SetToSeqs(Tensors(module))
        /\ \A v \in DOMAIN lowered : lowered[v] = ValueOperand(module, v)
        /\ \A b \in 1 .. Len(module.blocks) :
              /\ b < lowBlock => Closed(module, b, llvmBlocks[b])
              /\ b = lowBlock => Body(module, b, llvmBlocks[b], lowNext)
              /\ b > lowBlock => Body(module, b, llvmBlocks[b], 1)
    BY <1>1 DEF Built
  <1>4. Closed(module, lowBlock, llvmBlocks[lowBlock] \o tail)
    BY <1>1, <1>3, BodyClose
  <1>5. /\ DOMAIN llvmBlocks' = 1 .. Len(module.blocks)
        /\ llvmBlocks'[lowBlock] = llvmBlocks[lowBlock] \o tail
        /\ \A b \in 1 .. Len(module.blocks) : b # lowBlock => llvmBlocks'[b] = llvmBlocks[b]
    BY <1>1, <1>2, <1>3
  <1>6. ASSUME NEW b \in 1 .. Len(module.blocks)
        PROVE  /\ b < lowBlock + 1 => Closed(module, b, llvmBlocks'[b])
               /\ b = lowBlock + 1 => Body(module, b, llvmBlocks'[b], 1)
               /\ b > lowBlock + 1 => Body(module, b, llvmBlocks'[b], 1)
    <2>1. CASE b = lowBlock
      <3>1. ~ (b = lowBlock + 1) /\ ~ (b > lowBlock + 1)
        BY <1>1, <2>1
      <3> QED
        BY <1>4, <1>5, <2>1, <3>1
    <2>2. CASE b # lowBlock
      <3>1. /\ b < lowBlock + 1 => b < lowBlock
            /\ b = lowBlock + 1 => b > lowBlock
            /\ b > lowBlock + 1 => b > lowBlock
        BY <1>1, <2>2
      <3> QED
        BY <1>3, <1>5, <2>2, <3>1
    <2> QED
      BY <2>1, <2>2
  <1>7. Built'
    BY <1>2, <1>3, <1>5, <1>6 DEF Built
  <1> QED
    BY <1>1, <1>2, <1>7 DEF CodeInvariant

LEMMA BranchEnds ==
  ASSUME NEW m, NEW b, NEW inst, m.blocks[b].terminator.op # "return",
         inst = Closing(m, m.blocks[b].terminator)
  PROVE  Ending(m, b, <<inst>>)
  <1>1. /\ IsList(<<inst>>) /\ Len(<<inst>>) = 1 /\ <<inst>>[1] = inst
    BY SingleList
  <1>2. PICK tail : tail = <<inst>>
    OBVIOUS
  <1>3. IsList(tail) /\ Len(tail) = 1 /\ tail[1] = inst /\ 1 .. Len(tail) - 1 = {}
    BY <1>1, <1>2
  <1>4. Ending(m, b, tail)
    BY <1>3 DEF Ending
  <1> QED
    BY <1>2, <1>4

LEMMA ReturnEnds ==
  ASSUME NEW m, IsFiniteSet(Tensors(m)), NEW b, NEW inst, m.blocks[b].terminator.op = "return",
         inst = Closing(m, m.blocks[b].terminator), NEW order \in SetToSeqs(Tensors(m))
  PROVE  Ending(m, b, [i \in DOMAIN order |-> FreeInst(order[i])] \o <<inst>>)
  <1> DEFINE releases == [i \in DOMAIN order |-> FreeInst(order[i])]
             tail == releases \o <<inst>>
  <1>1. /\ Len(order) \in Nat
        /\ DOMAIN order = 1 .. Len(order)
        /\ \A i \in 1 .. Len(order) : order[i] \in Tensors(m)
        /\ \A i, j \in 1 .. Len(order) : order[i] = order[j] => i = j
        /\ \A v \in Tensors(m) : \E i \in 1 .. Len(order) : order[i] = v
    BY ListedSet
  <1>2. IsList(releases) /\ Len(releases) = Len(order)
    <2>1. releases = [i \in 1 .. Len(order) |-> FreeInst(order[i])]
      BY <1>1
    <2> HIDE DEF releases
    <2>2. \A i \in 1 .. Len(order) : releases[i] \in Range(releases)
      BY <2>1 DEF Range
    <2>3. releases \in Seq(Range(releases))
      BY <1>1, <2>1, <2>2, IsASeq
    <2> QED
      BY <1>1, <2>1, <2>3, LenProperties DEF IsList
  <1>3. \A i \in 1 .. Len(order) : releases[i] = FreeInst(order[i])
    BY <1>1
  <1> HIDE DEF releases
  <1>7. /\ IsList(tail) /\ Len(tail) = Len(order) + 1
        /\ \A i \in 1 .. Len(order) : tail[i] = releases[i]
        /\ tail[Len(order) + 1] = inst
    <2>1. /\ IsList(releases \o <<inst>>) /\ Len(releases \o <<inst>>) = Len(releases) + 1
          /\ \A i \in 1 .. Len(releases) : (releases \o <<inst>>)[i] = releases[i]
          /\ (releases \o <<inst>>)[Len(releases) + 1] = inst
      <3>1. IsList(releases)
        BY <1>2
      <3> QED
        BY <3>1, ListEnd
    <2> QED
      BY <1>2, <2>1
  <1> HIDE DEF tail
  <1>8. Len(tail) >= 1 /\ tail[Len(tail)] = inst /\ 1 .. Len(tail) - 1 = 1 .. Len(order)
    BY <1>1, <1>7
  <1>9. \A i \in 1 .. Len(order) : tail[i] = FreeInst(order[i])
    BY <1>3, <1>7
  <1>10. ASSUME NEW i \in 1 .. Len(order), NEW j \in 1 .. Len(order), NEW v,
                tail[i] = FreeInst(v), tail[j] = FreeInst(v)
         PROVE  i = j
    <2>1. order[i] = v /\ order[j] = v
      BY <1>9, <1>10, FreeKind
    <2> QED
      BY <1>1, <2>1
  <1>11. \A v \in Tensors(m) : \E j \in 1 .. Len(order) : tail[j] = FreeInst(v)
    BY <1>1, <1>9
  <1>12. \A j \in 1 .. Len(order) : \E v \in Tensors(m) : tail[j] = FreeInst(v)
    BY <1>1, <1>9
  <1>13. Ending(m, b, tail)
    BY <1>7, <1>8, <1>10, <1>11, <1>12 DEF Ending
  <1> QED
    BY <1>13 DEF tail, releases

LEMMA CodeTerminator ==
  ASSUME Promised, LowInvariant, CodeInvariant, LowerBranch \/ LowerCondBranch \/ LowerReturn
  PROVE  CodeInvariant'
  <1> DEFINE terminator == module.blocks[lowBlock].terminator
  <1>1. ASSUME NEW op, LoweringTerminator(op)
        PROVE  /\ terminator.op = op /\ terminator = LoweredBlock.terminator
               /\ Has(Uses(terminator)) /\ Built
               /\ \A v \in Uses(terminator) : lowered[v] = ValueOperand(module, v)
    BY <1>1, TerminatorPlace
    DEF LoweringTerminator, LoweredBlock, Has, Built, CodeInvariant
  <1>2. CASE LowerBranch
    <2>1. /\ LoweringTerminator("branch") /\ UNCHANGED vars
          /\ CloseWith(<<BranchInst(terminator.target)>>)
      BY <1>2 DEF LowerBranch, LoweredBlock
    <2>2. terminator.op = "branch"
      BY <1>1, <2>1
    <2>3. BranchInst(terminator.target) = Closing(module, terminator)
      BY <2>2 DEF Closing
    <2>4. Ending(module, lowBlock, <<BranchInst(terminator.target)>>)
      BY <2>2, <2>3, BranchEnds
    <2> QED
      BY <2>1, <2>4, CodeClose
  <1>3. CASE LowerCondBranch
    <2>1. LoweringTerminator("condbranch") /\ UNCHANGED vars
      BY <1>3 DEF LowerCondBranch
    <2>2. /\ terminator.op = "condbranch" /\ Has(Uses(terminator))
          /\ terminator = LoweredBlock.terminator
          /\ \A v \in Uses(terminator) : lowered[v] = ValueOperand(module, v)
      BY <1>1, <2>1
    <2>3. CloseWith(<<CondBranchOf(terminator)>>)
      BY <1>3, <2>2 DEF LowerCondBranch
    <2>4. terminator.condition \in Uses(terminator)
      BY <2>2 DEF Uses
    <2>5. CondBranchOf(terminator) = Closing(module, terminator)
      BY <2>2, <2>4 DEF CondBranchOf, Closing
    <2>6. Ending(module, lowBlock, <<CondBranchOf(terminator)>>)
      BY <2>2, <2>5, BranchEnds
    <2> QED
      BY <2>1, <2>3, <2>6, CodeClose
  <1>4. CASE LowerReturn
    <2>1. LoweringTerminator("return") /\ UNCHANGED vars
      BY <1>4 DEF LowerReturn
    <2>2. /\ terminator.op = "return" /\ Has(Uses(terminator))
          /\ terminator = LoweredBlock.terminator /\ Built
          /\ \A v \in Uses(terminator) : lowered[v] = ValueOperand(module, v)
      BY <1>1, <2>1
    <2> DEFINE inst == ReturnInst(lowered[terminator.value])
    <2>3. CloseWith(ReleaseSlots \o <<inst>>)
      BY <1>4, <2>2 DEF LowerReturn
    <2>4. terminator.value \in Uses(terminator)
      BY <2>2 DEF Uses
    <2>5. inst = Closing(module, terminator)
      BY <2>2, <2>4 DEF Closing
    <2>6. IsFiniteSet(Tensors(module))
      <3>1. module \in Module /\ Below(module, nextValueId) /\ nextValueId \in Nat
        BY HandedOver, StateTypes DEF ModuleSound, Promised, ValuesInvariant
      <3> QED
        BY <3>1, TensorsFinite
    <2> HIDE DEF inst
    <2>7. Ending(module, lowBlock, ReleaseSlots \o <<inst>>)
      BY <2>2, <2>5, <2>6, ReturnEnds DEF ReleaseSlots, Built
    <2> QED
      BY <2>1, <2>3, <2>7, CodeClose
  <1> QED
    BY <1>2, <1>3, <1>4

LEMMA CodeStep ==
  ASSUME Promised, LowInvariant, CodeInvariant, [ExecutionNext]_allVars
  PROVE  CodeInvariant'
  <1>1. CASE FinishLowering
    <2>1. /\ UNCHANGED <<lowBlock, lowNext, lowered, cleanupSlots, llvmBlocks>>
          /\ lowStatus = "lowering" /\ lowBlock > Len(module.blocks) /\ module' = module
      BY <1>1 DEF FinishLowering, LowFail, vars, genVars, codeVars
    <2>2. Built'
      BY <2>1 DEF CodeInvariant, Built
    <2>3. lowStatus' # "idle" /\ lowBlock' > Len(module'.blocks)
      BY <1>1, <2>1 DEF FinishLowering, LowFail
    <2> QED
      BY <2>2, <2>3 DEF CodeInvariant
  <1>2. CASE LowerStep
    BY <1>1, <1>2, StartBuilds, CodeConstant, CodeOperation, CodeTerminator DEF LowerStep
  <1>3. CASE UNCHANGED lowVars
    <2>1. UNCHANGED <<lowStatus, lowBlock, lowNext, lowered, cleanupSlots, llvmBlocks>>
      BY <1>3 DEF lowVars
    <2>2. CASE lowStatus = "idle"
      BY <2>1, <2>2 DEF CodeInvariant
    <2>3. CASE lowStatus # "idle"
      <3>1. module' = module
        BY <2>3, FrontendStep, GeneratorRests DEF LowInvariant, genVars, codeVars
      <3> QED
        BY <2>1, <3>1 DEF CodeInvariant, Built
    <2> QED
      BY <2>2, <2>3
  <1> QED
    BY <1>2, <1>3 DEF ExecutionNext, ExecEnded, allVars

LEMMA CodeAlways == ExecutionSpec => []CodeInvariant
  <1>1. ExecutionInit => CodeInvariant
    BY DEF ExecutionInit, BackendInit, LowInit, CodeInvariant
  <1> QED
    BY <1>1, CodeStep, LoweringAlways, PromisedAlways, PTL DEF ExecutionSpec

-----------------------------------------------------------------------------
(* The instruction executed *)

Operations == {"alloc", "binary", "compare", "phi"}
Terminations == {"branch", "condbranch", "return"}

LEMMA ClosingKind ==
  ASSUME NEW m, NEW terminator, terminator.op \in Terminations
  PROVE  Closing(m, terminator).inst = terminator.op
  <1>1. CASE terminator.op = "branch"
    BY <1>1 DEF Closing, BranchInst
  <1>2. CASE terminator.op = "condbranch"
    BY <1>2 DEF Closing, CondBranchInst
  <1>3. CASE terminator.op = "return"
    BY <1>3 DEF Closing, ReturnInst
  <1> QED
    BY <1>1, <1>2, <1>3 DEF Terminations

\* Where an instruction of each kind is in the code of a block.
LEMMA InstructionPlace ==
  ASSUME NEW m, NEW b, NEW t, Closed(m, b, t), m.blocks[b].terminator.op \in Terminations,
         NEW n \in 1 .. Len(t)
  PROVE  /\ Len(t) \in Nat
         /\ n = Len(t) => t[n].inst = m.blocks[b].terminator.op
                          /\ t[n] = Closing(m, m.blocks[b].terminator)
         /\ n # Len(t) => n \in 1 .. Len(t) - 1 /\ n + 1 \in 1 .. Len(t)
                          /\ t[n].inst \in Operations \cup {"slot", "free"}
         /\ t[n].inst = "slot" => SlotAt(m, b, t, n)
         /\ t[n].inst = "free" => ReleaseAt(m, b, t, n)
         /\ t[n].inst \in Operations =>
               \E k \in 1 .. Len(m.blocks[b].operations) : OperationCodeAt(m, b, t, n, k)
  <1>0. Len(t) \in Nat
    BY ListLength DEF Closed
  <1>1. CASE n = Len(t)
    <2>1. t[n] = Closing(m, m.blocks[b].terminator)
      BY <1>1 DEF Closed
    <2>2. t[n].inst \in Terminations /\ t[n].inst = m.blocks[b].terminator.op
      BY <2>1, ClosingKind
    <2>3. t[n].inst \notin Operations \cup {"slot", "free"}
      BY <2>2 DEF Terminations, Operations
    <2> QED
      BY <1>0, <1>1, <2>1, <2>2, <2>3
  <1>2. CASE n # Len(t)
    <2>0. n \in 1 .. Len(t) - 1 /\ n + 1 \in 1 .. Len(t)
      BY <1>0, <1>2
    <2>1. \/ SlotAt(m, b, t, n)
          \/ \E k \in 1 .. Len(m.blocks[b].operations) : OperationCodeAt(m, b, t, n, k)
          \/ ReleaseAt(m, b, t, n)
      BY <2>0 DEF Closed
    <2>2. CASE SlotAt(m, b, t, n)
      <3>1. t[n].inst = "slot"
        BY <2>2, SlotKind DEF SlotAt
      <3> QED
        BY <1>0, <1>2, <2>0, <2>2, <3>1 DEF Operations
    <2>3. CASE \E k \in 1 .. Len(m.blocks[b].operations) : OperationCodeAt(m, b, t, n, k)
      <3>1. PICK k \in 1 .. Len(m.blocks[b].operations) : OperationCodeAt(m, b, t, n, k)
        BY <2>3
      <3>2. PICK operation : Coded(operation) /\ t[n] = Translation(m, operation)
        BY <3>1 DEF OperationCodeAt
      <3>3. t[n].inst \in Operations
        BY <3>2, TranslationDefines DEF Operations
      <3>4. t[n].inst # "slot" /\ t[n].inst # "free"
        BY <3>3 DEF Operations
      <3> QED
        BY <1>0, <1>2, <2>0, <2>3, <3>3, <3>4
    <2>4. CASE ReleaseAt(m, b, t, n)
      <3>1. t[n].inst = "free"
        BY <2>4, FreeKind DEF ReleaseAt
      <3> QED
        BY <1>0, <1>2, <2>0, <2>4, <3>1 DEF Operations
    <2> QED
      BY <2>1, <2>2, <2>3, <2>4
  <1> QED
    BY <1>1, <1>2

\* The slot of tensor v is released by an instruction before n.
Released(t, n, v) == \E i \in 1 .. n - 1 : t[i] = FreeInst(v)

LEMMA ReleasedNext ==
  ASSUME NEW t, NEW n \in Nat \ {0}, NEW v
  PROVE  /\ Released(t, n + 1, v) <=> Released(t, n, v) \/ t[n] = FreeInst(v)
         /\ t[n].inst # "free" => (Released(t, n + 1, v) <=> Released(t, n, v))
  <1>1. \A i : i \in 1 .. n + 1 - 1 <=> i \in 1 .. n - 1 \/ i = n
    OBVIOUS
  <1>2. Released(t, n + 1, v) <=> Released(t, n, v) \/ t[n] = FreeInst(v)
    BY <1>1 DEF Released
  <1> QED
    BY <1>2, FreeKind

\* Nothing is released before an instruction other than a release or a return.
LEMMA NothingReleased ==
  ASSUME NEW m, NEW b, NEW t, Closed(m, b, t), m.blocks[b].terminator.op \in Terminations,
         NEW n \in 1 .. Len(t), t[n].inst \notin {"free", "return"}, NEW v
  PROVE  ~ Released(t, n, v)
  <1> SUFFICES ASSUME NEW i \in 1 .. n - 1, t[i] = FreeInst(v) PROVE FALSE
    BY DEF Released
  <1>0. Len(t) \in Nat /\ i \in 1 .. Len(t) /\ n \in i .. Len(t)
    BY InstructionPlace
  <1>1. ReleaseAt(m, b, t, i)
    BY <1>0, FreeKind, InstructionPlace
  <1>2. CASE n = Len(t)
    BY <1>1, <1>2, InstructionPlace DEF ReleaseAt
  <1>3. CASE n # Len(t)
    <2>1. n \in i .. Len(t) - 1
      BY <1>0, <1>3
    <2> QED
      BY <1>1, <2>1 DEF ReleaseAt
  <1> QED
    BY <1>2, <1>3

\* After the slots, no slot is made.
LEMMA SlotsComeFirst ==
  ASSUME NEW m, NEW b, NEW t, Closed(m, b, t), m.blocks[b].terminator.op \in Terminations,
         NEW n \in 1 .. Len(t), t[n].inst # "slot", NEW i \in n .. Len(t), NEW v
  PROVE  t[i] # SlotInst(v)
  <1> SUFFICES ASSUME t[i] = SlotInst(v) PROVE FALSE
    OBVIOUS
  <1>0. Len(t) \in Nat /\ i \in 1 .. Len(t)
    BY InstructionPlace
  <1>1. t[i].inst = "slot"
    BY SlotKind
  <1>2. SlotAt(m, b, t, i) /\ n # i
    BY <1>0, <1>1, InstructionPlace
  <1>3. n \in 1 .. i - 1
    BY <1>0, <1>2
  <1> QED
    BY <1>2, <1>3 DEF SlotAt

-----------------------------------------------------------------------------
(* The storage the program owns *)

\* The storage allocated is what the slots not yet released hold, each piece
\* in one of them; a tensor whose value is not known yet has an empty slot.
Heap(m, b, t, n, known, cells, storage) ==
    /\ storage \subseteq Storage
    /\ DOMAIN cells \subseteq Tensors(m)
    /\ \A v \in Tensors(m) : v \notin DOMAIN cells => b = 1 /\ \E i \in n .. Len(t) : t[i] = SlotInst(v)
    /\ \A v \in DOMAIN cells : ~ Released(t, n, v) => cells[v] \in storage \cup {NULL}
    /\ \A v, w \in DOMAIN cells :
          ~ Released(t, n, v) /\ ~ Released(t, n, w) /\ cells[v] = cells[w] /\ cells[v] # NULL => v = w
    /\ \A a \in storage : \E v \in DOMAIN cells : ~ Released(t, n, v) /\ cells[v] = a
    /\ \A v \in DOMAIN cells : v \notin known => cells[v] = NULL

\* Once the slots are made, there is one for each tensor.
LEMMA SlotsMade ==
  ASSUME NEW m, NEW b, NEW t, Closed(m, b, t), m.blocks[b].terminator.op \in Terminations,
         NEW n \in 1 .. Len(t), t[n].inst # "slot", NEW known, NEW cells, NEW storage,
         Heap(m, b, t, n, known, cells, storage)
  PROVE  DOMAIN cells = Tensors(m)
  <1>1. ASSUME NEW v \in Tensors(m) PROVE v \in DOMAIN cells
    <2>1. \A i \in n .. Len(t) : t[i] # SlotInst(v)
      BY SlotsComeFirst
    <2> QED
      BY <2>1 DEF Heap
  <1> QED
    BY <1>1 DEF Heap

LEMMA HeapSlot ==
  ASSUME NEW m, NEW b, NEW t, NEW n \in Nat \ {0}, NEW cells, NEW storage,
         Heap(m, b, t, n, {}, cells, storage), NEW v \in Tensors(m), t[n] = SlotInst(v)
  PROVE  Heap(m, b, t, n + 1, {}, With(cells, v, NULL), storage)
  <1> DEFINE filled == With(cells, v, NULL)
  <1>1. \A w \in DOMAIN cells : cells[w] = NULL
    BY DEF Heap
  <1>2. storage = {}
    BY <1>1, TargetAssumption DEF Heap
  <1>3. DOMAIN filled = DOMAIN cells \cup {v} /\ \A w \in DOMAIN filled : filled[w] = NULL
    BY <1>1 DEF With
  <1> HIDE DEF filled
  <1>4. ASSUME NEW w \in Tensors(m), w \notin DOMAIN filled
        PROVE  b = 1 /\ \E i \in n + 1 .. Len(t) : t[i] = SlotInst(w)
    <2>1. w # v /\ w \notin DOMAIN cells
      BY <1>3, <1>4
    <2>2. b = 1
      BY <2>1 DEF Heap
    <2>3. PICK i \in n .. Len(t) : t[i] = SlotInst(w)
      BY <2>1 DEF Heap
    <2>4. i # n
      BY <2>1, <2>3, SlotKind
    <2>5. i \in n + 1 .. Len(t)
      BY <2>4
    <2> QED
      BY <2>2, <2>3, <2>5
  <1>5. DOMAIN filled \subseteq Tensors(m)
    BY <1>3 DEF Heap
  <1>6. Heap(m, b, t, n + 1, {}, filled, storage)
    BY <1>2, <1>3, <1>4, <1>5 DEF Heap
  <1> QED
    BY <1>6 DEF filled

\* An instruction that neither makes nor fills nor releases a slot.
LEMMA HeapQuiet ==
  ASSUME NEW m, NEW b, NEW t, NEW n \in Nat \ {0}, NEW known, NEW cells, NEW storage,
         Heap(m, b, t, n, known, cells, storage), t[n].inst \notin {"slot", "free"},
         NEW more, known \subseteq more
  PROVE  Heap(m, b, t, n + 1, more, cells, storage)
  <1>1. \A v : Released(t, n + 1, v) <=> Released(t, n, v)
    BY ReleasedNext
  <1>2. ASSUME NEW v \in Tensors(m), v \notin DOMAIN cells
        PROVE  b = 1 /\ \E i \in n + 1 .. Len(t) : t[i] = SlotInst(v)
    <2>1. PICK i \in n .. Len(t) : t[i] = SlotInst(v)
      BY <1>2 DEF Heap
    <2>2. i # n
      BY <2>1, SlotKind
    <2>3. i \in n + 1 .. Len(t)
      BY <2>2
    <2> QED
      BY <1>2, <2>1, <2>3 DEF Heap
  <1> QED
    BY <1>1, <1>2 DEF Heap

LEMMA HeapAlloc ==
  ASSUME NEW m, NEW b, NEW t, NEW n \in Nat \ {0}, NEW known, NEW cells, NEW storage,
         Heap(m, b, t, n, known, cells, storage), \A w : ~ Released(t, n, w),
         t[n].inst = "alloc", DOMAIN cells = Tensors(m),
         NEW v \in Tensors(m), v \notin known, NEW pointer, NEW later,
         \/ pointer = NULL /\ later = storage
         \/ pointer \in Storage \ storage /\ later = storage \cup {pointer}
  PROVE  Heap(m, b, t, n + 1, known \cup {v}, With(cells, v, pointer), later)
  <1> DEFINE filled == With(cells, v, pointer)
  <1>1. \A w : ~ Released(t, n + 1, w)
    BY ReleasedNext
  <1>2. DOMAIN filled = Tensors(m) /\ filled[v] = pointer
        /\ \A w \in Tensors(m) : w # v => filled[w] = cells[w]
    BY DEF With
  <1>3. cells[v] = NULL
    BY DEF Heap
  <1>4. /\ \A w \in Tensors(m) : cells[w] \in storage \cup {NULL}
        /\ \A w, x \in Tensors(m) : cells[w] = cells[x] /\ cells[w] # NULL => w = x
        /\ \A a \in storage : \E w \in Tensors(m) : cells[w] = a
        /\ \A w \in Tensors(m) : w \notin known => cells[w] = NULL
        /\ storage \subseteq Storage
    BY DEF Heap
  <1> HIDE DEF filled
  <1>5. \A w \in Tensors(m) : filled[w] \in later \cup {NULL}
    BY <1>2, <1>4
  <1>6. ASSUME NEW w \in Tensors(m), NEW x \in Tensors(m), filled[w] = filled[x], filled[w] # NULL
        PROVE  w = x
    BY <1>2, <1>4, <1>6
  <1>7. ASSUME NEW a \in later PROVE \E w \in Tensors(m) : filled[w] = a
    <2>1. CASE a \in storage
      <3>1. PICK w \in Tensors(m) : cells[w] = a
        BY <1>4, <2>1
      <3>2. w # v
        BY <1>3, <1>4, <2>1, <3>1, TargetAssumption
      <3> QED
        BY <1>2, <3>1, <3>2
    <2>2. CASE a \notin storage
      BY <1>2, <1>7, <2>2
    <2> QED
      BY <2>1, <2>2
  <1>8. later \subseteq Storage
    BY <1>4
  <1>9. \A w \in Tensors(m) : w \notin known \cup {v} => filled[w] = NULL
    BY <1>2, <1>4
  <1>10. Heap(m, b, t, n + 1, known \cup {v}, filled, later)
    BY <1>1, <1>2, <1>5, <1>6, <1>7, <1>8, <1>9 DEF Heap
  <1> QED
    BY <1>10 DEF filled

LEMMA HeapFree ==
  ASSUME NEW m, NEW b, NEW t, NEW n \in Nat \ {0}, NEW known, NEW cells, NEW storage,
         Heap(m, b, t, n, known, cells, storage), DOMAIN cells = Tensors(m),
         NEW v \in Tensors(m), t[n] = FreeInst(v), ~ Released(t, n, v)
  PROVE  /\ cells[v] \in storage \cup {NULL}
         /\ Heap(m, b, t, n + 1, known, cells, storage \ {cells[v]})
  <1> DEFINE later == storage \ {cells[v]}
  <1>1. \A w : Released(t, n + 1, w) <=> Released(t, n, w) \/ w = v
    BY ReleasedNext, FreeKind
  <1>2. /\ storage \subseteq Storage
        /\ \A w \in Tensors(m) : ~ Released(t, n, w) => cells[w] \in storage \cup {NULL}
        /\ \A w, x \in Tensors(m) :
              ~ Released(t, n, w) /\ ~ Released(t, n, x) /\ cells[w] = cells[x] /\ cells[w] # NULL => w = x
        /\ \A a \in storage : \E w \in Tensors(m) : ~ Released(t, n, w) /\ cells[w] = a
        /\ \A w \in Tensors(m) : w \notin known => cells[w] = NULL
    BY DEF Heap
  <1>3. ASSUME NEW w \in Tensors(m), ~ Released(t, n + 1, w) PROVE cells[w] \in later \cup {NULL}
    BY <1>1, <1>2, <1>3
  <1>4. ASSUME NEW a \in later PROVE \E w \in Tensors(m) : ~ Released(t, n + 1, w) /\ cells[w] = a
    <2>1. PICK w \in Tensors(m) : ~ Released(t, n, w) /\ cells[w] = a
      BY <1>2, <1>4
    <2>2. w # v
      BY <1>4, <2>1
    <2> QED
      BY <1>1, <2>1, <2>2
  <1> HIDE DEF later
  <1>5. \A w, x \in Tensors(m) :
           ~ Released(t, n + 1, w) /\ ~ Released(t, n + 1, x) /\ cells[w] = cells[x] /\ cells[w] # NULL
             => w = x
    BY <1>1, <1>2
  <1>6. later \subseteq Storage
    BY <1>2 DEF later
  <1>7. Heap(m, b, t, n + 1, known, cells, later)
    BY <1>2, <1>3, <1>4, <1>5, <1>6 DEF Heap
  <1> QED
    BY <1>2, <1>7 DEF later

\* Control passes to the start of another block.
LEMMA HeapJump ==
  ASSUME NEW m, NEW b, NEW t, NEW n, NEW known, NEW cells, NEW storage,
         Heap(m, b, t, n, known, cells, storage), DOMAIN cells = Tensors(m),
         \A v : ~ Released(t, n, v), NEW c, NEW u
  PROVE  Heap(m, c, u, 1, known, cells, storage)
  <1>1. \A v : ~ Released(u, 1, v)
    BY DEF Released
  <1> QED
    BY <1>1 DEF Heap

\* At the return, every slot has been released.
LEMMA HeapReturn ==
  ASSUME NEW m, NEW b, NEW t, Closed(m, b, t), m.blocks[b].terminator.op = "return",
         NEW known, NEW cells, NEW storage, Heap(m, b, t, Len(t), known, cells, storage)
  PROVE  storage = {}
  <1>1. \A v \in Tensors(m) : Released(t, Len(t), v)
    BY DEF Closed, Released
  <1> QED
    BY <1>1 DEF Heap

-----------------------------------------------------------------------------
(* The registers written *)

\* What the backend has built: code is the code of every block of m.
Compiled(m, code) ==
    /\ Structure(m) /\ DefinitionsUnique(m)
    /\ DOMAIN code = 1 .. Len(m.blocks)
    /\ \A b \in 1 .. Len(m.blocks) : /\ Closed(m, b, code[b])
                                     /\ m.blocks[b].terminator.op \in Terminations
                                     /\ \A id \in Targets(m.blocks[b].terminator) :
                                           id \in 0 .. Len(m.blocks) - 1
                                           /\ b - 1 \in PredecessorsOf(m, id) /\ b < id + 1

\* Instruction n of block b defines value.
DefinesAt(code, b, n, value) == n \in 1 .. Len(code[b]) /\ Defines(code[b][n], value)

\* A register with a value has been written by an instruction before
\* instruction i of block b.
Written(code, b, i, known) ==
    \A value \in known : \E c \in 1 .. b, j \in Nat : (c = b => j < i) /\ DefinesAt(code, c, j, value)

\* Instruction n is operation k, whose value is given.
Computes(m, b, t, n, k, value) ==
    OperationCodeAt(m, b, t, n, k) /\ m.blocks[b].operations[k].result = value

\* The operation an instruction that defines a value is lowered from.
LEMMA DefinerPlace ==
  ASSUME NEW m, NEW b, NEW t, Closed(m, b, t), m.blocks[b].terminator.op \in Terminations,
         NEW n \in 1 .. Len(t), NEW value, Defines(t[n], value)
  PROVE  /\ n \in 1 .. Len(t) - 1
         /\ \E k \in 1 .. Len(m.blocks[b].operations) : Computes(m, b, t, n, k, value)
  <1>1. t[n].inst \in Operations /\ t[n].result = value
    BY DEF Defines, Operations
  <1>2. n # Len(t)
    <2>1. t[n].inst \notin Terminations
      BY <1>1 DEF Operations, Terminations
    <2> QED
      BY <2>1, InstructionPlace
  <1>3. n \in 1 .. Len(t) - 1
    BY <1>2, InstructionPlace
  <1>4. PICK k \in 1 .. Len(m.blocks[b].operations) : OperationCodeAt(m, b, t, n, k)
    BY <1>1, InstructionPlace
  <1>5. m.blocks[b].operations[k].result = value
    <2>1. Coded(m.blocks[b].operations[k]) /\ t[n] = Translation(m, m.blocks[b].operations[k])
      BY <1>4 DEF OperationCodeAt
    <2> QED
      BY <1>1, <2>1, TranslationDefines
  <1> QED
    BY <1>3, <1>4, <1>5 DEF Computes

LEMMA CompiledBlock ==
  ASSUME NEW m, NEW code, Compiled(m, code), NEW b \in 1 .. Len(m.blocks), NEW t, t = code[b]
  PROVE  /\ m \in Module /\ Len(m.blocks) \in Nat
         /\ Closed(m, b, t) /\ Len(t) \in Nat /\ Len(t) >= 1
         /\ m.blocks[b].terminator.op \in Terminations
  <1>1. m \in Module /\ Closed(m, b, t) /\ m.blocks[b].terminator.op \in Terminations
    BY DEF Compiled, Structure
  <1> QED
    BY <1>1, BlockTypes, ListLength DEF Closed

\* Each register is written by one instruction of the function.
LEMMA OneDefiner ==
  ASSUME NEW m, NEW code, Compiled(m, code), NEW value,
         NEW b \in 1 .. Len(m.blocks), NEW n, DefinesAt(code, b, n, value),
         NEW c \in 1 .. Len(m.blocks), NEW j, DefinesAt(code, c, j, value)
  PROVE  b = c /\ n = j
  <1>0. m \in Module /\ DefinitionsUnique(m)
    BY CompiledBlock DEF Compiled
  <1>1. PICK t, u : t = code[b] /\ u = code[c]
    OBVIOUS
  <1>2. /\ n \in 1 .. Len(t) /\ Defines(t[n], value)
        /\ j \in 1 .. Len(u) /\ Defines(u[j], value)
    BY <1>1 DEF DefinesAt
  <1>3. /\ Closed(m, b, t) /\ m.blocks[b].terminator.op \in Terminations
        /\ Closed(m, c, u) /\ m.blocks[c].terminator.op \in Terminations
    BY <1>1, CompiledBlock
  <1>4. PICK k \in 1 .. Len(m.blocks[b].operations) : Computes(m, b, t, n, k, value)
    BY <1>2, <1>3, DefinerPlace
  <1>5. PICK l \in 1 .. Len(m.blocks[c].operations) : Computes(m, c, u, j, l, value)
    BY <1>2, <1>3, DefinerPlace
  <1>6. /\ <<b, k>> \in Places(m) /\ resultOf(OperationAt(m, <<b, k>>)) = value
        /\ <<c, l>> \in Places(m) /\ resultOf(OperationAt(m, <<c, l>>)) = value
    BY <1>0, <1>4, <1>5, PlaceFacts DEF resultOf, Computes
  <1>7. <<b, k>> = <<c, l>>
    BY <1>0, <1>6 DEF DefinitionsUnique
  <1>8. b = c /\ t = u
    BY <1>1, <1>7
  <1>9. n \in 1 .. Len(t) - 1 /\ j \in 1 .. Len(t) - 1 /\ Defines(t[j], value)
    <2>1. j \in 1 .. Len(t) /\ Defines(t[j], value)
      BY <1>2, <1>8
    <2> QED
      BY <1>2, <1>3, <2>1, DefinerPlace
  <1>10. \A i, h \in 1 .. Len(t) - 1 : \A v : Defines(t[i], v) /\ Defines(t[h], v) => i = h
    BY <1>3 DEF Closed
  <1>11. n = j
    BY <1>2, <1>9, <1>10
  <1> QED
    BY <1>8, <1>11

\* An instruction runs once: the register it defines has no value yet.
LEMMA NotYetWritten ==
  ASSUME NEW m, NEW code, Compiled(m, code), NEW b \in 1 .. Len(m.blocks),
         NEW n \in Nat, NEW known, Written(code, b, n, known),
         NEW value, DefinesAt(code, b, n, value)
  PROVE  value \notin known
  <1> SUFFICES ASSUME value \in known PROVE FALSE
    OBVIOUS
  <1>1. PICK c \in 1 .. b, j \in Nat : (c = b => j < n) /\ DefinesAt(code, c, j, value)
    BY DEF Written
  <1>2. c \in 1 .. Len(m.blocks)
    <2>1. Len(m.blocks) \in Nat
      BY CompiledBlock
    <2> QED
      BY <1>1, <2>1
  <1>3. b = c /\ n = j
    BY <1>1, <1>2, OneDefiner
  <1> QED
    BY <1>1, <1>3

LEMMA WrittenNext ==
  ASSUME NEW code, NEW b \in Nat \ {0}, NEW n \in Nat, NEW known, Written(code, b, n, known)
  PROVE  /\ Written(code, b, n + 1, known)
         /\ \A value : DefinesAt(code, b, n, value) => Written(code, b, n + 1, known \cup {value})
  <1>1. ASSUME NEW value \in known
        PROVE  \E c \in 1 .. b, j \in Nat : (c = b => j < n + 1) /\ DefinesAt(code, c, j, value)
    <2>1. PICK c \in 1 .. b, j \in Nat : (c = b => j < n) /\ DefinesAt(code, c, j, value)
      BY DEF Written
    <2>2. c = b => j < n + 1
      BY <2>1
    <2> QED
      BY <2>1, <2>2
  <1>2. ASSUME NEW value, DefinesAt(code, b, n, value)
        PROVE  \E c \in 1 .. b, j \in Nat : (c = b => j < n + 1) /\ DefinesAt(code, c, j, value)
    <2>1. b \in 1 .. b /\ n < n + 1
      OBVIOUS
    <2> QED
      BY <1>2, <2>1
  <1> QED
    BY <1>1, <1>2 DEF Written

LEMMA WrittenJump ==
  ASSUME NEW code, NEW b \in Nat, NEW n, NEW known, Written(code, b, n, known),
         NEW c \in Nat, b < c
  PROVE  Written(code, c, 1, known)
  <1>1. ASSUME NEW value \in known
        PROVE  \E d \in 1 .. c, j \in Nat : (d = c => j < 1) /\ DefinesAt(code, d, j, value)
    <2>1. PICK d \in 1 .. b, j \in Nat : DefinesAt(code, d, j, value)
      BY DEF Written
    <2>2. d \in 1 .. c /\ d # c
      OBVIOUS
    <2> QED
      BY <2>1, <2>2
  <1> QED
    BY <1>1 DEF Written

\* While the slots are made, no register has a value.
LEMMA SlotsBeforeRegisters ==
  ASSUME NEW m, NEW code, NEW b, NEW n \in Nat, NEW known, Written(code, b, n, known),
         SlotAt(m, b, code[b], n)
  PROVE  known = {}
  <1> SUFFICES ASSUME NEW value \in known PROVE FALSE
    OBVIOUS
  <1>1. b = 1 /\ \A j \in 1 .. n - 1 : code[b][j].inst = "slot"
    BY DEF SlotAt
  <1>2. PICK c \in 1 .. b, j \in Nat : (c = b => j < n) /\ DefinesAt(code, c, j, value)
    BY DEF Written
  <1>3. c = b
    BY <1>1
  <1>4. j \in 1 .. n - 1 /\ Defines(code[b][j], value)
    BY <1>2, <1>3 DEF DefinesAt
  <1>5. code[b][j].inst = "slot"
    BY <1>1, <1>4
  <1> QED
    BY <1>4, <1>5 DEF Defines

-----------------------------------------------------------------------------
(* The program compiled *)

LEMMA DoneIsCompiled ==
  ASSUME Promised, LowInvariant, CodeInvariant, lowStatus = "done"
  PROVE  Compiled(module, llvmBlocks)
  <1>1. /\ Structure(module) /\ module \in Module /\ DefinitionsUnique(module)
        /\ DOMAIN module.blocks = 1 .. Len(module.blocks)
        /\ Len(module.blocks) \in Nat
    BY HandedOver DEF ModuleSound
  <1>2. Built /\ lowBlock > Len(module.blocks) /\ lowBlock \in Nat /\ genStatus = "done"
    BY DEF CodeInvariant, LowInvariant
  <1>3. ASSUME NEW b \in 1 .. Len(module.blocks) PROVE Closed(module, b, llvmBlocks[b])
    <2>1. b < lowBlock
      BY <1>1, <1>2
    <2> QED
      BY <1>2, <2>1 DEF Built
  <1>4. Verify(module)
    BY <1>2 DEF Promised, ModuleVerified
  <1>5. ASSUME NEW b \in 1 .. Len(module.blocks)
        PROVE  module.blocks[b].terminator.op \in Terminations
    <2>1. module.blocks[b] \in BasicBlock /\ module.blocks[b] \in Blocks(module)
      BY <1>1, BlockTypes DEF Blocks, Range
    <2>2. module.blocks[b].terminator \in Terminator
      BY <1>4, <2>1 DEF Verify, Terminated, BasicBlock
    <2> QED
      BY <2>2 DEF Terminator, Terminations
  <1>6. ASSUME NEW b \in 1 .. Len(module.blocks), NEW id \in Targets(module.blocks[b].terminator)
        PROVE  /\ id \in 0 .. Len(module.blocks) - 1
               /\ b - 1 \in PredecessorsOf(module, id) /\ b < id + 1
    <2>1. id \in b .. Len(module.blocks) - 1
      BY <1>1 DEF Structure, Forward
    <2>2. b - 1 \in PredecessorsOf(module, id)
      BY <1>1, PredecessorFacts
    <2> QED
      BY <1>1, <2>1, <2>2
  <1> QED
    BY <1>1, <1>2, <1>3, <1>5, <1>6 DEF Compiled, Built

-----------------------------------------------------------------------------
(* The steps of the program compiled *)

\* The machine is at an instruction of a block of the module.
Located ==
    /\ block \in 0 .. Len(module.blocks) - 1
    /\ index \in 1 .. Len(llvmBlocks[block + 1])
    /\ Written(llvmBlocks, block + 1, index, DOMAIN regs)
    /\ Heap(module, block + 1, llvmBlocks[block + 1], index, DOMAIN regs, slots, owned)

ExecInvariant ==
    /\ IsList(trace)
    /\ execStatus = "idle" => index = 1 /\ regs = <<>> /\ slots = <<>> /\ owned = {}
    /\ execStatus = "running" => lowStatus = "done" /\ Located
    /\ NothingLeaks

\* List t is the code of block b, where the machine is.
At(b, t) ==
    /\ b \in 1 .. Len(module.blocks) /\ block = b - 1 /\ b = block + 1
    /\ t = llvmBlocks[b] /\ Len(t) \in Nat
    /\ Closed(module, b, t)
    /\ module.blocks[b].terminator.op \in Terminations
    /\ index \in 1 .. Len(t)
    /\ Inst = t[index]
    /\ Written(llvmBlocks, b, index, DOMAIN regs)
    /\ Heap(module, b, t, index, DOMAIN regs, slots, owned)

LEMMA MachineAt ==
  ASSUME Promised, LowInvariant, CodeInvariant, ExecInvariant, execStatus = "running"
  PROVE  /\ Compiled(module, llvmBlocks) /\ lowStatus = "done"
         /\ \E b, t : At(b, t)
  <1>1. Compiled(module, llvmBlocks) /\ lowStatus = "done" /\ Located
    BY DoneIsCompiled DEF ExecInvariant
  <1>2. PICK b, t : b = block + 1 /\ t = llvmBlocks[b]
    OBVIOUS
  <1>3. Len(module.blocks) \in Nat
    BY HandedOver
  <1>4. b \in 1 .. Len(module.blocks) /\ block = b - 1
    BY <1>1, <1>2, <1>3 DEF Located
  <1>5. Closed(module, b, t) /\ Len(t) \in Nat /\ module.blocks[b].terminator.op \in Terminations
    BY <1>1, <1>2, <1>4, CompiledBlock
  <1>6. At(b, t)
    BY <1>1, <1>2, <1>4, <1>5 DEF At, Located, Inst
  <1> QED
    BY <1>1, <1>6

\* The machine goes on to the next instruction.
LEMMA NextKeeps ==
  ASSUME ExecInvariant, execStatus = "running", lowStatus = "done",
         UNCHANGED <<vars, lowVars>>, Step, NEW b, NEW t, At(b, t),
         t[index].inst \notin Terminations, IsList(trace'),
         Written(llvmBlocks, b, index + 1, DOMAIN regs'),
         Heap(module, b, t, index + 1, DOMAIN regs', slots', owned')
  PROVE  ExecInvariant'
  <1>1. /\ module' = module /\ llvmBlocks' = llvmBlocks /\ lowStatus' = "done"
        /\ execStatus' = "running" /\ block' = block /\ index' = index + 1
    BY DEF vars, genVars, codeVars, lowVars, Step
  <1>2. index # Len(t)
    <2>1. index = Len(t) => t[index].inst = module.blocks[b].terminator.op
      BY InstructionPlace DEF At
    <2> QED
      BY <2>1 DEF At
  <1>3. index + 1 \in 1 .. Len(t)
    BY <1>2 DEF At
  <1>4. block \in 0 .. Len(module.blocks) - 1
    BY DEF ExecInvariant, Located
  <1>5. t = llvmBlocks'[block' + 1] /\ b = block' + 1
    BY <1>1 DEF At
  <1>6. Located'
    BY <1>1, <1>3, <1>4, <1>5 DEF Located
  <1> QED
    BY <1>1, <1>6 DEF ExecInvariant, NothingLeaks

\* The machine goes on to another block.
LEMMA JumpKeeps ==
  ASSUME ExecInvariant, execStatus = "running", lowStatus = "done", Compiled(module, llvmBlocks),
         UNCHANGED <<vars, lowVars>>, NEW b, NEW t, At(b, t),
         t[index].inst \in {"branch", "condbranch"}, NEW target, Jump(target),
         target \in Targets(module.blocks[b].terminator)
  PROVE  ExecInvariant'
  <1>1. /\ module' = module /\ llvmBlocks' = llvmBlocks /\ lowStatus' = "done"
        /\ execStatus' = "running" /\ block' = target /\ index' = 1
        /\ UNCHANGED <<regs, slots, owned, trace>>
    BY DEF vars, genVars, codeVars, lowVars, Jump, heapVars
  <1>2. target \in 0 .. Len(module.blocks) - 1 /\ b < target + 1
    BY DEF Compiled, At
  <1>3. Len(module.blocks) \in Nat /\ b \in Nat
    BY CompiledBlock DEF At
  <1>4. PICK c, u : c = target + 1 /\ u = llvmBlocks[c]
    OBVIOUS
  <1>5. c \in 1 .. Len(module.blocks) /\ b < c /\ c \in Nat
    BY <1>2, <1>3, <1>4
  <1>6. Len(u) \in Nat /\ Len(u) >= 1
    BY <1>4, <1>5, CompiledBlock
  <1>7. Written(llvmBlocks, c, 1, DOMAIN regs)
    BY <1>3, <1>5, WrittenJump DEF At
  <1>8. t[index].inst \notin {"free", "return", "slot"}
    OBVIOUS
  <1>9. \A v : ~ Released(t, index, v)
    BY <1>8, NothingReleased DEF At
  <1>10. DOMAIN slots = Tensors(module)
    BY <1>8, SlotsMade DEF At
  <1>11. Heap(module, c, u, 1, DOMAIN regs, slots, owned)
    BY <1>9, <1>10, HeapJump DEF At
  <1>12. Located'
    BY <1>1, <1>2, <1>4, <1>6, <1>7, <1>11 DEF Located
  <1> QED
    BY <1>1, <1>12 DEF ExecInvariant, NothingLeaks

LEMMA StopKeeps ==
  ASSUME ExecInvariant, NEW event, Stop(event), event.event = "exit" => owned = {}
  PROVE  ExecInvariant'
  <1>1. execStatus' = "ended" /\ trace' = Append(trace, event) /\ owned' = owned
    BY DEF Stop, heapVars
  <1>2. IsList(trace') /\ Len(trace') = Len(trace) + 1 /\ trace'[Len(trace) + 1] = event
    BY <1>1, ListAppend DEF ExecInvariant
  <1>3. Last(trace') = event
    BY <1>2 DEF Last
  <1> QED
    BY <1>1, <1>2, <1>3 DEF ExecInvariant, NothingLeaks

-----------------------------------------------------------------------------

LEMMA StartKeeps ==
  ASSUME Promised, LowInvariant, CodeInvariant, ExecInvariant, StartMain, UNCHANGED <<vars, lowVars>>
  PROVE  ExecInvariant'
  <1>1. /\ module' = module /\ llvmBlocks' = llvmBlocks /\ lowStatus' = "done" /\ lowStatus = "done"
        /\ execStatus = "idle" /\ execStatus' = "running" /\ block' = module.entry
        /\ UNCHANGED <<index, regs, slots, owned, trace>>
    BY DEF vars, genVars, codeVars, lowVars, StartMain, heapVars
  <1>2. index = 1 /\ regs = <<>> /\ slots = <<>> /\ owned = {} /\ IsList(trace)
    BY <1>1 DEF ExecInvariant
  <1>3. Compiled(module, llvmBlocks)
    BY <1>1, DoneIsCompiled
  <1>4. module.entry = 0 /\ 1 \in 1 .. Len(module.blocks)
    <2>1. genStatus = "done"
      BY <1>1 DEF LowInvariant
    <2>2. Len(module.blocks) # 0 /\ module.entry = 0
      BY <2>1 DEF Promised, ValuesInvariant, Progress, GraphInvariant
    <2> QED
      BY <2>2, HandedOver
  <1>5. PICK t : t = llvmBlocks[1]
    OBVIOUS
  <1>6. Closed(module, 1, t) /\ Len(t) \in Nat /\ Len(t) >= 1
    BY <1>3, <1>4, <1>5, CompiledBlock
  <1>7. DOMAIN regs = {} /\ DOMAIN slots = {}
    BY <1>2
  <1>8. Written(llvmBlocks, 1, 1, DOMAIN regs)
    BY <1>7 DEF Written
  <1>9. ASSUME NEW v \in Tensors(module) PROVE \E i \in 1 .. Len(t) : t[i] = SlotInst(v)
    <2>1. PICK i \in 1 .. Len(t) - 1 : t[i] = SlotInst(v)
      BY <1>6 DEF Closed
    <2>2. i \in 1 .. Len(t)
      BY <1>6
    <2> QED
      BY <2>1, <2>2
  <1>10. Heap(module, 1, t, 1, DOMAIN regs, slots, owned)
    BY <1>2, <1>7, <1>9 DEF Heap
  <1>11. Located'
    <2>1. 0 + 1 = 1 /\ 0 \in 0 .. Len(module.blocks) - 1
      BY <1>4
    <2>2. 1 \in 1 .. Len(t)
      BY <1>6
    <2> QED
      BY <1>1, <1>2, <1>4, <1>5, <1>8, <1>10, <2>1, <2>2 DEF Located
  <1> QED
    BY <1>1, <1>2, <1>11 DEF ExecInvariant, NothingLeaks

LEMMA SlotKeeps ==
  ASSUME Promised, LowInvariant, CodeInvariant, ExecInvariant, ExecSlot, UNCHANGED <<vars, lowVars>>
  PROVE  ExecInvariant'
  <1>1. /\ execStatus = "running" /\ Inst.inst = "slot" /\ Step
        /\ slots' = With(slots, Inst.slot, NULL) /\ UNCHANGED <<regs, owned, trace>>
    BY DEF ExecSlot, Executing
  <1>2. Compiled(module, llvmBlocks) /\ lowStatus = "done"
    BY <1>1, MachineAt
  <1>3. PICK b, t : At(b, t)
    BY <1>1, MachineAt
  <1>4. t[index].inst = "slot" /\ Inst = t[index]
    BY <1>1, <1>3 DEF At
  <1>5. SlotAt(module, b, t, index)
    BY <1>3, <1>4, InstructionPlace DEF At
  <1>6. PICK v \in Tensors(module) : t[index] = SlotInst(v)
    BY <1>5 DEF SlotAt
  <1>7. Inst.slot = v
    BY <1>4, <1>6, SlotKind
  <1>8. index \in Nat \ {0} /\ b \in Nat \ {0}
    BY <1>3 DEF At
  <1>9. DOMAIN regs = {}
    BY <1>3, <1>5, <1>8, SlotsBeforeRegisters DEF At
  <1>10. Heap(module, b, t, index, {}, slots, owned)
    BY <1>3, <1>9 DEF At
  <1>11. Heap(module, b, t, index + 1, {}, slots', owned)
    BY <1>1, <1>6, <1>7, <1>8, <1>10, HeapSlot
  <1>12. Heap(module, b, t, index + 1, DOMAIN regs', slots', owned')
    BY <1>1, <1>9, <1>11
  <1>13. Written(llvmBlocks, b, index + 1, DOMAIN regs')
    BY <1>1, <1>9 DEF Written
  <1>14. t[index].inst \notin Terminations /\ IsList(trace')
    BY <1>1, <1>4 DEF Terminations, ExecInvariant
  <1> QED
    BY <1>1, <1>2, <1>3, <1>12, <1>13, <1>14, NextKeeps

\* The register an instruction defines.
LEMMA DefinedHere ==
  ASSUME NEW b, NEW t, At(b, t), t[index].inst \in Operations
  PROVE  /\ DefinesAt(llvmBlocks, b, index, Inst.result)
         /\ Written(llvmBlocks, b, index + 1, DOMAIN regs \cup {Inst.result})
  <1>1. Defines(t[index], Inst.result) /\ index \in 1 .. Len(t) /\ t = llvmBlocks[b]
    BY DEF Defines, Operations, At
  <1>2. DefinesAt(llvmBlocks, b, index, Inst.result)
    BY <1>1 DEF DefinesAt
  <1>3. b \in Nat \ {0} /\ index \in Nat /\ Written(llvmBlocks, b, index, DOMAIN regs)
    BY DEF At
  <1> QED
    BY <1>2, <1>3, WrittenNext

LEMMA QuietKeeps ==
  ASSUME ExecInvariant, execStatus = "running", lowStatus = "done",
         UNCHANGED <<vars, lowVars>>, Step, NEW b, NEW t, At(b, t),
         t[index].inst \in {"binary", "compare", "phi"},
         NEW value, Set(Inst.result, value), UNCHANGED <<heapVars, trace>>
  PROVE  ExecInvariant'
  <1>1. DOMAIN regs' = DOMAIN regs \cup {Inst.result}
    BY DEF Set, With
  <1>2. Written(llvmBlocks, b, index + 1, DOMAIN regs')
    BY <1>1, DefinedHere DEF Operations
  <1>3. UNCHANGED <<slots, owned>> /\ IsList(trace')
    BY DEF heapVars, ExecInvariant
  <1>4. /\ Heap(module, b, t, index, DOMAIN regs, slots, owned)
        /\ index \in Nat \ {0} /\ t[index].inst \notin {"slot", "free"}
        /\ DOMAIN regs \subseteq DOMAIN regs'
    BY <1>1 DEF At
  <1>5. Heap(module, b, t, index + 1, DOMAIN regs', slots, owned)
    BY <1>4, HeapQuiet
  <1>6. t[index].inst \notin Terminations
    BY DEF Terminations
  <1> QED
    BY <1>2, <1>3, <1>5, <1>6, NextKeeps

LEMMA AllocTranslation ==
  ASSUME NEW m, NEW operation, Coded(operation), Translation(m, operation).inst = "alloc"
  PROVE  operation.op = "tensor"
  <1>1. operation.op = "binary" => Translation(m, operation).inst = "binary"
    BY DEF Translation, ArithmeticInst
  <1>2. operation.op = "compare" => Translation(m, operation).inst = "compare"
    BY DEF Translation, CompareInst
  <1>3. operation.op = "phi" => Translation(m, operation).inst = "phi"
    BY DEF Translation, PhiInst
  <1> QED
    BY <1>1, <1>2, <1>3 DEF Coded

\* The declaration an allocation is lowered from.
LEMMA AllocatedTensor ==
  ASSUME NEW b, NEW t, At(b, t), t[index].inst = "alloc", module \in Module
  PROVE  /\ Inst.result \in Tensors(module) /\ Inst.slot = Inst.result
         /\ \E p \in Places(module) : LET operation == OperationAt(module, p) IN
               /\ operation.op = "tensor" /\ StorageSize(operation.type) # Refused
               /\ Inst.size = StorageSize(operation.type) /\ Inst.alignment = 64
  <1> DEFINE ops == module.blocks[b].operations
  <1>1. /\ Closed(module, b, t) /\ module.blocks[b].terminator.op \in Terminations
        /\ index \in 1 .. Len(t) /\ Inst = t[index] /\ b \in 1 .. Len(module.blocks)
    BY DEF At
  <1>2. t[index].inst \in Operations
    BY DEF Operations
  <1>3. PICK k \in 1 .. Len(ops) : OperationCodeAt(module, b, t, index, k)
    BY <1>1, <1>2, InstructionPlace
  <1>4. /\ Coded(ops[k]) /\ t[index] = Translation(module, ops[k])
        /\ ops[k].op = "tensor" => StorageSize(ops[k].type) # Refused
    BY <1>3 DEF OperationCodeAt
  <1>5. ops[k].op = "tensor"
    <2>1. Translation(module, ops[k]).inst = "alloc"
      BY <1>4
    <2> QED
      BY <1>4, <2>1, AllocTranslation
  <1>6. Inst = AllocInst(ops[k].result, StorageSize(ops[k].type), 64, ops[k].result)
    BY <1>1, <1>4, <1>5 DEF Translation
  <1>7. /\ Inst.result = ops[k].result /\ Inst.slot = ops[k].result
        /\ Inst.size = StorageSize(ops[k].type) /\ Inst.alignment = 64
    BY <1>6 DEF AllocInst
  <1> HIDE DEF ops
  <1>8. PICK p \in Places(module) : OperationAt(module, p) = ops[k]
    <2>1. <<b, k>> \in Places(module) /\ OperationAt(module, <<b, k>>) = ops[k]
      BY <1>1, PlaceFacts DEF ops
    <2> QED
      BY <2>1
  <1>9. Inst.result \in Tensors(module)
    BY <1>5, <1>7, <1>8 DEF Tensors, resultOf
  <1> QED
    BY <1>4, <1>5, <1>7, <1>8, <1>9

LEMMA AllocKeeps ==
  ASSUME Promised, LowInvariant, CodeInvariant, ExecInvariant, ExecAlloc, UNCHANGED <<vars, lowVars>>
  PROVE  ExecInvariant'
  <1>1. /\ execStatus = "running" /\ Inst.inst = "alloc" /\ Step
        /\ regs' = With(regs, Inst.result, [type |-> "tensor", value |-> 0])
        /\ trace' = Append(trace, [event |-> "allocation", size |-> Inst.size])
    BY DEF ExecAlloc, Executing, Set
  <1>2. PICK pointer \in Storage \cup {NULL} :
           /\ Run!Alloc("main", Inst.size, Inst.alignment, pointer)
           /\ slots' = With(slots, Inst.slot, pointer)
    BY DEF ExecAlloc
  <1>3. \/ pointer = NULL /\ owned' = owned
        \/ pointer \in Storage \ owned /\ owned' = owned \cup {pointer}
    BY <1>2 DEF Run!Alloc, Run!AllocFails
  <1>4. Compiled(module, llvmBlocks) /\ lowStatus = "done" /\ module \in Module
    BY <1>1, MachineAt, HandedOver
  <1>5. PICK b, t : At(b, t)
    BY <1>1, MachineAt
  <1>6. t[index].inst = "alloc" /\ Inst = t[index]
    BY <1>1, <1>5 DEF At
  <1>7. Inst.result \in Tensors(module) /\ Inst.slot = Inst.result
    BY <1>4, <1>5, <1>6, AllocatedTensor
  <1>8. DefinesAt(llvmBlocks, b, index, Inst.result)
        /\ Written(llvmBlocks, b, index + 1, DOMAIN regs \cup {Inst.result})
    BY <1>5, <1>6, DefinedHere DEF Operations
  <1>9. DOMAIN regs' = DOMAIN regs \cup {Inst.result}
    BY <1>1 DEF With
  <1>10. /\ b \in 1 .. Len(module.blocks) /\ index \in Nat /\ index \in Nat \ {0}
         /\ Written(llvmBlocks, b, index, DOMAIN regs)
         /\ Heap(module, b, t, index, DOMAIN regs, slots, owned)
    BY <1>5 DEF At
  <1>11. Inst.result \notin DOMAIN regs
    BY <1>4, <1>8, <1>10, NotYetWritten
  <1>12. \A v : ~ Released(t, index, v)
    BY <1>5, <1>6, NothingReleased DEF At
  <1>13. DOMAIN slots = Tensors(module)
    BY <1>5, <1>6, SlotsMade DEF At
  <1>14. Heap(module, b, t, index + 1, DOMAIN regs \cup {Inst.result},
              With(slots, Inst.result, pointer), owned')
    BY <1>3, <1>6, <1>7, <1>10, <1>11, <1>12, <1>13, HeapAlloc
  <1>15. t[index].inst \notin Terminations /\ IsList(trace')
    BY <1>1, <1>6, ListAppend DEF Terminations, ExecInvariant
  <1> QED
    BY <1>1, <1>2, <1>4, <1>5, <1>7, <1>8, <1>9, <1>14, <1>15, NextKeeps

LEMMA BinaryKeeps ==
  ASSUME Promised, LowInvariant, CodeInvariant, ExecInvariant, ExecBinary, UNCHANGED <<vars, lowVars>>
  PROVE  ExecInvariant'
  <1>1. execStatus = "running" /\ Inst.inst = "binary"
    BY DEF ExecBinary, Executing
  <1>2. CASE Stop([event |-> "undefined"])
    BY <1>2, StopKeeps
  <1>3. CASE \E value : Set(Inst.result, value) /\ Step /\ UNCHANGED <<heapVars, trace>>
    BY <1>1, <1>3, MachineAt, QuietKeeps DEF At
  <1> QED
    BY <1>2, <1>3 DEF ExecBinary

LEMMA CompareKeeps ==
  ASSUME Promised, LowInvariant, CodeInvariant, ExecInvariant, ExecCompare, UNCHANGED <<vars, lowVars>>
  PROVE  ExecInvariant'
  <1>1. /\ execStatus = "running" /\ Inst.inst = "compare"
        /\ \E value : Set(Inst.result, value) /\ Step /\ UNCHANGED <<heapVars, trace>>
    BY DEF ExecCompare, Executing
  <1> QED
    BY <1>1, MachineAt, QuietKeeps DEF At

LEMMA PhiKeeps ==
  ASSUME Promised, LowInvariant, CodeInvariant, ExecInvariant, ExecPhi, UNCHANGED <<vars, lowVars>>
  PROVE  ExecInvariant'
  <1>1. /\ execStatus = "running" /\ Inst.inst = "phi"
        /\ \E value : Set(Inst.result, value) /\ Step /\ UNCHANGED <<heapVars, trace>>
    BY DEF ExecPhi, Executing
  <1> QED
    BY <1>1, MachineAt, QuietKeeps DEF At

\* What a release finds in its slot.
LEMMA ReleaseFinds ==
  ASSUME NEW b, NEW t, At(b, t), t[index].inst = "free"
  PROVE  /\ Inst.slot \in Tensors(module) /\ t[index] = FreeInst(Inst.slot)
         /\ DOMAIN slots = Tensors(module)
         /\ ~ Released(t, index, Inst.slot)
         /\ slots[Inst.slot] \in owned \cup {NULL}
         /\ Heap(module, b, t, index + 1, DOMAIN regs, slots, owned \ {slots[Inst.slot]})
  <1>1. /\ Closed(module, b, t) /\ module.blocks[b].terminator.op \in Terminations
        /\ index \in 1 .. Len(t) /\ Inst = t[index] /\ Len(t) \in Nat /\ index \in Nat \ {0}
        /\ Heap(module, b, t, index, DOMAIN regs, slots, owned)
    BY DEF At
  <1>2. ReleaseAt(module, b, t, index)
    BY <1>1, InstructionPlace
  <1>3. PICK v \in Tensors(module) : t[index] = FreeInst(v)
    BY <1>2 DEF ReleaseAt
  <1>4. Inst.slot = v
    BY <1>1, <1>3, FreeKind
  <1>5. DOMAIN slots = Tensors(module)
    BY <1>1, SlotsMade
  <1>6. index \in 1 .. Len(t) - 1
    <2>1. t[index].inst \notin Terminations
      BY DEF Terminations
    <2> QED
      BY <1>1, <2>1, InstructionPlace
  <1>7. ~ Released(t, index, v)
    <2> SUFFICES ASSUME NEW i \in 1 .. index - 1, t[i] = FreeInst(v) PROVE FALSE
      BY DEF Released
    <2>1. i \in 1 .. Len(t) - 1 /\ i # index
      BY <1>1, <1>6
    <2> QED
      BY <1>1, <1>3, <1>6, <2>1 DEF Closed
  <1>8. /\ slots[v] \in owned \cup {NULL}
        /\ Heap(module, b, t, index + 1, DOMAIN regs, slots, owned \ {slots[v]})
    BY <1>1, <1>3, <1>5, <1>7, HeapFree
  <1> QED
    BY <1>3, <1>4, <1>5, <1>7, <1>8

LEMMA FreeKeeps ==
  ASSUME Promised, LowInvariant, CodeInvariant, ExecInvariant, ExecFree, UNCHANGED <<vars, lowVars>>
  PROVE  ExecInvariant'
  <1>1. /\ execStatus = "running" /\ Inst.inst = "free" /\ Step
        /\ owned' = owned \ {slots[Inst.slot]} /\ UNCHANGED <<regs, slots, trace>>
    BY DEF ExecFree, Executing, Run!Free
  <1>2. lowStatus = "done"
    BY <1>1, MachineAt
  <1>3. PICK b, t : At(b, t)
    BY <1>1, MachineAt
  <1>4. t[index].inst = "free"
    BY <1>1, <1>3 DEF At
  <1>5. Heap(module, b, t, index + 1, DOMAIN regs', slots', owned')
    BY <1>1, <1>3, <1>4, ReleaseFinds
  <1>6. Written(llvmBlocks, b, index + 1, DOMAIN regs')
    <2>1. b \in Nat \ {0} /\ index \in Nat /\ Written(llvmBlocks, b, index, DOMAIN regs)
      BY <1>3 DEF At
    <2> QED
      BY <1>1, <2>1, WrittenNext
  <1>7. t[index].inst \notin Terminations /\ IsList(trace')
    BY <1>1, <1>4 DEF Terminations, ExecInvariant
  <1> QED
    BY <1>1, <1>2, <1>3, <1>5, <1>6, <1>7, NextKeeps

\* The terminator of the block is the instruction executed.
LEMMA ClosingHere ==
  ASSUME NEW b, NEW t, At(b, t), t[index].inst \in Terminations
  PROVE  /\ index = Len(t)
         /\ module.blocks[b].terminator.op = t[index].inst
         /\ Inst = Closing(module, module.blocks[b].terminator)
  <1>1. /\ Closed(module, b, t) /\ module.blocks[b].terminator.op \in Terminations
        /\ index \in 1 .. Len(t) /\ Inst = t[index]
    BY DEF At
  <1>2. t[index].inst \notin Operations \cup {"slot", "free"}
    BY DEF Terminations, Operations
  <1>3. index = Len(t)
    BY <1>1, <1>2, InstructionPlace
  <1> QED
    BY <1>1, <1>3, InstructionPlace

\* A branch goes to a target of its block.
LEMMA JumpTarget ==
  ASSUME Promised, LowInvariant, CodeInvariant, ExecInvariant, ExecBranch \/ ExecCondBranch
  PROVE  \E b, t, target : /\ At(b, t) /\ t[index].inst \in {"branch", "condbranch"}
                           /\ Jump(target) /\ target \in Targets(module.blocks[b].terminator)
  <1>1. execStatus = "running" /\ Inst.inst \in {"branch", "condbranch"}
    BY DEF ExecBranch, ExecCondBranch, Executing
  <1>2. PICK b, t : At(b, t)
    BY <1>1, MachineAt
  <1> DEFINE terminator == module.blocks[b].terminator
  <1>3. /\ t[index].inst \in {"branch", "condbranch"} /\ Inst.inst = t[index].inst
        /\ terminator.op = t[index].inst /\ Inst = Closing(module, terminator)
    BY <1>1, <1>2, ClosingHere DEF At, Terminations
  <1> HIDE DEF terminator
  <1>4. PICK target : Jump(target) /\ target \in Targets(terminator)
    <2>1. CASE ExecBranch
      <3>1. Inst.inst = "branch" /\ Jump(Inst.target)
        BY <2>1 DEF ExecBranch, Executing
      <3>2. Inst.target = terminator.target
        BY <1>3, <3>1 DEF Closing, BranchInst
      <3>3. terminator.target \in Targets(terminator)
        BY <1>3, <3>1 DEF Targets
      <3> QED
        BY <3>1, <3>2, <3>3
    <2>2. CASE ExecCondBranch
      <3>1. Inst.inst = "condbranch"
            /\ \E target \in {Inst.trueTarget, Inst.falseTarget} : Jump(target)
        BY <2>2 DEF ExecCondBranch, Executing
      <3>2. Inst.trueTarget = terminator.trueTarget /\ Inst.falseTarget = terminator.falseTarget
        BY <1>3, <3>1 DEF Closing, CondBranchInst
      <3>3. Targets(terminator) = {terminator.trueTarget, terminator.falseTarget}
        BY <1>3, <3>1 DEF Targets
      <3> QED
        BY <3>1, <3>2, <3>3
    <2> QED
      BY <2>1, <2>2
  <1> QED
    BY <1>2, <1>3, <1>4 DEF terminator

LEMMA JumpsKeep ==
  ASSUME Promised, LowInvariant, CodeInvariant, ExecInvariant, ExecBranch \/ ExecCondBranch,
         UNCHANGED <<vars, lowVars>>
  PROVE  ExecInvariant'
  <1>1. execStatus = "running"
    BY DEF ExecBranch, ExecCondBranch, Executing
  <1>2. Compiled(module, llvmBlocks) /\ lowStatus = "done"
    BY <1>1, MachineAt
  <1> QED
    BY <1>1, <1>2, JumpTarget, JumpKeeps

LEMMA ReturnKeeps ==
  ASSUME Promised, LowInvariant, CodeInvariant, ExecInvariant, ExecReturn
  PROVE  ExecInvariant'
  <1>1. execStatus = "running" /\ Inst.inst = "return"
    BY DEF ExecReturn, Executing
  <1>2. PICK b, t : At(b, t)
    BY <1>1, MachineAt
  <1>3. t[index].inst = "return" /\ Closed(module, b, t)
        /\ Heap(module, b, t, index, DOMAIN regs, slots, owned)
    BY <1>1, <1>2 DEF At
  <1>4. index = Len(t) /\ module.blocks[b].terminator.op = "return"
    BY <1>2, <1>3, ClosingHere DEF Terminations
  <1>5. owned = {}
    BY <1>3, <1>4, HeapReturn
  <1> QED
    BY <1>5, StopKeeps DEF ExecReturn

\* Once the code is done it stays, and the module it was lowered from.
LEMMA CodeRests ==
  ASSUME LowInvariant, [ExecutionNext]_allVars, lowStatus = "done", UNCHANGED execVars
  PROVE  UNCHANGED <<module, lowVars>>
  <1>1. module' = module
    BY FrontendStep, GeneratorRests DEF LowInvariant, genVars, codeVars
  <1>2. ~ LowerStep
    BY DEF LowerStep, StartLowering, LowerTensorDecl, LowerConstant, LowerBinary,
           LowerCompare, LowerPhi, LowerTensorOperation, LowerBranch, LowerCondBranch,
           LowerReturn, FinishLowering, LoweringOf, LoweringTerminator
  <1>3. UNCHANGED lowVars
    BY <1>2 DEF ExecutionNext, ExecEnded, allVars
  <1> QED
    BY <1>1, <1>3

LEMMA RestKeeps ==
  ASSUME LowInvariant, ExecInvariant, [ExecutionNext]_allVars, UNCHANGED execVars
  PROVE  ExecInvariant'
  <1>1. UNCHANGED <<execStatus, block, index, previous, regs, slots, owned, trace>>
    BY DEF execVars, pathVars, heapVars
  <1>2. CASE execStatus # "running"
    BY <1>1, <1>2 DEF ExecInvariant, NothingLeaks
  <1>3. CASE execStatus = "running"
    <2>1. lowStatus = "done" /\ Located
      BY <1>3 DEF ExecInvariant
    <2>2. UNCHANGED <<module, lowVars>>
      BY <2>1, CodeRests
    <2>3. Located'
      BY <1>1, <2>1, <2>2 DEF Located, lowVars
    <2> QED
      BY <1>1, <2>1, <2>2, <2>3 DEF ExecInvariant, NothingLeaks, lowVars
  <1> QED
    BY <1>2, <1>3

LEMMA ExecStepKeeps ==
  ASSUME Promised, LowInvariant, CodeInvariant, ExecInvariant, [ExecutionNext]_allVars
  PROVE  ExecInvariant'
  <1>1. CASE ExecStep /\ UNCHANGED <<vars, lowVars>>
    BY <1>1, StartKeeps, SlotKeeps, AllocKeeps, BinaryKeeps, CompareKeeps, PhiKeeps, FreeKeeps,
       JumpsKeep, ReturnKeeps DEF ExecStep
  <1>2. CASE UNCHANGED execVars
    BY <1>2, RestKeeps
  <1> QED
    BY <1>1, <1>2 DEF ExecutionNext, ExecEnded, allVars

LEMMA ExecutionAlways == ExecutionSpec => []ExecInvariant
  <1>1. ExecutionInit => ExecInvariant
    <2> SUFFICES ASSUME ExecutionInit PROVE ExecInvariant
      OBVIOUS
    <2>1. /\ execStatus = "idle" /\ index = 1 /\ regs = <<>> /\ slots = <<>> /\ owned = {}
          /\ trace = <<>>
      BY DEF ExecutionInit, ExecInit, Run!RtInit
    <2>2. IsList(trace)
      BY <2>1 DEF IsList
    <2> QED
      BY <2>1, <2>2 DEF ExecInvariant, NothingLeaks
  <1> QED
    BY <1>1, ExecStepKeeps, CodeAlways, LoweringAlways, PromisedAlways, PTL DEF ExecutionSpec

(* A release finds its slot made, and in it the null pointer, because the  *)
(* path taken never reached the declaration or its allocation failed, or   *)
(* storage that is still allocated and that no other slot holds: whatever  *)
(* path the program takes, nothing is freed twice or before it is known.   *)
THEOREM ReleasesAreAlwaysValid == ExecutionSpec => []ReleasesAreValid
  <1>1. Promised /\ LowInvariant /\ CodeInvariant /\ ExecInvariant => ReleasesAreValid
    <2> SUFFICES ASSUME Promised, LowInvariant, CodeInvariant, ExecInvariant,
                        execStatus = "running", Inst.inst = "free"
                 PROVE  Inst.slot \in DOMAIN slots /\ Run!MayFree(slots[Inst.slot])
      BY DEF ReleasesAreValid
    <2>1. PICK b, t : At(b, t)
      BY MachineAt
    <2>2. t[index].inst = "free"
      BY <2>1 DEF At
    <2> QED
      BY <2>1, <2>2, ReleaseFinds DEF Run!MayFree
  <1> QED
    BY <1>1, ExecutionAlways, CodeAlways, LoweringAlways, PromisedAlways, PTL

(* A program that exits, by whichever return, has released every piece of  *)
(* storage the runtime gave it.                                            *)
THEOREM NothingEverLeaks == ExecutionSpec => []NothingLeaks
  <1>1. ExecInvariant => NothingLeaks
    BY DEF ExecInvariant
  <1> QED
    BY <1>1, ExecutionAlways, PTL

-----------------------------------------------------------------------------
(* The arguments of the runtime *)

\* What is proved of the computation of a size, without the types it is run on.
Sizes == INSTANCE Storage_proofs
             WITH Types <- {}, Threads <- {"main"}, type <- 0, next <- 0, size <- 0, bytes <- 0

\* The assumptions of the runtime and of the computation of a size hold.
LEMMA SizesAssumptions ==
  /\ {} \subseteq [elementType : STRING, shape : Seq(0 .. SizeLimit)]
  /\ NULL \notin Storage
  /\ WordBits \in Nat /\ SizeMax \in Sizes!Word /\ PointerSize \in Sizes!Word
  <1> DEFINE limit == 2 ^ WordBits - 1
  <1>1. /\ NULL \notin Storage
        /\ WordBits \in Nat /\ SizeMax \in 0 .. limit /\ PointerSize \in 0 .. limit
    BY TargetAssumption
  <1>2. Sizes!Word = 0 .. limit
    BY DEF Sizes!Word
  <1> HIDE DEF limit
  <1> QED
    BY <1>1, <1>2

\* The size after the dimensions of s, from size base.
SizeAfter(base, s) == FoldLeft(Grow, base, s)

LEMMA SizeFold ==
  ASSUME NEW base, NEW s \in Seq(Nat)
  PROVE  \E g : /\ g[0] = base
                /\ \A k \in 1 .. Len(s) : g[k] = Grow(g[k - 1], s[k])
                /\ g[Len(s)] = SizeAfter(base, s)
  <1>0. DOMAIN s = 1 .. Len(s)
    BY LenProperties
  <1>1. FoldLeft(Grow, base, s) =
           (CHOOSE iter : iter = [t \in SUBSET (1 .. Len(s)) |->
               IF t = {} THEN base ELSE Grow(iter[t \ {Max(t)}], s[Max(t)])])[1 .. Len(s)]
    <2>1. FoldLeft(Grow, base, s) =
             (CHOOSE iter : iter = [t \in SUBSET DOMAIN s |->
                 IF t = {} THEN base ELSE Grow(iter[t \ {Max(t)}], s[Max(t)])])[DOMAIN s]
      BY DEF FoldLeft, MapThenFoldSet
    <2> QED
      BY <1>0, <2>1
  <1>2. Sizes!Fold(FALSE, base, s) =
           (CHOOSE iter : iter = [t \in SUBSET (1 .. Len(s)) |->
               IF t = {} THEN base ELSE Grow(iter[t \ {Max(t)}], s[Max(t)])])[1 .. Len(s)]
    BY DEF Sizes!Fold, Sizes!FoldEquation, Sizes!Times, Sizes!Grow, Grow, Sizes!Max, Max,
           Sizes!Refused, Refused
  <1>3. \A total, dimension : Sizes!Times(FALSE, total, dimension) = Grow(total, dimension)
    BY DEF Sizes!Times, Sizes!Grow, Grow, Refused, Sizes!Refused
  <1>4. \A b, T : \A u \in Seq(T) :
           \E g : /\ g[0] = b
                  /\ \A k \in 1 .. Len(u) : g[k] = Sizes!Times(FALSE, g[k - 1], u[k])
                  /\ g[Len(u)] = Sizes!Fold(FALSE, b, u)
    BY SizesAssumptions, Sizes!FoldSteps, SizeLimitAssumption, ZenonT(40)
  <1>5. PICK g : /\ g[0] = base
                 /\ \A k \in 1 .. Len(s) : g[k] = Sizes!Times(FALSE, g[k - 1], s[k])
                 /\ g[Len(s)] = Sizes!Fold(FALSE, base, s)
    BY <1>4
  <1>6. SizeAfter(base, s) = Sizes!Fold(FALSE, base, s)
    BY <1>1, <1>2 DEF SizeAfter
  <1> QED
    BY <1>3, <1>5, <1>6

\* A size is refused, or one a 64-bit number holds: no iteration wraps.
LEMMA SizesFit ==
  ASSUME NEW s \in Seq(Nat), NEW base \in 1 .. SizeLimit
  PROVE  SizeAfter(base, s) \in 1 .. SizeLimit \cup {Refused}
  <1>1. PICK g : /\ g[0] = base
                 /\ \A k \in 1 .. Len(s) : g[k] = Grow(g[k - 1], s[k])
                 /\ g[Len(s)] = SizeAfter(base, s)
    BY SizeFold
  <1> DEFINE n == Len(s)
             fits == 1 .. SizeLimit \cup {Refused}
  <1>0. n \in Nat /\ \A k \in 1 .. n : s[k] \in Nat
    BY LenProperties, ElementOfSeq
  <1>2. \A x \in 1 .. SizeLimit, d \in Nat : Grow(x, d) \in fits
    <2>1. \A x \in 1 .. SizeLimit, d \in Nat :
             Sizes!Grow(x, d) = IF x * d \in 1 .. SizeLimit THEN x * d ELSE Sizes!Refused
      BY SizesAssumptions, SizeLimitAssumption, Sizes!GrowIsExact, ZenonT(40)
    <2>2. \A x, d : Sizes!Grow(x, d) = Grow(x, d) /\ Sizes!Refused = Refused
      BY DEF Sizes!Grow, Grow, Sizes!Refused, Refused
    <2> QED
      BY <2>1, <2>2
  <1>3. \A d : Grow(Refused, d) = Refused
    BY DEF Grow
  <1> DEFINE S == {k \in Nat : k <= n => g[k] \in fits}
  <1>4. 0 \in S
    BY <1>1
  <1>5. ASSUME NEW k \in S PROVE k + 1 \in S
    <2>1. CASE k + 1 <= n
      <3>1. k \in Nat /\ k + 1 \in 1 .. n /\ k + 1 - 1 = k /\ g[k] \in fits
        BY <1>0, <1>5, <2>1
      <3>2. g[k + 1] = Grow(g[k], s[k + 1]) /\ s[k + 1] \in Nat
        BY <1>0, <1>1, <3>1
      <3>3. g[k + 1] \in fits
        BY <1>2, <1>3, <3>1, <3>2
      <3> QED
        BY <3>1, <3>3
    <2>2. CASE ~ (k + 1 <= n)
      BY <1>5, <2>2
    <2> QED
      BY <2>1, <2>2
  <1> HIDE DEF S
  <1>6. n \in S
    BY <1>0, <1>4, <1>5, SetInduction
  <1> QED
    BY <1>0, <1>1, <1>6 DEF S

LEMMA StorageFits ==
  ASSUME NEW type \in TensorType, StorageSize(type) # Refused
  PROVE  StorageSize(type) \in 1 .. SizeLimit
  <1>1. HasStorage(type) /\ StorageSize(type) = SizeAfter(ElementSize(type.elementType), type.shape)
    BY DEF StorageSize, SizeAfter
  <1>2. ElementSize(type.elementType) \in 1 .. SizeLimit
    <2>1. ElementSize(type.elementType) \in {0, 4, 8}
      BY DEF ElementSize
    <2> QED
      BY <1>1, <2>1, SizeLimitAssumption DEF HasStorage
  <1>3. type.shape \in Seq(Nat)
    BY DEF TensorType
  <1> QED
    BY <1>1, <1>2, <1>3, SizesFit

\* No diagnostic but that of malloc.
Legal == rtError \in [{"main"} -> {"", "memory"}]

LEMMA AllocationIsLegal ==
  ASSUME SizeLimit <= SizeMax, Promised, LowInvariant, CodeInvariant, ExecInvariant, Legal, ExecAlloc
  PROVE  Legal'
  <1>1. execStatus = "running" /\ Inst.inst = "alloc"
    BY DEF ExecAlloc, Executing
  <1>2. PICK b, t : At(b, t)
    BY <1>1, MachineAt
  <1>3. t[index].inst = "alloc" /\ module \in Module
    BY <1>1, <1>2, HandedOver DEF At
  <1>4. PICK p \in Places(module) :
           /\ OperationAt(module, p).op = "tensor"
           /\ StorageSize(OperationAt(module, p).type) # Refused
           /\ Inst.size = StorageSize(OperationAt(module, p).type) /\ Inst.alignment = 64
    BY <1>2, <1>3, AllocatedTensor
  <1>5. OperationAt(module, p).type \in TensorType
    <2>1. OperationAt(module, p) \in Operation
      BY <1>3, PlaceFacts
    <2> QED
      BY <1>4, <2>1 DEF Operation
  <1>6. Inst.size \in 1 .. SizeLimit
    BY <1>4, <1>5, StorageFits
  <1> DEFINE limit == 2 ^ WordBits - 1
  <1>7. SizeMax \in 0 .. limit /\ PointerSize \in 0 .. limit /\ PointerSize <= 64 /\ 64 <= SizeMax
    BY TargetAssumption
  <1>8. Run!PowerOfTwo(64)
    BY TargetAssumption DEF Run!PowerOfTwo
  <1> HIDE DEF limit
  <1>9. limit \in Int
    <2>1. \A n \in Nat : 2 ^ n \in Int
      OBVIOUS
    <2> QED
      BY <2>1, TargetAssumption DEF limit
  <1>10. Run!Refusal(Inst.size, 64) = ""
    <2>1. Inst.size # 0 /\ ~ (Inst.size > SizeMax) /\ ~ (64 < PointerSize) /\ ~ (64 > SizeMax)
      BY <1>6, <1>7, <1>9, SizeLimitAssumption
    <2> QED
      BY <1>8, <2>1 DEF Run!Refusal
  <1>11. PICK pointer : Run!Alloc("main", Inst.size, Inst.alignment, pointer)
    BY DEF ExecAlloc
  <1>12. \E diagnostic \in {"", "memory"} : rtError' = [rtError EXCEPT !["main"] = diagnostic]
    BY <1>4, <1>10, <1>11 DEF Run!Alloc, Run!AllocFails
  <1> QED
    BY <1>12 DEF Legal

LEMMA LegalStep ==
  ASSUME SizeLimit <= SizeMax, Promised, LowInvariant, CodeInvariant, ExecInvariant, Legal,
         [ExecutionNext]_allVars
  PROVE  Legal'
  <1>1. CASE UNCHANGED rtError
    BY <1>1 DEF Legal
  <1>2. CASE ExecStep
    <2>1. ASSUME NEW event, Stop(event) PROVE UNCHANGED rtError
      BY <2>1 DEF Stop, heapVars
    <2>2. ASSUME NEW target, Jump(target) PROVE UNCHANGED rtError
      BY <2>2 DEF Jump, heapVars
    <2>3. ExecAlloc \/ UNCHANGED rtError
      BY <1>2, <2>1, <2>2
      DEF ExecStep, StartMain, ExecSlot, ExecBinary, ExecCompare, ExecPhi, ExecFree, ExecBranch,
          ExecCondBranch, ExecReturn, heapVars, Run!Free
    <2> QED
      BY <1>1, <2>3, AllocationIsLegal
  <1> QED
    BY <1>1, <1>2 DEF ExecutionNext, ExecEnded, allVars, execVars, heapVars

(* On a target whose addresses are as wide as the sizes the compiler       *)
(* computes, the runtime refuses no allocation for its arguments: a size   *)
(* the compiler wrote into the program is never zero and never too large,  *)
(* and 64 is an alignment.  Running out of memory is the only failure.     *)
THEOREM ArgumentsAreAlwaysLegal ==
  ASSUME SizeLimit <= SizeMax
  PROVE  ExecutionSpec => []ArgumentsAreLegal
  <1>1. ExecutionInit => Legal
    BY DEF ExecutionInit, ExecInit, Run!RtInit, Legal
  <1>2. Legal => ArgumentsAreLegal
    BY DEF Legal, ArgumentsAreLegal
  <1>3. Promised /\ LowInvariant /\ CodeInvariant /\ ExecInvariant /\ Legal
          /\ [ExecutionNext]_allVars => Legal'
    BY LegalStep
  <1> QED
    BY <1>1, <1>2, <1>3, ExecutionAlways, CodeAlways, LoweringAlways, PromisedAlways, PTL
    DEF ExecutionSpec

-----------------------------------------------------------------------------
(* The types of the arithmetic *)

\* Arithmetic and comparisons are on numbers of one of two types, not on tensors.
Numeric(operation) ==
    /\ operation.op = "binary" => operation.type \in {I64, F64}
    /\ operation.op = "compare" => operation.operandType \in {I64, F64}

NumericOperations == {operation \in Operation : Numeric(operation)}

ArithmeticIsNumeric == OperationsIn(module.blocks, NumericOperations)

LEMMA NumericEmit ==
  ASSUME TypeOK, GraphInvariant, ArithmeticIsNumeric, current # NoBlock,
         NEW operation \in Operation, Numeric(operation), Emit(operation)
  PROVE  ArithmeticIsNumeric'
  <1>1. operation \in Operation \cap NumericOperations
    BY DEF NumericOperations
  <1> QED
    BY <1>1, OperationsEmit DEF ArithmeticIsNumeric, NumericOperations, Numeric

\* The expressions but for arithmetic.
LEMMA OtherExpressionsAreNumeric ==
  ASSUME TypeOK, GraphInvariant, ArithmeticIsNumeric,
         \/ GenerateIdentifier \/ GenerateInteger \/ GenerateFloat
         \/ GenerateCall \/ GenerateRelu \/ GenerateMatMul
  PROVE  ArithmeticIsNumeric'
  <1>0. operands \in Seq(ValueInfo) /\ nextValueId \in ValueId
    BY DEF TypeOK, ValueId
  <1>1. ASSUME module' = module PROVE ArithmeticIsNumeric'
    BY <1>1 DEF ArithmeticIsNumeric
  <1>2. ASSUME NEW error, Fail(error) PROVE ArithmeticIsNumeric'
    BY <1>1, <1>2 DEF Fail, codeVars
  <1>3. ASSUME NEW kind, Emitting(kind), NEW operation \in Operation, operation.op \notin {"binary", "compare"},
               NEW n, NEW type, Define(operation, n, type)
        PROVE  ArithmeticIsNumeric'
    BY <1>3, NumericEmit DEF Define, Emitting, Numeric
  <1>4. CASE GenerateIdentifier \/ GenerateCall
    BY <1>1, <1>2, <1>4 DEF GenerateIdentifier, GenerateCall, codeVars
  <1>5. CASE GenerateInteger
    <2> DEFINE operation == ConstantIntOp(nextValueId, GenNode.value)
    <2>1. Emitting("integer") /\ Define(operation, 0, I64) /\ GenNode.value \in Nat
      BY <1>5, GenNodeValue DEF GenerateInteger, Emitting
    <2>2. operation \in Operation /\ operation.op \notin {"binary", "compare"}
      BY <1>0, <2>1, ScalarTypes, OperationTypes DEF ConstantIntOp
    <2> HIDE DEF operation
    <2> QED
      BY <1>3, <2>1, <2>2
  <1>6. CASE GenerateFloat
    <2> DEFINE operation == ConstantFloatOp(nextValueId, GenNode.value)
    <2>1. Emitting("float") /\ Define(operation, 0, F64) /\ GenNode.value \in Nat
      BY <1>6, GenNodeValue DEF GenerateFloat, Emitting
    <2>2. operation \in Operation /\ operation.op \notin {"binary", "compare"}
      BY <1>0, <2>1, ScalarTypes, OperationTypes DEF ConstantFloatOp
    <2> HIDE DEF operation
    <2> QED
      BY <1>3, <2>1, <2>2
  <1>7. CASE GenerateRelu
    <2> DEFINE operation == ReluOp(nextValueId, LastOperand.value, LastOperand.type)
    <2>1. /\ Emitting("endcall") /\ Len(operands) >= 1
          /\ Define(operation, 1, LastOperand.type)
      BY <1>7 DEF GenerateRelu
    <2>2. LastOperand.value \in ValueId /\ LastOperand.type \in TensorType
      BY <1>0, <2>1, OperandTypes DEF ValueInfo
    <2>3. operation \in Operation /\ operation.op \notin {"binary", "compare"}
      BY <1>0, <2>2, OperationTypes DEF ReluOp
    <2> HIDE DEF operation
    <2> QED
      BY <1>3, <2>1, <2>3
  <1>8. CASE GenerateMatMul
    <2> DEFINE type == MatMulType(PreviousOperand.type, LastOperand.type)
               operation == MatMulOp(nextValueId, PreviousOperand.value, LastOperand.value, type)
    <2>1. CASE Fail("outOfRange")
      BY <1>2, <2>1
    <2>2. CASE ~ Fail("outOfRange")
      <3>1. /\ Emitting("endcall") /\ Len(operands) >= 2
            /\ ExtentsExist(PreviousOperand.type, LastOperand.type)
            /\ Define(operation, 2, type)
        BY <1>8, <2>2 DEF GenerateMatMul
      <3>2. /\ PreviousOperand.value \in ValueId /\ PreviousOperand.type \in TensorType
            /\ LastOperand.value \in ValueId /\ LastOperand.type \in TensorType
        BY <1>0, <3>1, OperandTypes DEF ValueInfo
      <3>3. type \in TensorType
        BY <3>1, <3>2, ExtentsType DEF ExtentsExist
      <3>4. operation \in Operation /\ operation.op \notin {"binary", "compare"}
        BY <1>0, <3>2, <3>3, OperationTypes DEF MatMulOp
      <3> HIDE DEF operation, type
      <3> QED
        BY <1>3, <3>1, <3>4
    <2> QED
      BY <2>1, <2>2
  <1> QED
    BY <1>4, <1>5, <1>6, <1>7, <1>8

\* Both operands have the type the analyser has found a number's.
LEMMA BinaryIsNumeric ==
  ASSUME TypeOK, GraphInvariant, ArithmeticIsNumeric, GenerateBinary,
         NEW a, NEW b, Follows(FALSE, FALSE, a, b)
  PROVE  ArithmeticIsNumeric'
  <1>0. operands \in Seq(ValueInfo) /\ nextValueId \in ValueId
    BY DEF TypeOK, ValueId
  <1>1. /\ GenNode.kind = "binary" /\ Emitting("binary") /\ Len(operands) >= 2
        /\ current # NoBlock
    BY DEF GenerateBinary, Emitting, Generating, GenNode
  <1>2. BinaryAllowed(Second(a.exprTypes), Top(a.exprTypes))
    BY <1>1, FollowsFacts DEF Visits, VisitsExpression
  <1>3. PreviousOperand.type \in {I64, F64}
    <2>1. /\ Second(a.exprTypes) \in TensorType
          /\ Agree(FALSE, Second(a.exprTypes), PreviousOperand.type)
      BY <1>1, OperandsAgree
    <2>2. PreviousOperand.type = Second(a.exprTypes)
      BY <1>2, <2>1 DEF BinaryAllowed, Agree
    <2> QED
      BY <1>2, <2>1, <2>2 DEF BinaryAllowed, TensorType, I64, F64, Scalar
  <1>4. CASE Fail("binaryType")
    BY <1>4 DEF Fail, codeVars, ArithmeticIsNumeric
  <1>5. CASE ~ Fail("binaryType")
    <2> DEFINE operation == BinaryOperation(GenNode.op, PreviousOperand, LastOperand)
    <2>1. Emit(operation)
      BY <1>5 DEF GenerateBinary, Define
    <2>2. GenNode.op \in BinaryOperator
      BY <1>1, GenNodeOp DEF Emitting
    <2>3. /\ PreviousOperand.value \in ValueId /\ LastOperand.value \in ValueId
          /\ PreviousOperand.type \in TensorType
      BY <1>0, <1>1, OperandTypes DEF ValueInfo
    <2>4. operation \in Operation /\ Numeric(operation)
      <3>1. CASE GenNode.op \in Arithmetic
        BY <1>0, <1>3, <2>3, <3>1, OperationTypes DEF BinaryOperation, Numeric, BinaryOp
      <3>2. CASE GenNode.op \notin Arithmetic
        BY <1>0, <1>3, <2>2, <2>3, <3>2, OperationTypes
        DEF BinaryOperation, Numeric, CompareOp, BinaryOperator
      <3> QED
        BY <3>1, <3>2
    <2> HIDE DEF operation
    <2> QED
      BY <1>1, <2>1, <2>4, NumericEmit
  <1> QED
    BY <1>4, <1>5

LEMMA StatementsAreNumeric ==
  ASSUME TypeOK, GraphInvariant, ArithmeticIsNumeric,
         \/ GenerateTensorDeclaration \/ GenerateAssignment \/ GenerateReturn
         \/ GenerateIf \/ GenerateElse
  PROVE  ArithmeticIsNumeric'
  <1>0. operands \in Seq(ValueInfo) /\ nextValueId \in ValueId /\ symbols \in SymbolTable
    BY DEF TypeOK, ValueId, SemaTypeOK
  <1>1. ASSUME module' = module PROVE ArithmeticIsNumeric'
    BY <1>1 DEF ArithmeticIsNumeric
  <1>2. ASSUME NEW error, Fail(error) PROVE ArithmeticIsNumeric'
    BY <1>1, <1>2 DEF Fail, codeVars
  <1>3. ASSUME Holding(1) PROVE LastOperand.value \in ValueId
    BY <1>0, <1>3, OperandTypes DEF Holding, ValueInfo
  <1>4. CASE GenerateTensorDeclaration
    <2> DEFINE type == LookupType(GenNode.name)
               operation == TensorDeclOp(nextValueId, GenNode.name, type)
    <2>1. CASE \E error : Fail(error)
      BY <1>2, <2>1
    <2>2. CASE ~ \E error : Fail(error)
      <3>1. Emitting("tensor") /\ type # NoType /\ Emit(operation)
        BY <1>4, <2>2 DEF GenerateTensorDeclaration
      <3>2. GenNode.name \in Names
        BY <3>1, GenNodeName DEF Emitting
      <3>3. type \in TensorType
        BY <1>0, <3>1, <3>2 DEF LookupType, SymbolTable, MaybeType
      <3>4. operation \in Operation /\ Numeric(operation)
        BY <1>0, <3>2, <3>3, OperationTypes DEF TensorDeclOp, Numeric
      <3> HIDE DEF operation, type
      <3> QED
        BY <3>1, <3>4, NumericEmit DEF Emitting
    <2> QED
      BY <2>1, <2>2
  <1>5. CASE GenerateAssignment \/ GenerateElse
    BY <1>1, <1>5 DEF GenerateAssignment, GenerateElse
  <1>6. CASE GenerateReturn
    <2> DEFINE op == ReturnOp(LastOperand.value)
    <2>1. /\ Holding(1) /\ current # NoBlock
          /\ module' = [module EXCEPT !.blocks = Close(module.blocks, current, op)]
      BY <1>6 DEF GenerateReturn, Emitting
    <2>2. op \in Terminator
      BY <1>3, <2>1, TerminatorTypes DEF ValueId
    <2> HIDE DEF op
    <2> QED
      BY <2>1, <2>2, OperationsClose DEF ArithmeticIsNumeric, NumericOperations, Numeric
  <1>7. CASE GenerateIf
    <2>1. CASE Fail("conditionType")
      BY <1>2, <2>1
    <2>2. CASE ~ Fail("conditionType")
      <3> DEFINE condition == LastOperand.value
      <3>1. /\ Holding(1) /\ current # NoBlock /\ nextBlockId = Len(module.blocks)
            /\ module' = [module EXCEPT !.blocks =
                             ForkedBlocks(module.blocks, current, condition)]
        BY <1>7, <2>2 DEF GenerateIf, Emitting, GraphInvariant, ForkedBlocks
      <3>2. condition \in ValueId
        BY <1>3, <3>1
      <3> HIDE DEF condition
      <3>3. module'.blocks = ForkedBlocks(module.blocks, current, condition)
        BY <3>1 DEF TypeOK, Module
      <3> QED
        BY <3>1, <3>2, <3>3, OperationsFork DEF ArithmeticIsNumeric, NumericOperations, Numeric
    <2> QED
      BY <2>1, <2>2
  <1> QED
    BY <1>4, <1>5, <1>6, <1>7

LEMMA EndsAreNumeric ==
  ASSUME TypeOK, GraphInvariant, ArithmeticIsNumeric,
         GenerateEndIfClosed \/ GenerateEndIfOne \/ GenerateEndIfBoth
  PROVE  ArithmeticIsNumeric'
  <1>1. ASSUME NEW ends, NEW operations \in Seq(Operation), Merge(ends, operations),
               \A i \in 1 .. Len(operations) : operations[i].op \notin {"binary", "compare"}
        PROVE  ArithmeticIsNumeric'
    <2>1. \A i \in 1 .. Len(operations) : operations[i] \in NumericOperations
      BY <1>1, ElementOfSeq DEF NumericOperations, Numeric
    <2> QED
      BY <1>1, <2>1, OperationsMerge DEF ArithmeticIsNumeric, NumericOperations, Numeric
  <1>2. CASE GenerateEndIfClosed
    BY <1>2 DEF GenerateEndIfClosed, ArithmeticIsNumeric
  <1>3. CASE GenerateEndIfOne
    <2>1. <<>> \in Seq(Operation) /\ \A i \in 1 .. Len(<<>>) : <<>>[i].op \notin {"binary", "compare"}
      OBVIOUS
    <2> QED
      BY <1>1, <1>3, <2>1 DEF GenerateEndIfOne
  <1>4. CASE GenerateEndIfBoth
    <2>1. CASE Fail("branchType")
      BY <2>1 DEF Fail, codeVars, ArithmeticIsNumeric
    <2>2. CASE ~ Fail("branchType")
      <3>1. GenIf.thenEnd # NoBlock /\ current # NoBlock /\ ifs # <<>>
        BY <1>4 DEF GenerateEndIfBoth
      <3>2. PICK order \in SetToSeqs(Differing(GenIf.thenValues, values)) :
               Merge({GenIf.thenEnd, current},
                     Phis(order, GenIf.thenEnd, current, GenIf.thenValues, values))
        BY <1>4, <2>2 DEF GenerateEndIfBoth
      <3> DEFINE phis == Phis(order, GenIf.thenEnd, current, GenIf.thenValues, values)
      <3>3. phis \in Seq(Operation)
        <4>1. /\ GenIf.thenEnd \in MaybeBlock /\ current \in MaybeBlock
              /\ GenIf.thenValues \in Environment /\ values \in Environment
          BY <3>1, FrameType DEF TypeOK, GenFrame
        <4>2. GenIf.thenEnd \in Nat /\ current \in Nat
          BY <3>1, <4>1 DEF MaybeBlock, BlockId
        <4> QED
          BY <4>1, <4>2, PhisType
      <3>4. ASSUME NEW i \in 1 .. Len(phis) PROVE phis[i].op \notin {"binary", "compare"}
        <4>1. i \in DOMAIN order
          BY <3>3, LenProperties DEF Phis
        <4> QED
          BY <4>1 DEF Phis, PhiOp
      <3> HIDE DEF phis
      <3> QED
        BY <1>1, <3>2, <3>3, <3>4 DEF phis
    <2> QED
      BY <2>1, <2>2
  <1> QED
    BY <1>2, <1>3, <1>4

LEMMA NumericStep ==
  ASSUME TypeOK, ValuesInvariant, Agreement, ArithmeticIsNumeric, [Next]_vars
  PROVE  ArithmeticIsNumeric'
  <1>0. GraphInvariant
    BY DEF ValuesInvariant
  <1>1. ASSUME module' = module PROVE ArithmeticIsNumeric'
    BY <1>1 DEF ArithmeticIsNumeric
  <1>2. CASE UNCHANGED genVars
    BY <1>1, <1>2 DEF genVars, codeVars
  <1>3. CASE SkipUnreachable \/ RejectUnreachable \/ Finish
    BY <1>1, <1>3 DEF SkipUnreachable, RejectUnreachable, Finish, Fail, codeVars
  <1>4. CASE StartGeneration
    <2>1. module.blocks = <<>> /\ nextBlockId = 0
      BY <1>0, <1>4 DEF StartGeneration, GraphInvariant
    <2>2. module'.blocks = <<NewBlock(0)>>
      BY <1>4, <2>1 DEF StartGeneration
    <2>3. /\ Len(module'.blocks) = 1 /\ module'.blocks[1].operations = <<>>
          /\ Len(<<>>) = 0
      BY <2>2 DEF NewBlock
    <2> QED
      BY <2>3 DEF ArithmeticIsNumeric, OperationsIn
  <1>5. CASE GenerateBinary
    <2>1. Visit
      BY <1>5 DEF Visit
    <2>2. PICK history \in [1 .. semaPos -> Analysis] : Analysed(history) /\ Followed(history)
      BY DEF Agreement
    <2>3. Allowed(FALSE, FALSE) /\ Phases
      BY DEF Allowed, Agreement
    <2>4. Follows(FALSE, FALSE, history[genPos], history[genPos + 1])
      BY <2>1, <2>2, <2>3, VisitFollows
    <2> QED
      BY <1>0, <1>5, <2>4, BinaryIsNumeric
  <1> QED
    BY <1>0, <1>2, <1>3, <1>4, <1>5, OtherExpressionsAreNumeric, StatementsAreNumeric, EndsAreNumeric
    DEF Next, GenStep, Ended, vars

LEMMA NumericAlways == ExecutionSpec => []ArithmeticIsNumeric
  <1>1. Init => ArithmeticIsNumeric
    <2> SUFFICES ASSUME Init PROVE ArithmeticIsNumeric
      OBVIOUS
    <2>1. Len(module.blocks) = 0
      BY DEF Init, GenInit
    <2> QED
      BY <2>1 DEF ArithmeticIsNumeric, OperationsIn
  <1>2. Spec => []ArithmeticIsNumeric
    BY <1>1, NumericStep, TypeCorrect, ValuesAlways, AgreementAlways, PTL DEF Spec
  <1> QED
    BY <1>2, FrontendRuns, PTL

-----------------------------------------------------------------------------
(* The types of the registers *)

\* The type at run time of a value of a type of the IR.
RunType(type) == IF type.shape = <<>> THEN type.elementType ELSE "tensor"

\* The registers in file have the types of the values of m.
Typed(m, file) ==
    \A p \in Places(m) : LET operation == OperationAt(m, p) IN
        resultOf(operation) \in DOMAIN file =>
            file[resultOf(operation)].type = RunType(typeOf(operation))

\* The registers the instructions before instruction n of block b define have a value.
Ready(code, b, n, known) ==
    \A value : \A j \in Nat : j < n /\ DefinesAt(code, b, j, value) => value \in known

\* All registers block b defines have a value.
BlockKnown(code, b, known) ==
    \A value : \A j \in Nat : DefinesAt(code, b, j, value) => value \in known

\* Block id has been entered from block from, which the blocks that dominate
\* it come before on every path.
CameFrom(m, code, id, from, known) ==
    /\ from = NoBlock => id = 0
    /\ from # NoBlock => /\ from \in PredecessorsOf(m, id)
                         /\ \A d \in Nat : Dominates(m, d, from) => BlockKnown(code, d + 1, known)

TypedInvariant ==
    /\ execStatus # "idle" => lowStatus = "done" /\ Typed(module, regs)
    /\ execStatus = "idle" => previous = NoBlock
    /\ execStatus = "running" => /\ Ready(llvmBlocks, block + 1, index, DOMAIN regs)
                                 /\ CameFrom(module, llvmBlocks, block, previous, DOMAIN regs)

LEMMA SetTyped ==
  ASSUME NEW m, DefinitionsUnique(m), NEW file, Typed(m, file), NEW p \in Places(m), NEW value,
         value.type = RunType(typeOf(OperationAt(m, p))), NEW register,
         register = resultOf(OperationAt(m, p))
  PROVE  Typed(m, With(file, register, value))
  <1> DEFINE more == With(file, register, value)
  <1>1. /\ DOMAIN more = DOMAIN file \cup {register}
        /\ more[register] = value
        /\ \A v \in DOMAIN file : v # register => more[v] = file[v]
    BY DEF With
  <1> HIDE DEF more
  <1>2. ASSUME NEW q \in Places(m), resultOf(OperationAt(m, q)) \in DOMAIN more
        PROVE  more[resultOf(OperationAt(m, q))].type = RunType(typeOf(OperationAt(m, q)))
    <2>1. CASE resultOf(OperationAt(m, q)) = register
      <3>1. q = p
        BY <2>1 DEF DefinitionsUnique
      <3> QED
        BY <1>1, <3>1
    <2>2. CASE resultOf(OperationAt(m, q)) # register
      BY <1>1, <1>2, <2>2 DEF Typed
    <2> QED
      BY <2>1, <2>2
  <1> QED
    BY <1>2 DEF Typed, more

LEMMA ReadyNext ==
  ASSUME NEW code, NEW b, NEW n \in Nat, NEW known, Ready(code, b, n, known),
         NEW more, known \subseteq more, \A value : DefinesAt(code, b, n, value) => value \in more
  PROVE  Ready(code, b, n + 1, more)
  <1> SUFFICES ASSUME NEW j \in Nat, NEW value, j < n + 1, DefinesAt(code, b, j, value)
               PROVE  value \in more
    BY DEF Ready
  <1>1. j < n \/ j = n
    OBVIOUS
  <1>2. CASE j = n
    BY <1>2
  <1>3. CASE j < n
    BY <1>3 DEF Ready
  <1> QED
    BY <1>1, <1>2, <1>3

LEMMA CameFromMore ==
  ASSUME NEW m, NEW code, NEW id, NEW from, NEW known, CameFrom(m, code, id, from, known),
         NEW more, known \subseteq more
  PROVE  CameFrom(m, code, id, from, more)
  BY DEF CameFrom, BlockKnown

\* An instruction that does not end its block.
LEMMA NextKeepsTypes ==
  ASSUME TypedInvariant, execStatus = "running", module' = module, UNCHANGED lowVars, Step,
         index \in Nat, DOMAIN regs \subseteq DOMAIN regs', Typed(module, regs'),
         \A value : DefinesAt(llvmBlocks, block + 1, index, value) => value \in DOMAIN regs'
  PROVE  TypedInvariant'
  <1>1. /\ index' = index + 1 /\ execStatus' = "running" /\ block' = block /\ previous' = previous
        /\ lowStatus' = lowStatus /\ llvmBlocks' = llvmBlocks
    BY DEF Step, lowVars
  <1>2. /\ lowStatus = "done" /\ Ready(llvmBlocks, block + 1, index, DOMAIN regs)
        /\ CameFrom(module, llvmBlocks, block, previous, DOMAIN regs)
    BY DEF TypedInvariant
  <1>3. Ready(llvmBlocks, block + 1, index + 1, DOMAIN regs')
    BY <1>2, ReadyNext
  <1>4. CameFrom(module, llvmBlocks, block, previous, DOMAIN regs')
    BY <1>2, CameFromMore
  <1> QED
    BY <1>1, <1>2, <1>3, <1>4 DEF TypedInvariant

LEMMA JumpKeepsTypes ==
  ASSUME TypedInvariant, execStatus = "running", module' = module, UNCHANGED lowVars,
         Compiled(module, llvmBlocks), NEW b, NEW t, At(b, t), t[index].inst \in Terminations,
         NEW target, Jump(target), target \in Targets(module.blocks[b].terminator)
  PROVE  TypedInvariant'
  <1>1. /\ index' = 1 /\ execStatus' = "running" /\ block' = target /\ previous' = block
        /\ lowStatus' = lowStatus /\ llvmBlocks' = llvmBlocks /\ regs' = regs
    BY DEF Jump, lowVars
  <1>2. /\ lowStatus = "done" /\ Typed(module, regs)
        /\ Ready(llvmBlocks, block + 1, index, DOMAIN regs)
        /\ CameFrom(module, llvmBlocks, block, previous, DOMAIN regs)
    BY DEF TypedInvariant
  <1>3. /\ b \in 1 .. Len(module.blocks) /\ block = b - 1 /\ b = block + 1
        /\ t = llvmBlocks[b] /\ Len(t) \in Nat /\ Structure(module) /\ Len(module.blocks) \in Nat
    BY CompiledBlock DEF At, Compiled
  <1>4. block \in PredecessorsOf(module, target) /\ block \in Nat
    BY <1>3 DEF Compiled
  <1>5. BlockKnown(llvmBlocks, block + 1, DOMAIN regs)
    <2> SUFFICES ASSUME NEW j \in Nat, NEW value, DefinesAt(llvmBlocks, b, j, value)
                 PROVE  value \in DOMAIN regs
      BY <1>3 DEF BlockKnown
    <2>1. index = Len(t)
      BY ClosingHere
    <2>2. j \in 1 .. Len(t) /\ Defines(t[j], value)
      BY <1>3 DEF DefinesAt
    <2>3. j # index
      BY <2>2 DEF Defines, Terminations
    <2>4. j < index
      BY <1>3, <2>1, <2>2, <2>3
    <2> QED
      BY <1>2, <1>3, <2>4 DEF Ready
  <1>6. ASSUME NEW d \in Nat, Dominates(module, d, block), d # block
        PROVE  BlockKnown(llvmBlocks, d + 1, DOMAIN regs)
    <2>1. previous # NoBlock
      <3> SUFFICES ASSUME previous = NoBlock PROVE FALSE
        OBVIOUS
      <3>1. block = 0
        BY <1>2 DEF CameFrom
      <3>2. d <= 0
        BY <1>6, <3>1, DominatesOrder
      <3> QED
        BY <1>6, <3>1, <3>2
    <2>2. previous \in PredecessorsOf(module, block)
      BY <1>2, <2>1 DEF CameFrom
    <2>3. Dominates(module, d, previous)
      BY <1>3, <1>4, <1>6, <2>2, DominatesPredecessor
    <2> QED
      BY <1>2, <2>1, <2>3 DEF CameFrom
  <1>7. block # NoBlock
    BY <1>4 DEF NoBlock
  <1>8. CameFrom(module, llvmBlocks, target, block, DOMAIN regs)
    BY <1>4, <1>5, <1>6, <1>7 DEF CameFrom
  <1>9. Ready(llvmBlocks, target + 1, 1, DOMAIN regs)
    BY DEF Ready, DefinesAt
  <1> QED
    BY <1>1, <1>2, <1>8, <1>9 DEF TypedInvariant

-----------------------------------------------------------------------------

\* The kind of an operation is that of the instruction it is lowered to.
LEMMA TranslationKind ==
  ASSUME NEW m, NEW operation, Coded(operation)
  PROVE  \/ operation.op = "tensor" /\ Translation(m, operation).inst = "alloc"
         \/ operation.op # "tensor" /\ Translation(m, operation).inst = operation.op
  <1>1. operation.op = "tensor" => Translation(m, operation).inst = "alloc"
    BY DEF Translation, AllocInst
  <1>2. operation.op = "binary" => Translation(m, operation).inst = "binary"
    BY DEF Translation, ArithmeticInst
  <1>3. operation.op = "compare" => Translation(m, operation).inst = "compare"
    BY DEF Translation, CompareInst
  <1>4. operation.op = "phi" => Translation(m, operation).inst = "phi"
    BY DEF Translation, PhiInst
  <1> QED
    BY <1>1, <1>2, <1>3, <1>4 DEF Coded

\* The instruction executed is lowered from the operation at place p.
LoweredFrom(p) ==
    LET operation == OperationAt(module, p) IN
    /\ p \in Places(module) /\ p[1] = block + 1
    /\ Coded(operation) /\ operation \in Operation
    /\ operation.op = "tensor" => StorageSize(operation.type) # Refused
    /\ Inst = Translation(module, operation)
    /\ Inst.result = resultOf(operation)

LEMMA InstOperation ==
  ASSUME module \in Module, NEW b, NEW t, At(b, t), t[index].inst \in Operations
  PROVE  \E p : LoweredFrom(p)
  <1>1. /\ Closed(module, b, t) /\ module.blocks[b].terminator.op \in Terminations
        /\ index \in 1 .. Len(t) /\ Inst = t[index] /\ b \in 1 .. Len(module.blocks)
        /\ b = block + 1
    BY DEF At
  <1>2. PICK k \in 1 .. Len(module.blocks[b].operations) : OperationCodeAt(module, b, t, index, k)
    BY <1>1, InstructionPlace
  <1>3. PICK operation : operation = module.blocks[b].operations[k]
    OBVIOUS
  <1>4. PICK p : p = <<b, k>>
    OBVIOUS
  <1>5. p \in Places(module) /\ OperationAt(module, p) = operation /\ operation \in Operation
    BY <1>1, <1>3, <1>4, PlaceFacts
  <1>6. /\ Coded(operation) /\ t[index] = Translation(module, operation)
        /\ operation.op = "tensor" => StorageSize(operation.type) # Refused
    BY <1>2, <1>3 DEF OperationCodeAt
  <1>7. Inst.result = operation.result
    BY <1>1, <1>6, TranslationDefines
  <1>8. p[1] = block + 1
    BY <1>1, <1>4
  <1> QED
    BY <1>1, <1>5, <1>6, <1>7, <1>8 DEF LoweredFrom, resultOf

\* An instruction that gives its register the type of its operation.
LEMMA DefineKeepsTypes ==
  ASSUME Promised, TypedInvariant, execStatus = "running", UNCHANGED <<vars, lowVars>>, Step,
         NEW b, NEW t, At(b, t), t[index].inst \in Operations, NEW p, LoweredFrom(p), NEW value,
         Set(Inst.result, value), value.type = RunType(typeOf(OperationAt(module, p)))
  PROVE  TypedInvariant'
  <1>1. module' = module /\ DefinitionsUnique(module) /\ UNCHANGED lowVars
    BY HandedOver DEF vars, genVars, codeVars, ModuleSound
  <1>2. index \in Nat
    BY DEF At
  <1>3. /\ regs' = With(regs, Inst.result, value)
        /\ DOMAIN regs' = DOMAIN regs \cup {Inst.result}
    BY DEF Set, With
  <1>4. p \in Places(module) /\ Inst.result = resultOf(OperationAt(module, p))
    BY DEF LoweredFrom
  <1>5. Typed(module, regs)
    BY DEF TypedInvariant
  <1>6. Typed(module, regs')
    BY <1>1, <1>3, <1>4, <1>5, SetTyped
  <1>7. ASSUME NEW v, DefinesAt(llvmBlocks, block + 1, index, v) PROVE v = Inst.result
    <2>1. t = llvmBlocks[block + 1] /\ Inst = t[index]
      BY DEF At
    <2> QED
      BY <1>7, <2>1 DEF DefinesAt, Defines
  <1> QED
    BY <1>1, <1>2, <1>3, <1>6, <1>7, NextKeepsTypes

LEMMA OperationHere ==
  ASSUME Promised, LowInvariant, CodeInvariant, ExecInvariant, execStatus = "running",
         Inst.inst \in Operations
  PROVE  \E b, t, p : At(b, t) /\ t[index].inst \in Operations /\ LoweredFrom(p)
  <1>1. PICK b, t : At(b, t)
    BY MachineAt
  <1>2. t[index].inst \in Operations
    BY <1>1 DEF At
  <1>3. \E p : LoweredFrom(p)
    BY <1>1, <1>2, InstOperation, HandedOver
  <1> QED
    BY <1>1, <1>2, <1>3

LEMMA KindHere ==
  ASSUME NEW p, LoweredFrom(p), NEW kind, kind = OperationAt(module, p).op
  PROVE  /\ Inst.inst = "alloc" => kind = "tensor"
         /\ Inst.inst \in {"binary", "compare", "phi"} => kind = Inst.inst
  <1>1. PICK operation : operation = OperationAt(module, p)
    OBVIOUS
  <1>2. Coded(operation) /\ Inst = Translation(module, operation)
    BY <1>1 DEF LoweredFrom
  <1>3. operation.op \in {"tensor", "binary", "compare", "phi"}
    BY <1>2 DEF Coded
  <1>4. \/ operation.op = "tensor" /\ Inst.inst = "alloc"
        \/ operation.op # "tensor" /\ Inst.inst = operation.op
    BY <1>2, TranslationKind
  <1> QED
    BY <1>1, <1>3, <1>4

\* Only tensors of at least one dimension are stored.
LEMMA AllocKeepsTypes ==
  ASSUME Promised, LowInvariant, CodeInvariant, ExecInvariant, TypedInvariant, ExecAlloc,
         UNCHANGED <<vars, lowVars>>
  PROVE  TypedInvariant'
  <1>1. /\ execStatus = "running" /\ Inst.inst = "alloc" /\ Step
        /\ Set(Inst.result, [type |-> "tensor", value |-> 0])
    BY DEF ExecAlloc, Executing
  <1>2. PICK b, t, p : At(b, t) /\ t[index].inst \in Operations /\ LoweredFrom(p)
    BY <1>1, OperationHere DEF Operations
  <1>3. PICK operation : operation = OperationAt(module, p)
    OBVIOUS
  <1>4. operation.op = "tensor" /\ StorageSize(operation.type) # Refused
    BY <1>1, <1>2, <1>3, KindHere DEF LoweredFrom
  <1>5. operation.type.shape # <<>>
    BY <1>4 DEF StorageSize, HasStorage
  <1>6. RunType(typeOf(operation)) = "tensor"
    BY <1>4, <1>5 DEF typeOf, RunType
  <1> QED
    BY <1>1, <1>2, <1>3, <1>6, DefineKeepsTypes

LEMMA BinaryKeepsTypes ==
  ASSUME Promised, LowInvariant, CodeInvariant, ExecInvariant, ArithmeticIsNumeric, TypedInvariant,
         ExecBinary, UNCHANGED <<vars, lowVars>>
  PROVE  TypedInvariant'
  <1>1. execStatus = "running" /\ Inst.inst = "binary"
    BY DEF ExecBinary, Executing
  <1>2. CASE Stop([event |-> "undefined"])
    <2>1. /\ execStatus' = "ended" /\ regs' = regs /\ module' = module /\ lowStatus' = lowStatus
      BY <1>2 DEF Stop, vars, genVars, codeVars, lowVars
    <2> QED
      BY <1>1, <2>1 DEF TypedInvariant
  <1>3. CASE ~ Stop([event |-> "undefined"])
    <2>1. PICK b, t, p : At(b, t) /\ t[index].inst \in Operations /\ LoweredFrom(p)
      BY <1>1, OperationHere DEF Operations
    <2>2. PICK operation : operation = OperationAt(module, p)
      OBVIOUS
    <2>3. /\ operation.op = "binary" /\ p \in Places(module)
          /\ Inst = Translation(module, operation)
      BY <1>1, <2>1, <2>2, KindHere DEF LoweredFrom
    <2>4. operation.type \in {I64, F64}
      <3>1. operation \in NumericOperations
        BY <2>2, <2>3, PlaceFacts, HandedOver DEF ArithmeticIsNumeric, OperationsIn, OperationAt
      <3> QED
        BY <2>3, <3>1 DEF NumericOperations, Numeric
    <2>5. Inst.floating = Floating(operation.type)
      BY <2>3 DEF Translation, ArithmeticInst
    <2>6. PICK value : /\ Step /\ Set(Inst.result, value)
                       /\ value = IF Inst.floating THEN Double
                                  ELSE Int64(Compute(Inst.kind, Operand(Inst.lhs).value,
                                                     Operand(Inst.rhs).value))
      BY <1>3 DEF ExecBinary
    <2>7. value.type = IF Inst.floating THEN "f64" ELSE "i64"
      BY <2>6 DEF Double, Int64
    <2>8. RunType(typeOf(operation)) = IF Floating(operation.type) THEN "f64" ELSE "i64"
      BY <2>3, <2>4 DEF RunType, typeOf, Floating, I64, F64, Scalar
    <2> QED
      BY <1>1, <2>1, <2>2, <2>5, <2>6, <2>7, <2>8, DefineKeepsTypes
  <1> QED
    BY <1>2, <1>3

LEMMA CompareKeepsTypes ==
  ASSUME Promised, LowInvariant, CodeInvariant, ExecInvariant, TypedInvariant, ExecCompare,
         UNCHANGED <<vars, lowVars>>
  PROVE  TypedInvariant'
  <1>1. /\ execStatus = "running" /\ Inst.inst = "compare" /\ Step
        /\ \E truth : Set(Inst.result, Int1(truth))
    BY DEF ExecCompare, Executing
  <1>2. PICK b, t, p : At(b, t) /\ t[index].inst \in Operations /\ LoweredFrom(p)
    BY <1>1, OperationHere DEF Operations
  <1>3. PICK operation : operation = OperationAt(module, p)
    OBVIOUS
  <1>4. operation.op = "compare"
    BY <1>1, <1>2, <1>3, KindHere
  <1>5. RunType(typeOf(operation)) = "i1"
    BY <1>4 DEF RunType, typeOf, I1, Scalar
  <1>6. PICK value : Set(Inst.result, value) /\ value.type = "i1"
    BY <1>1 DEF Int1
  <1> QED
    BY <1>1, <1>2, <1>3, <1>5, <1>6, DefineKeepsTypes

\* The value a phi takes on an edge has its type, and is a constant or has
\* been defined on every path to the edge.
LEMMA IncomingDefined ==
  ASSUME NEW m, Structure(m), DefinitionsUnique(m), NEW p \in Places(m), OperationSound(m, p),
         NEW operation, operation = OperationAt(m, p), operation.op = "phi",
         NEW i \in DOMAIN operation.incoming, NEW e, e = operation.incoming[i].predecessor,
         NEW v, v = operation.incoming[i].value
  PROVE  /\ e \in 0 .. Len(m.blocks) - 1
         /\ \E q \in Definitions(m, v) : /\ typeOf(OperationAt(m, q)) = operation.type
                                         /\ Dominates(m, q[1] - 1, e)
  <1>1. m \in Module /\ Len(m.blocks) \in Nat
    BY BlockTypes DEF Structure
  <1>2. e + 1 \in 1 .. Len(m.blocks)
        /\ DefinedBefore(m, v, <<e + 1, Len(m.blocks[e + 1].operations) + 1>>)
    BY DEF OperationSound
  <1>3. e \in 0 .. Len(m.blocks) - 1
    <2>1. operation \in Operation
      BY <1>1, PlaceFacts
    <2>2. operation.incoming \in Seq([predecessor : BlockId, value : ValueId])
      BY <2>1 DEF Operation
    <2>3. operation.incoming[i] \in [predecessor : BlockId, value : ValueId]
      BY <2>2, ElementOfSeq, LenProperties
    <2>4. e \in Nat
      BY <2>3 DEF BlockId
    <2> QED
      BY <1>1, <1>2, <2>4
  <1>4. PICK q \in Definitions(m, v) : q[1] = e + 1 \/ Dominates(m, q[1] - 1, e)
    <2>1. PICK end, last : end = e + 1 /\ last = Len(m.blocks[e + 1].operations) + 1
      OBVIOUS
    <2>2. end - 1 = e
      BY <1>3, <2>1
    <2>3. DefinedBefore(m, v, <<end, last>>)
      BY <1>2, <2>1
    <2>4. PICK q \in Definitions(m, v) : q[1] = end \/ Dominates(m, q[1] - 1, end - 1)
      BY <2>3 DEF DefinedBefore
    <2> QED
      BY <2>1, <2>2, <2>4
  <1>5. Dominates(m, q[1] - 1, e)
    <2>1. q[1] = e + 1 => q[1] - 1 = e
      BY <1>3
    <2> QED
      BY <1>4, <2>1 DEF Dominates
  <1>6. PICK r \in Definitions(m, v) : typeOf(OperationAt(m, r)) = operation.type
    <2>1. PhiOK(m, p)
      BY DEF OperationSound, OperationOK
    <2>2. operation.incoming[i] \in Range(operation.incoming)
      BY DEF Range
    <2> QED
      BY <2>1, <2>2 DEF PhiOK, OperandOK
  <1>7. r = q
    BY DEF Definitions, DefinitionsUnique
  <1> QED
    BY <1>3, <1>5, <1>6, <1>7

\* An edge into the block executed.
LEMMA IncomingEdge ==
  ASSUME NEW m, Structure(m), NEW p \in Places(m), OperationSound(m, p),
         NEW operation, operation = OperationAt(m, p), operation.op = "phi",
         NEW i \in DOMAIN operation.incoming
  PROVE  operation.incoming[i].predecessor # NoBlock
  <1>1. m \in Module
    BY DEF Structure
  <1>2. operation \in Operation
    BY <1>1, PlaceFacts
  <1>3. operation.incoming \in Seq([predecessor : BlockId, value : ValueId])
    BY <1>2 DEF Operation
  <1>4. operation.incoming[i] \in [predecessor : BlockId, value : ValueId]
    BY <1>3, ElementOfSeq, LenProperties
  <1> QED
    BY <1>4 DEF BlockId, NoBlock

\* The operand a defined value was lowered to has its type.
LEMMA OperandTyped ==
  ASSUME Promised, LowInvariant, CodeInvariant, lowStatus = "done", Typed(module, regs),
         NEW v, NEW q \in Definitions(module, v), NEW known, known = DOMAIN regs,
         q[1] \in 1 .. Len(module.blocks) => BlockKnown(llvmBlocks, q[1], known),
         NEW type, type = typeOf(OperationAt(module, q))
  PROVE  Operand(ValueOperand(module, v)).type = RunType(type)
  <1>0. module \in Module /\ DefinitionsUnique(module) /\ Compiled(module, llvmBlocks)
    BY HandedOver, DoneIsCompiled DEF ModuleSound
  <1>1. PICK operation, b, k : operation = OperationAt(module, q) /\ b = q[1] /\ k = q[2]
    OBVIOUS
  <1>2. q \in Places(module) /\ resultOf(operation) = v
    BY <1>1 DEF Definitions
  <1>3. /\ b \in 1 .. Len(module.blocks) /\ k \in 1 .. Len(module.blocks[b].operations)
        /\ operation \in Operation
    BY <1>0, <1>1, <1>2, PlaceFacts
  <1>4. operation = module.blocks[b].operations[k]
    BY <1>1 DEF OperationAt
  <1>5. ValueOperand(module, v) = ResultOperand(operation)
    BY <1>0, <1>1, DefinedOperand
  <1>6. CASE operation.op = "int"
    <2>1. operation.type = I64
      BY <1>3, <1>6 DEF Operation
    <2>2. RunType(type) = "i64"
      BY <1>1, <1>6, <2>1 DEF RunType, typeOf, I64, Scalar
    <2>3. Operand(ConstantInt(operation.value)).type = "i64"
      BY DEF Operand, ConstantInt, Int64
    <2> QED
      BY <1>5, <1>6, <2>2, <2>3 DEF ResultOperand
  <1>7. CASE operation.op = "float"
    <2>1. operation.type = F64
      BY <1>3, <1>7 DEF Operation
    <2>2. RunType(type) = "f64"
      BY <1>1, <1>7, <2>1 DEF RunType, typeOf, F64, Scalar
    <2>3. Operand(ConstantFP).type = "f64"
      BY DEF Operand, ConstantFP, Double
    <2> QED
      BY <1>5, <1>7, <2>2, <2>3 DEF ResultOperand
  <1>8. CASE ~ Constant(operation)
    <2>1. PICK t : t = llvmBlocks[b]
      OBVIOUS
    <2>2. Closed(module, b, t) /\ Len(t) \in Nat
      BY <1>0, <1>3, <2>1, CompiledBlock
    <2>3. Available(module, b, t, Len(t), k)
      BY <1>3, <2>2 DEF Closed
    <2>4. PICK j \in 1 .. Len(t) - 1 : Defines(t[j], operation.result)
      BY <1>4, <1>8, <2>3 DEF Available
    <2>5. DefinesAt(llvmBlocks, b, j, v) /\ j \in Nat
      BY <1>2, <2>1, <2>2, <2>4 DEF DefinesAt, resultOf
    <2>6. v \in DOMAIN regs
      BY <1>1, <1>3, <2>5 DEF BlockKnown
    <2>7. regs[v].type = RunType(type)
      BY <1>1, <1>2, <2>6 DEF Typed
    <2>8. ValueOperand(module, v) = Register(v)
      BY <1>2, <1>5, <1>8 DEF ResultOperand, Constant
    <2>9. Operand(Register(v)) = regs[v]
      BY DEF Operand, Register
    <2> QED
      BY <2>7, <2>8, <2>9
  <1> QED
    BY <1>6, <1>7, <1>8 DEF Constant

LEMMA PhiKeepsTypes ==
  ASSUME Promised, LowInvariant, CodeInvariant, ExecInvariant, TypedInvariant, ExecPhi,
         UNCHANGED <<vars, lowVars>>
  PROVE  TypedInvariant'
  <1>1. execStatus = "running" /\ Inst.inst = "phi" /\ Step
    BY DEF ExecPhi, Executing
  <1>2. PICK b, t, p : At(b, t) /\ t[index].inst \in Operations /\ LoweredFrom(p)
    BY <1>1, OperationHere DEF Operations
  <1>3. PICK operation : operation = OperationAt(module, p)
    OBVIOUS
  <1>4. /\ operation.op = "phi" /\ p \in Places(module)
        /\ Inst = Translation(module, operation)
    BY <1>1, <1>2, <1>3, KindHere DEF LoweredFrom
  <1>5. Inst.incoming = [i \in DOMAIN operation.incoming |->
                           [operation.incoming[i] EXCEPT !.value = ValueOperand(module, @)]]
    BY <1>4 DEF Translation, PhiInst
  <1>6. PICK i \in DOMAIN operation.incoming :
           /\ Inst.incoming[i].predecessor = previous
           /\ Set(Inst.result, Operand(Inst.incoming[i].value))
    BY <1>5 DEF ExecPhi
  <1>7. PICK e, v : e = operation.incoming[i].predecessor /\ v = operation.incoming[i].value
    OBVIOUS
  <1>8. /\ Structure(module) /\ DefinitionsUnique(module) /\ OperationSound(module, p)
        /\ module \in Module /\ Len(module.blocks) \in Nat
    BY <1>4, HandedOver DEF ModuleSound
  <1>9. Inst.incoming[i].predecessor = e /\ Inst.incoming[i].value = ValueOperand(module, v)
    <2>1. /\ operation \in Operation /\ operation.op = "phi"
      BY <1>3, <1>4, <1>8, PlaceFacts
    <2>2. operation.incoming \in Seq([predecessor : BlockId, value : ValueId])
      BY <2>1 DEF Operation
    <2>3. operation.incoming[i] \in [predecessor : BlockId, value : ValueId]
      BY <2>2, ElementOfSeq, LenProperties
    <2>4. Inst.incoming[i] = [operation.incoming[i] EXCEPT !.value = ValueOperand(module, @)]
      BY <1>5
    <2> QED
      BY <1>7, <2>3, <2>4
  <1>10. e # NoBlock /\ e = previous
    BY <1>3, <1>4, <1>6, <1>7, <1>8, <1>9, IncomingEdge
  <1>11. PICK q \in Definitions(module, v) :
            typeOf(OperationAt(module, q)) = operation.type /\ Dominates(module, q[1] - 1, e)
    BY <1>3, <1>4, <1>7, <1>8, IncomingDefined
  <1>12. /\ lowStatus = "done" /\ Typed(module, regs)
         /\ \A d \in Nat : Dominates(module, d, e) => BlockKnown(llvmBlocks, d + 1, DOMAIN regs)
    BY <1>1, <1>10 DEF TypedInvariant, CameFrom
  <1>13. q[1] \in 1 .. Len(module.blocks) => BlockKnown(llvmBlocks, q[1], DOMAIN regs)
    <2> SUFFICES ASSUME NEW c \in 1 .. Len(module.blocks), c = q[1]
                 PROVE  BlockKnown(llvmBlocks, c, DOMAIN regs)
      OBVIOUS
    <2>1. c - 1 \in Nat /\ c - 1 + 1 = c
      BY <1>8
    <2>2. Dominates(module, c - 1, e)
      BY <1>11
    <2> QED
      BY <1>12, <2>1, <2>2
  <1>14. PICK value : value = Operand(ValueOperand(module, v))
    OBVIOUS
  <1>15. value.type = RunType(operation.type)
    BY <1>11, <1>12, <1>13, <1>14, OperandTyped
  <1>16. typeOf(operation) = operation.type
    BY <1>4 DEF typeOf
  <1>17. Set(Inst.result, value)
    BY <1>6, <1>9, <1>14
  <1> QED
    BY <1>1, <1>2, <1>3, <1>15, <1>16, <1>17, DefineKeepsTypes

LEMMA SlotsKeepTypes ==
  ASSUME Promised, LowInvariant, CodeInvariant, ExecInvariant, TypedInvariant, ExecSlot \/ ExecFree,
         UNCHANGED <<vars, lowVars>>
  PROVE  TypedInvariant'
  <1>1. execStatus = "running" /\ Inst.inst \in {"slot", "free"} /\ Step /\ regs' = regs
    BY DEF ExecSlot, ExecFree, Executing
  <1>2. PICK b, t : At(b, t)
    BY <1>1, MachineAt
  <1>3. index \in Nat /\ Inst = llvmBlocks[block + 1][index]
    BY <1>2 DEF At, Inst
  <1>4. \A v : ~ DefinesAt(llvmBlocks, block + 1, index, v)
    BY <1>1, <1>3 DEF DefinesAt, Defines
  <1>5. Typed(module, regs) /\ module' = module
    BY <1>1 DEF TypedInvariant, vars, genVars, codeVars
  <1> QED
    BY <1>1, <1>3, <1>4, <1>5, NextKeepsTypes

LEMMA JumpsKeepTypes ==
  ASSUME Promised, LowInvariant, CodeInvariant, ExecInvariant, TypedInvariant,
         ExecBranch \/ ExecCondBranch, UNCHANGED <<vars, lowVars>>
  PROVE  TypedInvariant'
  <1>1. execStatus = "running" /\ Compiled(module, llvmBlocks) /\ module' = module
    BY MachineAt DEF ExecBranch, ExecCondBranch, Executing, vars, genVars, codeVars
  <1>2. \E b, t, target : /\ At(b, t) /\ t[index].inst \in Terminations /\ Jump(target)
                          /\ target \in Targets(module.blocks[b].terminator)
    BY JumpTarget DEF Terminations
  <1> QED
    BY <1>1, <1>2, JumpKeepsTypes

LEMMA ReturnKeepsTypes ==
  ASSUME TypedInvariant, ExecReturn, UNCHANGED <<vars, lowVars>>
  PROVE  TypedInvariant'
  <1>1. /\ execStatus = "running" /\ execStatus' = "ended" /\ regs' = regs
        /\ module' = module /\ lowStatus' = lowStatus
    BY DEF ExecReturn, Executing, Stop, vars, genVars, codeVars, lowVars
  <1> QED
    BY <1>1 DEF TypedInvariant

LEMMA StartKeepsTypes ==
  ASSUME Promised, LowInvariant, CodeInvariant, ExecInvariant, TypedInvariant, StartMain,
         UNCHANGED <<vars, lowVars>>
  PROVE  TypedInvariant'
  <1>1. /\ module' = module /\ llvmBlocks' = llvmBlocks /\ lowStatus' = "done" /\ lowStatus = "done"
        /\ execStatus = "idle" /\ execStatus' = "running" /\ block' = module.entry
        /\ UNCHANGED <<index, previous, regs>>
    BY DEF vars, genVars, codeVars, lowVars, StartMain
  <1>2. index = 1 /\ DOMAIN regs = {} /\ previous = NoBlock
    BY <1>1 DEF ExecInvariant, TypedInvariant
  <1>3. module.entry = 0
    BY <1>1 DEF LowInvariant, Promised, ValuesInvariant, Progress, GraphInvariant
  <1>4. Typed(module, regs)
    BY <1>2 DEF Typed
  <1>5. Ready(llvmBlocks, block' + 1, 1, DOMAIN regs)
    BY DEF Ready, DefinesAt
  <1>6. CameFrom(module, llvmBlocks, 0, NoBlock, DOMAIN regs)
    BY DEF CameFrom
  <1> QED
    BY <1>1, <1>2, <1>3, <1>4, <1>5, <1>6 DEF TypedInvariant

LEMMA RestKeepsTypes ==
  ASSUME LowInvariant, TypedInvariant, [ExecutionNext]_allVars, UNCHANGED execVars
  PROVE  TypedInvariant'
  <1>1. UNCHANGED <<execStatus, block, index, previous, regs>>
    BY DEF execVars, pathVars
  <1>2. CASE execStatus = "idle"
    BY <1>1, <1>2 DEF TypedInvariant
  <1>3. CASE execStatus # "idle"
    <2>1. lowStatus = "done"
      BY <1>3 DEF TypedInvariant
    <2>2. UNCHANGED <<module, lowVars>>
      BY <2>1, CodeRests
    <2> QED
      BY <1>1, <2>2 DEF TypedInvariant, lowVars
  <1> QED
    BY <1>2, <1>3

LEMMA TypedStep ==
  ASSUME Promised, LowInvariant, CodeInvariant, ExecInvariant, ArithmeticIsNumeric, TypedInvariant,
         [ExecutionNext]_allVars
  PROVE  TypedInvariant'
  <1>1. CASE ExecStep /\ UNCHANGED <<vars, lowVars>>
    BY <1>1, StartKeepsTypes, SlotsKeepTypes, AllocKeepsTypes, BinaryKeepsTypes, CompareKeepsTypes,
       PhiKeepsTypes, JumpsKeepTypes, ReturnKeepsTypes DEF ExecStep
  <1>2. CASE UNCHANGED execVars
    BY <1>2, RestKeepsTypes
  <1> QED
    BY <1>1, <1>2 DEF ExecutionNext, ExecEnded, allVars

LEMMA TypedAlways == ExecutionSpec => []TypedInvariant
  <1>1. ExecutionInit => TypedInvariant
    BY DEF ExecutionInit, ExecInit, TypedInvariant
  <1> QED
    BY <1>1, TypedStep, NumericAlways, ExecutionAlways, CodeAlways, LoweringAlways, PromisedAlways,
       PTL DEF ExecutionSpec

(* At run time a register has the type the IR gives its value: arithmetic  *)
(* is on the operands it is generated for, and a phi merges values that    *)
(* are of its type and, on whatever path led to it, defined.               *)
THEOREM TypesAreAlwaysPreserved == ExecutionSpec => []TypesArePreserved
  <1>1. TypedInvariant => TypesArePreserved
    BY DEF TypedInvariant, TypesArePreserved, Typed, RunType
  <1> QED
    BY <1>1, TypedAlways, PTL

=============================================================================
