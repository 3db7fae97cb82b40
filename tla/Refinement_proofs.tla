-------------------------- MODULE Refinement_proofs --------------------------
(***************************************************************************)
(* Execution implements SourceMeaning: what a compiled program does is, at *)
(* each moment, a beginning of what its source means, and only a program   *)
(* that has done nothing yet is refused.                                   *)
(***************************************************************************)
EXTENDS Execution_proofs, Simulation_proofs

-----------------------------------------------------------------------------
(* The generator visits a node *)

LEMMA VisitAdvances ==
  ASSUME Visit, genStatus' = "generating"
  PROVE  Continue
  <1>1. ASSUME NEW error, Fail(error) PROVE FALSE
    BY <1>1 DEF Fail
  <1>2. ASSUME NEW operation, NEW n, NEW type, Define(operation, n, type)
        PROVE  Continue
    BY <1>2 DEF Define
  <1>3. CASE GenerateIdentifier \/ GenerateCall \/ GenerateBinary \/ GenerateMatMul
    BY <1>1, <1>2, <1>3 DEF GenerateIdentifier, GenerateCall, GenerateBinary, GenerateMatMul
  <1>4. CASE GenerateInteger \/ GenerateFloat \/ GenerateRelu
    BY <1>2, <1>4 DEF GenerateInteger, GenerateFloat, GenerateRelu
  <1>5. CASE GenerateTensorDeclaration \/ GenerateAssignment \/ GenerateReturn
    BY <1>1, <1>5 DEF GenerateTensorDeclaration, GenerateAssignment, GenerateReturn
  <1>6. CASE GenerateIf \/ GenerateElse
    BY <1>1, <1>6 DEF GenerateIf, GenerateElse
  <1>7. CASE GenerateEndIfClosed \/ GenerateEndIfOne \/ GenerateEndIfBoth
    BY <1>1, <1>7 DEF GenerateEndIfClosed, GenerateEndIfOne, GenerateEndIfBoth, EndIf
  <1> QED
    BY <1>3, <1>4, <1>5, <1>6, <1>7 DEF Visit

LEMMA VisitSimulates ==
  ASSUME TypeOK, TypeOK', GraphInvariant, Sound, Visit, Continue, DeclarationsKeepTheirTypes,
         Supported(module'),
         NEW s, Simulated(module, current, values, operands, ifs, s),
         NEW u, u = Source!Interpret(s, GenNode)
  PROVE  Simulated(module', current', values', operands', ifs', u)
  <1>1. CASE GenerateIdentifier
    BY <1>1, SimulateIdentifier
  <1>2. CASE GenerateInteger \/ GenerateFloat
    BY <1>2, SimulateLiteral
  <1>3. CASE GenerateBinary
    BY <1>3, SimulateBinary
  <1>4. CASE GenerateCall
    BY <1>4, SimulateCall
  <1>5. CASE GenerateRelu \/ GenerateMatMul
    BY <1>5, TensorOperationsAreUnsupported
  <1>6. CASE GenerateTensorDeclaration
    BY <1>6, SimulateTensor
  <1>7. CASE GenerateAssignment
    BY <1>7, SimulateAssignment
  <1>8. CASE GenerateReturn
    BY <1>8, SimulateReturn
  <1>9. CASE GenerateIf
    BY <1>9, SimulateIf
  <1>10. CASE GenerateElse
    BY <1>10, SimulateElse
  <1>11. CASE GenerateEndIfClosed
    BY <1>11, SimulateEndIfClosed
  <1>12. CASE GenerateEndIfOne
    BY <1>12, SimulateEndIfOne
  <1>13. CASE GenerateEndIfBoth
    BY <1>13, SimulateEndIfBoth
  <1> QED
    BY <1>1, <1>2, <1>3, <1>4, <1>5, <1>6, <1>7, <1>8, <1>9, <1>10, <1>11, <1>12, <1>13 DEF Visit

\* The module only grows.
LEMMA VisitGrows ==
  ASSUME TypeOK, TypeOK', GraphInvariant, Visit
  PROVE  module' = module \/ Longer(module, module')
  <1>1. ASSUME NEW error, Fail(error) PROVE module' = module
    BY <1>1 DEF Fail, codeVars
  <1>2. ASSUME NEW kind, Emitting(kind), NEW operation, NEW n, NEW type, Define(operation, n, type)
        PROVE  Longer(module, module')
    BY <1>2, EmitFollows DEF Define, Emitting
  <1>3. CASE GenerateIdentifier \/ GenerateCall
    BY <1>1, <1>3 DEF GenerateIdentifier, GenerateCall, codeVars
  <1>4. CASE GenerateInteger \/ GenerateFloat \/ GenerateRelu
    BY <1>2, <1>4 DEF GenerateInteger, GenerateFloat, GenerateRelu
  <1>5. CASE GenerateBinary \/ GenerateMatMul
    BY <1>1, <1>2, <1>5 DEF GenerateBinary, GenerateMatMul
  <1>6. CASE GenerateTensorDeclaration
    BY <1>1, <1>6, EmitFollows DEF GenerateTensorDeclaration, Emitting
  <1>7. CASE GenerateAssignment \/ GenerateElse \/ GenerateEndIfClosed
    BY <1>7 DEF GenerateAssignment, GenerateElse, GenerateEndIfClosed
  <1>8. CASE GenerateReturn
    BY <1>8, ReturnCloses DEF Closes, Continues
  <1>9. CASE GenerateIf
    BY <1>9, IfFollows
  <1>10. CASE GenerateEndIfOne
    <2>1. <<>> \in Seq(Operation)
      OBVIOUS
    <2> QED
      BY <1>10, <2>1, MergeFollows DEF GenerateEndIfOne
  <1>11. CASE GenerateEndIfBoth
    <2>1. CASE Conflict(GenIf.thenValues, values)
      BY <1>1, <1>11, <2>1 DEF GenerateEndIfBoth
    <2>2. CASE ~ Conflict(GenIf.thenValues, values)
      <3>1. GenIf.thenEnd # NoBlock /\ current # NoBlock /\ ifs # <<>>
        BY <1>11 DEF GenerateEndIfBoth
      <3>2. PICK order \in SetToSeqs(Differing(GenIf.thenValues, values)) :
               Merge({GenIf.thenEnd, current},
                     Phis(order, GenIf.thenEnd, current, GenIf.thenValues, values))
        BY <1>11, <2>2 DEF GenerateEndIfBoth
      <3>3. Phis(order, GenIf.thenEnd, current, GenIf.thenValues, values) \in Seq(Operation)
        <4>1. /\ GenIf.thenEnd \in MaybeBlock /\ current \in MaybeBlock
              /\ GenIf.thenValues \in Environment /\ values \in Environment
          BY <3>1, FrameType DEF TypeOK, GenFrame
        <4>2. GenIf.thenEnd \in Nat /\ current \in Nat
          BY <3>1, <4>1 DEF MaybeBlock, BlockId
        <4> QED
          BY <4>1, <4>2, PhisType
      <3> QED
        BY <3>2, <3>3, MergeFollows
    <2> QED
      BY <2>1, <2>2
  <1> QED
    BY <1>3, <1>4, <1>5, <1>6, <1>7, <1>8, <1>9, <1>10, <1>11 DEF Visit

LEMMA LongerSupported ==
  ASSUME NEW m \in Module, NEW t \in Module, Longer(m, t), Supported(t)
  PROVE  Supported(m)
  <1> SUFFICES ASSUME NEW id \in 0 .. Len(m.blocks) - 1, NEW k \in 1 .. Len(OperationsOf(m, id))
               PROVE  OperationsOf(m, id)[k].op \notin {"matmul", "relu"}
    BY DEF Supported
  <1>1. id + 1 \in 1 .. Len(m.blocks) /\ Len(m.blocks) \in Nat /\ Len(t.blocks) \in Nat
    BY BlockTypes
  <1>2. id \in 0 .. Len(t.blocks) - 1 /\ id + 1 \in 1 .. Len(t.blocks)
    BY <1>1 DEF Longer
  <1>3. Len(OperationsOf(m, id)) \in Nat /\ Len(OperationsOf(t, id)) \in Nat
    BY <1>1, <1>2, BlockTypes DEF OperationsOf
  <1>4. k \in 1 .. Len(OperationsOf(t, id)) /\ OperationsOf(t, id)[k] = OperationsOf(m, id)[k]
    BY <1>1, <1>3 DEF Longer, OperationsOf
  <1> QED
    BY <1>2, <1>4 DEF Supported

-----------------------------------------------------------------------------
(* The generator starts and ends *)

\* The whole path is in the module, and it means what the source means.
Finished(m) ==
    \E meanings, w, n : /\ Path(m, meanings, w, n)
                        /\ ConstantsMean(m, meanings)
                        /\ Stops(m, meanings, w[n], promised)

\* The generator has followed the interpreter to the node it visits.
Generated(states) ==
    DeclarationsKeepTheirTypes /\ Supported(module) =>
        /\ genStatus = "generating" =>
              Simulated(module, current, values, operands, ifs, states[genPos])
        /\ genStatus = "done" => Finished(module)

Faithful == \E states : Interpreted(states) /\ Generated(states)

LEMMA SimulateStart ==
  ASSUME Progress, Phases, StartGeneration
  PROVE  Simulated(module', current', values', operands', ifs', Source!Start)
  <1> DEFINE p == Point(0, 0, NoBlock, <<>>)
             w == [i \in 1 .. 1 |-> p]
             s == Source!Start
  <1>1. /\ genPos = 1 /\ values' = NoValues /\ operands' = <<>> /\ nextBlockId = 0
        /\ current' = 0 /\ module'.blocks = <<NewBlock(0)>>
    BY DEF StartGeneration, Progress, Phases
  <1>2. /\ Len(module'.blocks) = 1 /\ module'.blocks[1] = NewBlock(0)
    BY <1>1
  <1>3. OperationsOf(module', 0) = <<>> /\ Len(OperationsOf(module', 0)) = 0
    BY <1>2 DEF OperationsOf, NewBlock
  <1>4. IsList(<<>>)
    BY DEF IsList
  <1>5. /\ w[1] = p /\ p.block = 0 /\ p.count = 0 /\ p.events = <<>>
        /\ s.env = [name \in Names |-> Source!Unknown] /\ s.stack = <<>> /\ s.skip = 0
        /\ s.over = FALSE /\ s.events = <<>>
        /\ s = [env |-> s.env, stack |-> s.stack, skip |-> s.skip, over |-> s.over,
                events |-> s.events]
    BY DEF Point, Source!Start
  <1> HIDE DEF p, w, s
  <1>6. Ongoing(s)
    <2>1. s.env = [name \in Names |-> s.env[name]]
      BY <1>5
    <2>2. s.skip \in Nat /\ IsList(s.stack) /\ IsList(s.events)
      BY <1>4, <1>5
    <2>3. IsState(s)
      <3>1. s.over \in BOOLEAN
        BY <1>5
      <3> QED
        BY <1>5, <2>1, <2>2, <3>1 DEF IsState
    <2> QED
      BY <1>5, <2>3 DEF Ongoing
  <1>7. IsPoint(module', w[1]) /\ Begins(w[1].events, w[1].events)
    BY <1>2, <1>4, <1>5 DEF IsPoint, Begins
  <1>8. Path(module', values, w, 1)
    <2>1. w[1] = Point(0, 0, NoBlock, <<>>)
      BY <1>5 DEF p
    <2>2. 1 .. 1 - 1 = {} /\ 1 .. 1 = {1} /\ 1 \in Nat \ {0}
      OBVIOUS
    <2> QED
      BY <1>7, <2>1, <2>2 DEF Path
  <1>9. ConstantsMean(module', values)
    BY <1>2, <1>3 DEF ConstantsMean
  <1>10. Reaches(module', w[1], 0, s)
    BY <1>3, <1>5 DEF Reaches, IdleAfter, Idle
  <1>11. EnvMeans(values, values', s.env) /\ StackMeans(values, operands', s.stack)
    BY <1>1, <1>5 DEF EnvMeans, StackMeans, NoValues
  <1>12. Live(module', values, w[1], s, current', values', operands')
    BY <1>1, <1>6, <1>10, <1>11 DEF Live, NoBlock
  <1> QED
    BY <1>8, <1>9, <1>12 DEF Simulated, s

LEMMA SimulateFinish ==
  ASSUME TypeOK, Finish, genStatus' = "done", NEW states, Interpreted(states),
         Simulated(module, current, values, operands, ifs, states[genPos])
  PROVE  Finished(module)
  <1>1. /\ current = NoBlock /\ ifs = <<>> /\ genPos > Len(prog) /\ module' = module
    BY DEF Finish, Fail, codeVars
  <1>2. genPos = Len(prog) + 1 /\ Len(ifs) = 0
    BY <1>1, LenProperties DEF TypeOK, SemaTypeOK
  <1>3. promised = states[genPos].events
    BY <1>2 DEF Interpreted
  <1>4. PICK meanings, w, n :
           /\ Path(module, meanings, w, n) /\ ConstantsMean(module, meanings)
           /\ \/ Live(module, meanings, w[n], states[genPos], current, values, operands)
              \/ Suspended(module, meanings, w[n], states[genPos], ifs)
              \/ Over(module, meanings, w[n], states[genPos])
    BY DEF Simulated
  <1>5. Over(module, meanings, w[n], states[genPos])
    BY <1>1, <1>2, <1>4 DEF Live, Suspended
  <1> QED
    BY <1>3, <1>4, <1>5 DEF Over, Finished

LEMMA RelationStays == [ExecutionNext]_allVars => relation' = relation /\ promised' = promised
  <1>1. CASE ExecStep
    BY <1>1
    DEF ExecStep, StartMain, ExecSlot, ExecAlloc, ExecBinary, ExecCompare, ExecPhi, ExecFree,
        ExecBranch, ExecCondBranch, ExecReturn, Step, Stop, Jump
  <1>2. CASE UNCHANGED execVars
    BY <1>2 DEF execVars
  <1> QED
    BY <1>1, <1>2 DEF ExecutionNext, ExecEnded, allVars

\* How floats relate is chosen once, so the next state has the same paths.
LEMMA SameCombined ==
  ASSUME relation' = relation
  PROVE  \A op, lhs, rhs : Combined(op, lhs, rhs)' = Combined(op, lhs, rhs)
  BY DEF Combined, Compared

LEMMA SameEvaluates ==
  ASSUME relation' = relation, NEW meanings, NEW from, NEW operation
  PROVE  Evaluates(meanings, from, operation)' <=> Evaluates(meanings, from, operation)
  <1>1. \A op, lhs, rhs : Combined(op, lhs, rhs)' = Combined(op, lhs, rhs)
    BY SameCombined
  <1> QED
    BY <1>1 DEF Evaluates

LEMMA SameExecutes ==
  ASSUME relation' = relation, NEW m, NEW meanings, NEW p, NEW q
  PROVE  Executes(m, meanings, p, q)' <=> Executes(m, meanings, p, q)
  <1>1. PICK operation, from : operation = OperationsOf(m, p.block)[q.count] /\ from = p.from
    OBVIOUS
  <1>2. Evaluates(meanings, from, operation)' <=> Evaluates(meanings, from, operation)
    BY SameEvaluates
  <1> QED
    BY <1>1, <1>2 DEF Executes

LEMMA SamePath ==
  ASSUME relation' = relation, NEW m, NEW meanings, NEW w, NEW n
  PROVE  Path(m, meanings, w, n)' <=> Path(m, meanings, w, n)
  <1>1. \A i \in 1 .. n - 1 :
           Executes(m, meanings, w[i], w[i + 1])' <=> Executes(m, meanings, w[i], w[i + 1])
    BY SameExecutes
  <1> QED
    BY <1>1 DEF Path

LEMMA SameSimulated ==
  ASSUME relation' = relation, NEW s,
         Simulated(module', current', values', operands', ifs', s)
  PROVE  Simulated(module, current, values, operands, ifs, s)'
  BY SamePath DEF Simulated

LEMMA SameFinished ==
  ASSUME relation' = relation, promised' = promised, Finished(module'), module' = module
  PROVE  Finished(module)'
  BY SamePath DEF Finished

LEMMA SameInterpretation ==
  ASSUME relation' = relation, promised' = promised, prog' = prog, NEW states, Interpreted(states)
  PROVE  Interpreted(states)'
  <1>1. \A s, op : Source!BinaryMeaning(s, op)' = Source!BinaryMeaning(s, op)
    BY DEF Source!BinaryMeaning
  <1>2. \A s, node : Source!Interpret(s, node)' = Source!Interpret(s, node)
    BY <1>1 DEF Source!Interpret
  <1>3. \A i \in 1 .. Len(prog) :
           Source!Interpret(states[i], prog[i])' = Source!Interpret(states[i], prog[i])
    BY <1>2
  <1> QED
    BY <1>3 DEF Interpreted

\* The program is accepted before code is generated, and the analyser is then over.
LEMMA AnalyserRests ==
  ASSUME TypeOK, [Next]_vars, genStatus # "idle" \/ genStatus' # "idle", Phases
  PROVE  UNCHANGED semaVars
  <1> SUFFICES ASSUME ~ UNCHANGED semaVars PROVE FALSE
    OBVIOUS
  <1>1. SemaStep
    BY AnalyserAlone
  <1>2. semaStatus = "analyzing"
    BY <1>1, StepVisits, AnalysisEnds DEF TypeOK
  <1>3. genStatus = "idle" /\ ~ UNCHANGED vars
    BY <1>2 DEF Phases, vars
  <1>4. ~ Visit /\ ~ StartGeneration /\ ~ SkipUnreachable /\ ~ RejectUnreachable /\ ~ Finish
    BY <1>2, <1>3, VisitsGenerate DEF StartGeneration, SkipUnreachable, RejectUnreachable, Finish
  <1>5. UNCHANGED genVars
    BY <1>3, <1>4 DEF Next, GenStep, Visit, Ended
  <1> QED
    BY <1>3, <1>5 DEF genVars

LEMMA DeclarationsStay ==
  ASSUME TypeOK, [Next]_vars, genStatus # "idle" \/ genStatus' # "idle", Phases
  PROVE  DeclarationsKeepTheirTypes' <=> DeclarationsKeepTheirTypes
  <1>1. prog' = prog /\ symbols' = symbols
    BY AnalyserRests DEF semaVars
  <1> QED
    BY <1>1 DEF DeclarationsKeepTheirTypes, LookupType

LEMMA GeneratedVisit ==
  ASSUME TypeOK, TypeOK', ValuesInvariant, Visit, relation' = relation, promised' = promised,
         DeclarationsKeepTheirTypes, NEW states, Interpreted(states), Generated(states),
         Supported(module')
  PROVE  /\ genStatus' = "generating" =>
               Simulated(module, current, values, operands, ifs, states[genPos])'
         /\ genStatus' # "done"
  <1>1. /\ genStatus = "generating" /\ genPos \in 1 .. Len(prog)
        /\ GraphInvariant /\ Sound /\ module \in Module /\ module' \in Module
    BY VisitsGenerate, StateTypes DEF ValuesInvariant, TypeOK
  <1>2. Supported(module)
    BY <1>1, VisitGrows, LongerSupported
  <1>3. Simulated(module, current, values, operands, ifs, states[genPos])
    BY <1>1, <1>2 DEF Generated
  <1>4. ASSUME genStatus' = "generating"
        PROVE  Simulated(module, current, values, operands, ifs, states[genPos])'
    <2>1. Continue
      BY <1>4, VisitAdvances
    <2>2. genPos' = genPos + 1 /\ GenNode = prog[genPos]
      BY <2>1 DEF Continue, GenNode
    <2>3. states[genPos'] = Source!Interpret(states[genPos], GenNode)
      BY <1>1, <2>2 DEF Interpreted
    <2>4. Simulated(module', current', values', operands', ifs', states[genPos'])
      BY <1>1, <1>3, <2>1, <2>3, VisitSimulates
    <2> QED
      BY <2>4, SameSimulated
  <1>5. genStatus' # "done"
    <2>1. ~ Finish
      BY <1>1 DEF Finish
    <2> QED
      BY <1>1, <2>1, OnlyFinishHandsOver DEF Next, GenStep, Visit
  <1> QED
    BY <1>4, <1>5

LEMMA GeneratedStep ==
  ASSUME TypeOK, TypeOK', ValuesInvariant, Phases, [Next]_vars, relation' = relation,
         promised' = promised, NEW states, Interpreted(states), Generated(states)
  PROVE  Generated(states)'
  <1> SUFFICES ASSUME DeclarationsKeepTheirTypes', Supported(module')
               PROVE  /\ genStatus' = "generating" =>
                            Simulated(module, current, values, operands, ifs, states[genPos])'
                      /\ genStatus' = "done" => Finished(module)'
    BY DEF Generated, Supported, OperationsOf
  <1> SUFFICES ASSUME genStatus' # "idle"
               PROVE  /\ genStatus' = "generating" =>
                            Simulated(module, current, values, operands, ifs, states[genPos])'
                      /\ genStatus' = "done" => Finished(module)'
    OBVIOUS
  <1>0. DeclarationsKeepTheirTypes
    BY DeclarationsStay
  <1>1. CASE Visit
    BY <1>0, <1>1, GeneratedVisit
  <1>2. CASE StartGeneration
    <2>1. Simulated(module', current', values', operands', ifs', Source!Start)
      BY <1>2, SimulateStart DEF ValuesInvariant
    <2>2. states[genPos'] = Source!Start /\ genStatus' = "generating"
      BY <1>2 DEF StartGeneration, Phases, Interpreted
    <2> QED
      BY <2>1, <2>2, SameSimulated
  <1>3. CASE SkipUnreachable
    <2>1. genStatus = "generating" /\ genStatus' = "generating" /\ module' = module
      BY <1>3 DEF SkipUnreachable, codeVars
    <2>2. Simulated(module, current, values, operands, ifs, states[genPos])
      BY <1>0, <2>1 DEF Generated
    <2>3. Simulated(module', current', values', operands', ifs', states[genPos'])
      BY <1>3, <2>2, SimulateSkip
    <2> QED
      BY <2>1, <2>3, SameSimulated
  <1>4. CASE RejectUnreachable
    BY <1>4 DEF RejectUnreachable, Fail
  <1>5. CASE Finish
    <2>1. genStatus = "generating" /\ module' = module /\ genStatus' # "generating"
      BY <1>5 DEF Finish, Fail, codeVars
    <2>2. Simulated(module, current, values, operands, ifs, states[genPos])
      BY <1>0, <2>1 DEF Generated
    <2>3. genStatus' = "done" => Finished(module)
      BY <1>5, <2>2, SimulateFinish
    <2> QED
      BY <2>1, <2>3, SameFinished
  <1>6. CASE UNCHANGED genVars
    <2>1. /\ genStatus' = genStatus /\ genPos' = genPos /\ module' = module /\ current' = current
          /\ values' = values /\ operands' = operands /\ ifs' = ifs
      BY <1>6 DEF genVars, codeVars, flowVars
    <2>2. /\ genStatus = "generating" =>
                Simulated(module, current, values, operands, ifs, states[genPos])
          /\ genStatus = "done" => Finished(module)
      BY <1>0, <2>1 DEF Generated
    <2>3. /\ genStatus = "generating" =>
                Simulated(module', current', values', operands', ifs', states[genPos'])
          /\ genStatus = "done" => Finished(module')
      BY <2>1, <2>2
    <2> QED
      BY <2>1, <2>3, SameSimulated, SameFinished
  <1> QED
    BY <1>1, <1>2, <1>3, <1>4, <1>5, <1>6 DEF Next, GenStep, Visit, Ended, vars

LEMMA InitFaithful == ExecutionInit => Faithful
  <1> SUFFICES ASSUME ExecutionInit PROVE Faithful
    OBVIOUS
  <1>1. TypeOK
    BY InitType DEF ExecutionInit, BackendInit
  <1>2. PICK states : Interpreted(states)
    BY <1>1, MeaningIsInterpreted DEF ExecutionInit, ExecInit, TypeOK, SemaTypeOK, Meant
  <1>3. genStatus = "idle"
    BY DEF ExecutionInit, BackendInit, Init, GenInit
  <1> QED
    BY <1>2, <1>3 DEF Generated, Faithful

LEMMA FaithfulAlways == ExecutionSpec => []Faithful
  <1>1. Agreement => Phases
    BY DEF Agreement
  <1>2. Promised /\ Promised' /\ Phases /\ Faithful /\ [ExecutionNext]_allVars => Faithful'
    <2> SUFFICES ASSUME Promised, Promised', Phases, Faithful, [ExecutionNext]_allVars
                 PROVE  Faithful'
      OBVIOUS
    <2>1. PICK states : Interpreted(states) /\ Generated(states)
      BY DEF Faithful
    <2>2. [Next]_vars /\ relation' = relation /\ promised' = promised
      BY FrontendStep, RelationStays
    <2>3. prog' = prog
      BY <2>2, ProgramStays DEF Promised
    <2>4. Interpreted(states)'
      BY <2>1, <2>2, <2>3, SameInterpretation
    <2>5. Generated(states)'
      BY <2>1, <2>2, GeneratedStep DEF Promised
    <2> QED
      BY <2>4, <2>5 DEF Faithful
  <1> QED
    BY <1>1, <1>2, InitFaithful, PromisedAlways, AgreementAlways, FrontendRuns, PTL
       DEF ExecutionSpec

-----------------------------------------------------------------------------
(* The machine on the path of the module *)

\* The operations of block b up to count are those before instruction n of its code.
Matches(m, b, t, n, count) ==
    \A j \in 1 .. Len(t), k \in 1 .. Len(m.blocks[b].operations) :
        OperationCodeAt(m, b, t, j, k) => (j < n <=> k <= count)

\* The machine is at point p of the path, and its registers hold what they mean.
Behind(meanings, p) ==
    /\ block = p.block /\ previous = p.from /\ trace = p.events
    /\ \A v \in DOMAIN regs : regs[v] = meanings[v]
    /\ Matches(module, block + 1, llvmBlocks[block + 1], index, p.count)

\* The path of the module, to the end of the program.
Walks(meanings, w, n) ==
    /\ Path(module, meanings, w, n)
    /\ ConstantsMean(module, meanings)
    /\ Stops(module, meanings, w[n], promised)

\* The operation an instruction is lowered from is the only one of its value.
LEMMA DefinerIs ==
  ASSUME NEW m, NEW code, Compiled(m, code), NEW b \in 1 .. Len(m.blocks), NEW t, t = code[b],
         NEW k \in 1 .. Len(m.blocks[b].operations), NEW j \in 1 .. Len(t),
         Defines(t[j], m.blocks[b].operations[k].result)
  PROVE  OperationCodeAt(m, b, t, j, k)
  <1>1. /\ m \in Module /\ Closed(m, b, t) /\ m.blocks[b].terminator.op \in Terminations
        /\ DefinitionsUnique(m)
    BY CompiledBlock DEF Compiled
  <1>2. PICK l \in 1 .. Len(m.blocks[b].operations) :
           Computes(m, b, t, j, l, m.blocks[b].operations[k].result)
    BY <1>1, DefinerPlace
  <1>3. /\ OperationCodeAt(m, b, t, j, l)
        /\ m.blocks[b].operations[l].result = m.blocks[b].operations[k].result
    BY <1>2 DEF Computes
  <1>4. /\ <<b, k>> \in Places(m) /\ OperationAt(m, <<b, k>>) = m.blocks[b].operations[k]
        /\ <<b, l>> \in Places(m) /\ OperationAt(m, <<b, l>>) = m.blocks[b].operations[l]
    BY <1>1, PlaceFacts
  <1>5. <<b, k>> = <<b, l>>
    BY <1>1, <1>3, <1>4 DEF DefinitionsUnique, resultOf
  <1> QED
    BY <1>3, <1>5

\* The operations with a value are the constants and those before count.
LEMMA AvailableIsPassed ==
  ASSUME NEW m, NEW code, Compiled(m, code), NEW b \in 1 .. Len(m.blocks), NEW t, t = code[b],
         NEW n \in 1 .. Len(t), NEW count, Matches(m, b, t, n, count),
         NEW k \in 1 .. Len(m.blocks[b].operations), Available(m, b, t, n, k)
  PROVE  Constant(m.blocks[b].operations[k]) \/ k <= count
  <1> SUFFICES ASSUME ~ Constant(m.blocks[b].operations[k]) PROVE k <= count
    OBVIOUS
  <1>1. PICK j \in 1 .. n - 1 : Defines(t[j], m.blocks[b].operations[k].result)
    BY DEF Available
  <1>2. j \in 1 .. Len(t) /\ j < n
    BY CompiledBlock
  <1>3. OperationCodeAt(m, b, t, j, k)
    BY <1>1, <1>2, DefinerIs
  <1> QED
    BY <1>2, <1>3 DEF Matches

\* The code of a block of a compiled module, where the machine is.
LEMMA PointHere ==
  ASSUME Compiled(module, llvmBlocks), NEW b, NEW t, At(b, t), NEW meanings, NEW w, NEW n,
         Walks(meanings, w, n), NEW i \in 1 .. n, Behind(meanings, w[i])
  PROVE  /\ OperationsOf(module, w[i].block) = module.blocks[b].operations
         /\ TerminatorOf(module, w[i].block) = module.blocks[b].terminator
         /\ Len(module.blocks[b].operations) \in Nat
         /\ w[i].count \in Nat /\ Matches(module, b, t, index, w[i].count)
         /\ n \in Nat
         /\ i < n => Executes(module, meanings, w[i], w[i + 1]) \/ Jumps(module, meanings, w[i], w[i + 1])
         /\ i < n \/ i = n
  <1>1. b \in 1 .. Len(module.blocks) /\ module \in Module /\ t = llvmBlocks[b] /\ b = block + 1
    BY DEF At, Compiled, Structure
  <1>2. Len(module.blocks[b].operations) \in Nat
    BY <1>1, BlockTypes
  <1>3. n \in Nat \ {0} /\ IsPoint(module, w[i])
    BY DEF Walks, Path
  <1>4. i < n => i \in 1 .. n - 1
    BY <1>3
  <1> QED
    BY <1>1, <1>2, <1>3, <1>4
       DEF Walks, Path, IsPoint, Behind, OperationsOf, TerminatorOf

\* The next point of the path is the operation the machine executes.
LEMMA OperationIsNext ==
  ASSUME Compiled(module, llvmBlocks), NEW b, NEW t, At(b, t),
         NEW k \in 1 .. Len(module.blocks[b].operations),
         OperationCodeAt(module, b, t, index, k), NEW meanings, NEW w, NEW n,
         Walks(meanings, w, n), NEW i \in 1 .. n, Behind(meanings, w[i]),
         NEW operation, operation = module.blocks[b].operations[k]
  PROVE  \/ /\ i + 1 \in 1 .. n /\ Evaluates(meanings, previous, operation)
            /\ w[i + 1] = Point(block, k, previous, EventsAfter(trace, operation))
         \/ /\ operation.op = "binary"
            /\ Stuck(operation.kind, meanings[operation.lhs], meanings[operation.rhs])
            /\ promised = Append(trace, UndefinedEvent)
  <1> DEFINE ops == module.blocks[b].operations
             count == w[i].count
  <1>1. /\ OperationsOf(module, w[i].block) = ops /\ Len(ops) \in Nat /\ count \in Nat
        /\ Matches(module, b, t, index, count) /\ n \in Nat /\ (i < n \/ i = n)
        /\ i < n => Executes(module, meanings, w[i], w[i + 1]) \/ Jumps(module, meanings, w[i], w[i + 1])
    BY PointHere
  <1>2. /\ Coded(ops[k]) /\ ~ Constant(ops[k]) /\ index \in 1 .. Len(t)
        /\ b \in 1 .. Len(module.blocks) /\ t = llvmBlocks[b] /\ Len(t) \in Nat
        /\ \A l \in 1 .. k - 1 : Available(module, b, t, index, l)
    BY DEF OperationCodeAt, Coded, Constant, At
  <1>3. ~ (k <= count)
    BY <1>1, <1>2 DEF Matches
  <1>4. Idle(module, w[i].block, count, k)
    <2> SUFFICES ASSUME NEW j \in 1 .. Len(ops), count < j, j < k PROVE Constant(ops[j])
      BY <1>1 DEF Idle
    <2>1. j \in 1 .. k - 1 /\ ~ (j <= count)
      BY <1>1
    <2> QED
      BY <1>1, <1>2, <2>1, AvailableIsPassed
  <1>5. ASSUME NEW l \in 1 .. Len(ops), count < l, Idle(module, w[i].block, count, l),
               ~ Constant(ops[l])
        PROVE  l = k
    <2>1. ~ (l < k)
      BY <1>1, <1>4, <1>5 DEF Idle
    <2>2. ~ (k < l)
      BY <1>1, <1>2, <1>3, <1>5 DEF Idle
    <2> QED
      BY <1>1, <2>1, <2>2
  <1>6. ~ IdleAfter(module, w[i])
    BY <1>1, <1>2, <1>3 DEF IdleAfter, Idle
  <1>7. w[i].block = block /\ w[i].from = previous /\ w[i].events = trace
    BY DEF Behind
  <1> HIDE DEF ops, count
  <1>8. CASE i < n
    <2>1. Executes(module, meanings, w[i], w[i + 1])
      BY <1>1, <1>6, <1>8 DEF Jumps
    <2>2. /\ w[i + 1].count \in 1 .. Len(ops) /\ count < w[i + 1].count
          /\ Idle(module, w[i].block, count, w[i + 1].count)
          /\ Evaluates(meanings, w[i].from, ops[w[i + 1].count])
          /\ w[i + 1] = Point(w[i].block, w[i + 1].count, w[i].from,
                              EventsAfter(w[i].events, ops[w[i + 1].count]))
      BY <1>1, <2>1 DEF Executes, count
    <2>3. ~ Constant(ops[w[i + 1].count])
      BY <2>2 DEF Evaluates, Coded, Constant
    <2>4. w[i + 1].count = k
      BY <1>5, <2>2, <2>3
    <2>5. i + 1 \in 1 .. n
      BY <1>1, <1>8
    <2> QED
      BY <1>7, <2>2, <2>4, <2>5 DEF ops
  <1>9. CASE i = n
    <2>1. GetsStuck(module, meanings, w[i]) /\ promised = Append(w[i].events, UndefinedEvent)
      BY <1>6, <1>9 DEF Walks, Stops, Returns
    <2>2. PICK l \in 1 .. Len(ops) :
             /\ count < l /\ Idle(module, w[i].block, count, l) /\ ops[l].op = "binary"
             /\ Stuck(ops[l].kind, meanings[ops[l].lhs], meanings[ops[l].rhs])
      BY <1>1, <2>1 DEF GetsStuck, count
    <2>3. l = k
      BY <1>5, <2>2 DEF Constant
    <2> QED
      BY <1>7, <2>1, <2>2, <2>3 DEF ops
  <1> QED
    BY <1>1, <1>8, <1>9

\* The next point of the path is behind the jump the machine executes.
LEMMA TerminatorIsNext ==
  ASSUME Compiled(module, llvmBlocks), NEW b, NEW t, At(b, t), index = Len(t),
         NEW meanings, NEW w, NEW n, Walks(meanings, w, n), NEW i \in 1 .. n,
         Behind(meanings, w[i]), NEW terminator, terminator = module.blocks[b].terminator
  PROVE  \/ /\ i + 1 \in 1 .. n /\ Taken(meanings, terminator, w[i + 1].block)
            /\ w[i + 1] = Point(w[i + 1].block, 0, block, trace)
         \/ /\ terminator.op = "return"
            /\ promised = Append(trace, ExitEvent(Wrap(meanings[terminator.value].value, StatusWidth)))
  <1> DEFINE ops == module.blocks[b].operations
             count == w[i].count
  <1>1. /\ OperationsOf(module, w[i].block) = ops /\ Len(ops) \in Nat /\ count \in Nat
        /\ TerminatorOf(module, w[i].block) = terminator
        /\ Matches(module, b, t, index, count) /\ n \in Nat /\ (i < n \/ i = n)
        /\ i < n => Executes(module, meanings, w[i], w[i + 1]) \/ Jumps(module, meanings, w[i], w[i + 1])
    BY PointHere
  <1>2. /\ index \in 1 .. Len(t) /\ b \in 1 .. Len(module.blocks) /\ t = llvmBlocks[b]
        /\ \A l \in 1 .. Len(ops) : Available(module, b, t, index, l)
    BY DEF At, Closed
  <1>3. ASSUME NEW l \in 1 .. Len(ops), count < l
        PROVE  Constant(ops[l])
    <2>1. ~ (l <= count)
      BY <1>1, <1>3
    <2> QED
      BY <1>1, <1>2, <2>1, AvailableIsPassed
  <1>4. w[i].block = block /\ w[i].events = trace
    BY DEF Behind
  <1> HIDE DEF ops, count
  <1>5. CASE i < n
    <2>1. ~ Executes(module, meanings, w[i], w[i + 1])
      BY <1>1, <1>3 DEF Executes, Evaluates, Coded, Constant, count
    <2>2. Jumps(module, meanings, w[i], w[i + 1]) /\ i + 1 \in 1 .. n
      BY <1>1, <1>5, <2>1
    <2> QED
      BY <1>1, <1>4, <2>2 DEF Jumps
  <1>6. CASE i = n
    <2>1. ~ GetsStuck(module, meanings, w[i])
      BY <1>1, <1>3 DEF GetsStuck, Constant, count
    <2>2. PICK status : /\ Returns(module, meanings, w[i], status)
                        /\ promised = Append(w[i].events, ExitEvent(status))
      BY <1>6, <2>1 DEF Walks, Stops
    <2> QED
      BY <1>1, <1>4, <2>2 DEF Returns
  <1> QED
    BY <1>1, <1>5, <1>6

\* Behind an operation are the operations up to it.
LEMMA MatchesOperation ==
  ASSUME NEW m, NEW code, Compiled(m, code), NEW b \in 1 .. Len(m.blocks), NEW t, t = code[b],
         NEW n \in 1 .. Len(t), NEW k \in 1 .. Len(m.blocks[b].operations),
         OperationCodeAt(m, b, t, n, k)
  PROVE  Matches(m, b, t, n + 1, k)
  <1> DEFINE ops == m.blocks[b].operations
  <1>0. /\ m \in Module /\ Len(t) \in Nat /\ Len(ops) \in Nat /\ DefinitionsUnique(m)
        /\ Closed(m, b, t) /\ m.blocks[b].terminator.op \in Terminations
    BY CompiledBlock, BlockTypes DEF Compiled
  <1>1. ASSUME NEW j \in 1 .. Len(t), NEW l \in 1 .. Len(ops), OperationCodeAt(m, b, t, j, l)
        PROVE  Coded(ops[l]) /\ ~ Constant(ops[l]) /\ Defines(t[j], ops[l].result)
    <2>1. PICK operation, inst : operation = ops[l] /\ inst = t[j]
      OBVIOUS
    <2>2. Coded(operation) /\ inst = Translation(m, operation)
      BY <1>1, <2>1 DEF OperationCodeAt
    <2>3. Coded(operation) /\ ~ Constant(operation) /\ Defines(inst, operation.result)
      BY <2>2, TranslationDefines DEF Coded, Constant, Defines
    <2> QED
      BY <2>1, <2>3
  <1>2. ASSUME NEW i \in 1 .. Len(t), NEW j \in 1 .. Len(t), NEW l \in 1 .. Len(ops),
               Defines(t[i], ops[l].result), Defines(t[j], ops[l].result)
        PROVE  i = j
    <2>1. DefinesAt(code, b, i, ops[l].result) /\ DefinesAt(code, b, j, ops[l].result)
      BY <1>2 DEF DefinesAt
    <2> QED
      BY <2>1, OneDefiner
  <1>3. ASSUME NEW i \in 1 .. Len(t), NEW j \in 1 .. Len(t), NEW c \in 1 .. Len(ops),
               NEW l \in 1 .. Len(ops), OperationCodeAt(m, b, t, i, c),
               OperationCodeAt(m, b, t, j, l), c < l
        PROVE  i < j
    <2>1. c \in 1 .. l - 1
      BY <1>0, <1>3
    <2>2. Available(m, b, t, j, c)
      BY <1>3, <2>1 DEF OperationCodeAt
    <2>3. PICK h \in 1 .. j - 1 : Defines(t[h], ops[c].result)
      BY <1>1, <1>3, <2>2 DEF Available
    <2>4. h \in 1 .. Len(t) /\ h < j
      BY <1>0, <2>3
    <2>5. h = i
      BY <1>1, <1>2, <1>3, <2>3, <2>4
    <2> QED
      BY <2>4, <2>5
  <1>4. ASSUME NEW j \in 1 .. Len(t), OperationCodeAt(m, b, t, j, k)
        PROVE  n = j
    BY <1>1, <1>2, <1>4
  <1>5. ASSUME NEW l \in 1 .. Len(ops), OperationCodeAt(m, b, t, n, l)
        PROVE  l = k
    <2>1. ~ (l < k) /\ ~ (k < l)
      BY <1>0, <1>3, <1>5
    <2> QED
      BY <1>0, <2>1
  <1>6. ASSUME NEW j \in 1 .. Len(t), NEW l \in 1 .. Len(ops), OperationCodeAt(m, b, t, j, l)
        PROVE  j < n + 1 <=> l <= k
    <2>1. l < k => j < n
      BY <1>3, <1>6
    <2>2. k < l => n < j
      BY <1>3, <1>6
    <2>3. l = k => n = j
      BY <1>4, <1>6
    <2> QED
      BY <1>0, <2>1, <2>2, <2>3
  <1> QED
    BY <1>6 DEF Matches

\* An instruction that is no operation changes nothing.
LEMMA MatchesOther ==
  ASSUME NEW m, NEW b, NEW t, NEW n \in Nat, NEW count, Matches(m, b, t, n, count),
         t[n].inst \notin Operations
  PROVE  Matches(m, b, t, n + 1, count)
  <1> SUFFICES ASSUME NEW j \in 1 .. Len(t), NEW k \in 1 .. Len(m.blocks[b].operations),
                      OperationCodeAt(m, b, t, j, k)
               PROVE  j < n + 1 <=> k <= count
    BY DEF Matches
  <1>1. PICK operation : Coded(operation) /\ t[j] = Translation(m, operation)
    BY DEF OperationCodeAt
  <1>2. t[j].inst \in Operations
    BY <1>1, TranslationDefines DEF Operations
  <1>3. j # n
    BY <1>2
  <1>4. j < n <=> k <= count
    BY DEF Matches
  <1> QED
    BY <1>3, <1>4

LEMMA MatchesFirst ==
  ASSUME NEW m, NEW b, NEW t
  PROVE  Matches(m, b, t, 1, 0)
  BY DEF Matches

-----------------------------------------------------------------------------
(* The values the machine computes with *)

\* A register that has been written, or a constant, holds what it means.
LEMMA DefinitionMeans ==
  ASSUME module \in Module, DefinitionsUnique(module), Typed(module, regs),
         NEW meanings, ConstantsMean(module, meanings),
         \A x \in DOMAIN regs : regs[x] = meanings[x],
         NEW v, NEW q \in Definitions(module, v), NEW operation,
         operation = OperationAt(module, q), Constant(operation) \/ v \in DOMAIN regs
  PROVE  /\ Operand(ValueOperand(module, v)) = meanings[v]
         /\ meanings[v].type = RunType(typeOf(operation))
  <1>1. q \in Places(module) /\ resultOf(operation) = v
    BY DEF Definitions
  <1>2. PICK b, k : b = q[1] /\ k = q[2]
    OBVIOUS
  <1>3. /\ b \in 1 .. Len(module.blocks) /\ k \in 1 .. Len(module.blocks[b].operations)
        /\ operation \in Operation /\ operation = module.blocks[b].operations[k]
    BY <1>1, <1>2, PlaceFacts DEF OperationAt
  <1>4. ValueOperand(module, v) = ResultOperand(operation)
    BY DefinedOperand
  <1>5. ConstantMeans(meanings, operation)
    <2>1. b - 1 \in 0 .. Len(module.blocks) - 1 /\ (b - 1) + 1 = b
      BY <1>3, BlockTypes
    <2> QED
      BY <1>3, <2>1 DEF ConstantsMean, OperationsOf
  <1>6. operation.result = v
    BY <1>1 DEF resultOf
  <1>7. CASE operation.op = "int"
    <2>1. operation.type = I64
      BY <1>3, <1>7 DEF Operation
    <2>2. RunType(typeOf(operation)) = "i64"
      BY <1>7, <2>1 DEF RunType, typeOf, I64, Scalar
    <2>3. Operand(ConstantInt(operation.value)) = Int64(operation.value)
      BY DEF Operand, ConstantInt
    <2>4. meanings[v] = Int64(operation.value) /\ Int64(operation.value).type = "i64"
      BY <1>5, <1>6, <1>7 DEF ConstantMeans, Int64
    <2> QED
      BY <1>4, <1>7, <2>2, <2>3, <2>4 DEF ResultOperand
  <1>8. CASE operation.op = "float"
    <2>1. operation.type = F64
      BY <1>3, <1>8 DEF Operation
    <2>2. RunType(typeOf(operation)) = "f64"
      BY <1>8, <2>1 DEF RunType, typeOf, F64, Scalar
    <2>3. Operand(ConstantFP) = Double
      BY DEF Operand, ConstantFP
    <2>4. meanings[v] = Double /\ Double.type = "f64"
      BY <1>5, <1>6, <1>8 DEF ConstantMeans, Double
    <2> QED
      BY <1>4, <1>8, <2>2, <2>3, <2>4 DEF ResultOperand
  <1>9. CASE ~ Constant(operation)
    <2>1. v \in DOMAIN regs
      BY <1>9
    <2>2. regs[v].type = RunType(typeOf(operation)) /\ regs[v] = meanings[v]
      BY <1>1, <2>1 DEF Typed
    <2>3. ValueOperand(module, v) = Register(v)
      BY <1>1, <1>4, <1>9 DEF ResultOperand, Constant
    <2>4. Operand(Register(v)) = regs[v]
      BY DEF Operand, Register
    <2> QED
      BY <2>2, <2>3, <2>4
  <1> QED
    BY <1>7, <1>8, <1>9 DEF Constant

\* All registers of a block that has been left have a value.
LEMMA BlockHasValues ==
  ASSUME NEW m, NEW code, Compiled(m, code), NEW known, NEW v, NEW q \in Definitions(m, v),
         BlockKnown(code, q[1], known)
  PROVE  Constant(OperationAt(m, q)) \/ v \in known
  <1>1. PICK operation, b, k : operation = OperationAt(m, q) /\ b = q[1] /\ k = q[2]
    OBVIOUS
  <1>2. q \in Places(m) /\ resultOf(operation) = v /\ m \in Module
    BY <1>1 DEF Definitions, Compiled, Structure
  <1>3. /\ b \in 1 .. Len(m.blocks) /\ k \in 1 .. Len(m.blocks[b].operations)
        /\ operation = m.blocks[b].operations[k]
    BY <1>1, <1>2, PlaceFacts DEF OperationAt
  <1>4. CASE ~ Constant(operation)
    <2>1. PICK t : t = code[b]
      OBVIOUS
    <2>2. Closed(m, b, t) /\ Len(t) \in Nat
      BY <1>3, <2>1, CompiledBlock
    <2>3. Available(m, b, t, Len(t), k)
      BY <1>3, <2>2 DEF Closed
    <2>4. PICK j \in 1 .. Len(t) - 1 : Defines(t[j], operation.result)
      BY <1>3, <1>4, <2>3 DEF Available
    <2>5. DefinesAt(code, b, j, v) /\ j \in Nat
      BY <1>2, <2>1, <2>2, <2>4 DEF DefinesAt, resultOf
    <2> QED
      BY <1>1, <2>5 DEF BlockKnown
  <1> QED
    BY <1>1, <1>4

\* What dominates the block the machine is in has been executed.
LEMMA DominatorKnown ==
  ASSUME Compiled(module, llvmBlocks), TypedInvariant, execStatus = "running", NEW b, NEW t,
         At(b, t), NEW c \in 1 .. Len(module.blocks), c # b, Dominates(module, c - 1, block)
  PROVE  BlockKnown(llvmBlocks, c, DOMAIN regs)
  <1>1. CameFrom(module, llvmBlocks, block, previous, DOMAIN regs)
    BY DEF TypedInvariant
  <1>2. /\ Structure(module) /\ Len(module.blocks) \in Nat /\ block = b - 1
        /\ b \in 1 .. Len(module.blocks)
    BY CompiledBlock DEF Compiled, At
  <1>3. c - 1 \in Nat /\ block \in Nat /\ c - 1 # block /\ (c - 1) + 1 = c
    BY <1>2
  <1>4. previous # NoBlock
    <2> SUFFICES ASSUME previous = NoBlock PROVE FALSE
      OBVIOUS
    <2>1. block = 0
      BY <1>1 DEF CameFrom
    <2>2. c - 1 <= 0
      BY <1>3, <2>1, DominatesOrder
    <2> QED
      BY <1>3, <2>1, <2>2
  <1>5. previous \in PredecessorsOf(module, block)
    BY <1>1, <1>4 DEF CameFrom
  <1>6. Dominates(module, c - 1, previous)
    BY <1>2, <1>3, <1>5, DominatesPredecessor
  <1>7. \A d \in Nat : Dominates(module, d, previous) => BlockKnown(llvmBlocks, d + 1, DOMAIN regs)
    BY <1>1, <1>4 DEF CameFrom
  <1> QED
    BY <1>3, <1>6, <1>7

\* What is used where the machine is, and defined before, is known.
LEMMA UseIsKnown ==
  ASSUME Compiled(module, llvmBlocks), TypedInvariant, execStatus = "running", NEW b, NEW t,
         At(b, t), NEW l \in Nat,
         \A k \in 1 .. Len(module.blocks[b].operations) : k < l => Available(module, b, t, index, k),
         NEW v, DefinedBefore(module, v, <<b, l>>)
  PROVE  \E q \in Definitions(module, v) : Constant(OperationAt(module, q)) \/ v \in DOMAIN regs
  <1>1. PICK q \in Definitions(module, v) :
           IF q[1] = b THEN q[2] < l ELSE Dominates(module, q[1] - 1, b - 1)
    BY DEF DefinedBefore
  <1>2. q \in Places(module) /\ resultOf(OperationAt(module, q)) = v /\ module \in Module
    BY DEF Definitions, Compiled, Structure
  <1>3. PICK c, k : c = q[1] /\ k = q[2]
    OBVIOUS
  <1>4. /\ c \in 1 .. Len(module.blocks) /\ k \in 1 .. Len(module.blocks[c].operations)
        /\ OperationAt(module, q) = module.blocks[c].operations[k]
    BY <1>2, <1>3, PlaceFacts DEF OperationAt
  <1>5. CASE c = b
    <2>1. Available(module, b, t, index, k)
      BY <1>1, <1>3, <1>4, <1>5
    <2>2. CASE ~ Constant(OperationAt(module, q))
      <3>1. PICK j \in 1 .. index - 1 : Defines(t[j], v)
        BY <1>2, <1>4, <1>5, <2>1, <2>2 DEF Available, resultOf
      <3>2. /\ t = llvmBlocks[block + 1] /\ index \in 1 .. Len(t) /\ Len(t) \in Nat
            /\ Ready(llvmBlocks, block + 1, index, DOMAIN regs)
        BY DEF At, TypedInvariant
      <3>3. j \in 1 .. Len(t) /\ j \in Nat /\ j < index
        BY <3>1, <3>2
      <3>4. DefinesAt(llvmBlocks, block + 1, j, v)
        BY <3>1, <3>2, <3>3 DEF DefinesAt
      <3> QED
        BY <3>2, <3>3, <3>4 DEF Ready
    <2> QED
      BY <2>2
  <1>6. CASE c # b
    <2>1. Dominates(module, c - 1, block)
      BY <1>1, <1>3, <1>6 DEF At
    <2>2. BlockKnown(llvmBlocks, q[1], DOMAIN regs)
      BY <1>3, <1>4, <1>6, <2>1, DominatorKnown
    <2> QED
      BY <2>2, BlockHasValues
  <1> QED
    BY <1>5, <1>6

\* An operand holds what the value means, and has the type of the value.
LEMMA OperandMeans ==
  ASSUME Promised, Compiled(module, llvmBlocks), TypedInvariant, execStatus = "running", NEW b,
         NEW t, At(b, t), NEW l \in Nat,
         \A k \in 1 .. Len(module.blocks[b].operations) : k < l => Available(module, b, t, index, k),
         NEW v, DefinedBefore(module, v, <<b, l>>), NEW meanings, ConstantsMean(module, meanings),
         \A x \in DOMAIN regs : regs[x] = meanings[x]
  PROVE  /\ Operand(ValueOperand(module, v)) = meanings[v]
         /\ \A r \in Definitions(module, v) :
               meanings[v].type = RunType(typeOf(OperationAt(module, r)))
  <1>1. PICK q \in Definitions(module, v) : Constant(OperationAt(module, q)) \/ v \in DOMAIN regs
    BY UseIsKnown
  <1>2. module \in Module /\ DefinitionsUnique(module) /\ Typed(module, regs)
    BY DEF Compiled, Structure, TypedInvariant
  <1>3. /\ Operand(ValueOperand(module, v)) = meanings[v]
        /\ meanings[v].type = RunType(typeOf(OperationAt(module, q)))
    BY <1>1, <1>2, DefinitionMeans
  <1>4. \A r \in Definitions(module, v) : r = q
    BY <1>2 DEF Definitions, DefinitionsUnique
  <1> QED
    BY <1>3, <1>4

\* The instruction executed is operation k of block b.
Executed(b, t, k) ==
    /\ At(b, t)
    /\ k \in 1 .. Len(module.blocks[b].operations)
    /\ OperationCodeAt(module, b, t, index, k)
    /\ LoweredFrom(<<b, k>>)

LEMMA ExecutedHere ==
  ASSUME Promised, LowInvariant, CodeInvariant, ExecInvariant, execStatus = "running",
         Inst.inst \in Operations
  PROVE  \E b, t, k : Executed(b, t, k)
  <1>0. module \in Module
    BY HandedOver
  <1>1. PICK b, t : At(b, t)
    BY MachineAt
  <1>2. /\ Closed(module, b, t) /\ module.blocks[b].terminator.op \in Terminations
        /\ index \in 1 .. Len(t) /\ Inst = t[index] /\ b \in 1 .. Len(module.blocks)
        /\ b = block + 1
    BY <1>1 DEF At
  <1>3. PICK k \in 1 .. Len(module.blocks[b].operations) : OperationCodeAt(module, b, t, index, k)
    BY <1>2, InstructionPlace
  <1>4. PICK operation : operation = module.blocks[b].operations[k]
    OBVIOUS
  <1>5. PICK p : p = <<b, k>>
    OBVIOUS
  <1>6. p \in Places(module) /\ OperationAt(module, p) = operation /\ operation \in Operation
    BY <1>0, <1>2, <1>4, <1>5, PlaceFacts
  <1>7. /\ Coded(operation) /\ t[index] = Translation(module, operation)
        /\ operation.op = "tensor" => StorageSize(operation.type) # Refused
    BY <1>3, <1>4 DEF OperationCodeAt
  <1>8. Inst.result = operation.result
    BY <1>2, <1>7, TranslationDefines
  <1>9. p[1] = block + 1
    BY <1>2, <1>5
  <1>10. LoweredFrom(p)
    BY <1>2, <1>6, <1>7, <1>8, <1>9 DEF LoweredFrom, resultOf
  <1> QED
    BY <1>1, <1>3, <1>5, <1>10 DEF Executed

\* The operation executed.
LEMMA ExecutedOperation ==
  ASSUME NEW b, NEW t, NEW k, NEW operation, Promised, Executed(b, t, k),
         operation = module.blocks[b].operations[k]
  PROVE  /\ Inst = Translation(module, operation) /\ Inst.result = operation.result
         /\ operation \in Operation /\ OperationSound(module, <<b, k>>)
         /\ OperationAt(module, <<b, k>>) = operation /\ <<b, k>> \in Places(module)
         /\ Inst.inst = "alloc" => operation.op = "tensor"
         /\ Inst.inst \in {"binary", "compare", "phi"} => operation.op = Inst.inst
         /\ k \in Nat
         /\ \A l \in 1 .. Len(module.blocks[b].operations) :
               l < k => Available(module, b, t, index, l)
  <1>1. PICK p : p = <<b, k>>
    OBVIOUS
  <1>2. LoweredFrom(p) /\ OperationAt(module, p) = operation
    BY <1>1 DEF Executed, OperationAt
  <1>3. OperationSound(module, p)
    BY <1>2, HandedOver DEF ModuleSound, LoweredFrom
  <1>4. /\ Inst.inst = "alloc" => operation.op = "tensor"
        /\ Inst.inst \in {"binary", "compare", "phi"} => operation.op = Inst.inst
    BY <1>2, KindHere
  <1>5. /\ k \in Nat
        /\ \A l \in 1 .. Len(module.blocks[b].operations) :
               l < k => Available(module, b, t, index, l)
    BY DEF Executed, OperationCodeAt
  <1> QED
    BY <1>1, <1>2, <1>3, <1>4, <1>5 DEF LoweredFrom, resultOf

\* The part of it that tells which instruction is executed.
LEMMA ExecutedInstruction ==
  ASSUME NEW b, NEW t, NEW k, NEW operation, Promised, Executed(b, t, k),
         operation = module.blocks[b].operations[k]
  PROVE  /\ Inst = Translation(module, operation) /\ Inst.result = operation.result
         /\ operation \in Operation
         /\ Inst.inst = "alloc" => operation.op = "tensor"
         /\ Inst.inst \in {"binary", "compare", "phi"} => operation.op = Inst.inst
  <1>1. PICK p : p = <<b, k>>
    OBVIOUS
  <1>2. LoweredFrom(p) /\ OperationAt(module, p) = operation
    BY <1>1 DEF Executed, OperationAt
  <1>3. /\ Inst.inst = "alloc" => operation.op = "tensor"
        /\ Inst.inst \in {"binary", "compare", "phi"} => operation.op = Inst.inst
    BY <1>2, KindHere
  <1> QED
    BY <1>2, <1>3 DEF LoweredFrom, resultOf

-----------------------------------------------------------------------------
(* The steps of the machine *)

KeepsUp ==
    \E meanings, w, n : /\ Walks(meanings, w, n)
                        /\ \E i \in 1 .. n : Behind(meanings, w[i])

LEMMA WalksStay ==
  ASSUME relation' = relation, promised' = promised, module' = module, NEW meanings, NEW w, NEW n,
         Walks(meanings, w, n)
  PROVE  Walks(meanings, w, n)'
  BY SamePath DEF Walks

\* The machine goes on in its block.
LEMMA NextFollows ==
  ASSUME UNCHANGED <<vars, lowVars>>, Step, NEW b, NEW t, At(b, t), NEW meanings, NEW w, NEW n,
         Walks(meanings, w, n), NEW i \in 1 .. n, NEW p, p = w[i], p.block = block,
         p.from = previous, trace' = p.events, \A v \in DOMAIN regs' : regs'[v] = meanings[v],
         Matches(module, b, t, index + 1, p.count)
  PROVE  KeepsUp'
  <1>1. /\ module' = module /\ llvmBlocks' = llvmBlocks /\ block' = block /\ previous' = previous
        /\ relation' = relation /\ promised' = promised /\ index' = index + 1
    BY DEF vars, genVars, codeVars, lowVars, Step
  <1>2. Walks(meanings, w, n)'
    BY <1>1, WalksStay
  <1>3. b = block + 1 /\ t = llvmBlocks[block + 1]
    BY DEF At
  <1>4. Matches(module', block' + 1, llvmBlocks'[block' + 1], index', p.count)
    BY <1>1, <1>3
  <1>5. Behind(meanings, p)'
    BY <1>1, <1>4 DEF Behind
  <1> QED
    BY <1>2, <1>5 DEF KeepsUp

LEMMA OtherFollows ==
  ASSUME Promised, LowInvariant, CodeInvariant, ExecInvariant, KeepsUp, ExecSlot \/ ExecFree,
         UNCHANGED <<vars, lowVars>>
  PROVE  KeepsUp' /\ execStatus' = "running"
  <1>1. /\ execStatus = "running" /\ Inst.inst \in {"slot", "free"} /\ Step
        /\ regs' = regs /\ trace' = trace
    BY DEF ExecSlot, ExecFree, Executing
  <1>2. PICK b, t : At(b, t)
    BY <1>1, MachineAt
  <1>3. PICK meanings, w, n : Walks(meanings, w, n) /\ \E i \in 1 .. n : Behind(meanings, w[i])
    BY DEF KeepsUp
  <1>4. PICK i \in 1 .. n : Behind(meanings, w[i])
    BY <1>3
  <1>5. PICK p : p = w[i]
    OBVIOUS
  <1>6. t[index].inst \notin Operations /\ index \in Nat /\ b = block + 1 /\ t = llvmBlocks[block + 1]
    BY <1>1, <1>2 DEF At, Operations
  <1>7. /\ p.block = block /\ p.from = previous /\ trace = p.events
        /\ \A v \in DOMAIN regs : regs[v] = meanings[v]
        /\ Matches(module, b, t, index, p.count)
    BY <1>4, <1>5, <1>6 DEF Behind
  <1>8. Matches(module, b, t, index + 1, p.count)
    BY <1>6, <1>7, MatchesOther
  <1> QED
    BY <1>1, <1>2, <1>3, <1>5, <1>7, <1>8, NextFollows DEF Step

\* The register of an operation gets what its value means.
LEMMA OperationFollows ==
  ASSUME UNCHANGED <<vars, lowVars>>, Step, Compiled(module, llvmBlocks), NEW b, NEW t, NEW k,
         Executed(b, t, k), NEW meanings, NEW w, NEW n, Walks(meanings, w, n), NEW i \in 1 .. n,
         Behind(meanings, w[i]), NEW operation, i + 1 \in 1 .. n,
         w[i + 1] = Point(block, k, previous, EventsAfter(trace, operation)),
         Set(Inst.result, meanings[Inst.result]), trace' = EventsAfter(trace, operation)
  PROVE  KeepsUp'
  <1>1. At(b, t) /\ OperationCodeAt(module, b, t, index, k)
        /\ k \in 1 .. Len(module.blocks[b].operations)
    BY DEF Executed
  <1>2. b \in 1 .. Len(module.blocks) /\ t = llvmBlocks[b] /\ index \in 1 .. Len(t)
    BY <1>1 DEF At
  <1>3. Matches(module, b, t, index + 1, k)
    BY <1>1, <1>2, MatchesOperation
  <1>4. \A v \in DOMAIN regs' : regs'[v] = meanings[v]
    <2>1. \A v \in DOMAIN regs : regs[v] = meanings[v]
      BY DEF Behind
    <2> QED
      BY <2>1 DEF Set, With
  <1>5. PICK p : p = w[i + 1]
    OBVIOUS
  <1>6. p.block = block /\ p.from = previous /\ trace' = p.events /\ p.count = k
    BY <1>5 DEF Point
  <1> QED
    BY <1>1, <1>3, <1>4, <1>5, <1>6, NextFollows

LEMMA AllocFollows ==
  ASSUME Promised, LowInvariant, CodeInvariant, ExecInvariant, KeepsUp, ExecAlloc,
         UNCHANGED <<vars, lowVars>>
  PROVE  KeepsUp' /\ execStatus' = "running"
  <1>1. /\ execStatus = "running" /\ Inst.inst = "alloc" /\ Step
        /\ Set(Inst.result, TensorValue) /\ trace' = Append(trace, AllocationEvent(Inst.size))
    BY DEF ExecAlloc, Executing, TensorValue, AllocationEvent
  <1>2. PICK b, t, k : Executed(b, t, k)
    BY <1>1, ExecutedHere DEF Operations
  <1>3. PICK operation : operation = module.blocks[b].operations[k]
    OBVIOUS
  <1>4. /\ operation.op = "tensor" /\ Inst = Translation(module, operation)
        /\ Inst.result = operation.result
    BY <1>1, <1>2, <1>3, ExecutedInstruction
  <1>5. Inst.size = StorageSize(operation.type)
    BY <1>4 DEF Translation, AllocInst
  <1>6. PICK meanings, w, n : Walks(meanings, w, n) /\ \E i \in 1 .. n : Behind(meanings, w[i])
    BY DEF KeepsUp
  <1>7. PICK i \in 1 .. n : Behind(meanings, w[i])
    BY <1>6
  <1>8. Compiled(module, llvmBlocks)
    BY <1>1, MachineAt
  <1>9. /\ i + 1 \in 1 .. n /\ Evaluates(meanings, previous, operation)
        /\ w[i + 1] = Point(block, k, previous, EventsAfter(trace, operation))
    BY <1>2, <1>3, <1>4, <1>6, <1>7, <1>8, OperationIsNext DEF Executed
  <1>10. trace' = EventsAfter(trace, operation)
    BY <1>1, <1>4, <1>5 DEF EventsAfter
  <1>11. Set(Inst.result, meanings[Inst.result])
    BY <1>1, <1>4, <1>9 DEF Evaluates
  <1> QED
    BY <1>1, <1>2, <1>6, <1>7, <1>8, <1>9, <1>10, <1>11, OperationFollows DEF Step

\* The machine and the path at an operation.
LEMMA AtOperation ==
  ASSUME Promised, LowInvariant, CodeInvariant, ExecInvariant, KeepsUp, execStatus = "running",
         Inst.inst \in Operations
  PROVE  \E b, t, k, meanings, w, n, i :
            /\ Compiled(module, llvmBlocks) /\ Executed(b, t, k) /\ Walks(meanings, w, n)
            /\ i \in 1 .. n /\ Behind(meanings, w[i])
  <1>1. PICK b, t, k : Executed(b, t, k)
    BY ExecutedHere
  <1>2. PICK meanings, w, n : Walks(meanings, w, n) /\ \E i \in 1 .. n : Behind(meanings, w[i])
    BY DEF KeepsUp
  <1>3. PICK i \in 1 .. n : Behind(meanings, w[i])
    BY <1>2
  <1>4. Compiled(module, llvmBlocks)
    BY MachineAt
  <1> QED
    BY <1>1, <1>2, <1>3, <1>4

\* The operands of arithmetic and comparisons, which are numbers.
LEMMA OperandsMean ==
  ASSUME Promised, ArithmeticIsNumeric, TypedInvariant, execStatus = "running",
         Compiled(module, llvmBlocks), NEW b, NEW t, NEW k, Executed(b, t, k), NEW meanings, NEW w,
         NEW n, Walks(meanings, w, n), NEW p, Behind(meanings, p), NEW operation,
         operation = module.blocks[b].operations[k], operation.op \in {"binary", "compare"},
         NEW type, type = IF operation.op = "binary" THEN operation.type ELSE operation.operandType
  PROVE  /\ type \in {I64, F64}
         /\ \A v \in {operation.lhs, operation.rhs} :
               /\ Operand(ValueOperand(module, v)) = meanings[v]
               /\ meanings[v].type = IF Floating(type) THEN "f64" ELSE "i64"
  <1>1. /\ operation \in Operation /\ OperationSound(module, <<b, k>>)
        /\ OperationAt(module, <<b, k>>) = operation /\ k \in Nat
        /\ \A l \in 1 .. Len(module.blocks[b].operations) :
               l < k => Available(module, b, t, index, l)
    BY ExecutedOperation
  <1>2. At(b, t) /\ k \in 1 .. Len(module.blocks[b].operations)
    BY DEF Executed
  <1>3. type \in {I64, F64}
    <2>1. operation \in NumericOperations
      <3>1. b \in 1 .. Len(module.blocks)
        BY <1>2 DEF At
      <3> QED
        BY <1>2, <3>1 DEF ArithmeticIsNumeric, OperationsIn
    <2> QED
      BY <2>1 DEF NumericOperations, Numeric
  <1>4. OperandsOf(operation) = {operation.lhs, operation.rhs}
    BY DEF OperandsOf
  <1>5. ASSUME NEW v \in OperandsOf(operation)
        PROVE  /\ Operand(ValueOperand(module, v)) = meanings[v]
               /\ meanings[v].type = IF Floating(type) THEN "f64" ELSE "i64"
    <2>1. DefinedBefore(module, v, <<b, k>>)
      BY <1>1, <1>5 DEF OperationSound
    <2>2. ConstantsMean(module, meanings) /\ \A x \in DOMAIN regs : regs[x] = meanings[x]
      BY DEF Walks, Behind
    <2>3. /\ Operand(ValueOperand(module, v)) = meanings[v]
          /\ \A r \in Definitions(module, v) :
                meanings[v].type = RunType(typeOf(OperationAt(module, r)))
      BY <1>1, <1>2, <2>1, <2>2, OperandMeans
    <2>4. OperandOK(module, v, type, <<b, k>>)
      <3>1. OperationOK(module, <<b, k>>)
        BY <1>1 DEF OperationSound
      <3> QED
        BY <1>1, <1>5, <3>1 DEF OperationOK
    <2>5. PICK r \in Definitions(module, v) : typeOf(OperationAt(module, r)) = type
      BY <2>4 DEF OperandOK
    <2>6. RunType(type) = IF Floating(type) THEN "f64" ELSE "i64"
      BY <1>3 DEF RunType, Floating, I64, F64, Scalar
    <2> QED
      BY <2>3, <2>5, <2>6
  <1> QED
    BY <1>3, <1>4, <1>5

\* What the machine computes of two numbers is what the source means.
LEMMA ArithmeticMeans ==
  ASSUME NEW kind \in Arithmetic, NEW lhs, NEW rhs, NEW floating \in BOOLEAN,
         lhs.type = IF floating THEN "f64" ELSE "i64"
  PROVE  /\ Stuck(kind, lhs, rhs) <=> ~ floating /\ DivisionUndefined(kind, lhs.value, rhs.value)
         /\ Combined(kind, lhs, rhs)
               = IF floating THEN Double ELSE Int64(Compute(kind, lhs.value, rhs.value))
  <1>1. kind \notin Comparison
    BY DEF Arithmetic, Comparison
  <1> QED
    BY <1>1 DEF Stuck, Combined

LEMMA ComparisonMeans ==
  ASSUME NEW kind \in Comparison, NEW lhs, NEW rhs, NEW floating \in BOOLEAN,
         lhs.type = IF floating THEN "f64" ELSE "i64", NEW related,
         related = IF lhs.type = "i64" THEN IntegerRelation(lhs.value, rhs.value) ELSE relation
  PROVE  Combined(kind, lhs, rhs) = Int1(Holds(Predicate(kind, floating), related))
  <1>1. related = Compared(lhs, rhs)
    BY DEF Compared
  <1>2. ~ floating => related # "unordered"
    BY DEF IntegerRelation
  <1>3. /\ Predicate(kind, floating).kind = kind
        /\ Predicate(kind, floating).ordered <=> ~ floating \/ kind # "NotEqual"
    BY DEF Predicate
  <1>4. Holds(Predicate(kind, floating), related)
           <=> \/ Compared(lhs, rhs) \in Satisfying(kind)
               \/ Compared(lhs, rhs) = "unordered" /\ kind = "NotEqual"
    BY <1>1, <1>2, <1>3 DEF Holds
  <1> QED
    BY <1>4 DEF Combined, Int1

\* The program is over, and all it means has been observed.
Complete == trace = promised

LEMMA BinaryFollows ==
  ASSUME Promised, LowInvariant, CodeInvariant, ExecInvariant, ArithmeticIsNumeric, TypedInvariant,
         KeepsUp, ExecBinary, UNCHANGED <<vars, lowVars>>
  PROVE  \/ KeepsUp' /\ execStatus' = "running"
         \/ execStatus' = "ended" /\ Complete'
  <1>1. execStatus = "running" /\ Inst.inst = "binary"
    BY DEF ExecBinary, Executing
  <1>2. PICK b, t, k, meanings, w, n, i :
           /\ Compiled(module, llvmBlocks) /\ Executed(b, t, k) /\ Walks(meanings, w, n)
           /\ i \in 1 .. n /\ Behind(meanings, w[i])
    BY <1>1, AtOperation DEF Operations
  <1>3. PICK operation : operation = module.blocks[b].operations[k]
    OBVIOUS
  <1>4. /\ operation.op = "binary" /\ Inst = Translation(module, operation)
        /\ Inst.result = operation.result /\ operation \in Operation
    BY <1>1, <1>2, <1>3, ExecutedInstruction
  <1>5. PICK lhs, rhs, floating :
           lhs = meanings[operation.lhs] /\ rhs = meanings[operation.rhs] /\ floating = Inst.floating
    OBVIOUS
  <1>6. /\ Inst.kind = operation.kind /\ floating = Floating(operation.type)
        /\ Inst.lhs = ValueOperand(module, operation.lhs)
        /\ Inst.rhs = ValueOperand(module, operation.rhs)
    BY <1>4, <1>5 DEF Translation, ArithmeticInst
  <1>7. /\ Operand(Inst.lhs) = lhs /\ Operand(Inst.rhs) = rhs
        /\ lhs.type = IF floating THEN "f64" ELSE "i64"
    <2>1. /\ Operand(ValueOperand(module, operation.lhs)) = meanings[operation.lhs]
          /\ Operand(ValueOperand(module, operation.rhs)) = meanings[operation.rhs]
          /\ meanings[operation.lhs].type = IF Floating(operation.type) THEN "f64" ELSE "i64"
      BY <1>1, <1>2, <1>3, <1>4, OperandsMean
    <2> QED
      BY <1>5, <1>6, <2>1
  <1>8. operation.kind \in Arithmetic
    BY <1>4 DEF Operation
  <1>9. floating \in BOOLEAN
    BY <1>6 DEF Floating
  <1>10. /\ Stuck(operation.kind, lhs, rhs)
              <=> ~ floating /\ DivisionUndefined(operation.kind, lhs.value, rhs.value)
         /\ Combined(operation.kind, lhs, rhs)
               = IF floating THEN Double ELSE Int64(Compute(operation.kind, lhs.value, rhs.value))
    BY <1>7, <1>8, <1>9, ArithmeticMeans
  <1>11. \/ /\ i + 1 \in 1 .. n /\ Evaluates(meanings, previous, operation)
            /\ w[i + 1] = Point(block, k, previous, EventsAfter(trace, operation))
         \/ /\ Stuck(operation.kind, lhs, rhs)
            /\ promised = Append(trace, UndefinedEvent)
    BY <1>2, <1>3, <1>5, OperationIsNext DEF Executed
  <1>12. Evaluates(meanings, previous, operation) =>
            /\ ~ Stuck(operation.kind, lhs, rhs)
            /\ meanings[Inst.result] = Combined(operation.kind, lhs, rhs)
    BY <1>4, <1>5 DEF Evaluates
  <1>13. CASE Stuck(operation.kind, lhs, rhs)
    <2>1. Stop(UndefinedEvent)
      BY <1>5, <1>6, <1>7, <1>10, <1>13 DEF ExecBinary, UndefinedEvent
    <2>2. promised = Append(trace, UndefinedEvent)
      BY <1>11, <1>12, <1>13
    <2> QED
      BY <2>1, <2>2 DEF Stop, Complete
  <1>14. CASE ~ Stuck(operation.kind, lhs, rhs)
    <2>1. /\ i + 1 \in 1 .. n /\ Evaluates(meanings, previous, operation)
          /\ w[i + 1] = Point(block, k, previous, EventsAfter(trace, operation))
      BY <1>11, <1>14
    <2>2. /\ Step /\ trace' = trace
          /\ Set(Inst.result, IF floating THEN Double
                              ELSE Int64(Compute(operation.kind, lhs.value, rhs.value)))
      BY <1>5, <1>6, <1>7, <1>10, <1>14 DEF ExecBinary
    <2>3. Set(Inst.result, meanings[Inst.result])
      BY <1>10, <1>12, <2>1, <2>2
    <2>4. trace' = EventsAfter(trace, operation)
      BY <1>4, <2>2 DEF EventsAfter
    <2>5. KeepsUp'
      BY <1>2, <2>1, <2>2, <2>3, <2>4, OperationFollows
    <2> QED
      BY <1>1, <2>2, <2>5 DEF Step
  <1> QED
    BY <1>13, <1>14

LEMMA CompareFollows ==
  ASSUME Promised, LowInvariant, CodeInvariant, ExecInvariant, ArithmeticIsNumeric, TypedInvariant,
         KeepsUp, ExecCompare, UNCHANGED <<vars, lowVars>>
  PROVE  KeepsUp' /\ execStatus' = "running"
  <1>1. execStatus = "running" /\ Inst.inst = "compare" /\ Step /\ trace' = trace
    BY DEF ExecCompare, Executing
  <1>2. PICK b, t, k, meanings, w, n, i :
           /\ Compiled(module, llvmBlocks) /\ Executed(b, t, k) /\ Walks(meanings, w, n)
           /\ i \in 1 .. n /\ Behind(meanings, w[i])
    BY <1>1, AtOperation DEF Operations
  <1>3. PICK operation : operation = module.blocks[b].operations[k]
    OBVIOUS
  <1>4. /\ operation.op = "compare" /\ Inst = Translation(module, operation)
        /\ Inst.result = operation.result /\ operation \in Operation
    BY <1>1, <1>2, <1>3, ExecutedInstruction
  <1>5. PICK lhs, rhs, floating :
           /\ lhs = meanings[operation.lhs] /\ rhs = meanings[operation.rhs]
           /\ floating = Floating(operation.operandType)
    OBVIOUS
  <1>6. /\ Inst.predicate = Predicate(operation.kind, floating)
        /\ Inst.lhs = ValueOperand(module, operation.lhs)
        /\ Inst.rhs = ValueOperand(module, operation.rhs)
    BY <1>4, <1>5 DEF Translation, CompareInst
  <1>7. /\ Operand(Inst.lhs) = lhs /\ Operand(Inst.rhs) = rhs
        /\ lhs.type = IF floating THEN "f64" ELSE "i64"
    BY <1>1, <1>2, <1>3, <1>4, <1>5, <1>6, OperandsMean
  <1>8. operation.kind \in Comparison
    BY <1>4 DEF Operation
  <1>9. floating \in BOOLEAN
    BY <1>5 DEF Floating
  <1>10. PICK related :
            related = IF lhs.type = "i64" THEN IntegerRelation(lhs.value, rhs.value) ELSE relation
    OBVIOUS
  <1>11. Set(Inst.result, Int1(Holds(Predicate(operation.kind, floating), related)))
    BY <1>6, <1>7, <1>10 DEF ExecCompare
  <1>12. Combined(operation.kind, lhs, rhs)
            = Int1(Holds(Predicate(operation.kind, floating), related))
    BY <1>7, <1>8, <1>9, <1>10, ComparisonMeans
  <1>13. /\ i + 1 \in 1 .. n /\ Evaluates(meanings, previous, operation)
         /\ w[i + 1] = Point(block, k, previous, EventsAfter(trace, operation))
    BY <1>2, <1>3, <1>4, OperationIsNext DEF Executed
  <1>14. Set(Inst.result, meanings[Inst.result])
    BY <1>4, <1>5, <1>11, <1>12, <1>13 DEF Evaluates
  <1>15. trace' = EventsAfter(trace, operation)
    BY <1>1, <1>4 DEF EventsAfter
  <1>16. KeepsUp'
    BY <1>1, <1>2, <1>13, <1>14, <1>15, OperationFollows
  <1> QED
    BY <1>1, <1>16 DEF Step

LEMMA PhiFollows ==
  ASSUME Promised, LowInvariant, CodeInvariant, ExecInvariant, TypedInvariant, KeepsUp, ExecPhi,
         UNCHANGED <<vars, lowVars>>
  PROVE  KeepsUp' /\ execStatus' = "running"
  <1>1. execStatus = "running" /\ Inst.inst = "phi" /\ Step /\ trace' = trace
    BY DEF ExecPhi, Executing
  <1>2. PICK b, t, k, meanings, w, n, a :
           /\ Compiled(module, llvmBlocks) /\ Executed(b, t, k) /\ Walks(meanings, w, n)
           /\ a \in 1 .. n /\ Behind(meanings, w[a])
    BY <1>1, AtOperation DEF Operations
  <1>3. PICK operation, p : operation = module.blocks[b].operations[k] /\ p = <<b, k>>
    OBVIOUS
  <1>4. /\ operation.op = "phi" /\ Inst = Translation(module, operation)
        /\ Inst.result = operation.result /\ operation \in Operation
        /\ p \in Places(module) /\ OperationAt(module, p) = operation
        /\ OperationSound(module, p)
    BY <1>1, <1>2, <1>3, ExecutedOperation
  <1>5. Inst.incoming = [i \in DOMAIN operation.incoming |->
                           [operation.incoming[i] EXCEPT !.value = ValueOperand(module, @)]]
    BY <1>4 DEF Translation, PhiInst
  <1>6. PICK i \in DOMAIN operation.incoming :
           /\ Inst.incoming[i].predecessor = previous
           /\ Set(Inst.result, Operand(Inst.incoming[i].value))
    BY <1>5 DEF ExecPhi
  <1>7. PICK e, v : e = operation.incoming[i].predecessor /\ v = operation.incoming[i].value
    OBVIOUS
  <1>8. /\ Structure(module) /\ DefinitionsUnique(module) /\ module \in Module
        /\ Len(module.blocks) \in Nat
    BY <1>4, HandedOver DEF ModuleSound
  <1>9. Inst.incoming[i].predecessor = e /\ Inst.incoming[i].value = ValueOperand(module, v)
    <2>1. operation.incoming \in Seq([predecessor : BlockId, value : ValueId])
      BY <1>4 DEF Operation
    <2>2. operation.incoming[i] \in [predecessor : BlockId, value : ValueId]
      BY <2>1, ElementOfSeq, LenProperties
    <2>3. Inst.incoming[i] = [operation.incoming[i] EXCEPT !.value = ValueOperand(module, @)]
      BY <1>5
    <2> QED
      BY <1>7, <2>2, <2>3
  <1>10. e # NoBlock /\ e = previous
    BY <1>4, <1>6, <1>7, <1>8, <1>9, IncomingEdge
  <1>11. PICK q \in Definitions(module, v) : Dominates(module, q[1] - 1, e)
    BY <1>4, <1>7, <1>8, IncomingDefined
  <1>12. /\ Typed(module, regs)
         /\ \A d \in Nat : Dominates(module, d, e) => BlockKnown(llvmBlocks, d + 1, DOMAIN regs)
    BY <1>1, <1>10 DEF TypedInvariant, CameFrom
  <1>13. BlockKnown(llvmBlocks, q[1], DOMAIN regs)
    <2>1. q[1] \in 1 .. Len(module.blocks)
      BY <1>8, PlaceFacts DEF Definitions
    <2>2. q[1] - 1 \in Nat /\ (q[1] - 1) + 1 = q[1]
      BY <1>8, <2>1
    <2> QED
      BY <1>11, <1>12, <2>2
  <1>14. Constant(OperationAt(module, q)) \/ v \in DOMAIN regs
    BY <1>2, <1>13, BlockHasValues
  <1>15. ConstantsMean(module, meanings) /\ \A x \in DOMAIN regs : regs[x] = meanings[x]
    BY <1>2 DEF Walks, Behind
  <1>16. Operand(ValueOperand(module, v)) = meanings[v]
    BY <1>8, <1>12, <1>14, <1>15, DefinitionMeans
  <1>17. /\ a + 1 \in 1 .. n /\ Evaluates(meanings, previous, operation)
         /\ w[a + 1] = Point(block, k, previous, EventsAfter(trace, operation))
    BY <1>2, <1>3, <1>4, OperationIsNext DEF Executed
  <1>18. meanings[operation.result] = meanings[v]
    BY <1>4, <1>7, <1>10, <1>17 DEF Evaluates
  <1>19. Set(Inst.result, meanings[Inst.result])
    BY <1>4, <1>6, <1>9, <1>16, <1>18
  <1>20. trace' = EventsAfter(trace, operation)
    BY <1>1, <1>4 DEF EventsAfter
  <1>21. KeepsUp'
    BY <1>1, <1>2, <1>17, <1>19, <1>20, OperationFollows
  <1> QED
    BY <1>1, <1>21 DEF Step

\* The machine and the path at the end of a block.
LEMMA AtTerminator ==
  ASSUME Promised, LowInvariant, CodeInvariant, ExecInvariant, TypedInvariant, KeepsUp,
         execStatus = "running", Inst.inst \in Terminations
  PROVE  \E b, t, meanings, w, n, i :
            /\ Compiled(module, llvmBlocks) /\ At(b, t) /\ Walks(meanings, w, n)
            /\ i \in 1 .. n /\ Behind(meanings, w[i]) /\ index = Len(t)
            /\ module.blocks[b].terminator.op = Inst.inst
            /\ Inst = Closing(module, module.blocks[b].terminator)
            /\ \A v \in Uses(module.blocks[b].terminator) :
                  Operand(ValueOperand(module, v)) = meanings[v]
  <1>1. PICK b, t : At(b, t)
    BY MachineAt
  <1>2. PICK meanings, w, n : Walks(meanings, w, n) /\ \E i \in 1 .. n : Behind(meanings, w[i])
    BY DEF KeepsUp
  <1>3. PICK i \in 1 .. n : Behind(meanings, w[i])
    BY <1>2
  <1>4. Compiled(module, llvmBlocks)
    BY MachineAt
  <1>5. /\ index = Len(t) /\ module.blocks[b].terminator.op = Inst.inst
        /\ Inst = Closing(module, module.blocks[b].terminator)
    <2>1. Inst = t[index]
      BY <1>1 DEF At
    <2> QED
      BY <1>1, <2>1, ClosingHere
  <1>6. ASSUME NEW v \in Uses(module.blocks[b].terminator)
        PROVE  Operand(ValueOperand(module, v)) = meanings[v]
    <2>1. /\ b \in 1 .. Len(module.blocks) /\ Closed(module, b, t)
          /\ Len(module.blocks[b].operations) \in Nat
      BY <1>1, HandedOver, BlockTypes DEF At
    <2>2. TerminatorSound(module, b)
      BY <2>1, HandedOver DEF ModuleSound
    <2>3. PICK l : l = Len(module.blocks[b].operations) + 1
      OBVIOUS
    <2>4. DefinedBefore(module, v, <<b, l>>)
      BY <1>6, <2>2, <2>3 DEF TerminatorSound
    <2>5. /\ l \in Nat
          /\ \A k \in 1 .. Len(module.blocks[b].operations) : Available(module, b, t, index, k)
      BY <1>5, <2>1, <2>3 DEF Closed
    <2>6. ConstantsMean(module, meanings) /\ \A x \in DOMAIN regs : regs[x] = meanings[x]
      BY <1>2, <1>3 DEF Walks, Behind
    <2> QED
      BY <1>1, <1>4, <2>4, <2>5, <2>6, OperandMeans
  <1> QED
    BY <1>1, <1>2, <1>3, <1>4, <1>5, <1>6

LEMMA JumpsFollow ==
  ASSUME Promised, LowInvariant, CodeInvariant, ExecInvariant, TypedInvariant, KeepsUp,
         ExecBranch \/ ExecCondBranch, UNCHANGED <<vars, lowVars>>
  PROVE  KeepsUp' /\ execStatus' = "running"
  <1>1. execStatus = "running" /\ Inst.inst \in {"branch", "condbranch"}
    BY DEF ExecBranch, ExecCondBranch, Executing
  <1>2. PICK b, t, meanings, w, n, i :
            /\ Compiled(module, llvmBlocks) /\ At(b, t) /\ Walks(meanings, w, n)
            /\ i \in 1 .. n /\ Behind(meanings, w[i]) /\ index = Len(t)
            /\ module.blocks[b].terminator.op = Inst.inst
            /\ Inst = Closing(module, module.blocks[b].terminator)
            /\ \A v \in Uses(module.blocks[b].terminator) :
                  Operand(ValueOperand(module, v)) = meanings[v]
    BY <1>1, AtTerminator DEF Terminations
  <1>3. PICK terminator : terminator = module.blocks[b].terminator
    OBVIOUS
  <1>4. PICK p : p = w[i + 1]
    OBVIOUS
  <1>5. /\ i + 1 \in 1 .. n /\ Taken(meanings, terminator, p.block)
        /\ p = Point(p.block, 0, block, trace)
    BY <1>1, <1>2, <1>3, <1>4, TerminatorIsNext
  <1>6. Jump(p.block)
    <2>1. CASE ExecBranch
      <3>1. terminator.op = "branch" /\ Jump(Inst.target)
        BY <1>2, <1>3, <2>1 DEF ExecBranch, Executing
      <3>2. Inst.target = terminator.target
        BY <1>2, <1>3, <3>1 DEF Closing, BranchInst
      <3> QED
        BY <1>5, <3>1, <3>2 DEF Taken
    <2>2. CASE ExecCondBranch
      <3>1. terminator.op = "condbranch"
            /\ Jump(IF Operand(Inst.condition).value = 1 THEN Inst.trueTarget
                                                         ELSE Inst.falseTarget)
        BY <1>2, <1>3, <2>2 DEF ExecCondBranch, Executing
      <3>2. /\ Inst.trueTarget = terminator.trueTarget /\ Inst.falseTarget = terminator.falseTarget
            /\ Inst.condition = ValueOperand(module, terminator.condition)
        BY <1>2, <1>3, <3>1 DEF Closing, CondBranchInst
      <3>3. Operand(Inst.condition) = meanings[terminator.condition]
        BY <1>2, <1>3, <3>1, <3>2 DEF Uses
      <3> QED
        BY <1>5, <3>1, <3>2, <3>3 DEF Taken
    <2> QED
      BY <2>1, <2>2
  <1>7. /\ module' = module /\ llvmBlocks' = llvmBlocks /\ block' = p.block /\ index' = 1
        /\ previous' = block /\ relation' = relation /\ promised' = promised
        /\ execStatus' = execStatus /\ regs' = regs /\ trace' = trace
    BY <1>6 DEF Jump, vars, genVars, codeVars, lowVars
  <1>8. p.count = 0 /\ p.from = block /\ p.events = trace
    BY <1>5 DEF Point
  <1>9. Matches(module', block' + 1, llvmBlocks'[block' + 1], index', p.count)
    BY <1>7, <1>8, MatchesFirst
  <1>10. Behind(meanings, p)'
    <2>1. \A v \in DOMAIN regs : regs[v] = meanings[v]
      BY <1>2 DEF Behind
    <2> QED
      BY <1>7, <1>8, <1>9, <2>1 DEF Behind
  <1>11. Walks(meanings, w, n)'
    BY <1>2, <1>7, WalksStay
  <1> QED
    BY <1>1, <1>4, <1>5, <1>7, <1>10, <1>11 DEF KeepsUp

LEMMA ReturnCompletes ==
  ASSUME Promised, LowInvariant, CodeInvariant, ExecInvariant, TypedInvariant, KeepsUp,
         ExecReturn, UNCHANGED <<vars, lowVars>>
  PROVE  execStatus' = "ended" /\ Complete'
  <1>1. execStatus = "running" /\ Inst.inst = "return"
    BY DEF ExecReturn, Executing
  <1>2. PICK b, t, meanings, w, n, i :
            /\ Compiled(module, llvmBlocks) /\ At(b, t) /\ Walks(meanings, w, n)
            /\ i \in 1 .. n /\ Behind(meanings, w[i]) /\ index = Len(t)
            /\ module.blocks[b].terminator.op = Inst.inst
            /\ Inst = Closing(module, module.blocks[b].terminator)
            /\ \A v \in Uses(module.blocks[b].terminator) :
                  Operand(ValueOperand(module, v)) = meanings[v]
    BY <1>1, AtTerminator DEF Terminations
  <1>3. PICK terminator : terminator = module.blocks[b].terminator
    OBVIOUS
  <1>4. Inst.value = ValueOperand(module, terminator.value)
    BY <1>1, <1>2, <1>3 DEF Closing, ReturnInst
  <1>5. Operand(Inst.value) = meanings[terminator.value]
    BY <1>1, <1>2, <1>3, <1>4 DEF Uses
  <1>6. ~ Taken(meanings, terminator, w[i + 1].block)
    BY <1>1, <1>2, <1>3 DEF Taken
  <1>7. promised = Append(trace, ExitEvent(Wrap(meanings[terminator.value].value, StatusWidth)))
    BY <1>2, <1>3, <1>6, TerminatorIsNext
  <1>8. Stop(ExitEvent(Wrap(meanings[terminator.value].value, StatusWidth)))
    BY <1>5 DEF ExecReturn, ExitEvent
  <1> QED
    BY <1>7, <1>8 DEF Stop, Complete

\* No operation the backend does not implement is in a module it has lowered.
LEMMA CompiledIsSupported ==
  ASSUME NEW m, NEW code, Compiled(m, code)
  PROVE  Supported(m)
  <1> SUFFICES ASSUME NEW id \in 0 .. Len(m.blocks) - 1, NEW k \in 1 .. Len(OperationsOf(m, id))
               PROVE  OperationsOf(m, id)[k].op \notin {"matmul", "relu"}
    BY DEF Supported
  <1>1. PICK b, t : b = id + 1 /\ t = code[b]
    OBVIOUS
  <1>2. b \in 1 .. Len(m.blocks)
    <2>1. Len(m.blocks) \in Nat
      BY BlockTypes DEF Compiled, Structure
    <2> QED
      BY <1>1, <2>1
  <1>3. Closed(m, b, t) /\ Len(t) \in Nat
    BY <1>1, <1>2, CompiledBlock
  <1>4. k \in 1 .. Len(m.blocks[b].operations) /\ OperationsOf(m, id)[k] = m.blocks[b].operations[k]
    BY <1>1 DEF OperationsOf
  <1>5. Available(m, b, t, Len(t), k)
    BY <1>3, <1>4 DEF Closed
  <1>6. CASE \E j \in 1 .. Len(t) - 1 : Defines(t[j], m.blocks[b].operations[k].result)
    <2>1. PICK j \in 1 .. Len(t) : Defines(t[j], m.blocks[b].operations[k].result)
      BY <1>3, <1>6
    <2>2. OperationCodeAt(m, b, t, j, k)
      BY <1>1, <1>2, <1>4, <2>1, DefinerIs
    <2> QED
      BY <1>4, <2>2 DEF OperationCodeAt, Coded
  <1>7. CASE Constant(m.blocks[b].operations[k])
    BY <1>4, <1>7 DEF Constant
  <1> QED
    BY <1>5, <1>6, <1>7 DEF Available

LEMMA StartFollows ==
  ASSUME Promised, LowInvariant, CodeInvariant, ExecInvariant, TypedInvariant, Faithful,
         DeclarationsKeepTheirTypes, trace = <<>>, StartMain, UNCHANGED <<vars, lowVars>>
  PROVE  KeepsUp' /\ execStatus' = "running"
  <1>1. /\ module' = module /\ llvmBlocks' = llvmBlocks /\ lowStatus = "done"
        /\ execStatus = "idle" /\ execStatus' = "running" /\ block' = module.entry
        /\ relation' = relation /\ promised' = promised
        /\ UNCHANGED <<index, previous, regs, trace>>
    BY DEF vars, genVars, codeVars, lowVars, StartMain
  <1>2. index = 1 /\ DOMAIN regs = {} /\ previous = NoBlock
    BY <1>1 DEF ExecInvariant, TypedInvariant
  <1>3. module.entry = 0 /\ genStatus = "done"
    BY <1>1 DEF LowInvariant, Promised, ValuesInvariant, Progress, GraphInvariant
  <1>4. Supported(module)
    BY <1>1, DoneIsCompiled, CompiledIsSupported
  <1>5. Finished(module)
    BY <1>3, <1>4 DEF Faithful, Generated
  <1>6. PICK meanings, w, n : Walks(meanings, w, n)
    BY <1>5 DEF Finished, Walks
  <1>7. 1 \in 1 .. n /\ w[1] = Point(0, 0, NoBlock, <<>>)
    BY <1>6 DEF Walks, Path
  <1>8. PICK p : p = w[1]
    OBVIOUS
  <1>9. p.block = 0 /\ p.count = 0 /\ p.from = NoBlock /\ p.events = <<>>
    BY <1>7, <1>8 DEF Point
  <1>10. Matches(module', block' + 1, llvmBlocks'[block' + 1], index', p.count)
    BY <1>1, <1>2, <1>9, MatchesFirst
  <1>11. Behind(meanings, p)'
    BY <1>1, <1>2, <1>3, <1>9, <1>10 DEF Behind
  <1>12. Walks(meanings, w, n)'
    BY <1>1, <1>6, WalksStay
  <1> QED
    BY <1>1, <1>7, <1>8, <1>11, <1>12 DEF KeepsUp

-----------------------------------------------------------------------------
(* The program does what its source means *)

Obeys ==
    /\ execStatus = "idle" => trace = <<>>
    /\ DeclarationsKeepTheirTypes => /\ execStatus = "running" => KeepsUp
                                     /\ execStatus = "ended" => Complete

LEMMA ExecutionFollows ==
  ASSUME Promised, LowInvariant, CodeInvariant, ExecInvariant, ArithmeticIsNumeric, TypedInvariant,
         Faithful, Obeys, ExecStep, UNCHANGED <<vars, lowVars>>
  PROVE  Obeys'
  <1>1. execStatus' # "idle"
    BY DEF ExecStep, StartMain, ExecSlot, ExecAlloc, ExecBinary, ExecCompare, ExecPhi, ExecFree,
           ExecBranch, ExecCondBranch, ExecReturn, Step, Stop, Jump, Executing
  <1>2. DeclarationsKeepTheirTypes' <=> DeclarationsKeepTheirTypes
    <2>1. prog' = prog /\ symbols' = symbols
      BY DEF vars, semaVars
    <2> QED
      BY <2>1 DEF DeclarationsKeepTheirTypes, LookupType
  <1>3. ASSUME DeclarationsKeepTheirTypes
        PROVE  \/ KeepsUp' /\ execStatus' = "running"
               \/ execStatus' = "ended" /\ Complete'
    <2>1. CASE StartMain
      <3>1. trace = <<>>
        BY <2>1 DEF StartMain, Obeys
      <3> QED
        BY <1>3, <2>1, <3>1, StartFollows
    <2>2. CASE ~ StartMain
      <3>1. execStatus = "running"
        BY <2>2 DEF ExecStep, ExecSlot, ExecAlloc, ExecBinary, ExecCompare, ExecPhi, ExecFree,
                    ExecBranch, ExecCondBranch, ExecReturn, Executing
      <3>2. KeepsUp
        BY <1>3, <3>1 DEF Obeys
      <3> QED
        BY <2>2, <3>2, OtherFollows, AllocFollows, BinaryFollows, CompareFollows, PhiFollows,
           JumpsFollow, ReturnCompletes DEF ExecStep
    <2> QED
      BY <2>1, <2>2
  <1> QED
    BY <1>1, <1>2, <1>3 DEF Obeys

LEMMA RestObeys ==
  ASSUME Promised, Phases, LowInvariant, TypedInvariant, Obeys, [ExecutionNext]_allVars,
         UNCHANGED execVars
  PROVE  Obeys'
  <1>1. /\ execStatus' = execStatus /\ trace' = trace /\ block' = block /\ index' = index
        /\ previous' = previous /\ regs' = regs /\ relation' = relation /\ promised' = promised
    BY DEF execVars, pathVars
  <1>2. CASE execStatus = "idle"
    BY <1>1, <1>2 DEF Obeys
  <1>3. CASE execStatus # "idle"
    <2>1. lowStatus = "done" /\ genStatus = "done"
      BY <1>3 DEF TypedInvariant, LowInvariant
    <2>2. module' = module /\ llvmBlocks' = llvmBlocks
      BY <2>1, CodeRests DEF lowVars
    <2>3. DeclarationsKeepTheirTypes' <=> DeclarationsKeepTheirTypes
      BY <2>1, FrontendStep, DeclarationsStay DEF Promised
    <2>4. ASSUME NEW meanings, NEW w, NEW n, Walks(meanings, w, n)
          PROVE  Walks(meanings, w, n)'
      BY <1>1, <2>2, <2>4, WalksStay
    <2>5. ASSUME NEW meanings, NEW p, Behind(meanings, p)
          PROVE  Behind(meanings, p)'
      BY <1>1, <2>2, <2>5 DEF Behind
    <2>6. KeepsUp => KeepsUp'
      BY <2>4, <2>5 DEF KeepsUp
    <2> QED
      BY <1>1, <1>3, <2>3, <2>6 DEF Obeys, Complete
  <1> QED
    BY <1>2, <1>3

LEMMA ObeysAlways == ExecutionSpec => []Obeys
  <1>1. ExecutionInit => Obeys
    BY DEF ExecutionInit, ExecInit, Obeys
  <1>2. /\ Promised /\ Phases /\ LowInvariant /\ CodeInvariant /\ ExecInvariant
        /\ ArithmeticIsNumeric /\ TypedInvariant /\ Faithful /\ Obeys /\ [ExecutionNext]_allVars
        => Obeys'
    BY ExecutionFollows, RestObeys DEF ExecutionNext, ExecEnded, allVars
  <1>3. Agreement => Phases
    BY DEF Agreement
  <1> QED
    BY <1>1, <1>2, <1>3, PromisedAlways, LoweringAlways, CodeAlways, ExecutionAlways, NumericAlways,
       TypedAlways, FaithfulAlways, AgreementAlways, FrontendRuns, PTL DEF ExecutionSpec

\* What has been observed of a program that runs is a beginning of what it means.
Begun ==
    DeclarationsKeepTheirTypes /\ execStatus \in {"running", "ended"} =>
        IsList(promised) /\ Begins(trace, promised)

LEMMA ObservedIsPromised ==
  ASSUME ExecInvariant, Obeys
  PROVE  Begun
  <1> SUFFICES ASSUME DeclarationsKeepTheirTypes, execStatus \in {"running", "ended"}
               PROVE  IsList(promised) /\ Begins(trace, promised)
    BY DEF Begun
  <1>0. IsList(trace)
    BY DEF ExecInvariant
  <1>1. CASE execStatus = "ended"
    BY <1>0, <1>1, BeginsAppend DEF Obeys, Complete
  <1>2. CASE execStatus = "running"
    <2>1. PICK meanings, w, n : Walks(meanings, w, n) /\ \E i \in 1 .. n : Behind(meanings, w[i])
      BY <1>2 DEF Obeys, KeepsUp
    <2>2. PICK i \in 1 .. n : Behind(meanings, w[i])
      BY <2>1
    <2>3. PICK last, event : last = w[n].events /\ promised = Append(last, event)
      BY <2>1 DEF Walks, Stops
    <2>4. IsList(last) /\ Begins(trace, last)
      <3>1. n \in 1 .. n
        BY <2>1 DEF Walks, Path
      <3> QED
        BY <2>1, <2>2, <2>3, <3>1 DEF Walks, Path, IsPoint, Behind
    <2>5. IsList(promised) /\ Begins(last, promised)
      BY <2>3, <2>4, BeginsAppend
    <2> QED
      BY <1>0, <2>4, <2>5, BeginsTransitive
  <1> QED
    BY <1>1, <1>2

-----------------------------------------------------------------------------
(* Refusals *)

\* A generator that has failed rests.
LEMMA FailureRests ==
  ASSUME TypeOK, [Next]_vars, genStatus = "failed"
  PROVE  UNCHANGED genVars
  <1>1. ~ Visit /\ ~ StartGeneration /\ ~ SkipUnreachable /\ ~ RejectUnreachable /\ ~ Finish
    BY VisitsGenerate DEF StartGeneration, SkipUnreachable, RejectUnreachable, Finish
  <1> QED
    BY <1>1 DEF Next, GenStep, Visit, Ended, vars

LEMMA RefusalStays ==
  ASSUME TypeOK, [ExecutionNext]_allVars, RefusedByCompiler
  PROVE  RefusedByCompiler'
  <1>1. [Next]_vars
    BY FrontendStep
  <1>2. CASE semaStatus = "rejected"
    <2>1. ~ SemaStep
      BY <1>2, StepVisits, AnalysisEnds DEF TypeOK
    <2>2. UNCHANGED semaVars
      BY <1>1, <2>1, AnalyserAlone
    <2> QED
      BY <1>2, <2>2 DEF semaVars, RefusedByCompiler
  <1>3. CASE genStatus = "failed"
    BY <1>1, <1>3, FailureRests DEF genVars, RefusedByCompiler
  <1>4. CASE lowStatus = "failed"
    <2>1. ~ LowerStep
      BY <1>4 DEF LowerStep, StartLowering, LowerTensorDecl, LowerConstant, LowerBinary,
                  LowerCompare, LowerPhi, LowerTensorOperation, LowerBranch, LowerCondBranch,
                  LowerReturn, FinishLowering, LoweringOf, LoweringTerminator
    <2>2. UNCHANGED lowVars
      BY <2>1 DEF ExecutionNext, ExecEnded, allVars
    <2> QED
      BY <1>4, <2>2 DEF lowVars, RefusedByCompiler
  <1> QED
    BY <1>2, <1>3, <1>4 DEF RefusedByCompiler

\* A program whose code is done has not been refused.
LEMMA CodeIsAccepted ==
  ASSUME Phases, LowInvariant, lowStatus = "done"
  PROVE  ~ RefusedByCompiler
  BY DEF Phases, LowInvariant, RefusedByCompiler

\* Only a program that has not started is refused.
LEMMA RefusedInTime ==
  ASSUME Promised, Phases, LowInvariant, TypedInvariant, Obeys, [ExecutionNext]_allVars,
         UNCHANGED execVars, ~ RefusedByCompiler, RefusedByCompiler'
  PROVE  trace = <<>>
  <1> SUFFICES ASSUME lowStatus = "done" PROVE FALSE
    BY DEF Obeys, TypedInvariant
  <1>1. genStatus = "done" /\ [Next]_vars
    BY FrontendStep DEF LowInvariant
  <1>2. UNCHANGED <<semaVars, genVars, lowVars>>
    BY <1>1, AnalyserRests, GeneratorRests, CodeRests DEF Promised
  <1> QED
    BY <1>2 DEF semaVars, genVars, lowVars, RefusedByCompiler

-----------------------------------------------------------------------------
(* Execution implements SourceMeaning *)

LEMMA TraceExtends == ExecStep => trace' = trace \/ \E event : trace' = Append(trace, event)
  BY DEF ExecStep, StartMain, ExecSlot, ExecAlloc, ExecBinary, ExecCompare, ExecPhi, ExecFree,
         ExecBranch, ExecCondBranch, ExecReturn, Step, Stop, Jump

LEMMA ExecutionObserves ==
  ASSUME Phases, LowInvariant, ExecInvariant, Begun', ExecStep, UNCHANGED <<vars, lowVars>>
  PROVE  UNCHANGED Source!vars \/ (DeclarationsKeepTheirTypes => Source!Observe)
  <1>1. UNCHANGED <<prog, symbols, semaStatus, genStatus, lowStatus>>
    BY DEF vars, semaVars, genVars, lowVars
  <1>2. relation' = relation /\ promised' = promised
    BY RelationStays DEF ExecutionNext
  <1>3. RefusedByCompiler' = RefusedByCompiler
    BY <1>1 DEF RefusedByCompiler
  <1>4. CASE trace' = trace
    BY <1>1, <1>2, <1>3, <1>4 DEF Source!vars
  <1>5. ASSUME NEW event, trace' = Append(trace, event), DeclarationsKeepTheirTypes
        PROVE  Source!Observe
    <2>1. lowStatus = "done"
      BY DEF ExecStep, StartMain, ExecSlot, ExecAlloc, ExecBinary, ExecCompare, ExecPhi, ExecFree,
             ExecBranch, ExecCondBranch, ExecReturn, Executing, ExecInvariant
    <2>2. ~ RefusedByCompiler
      BY <2>1, CodeIsAccepted
    <2>3. execStatus' \in {"running", "ended"}
      BY DEF ExecStep, StartMain, ExecSlot, ExecAlloc, ExecBinary, ExecCompare, ExecPhi, ExecFree,
             ExecBranch, ExecCondBranch, ExecReturn, Step, Stop, Jump, Executing
    <2>4. DeclarationsKeepTheirTypes'
      BY <1>1, <1>5 DEF DeclarationsKeepTheirTypes, LookupType
    <2>5. IsList(promised) /\ Begins(Append(trace, event), promised)
      BY <1>2, <1>5, <2>3, <2>4 DEF Begun
    <2>6. /\ IsList(trace) /\ Len(trace) \in Nat /\ Len(promised) \in Nat
          /\ Len(Append(trace, event)) = Len(trace) + 1
          /\ Append(trace, event)[Len(trace) + 1] = event
      BY <2>5, ListAppend, ListLength DEF ExecInvariant
    <2>7. Len(trace) < Len(promised) /\ promised[Len(trace) + 1] = event
      BY <2>5, <2>6 DEF Begins
    <2> QED
      BY <1>1, <1>2, <1>3, <1>5, <2>2, <2>7 DEF Source!Observe
  <1> QED
    BY <1>4, <1>5, TraceExtends

LEMMA CompilerRefuses ==
  ASSUME Promised, Phases, LowInvariant, TypedInvariant, Obeys, [ExecutionNext]_allVars,
         UNCHANGED execVars
  PROVE  UNCHANGED Source!vars \/ Source!Refuse
  <1>1. relation' = relation /\ promised' = promised /\ trace' = trace
    BY DEF execVars
  <1>2. prog' = prog
    BY FrontendStep, ProgramStays DEF Promised
  <1>3. CASE RefusedByCompiler' = RefusedByCompiler
    BY <1>1, <1>2, <1>3 DEF Source!vars
  <1>4. CASE RefusedByCompiler' # RefusedByCompiler
    <2>1. ~ RefusedByCompiler /\ RefusedByCompiler'
      BY <1>4, RefusalStays DEF Promised, RefusedByCompiler
    <2>2. trace = <<>>
      BY <2>1, RefusedInTime
    <2>3. RefusedByCompiler' = TRUE
      BY <2>1 DEF RefusedByCompiler
    <2> QED
      BY <1>1, <1>2, <2>1, <2>2, <2>3 DEF Source!Refuse
  <1> QED
    BY <1>3, <1>4

\* A step of the compiler or of the program, as the source sees it.
SourceStep == Source!Refuse \/ (DeclarationsKeepTheirTypes => Source!Observe)

(* The safety part of SourceIsImplemented.  Whatever the compiler and the  *)
(* program it compiles do is a step of the source, or nothing that can be  *)
(* observed: only a program that has done nothing yet is refused, and what *)
(* a program does next is what its source means next.  A program that      *)
(* declares one name with two tensor types is the exception: LookupType    *)
(* has the last of them only, and generates both declarations with it.     *)
THEOREM SourceIsFollowed == ExecutionSpec => Source!Init /\ [][SourceStep]_(Source!vars)
  <1>1. ExecutionInit => Source!Init
    <2> SUFFICES ASSUME ExecutionInit PROVE Source!Init
      OBVIOUS
    <2>1. promised = Source!Meaning /\ trace = <<>>
      BY DEF ExecutionInit, ExecInit
    <2>2. RefusedByCompiler = FALSE
      BY DEF ExecutionInit, BackendInit, Init, SemaInit, GenInit, LowInit, RefusedByCompiler
    <2> QED
      BY <2>1, <2>2 DEF Source!Init
  <1>2. /\ Promised /\ Phases /\ LowInvariant /\ ExecInvariant /\ TypedInvariant /\ Obeys /\ Begun'
        /\ [ExecutionNext]_allVars
        => [SourceStep]_(Source!vars)
    BY ExecutionObserves, CompilerRefuses DEF ExecutionNext, ExecEnded, allVars, SourceStep
  <1>3. Agreement => Phases
    BY DEF Agreement
  <1>4. ExecInvariant /\ Obeys => Begun
    BY ObservedIsPromised
  <1> QED
    BY <1>1, <1>2, <1>3, <1>4, PromisedAlways, LoweringAlways, ExecutionAlways, TypedAlways,
       ObeysAlways, AgreementAlways, FrontendRuns, PTL DEF ExecutionSpec

(* A program whose declarations keep their types is compiled as the source *)
(* says: every behaviour of the compiler and of the program is one of the  *)
(* source, up to the fairness of SourceIsImplemented.                      *)
THEOREM SourceIsRefined ==
  ExecutionSpec /\ [](semaStatus = "accepted" => DeclarationsKeepTheirTypes)
     => Source!Init /\ [][Source!Observe \/ Source!Refuse]_(Source!vars)
  <1>1. /\ Promised /\ Phases /\ LowInvariant /\ ExecInvariant /\ TypedInvariant /\ Obeys /\ Begun'
        /\ semaStatus = "accepted" => DeclarationsKeepTheirTypes
        /\ [ExecutionNext]_allVars
        => [Source!Observe \/ Source!Refuse]_(Source!vars)
    <2> SUFFICES ASSUME Promised, Phases, LowInvariant, ExecInvariant, TypedInvariant, Obeys,
                        Begun', semaStatus = "accepted" => DeclarationsKeepTheirTypes,
                        [ExecutionNext]_allVars
                 PROVE  [Source!Observe \/ Source!Refuse]_(Source!vars)
      OBVIOUS
    <2>1. CASE ExecStep /\ UNCHANGED <<vars, lowVars>>
      <3>1. lowStatus = "done"
        BY <2>1 DEF ExecStep, StartMain, ExecSlot, ExecAlloc, ExecBinary, ExecCompare, ExecPhi,
                    ExecFree, ExecBranch, ExecCondBranch, ExecReturn, Executing, ExecInvariant
      <3>2. DeclarationsKeepTheirTypes
        BY <3>1 DEF LowInvariant, Phases
      <3> QED
        BY <2>1, <3>2, ExecutionObserves
    <2>2. CASE UNCHANGED execVars
      BY <2>2, CompilerRefuses
    <2> QED
      BY <2>1, <2>2 DEF ExecutionNext, ExecEnded, allVars
  <1>2. Source!Init /\ [][SourceStep]_(Source!vars) => Source!Init
    OBVIOUS
  <1>3. Agreement => Phases
    BY DEF Agreement
  <1>4. ExecInvariant /\ Obeys => Begun
    BY ObservedIsPromised
  <1> QED
    BY <1>1, <1>2, <1>3, <1>4, SourceIsFollowed, PromisedAlways, LoweringAlways, ExecutionAlways,
       TypedAlways, ObeysAlways, AgreementAlways, FrontendRuns, PTL DEF ExecutionSpec

(* Partial correctness: a program that ends, with an exit status or where  *)
(* the language gives it no meaning, has done all that its source means    *)
(* up to there, in its order, whichever allocations failed on the way.     *)
THEOREM EndedProgramsAreComplete ==
  ExecutionSpec => [](DeclarationsKeepTheirTypes /\ execStatus = "ended" => trace = promised)
  <1>1. Obeys => (DeclarationsKeepTheirTypes /\ execStatus = "ended" => trace = promised)
    BY DEF Obeys, Complete
  <1> QED
    BY <1>1, ObeysAlways, PTL

=============================================================================
