# Ocelotl: a verification project in TLA+

This directory models the compiler of `../src` (Ocelotl, a small tensor
language compiled to LLVM) in TLA+, checks the models with TLC and proves their
most important properties with TLAPS. Paths such as `SemanticAnalyzer.cpp:224`
are relative to the file's place in `../src`.

## 1. The system

A compilation is one sequential process; nothing in it is concurrent, nothing
persists but the output file. What is hard is the *agreement between passes*:
two recursive visitors walk the same tree one after the other, each with its own
notion of scope and of which statements matter, and the backend trusts both. The
compiled program is sequential too, but its allocations may fail, and the runtime
it is linked with serves any number of threads.

| Component | Code | State | Operations | What makes it correct |
|---|---|---|---|---|
| Lexer | `frontend/Lexer.cpp`, `Token.cpp` | position, line, column | `nextToken` | progress, maximal munch, a stable end of file |
| Parser | `frontend/Parser.cpp` | one token of lookahead | one method per rule of the grammar | accepts the grammar's language; literals in range |
| AST | `ast/AST.hpp` | - | - | - |
| Semantic analyser | `semantic/SemanticAnalyzer.cpp`, `SymbolTable.cpp` | `symbols_`, `returnType_`, copies of the table on the C++ stack | one visitor per node | no name is forgotten, retyped or leaked; every accepted program is well typed |
| IR | `ir/IR.hpp`, `IR.cpp` | - | `resultOf`, `typeOf` | - |
| IR generator | `ir/IRGenerator.cpp` | `module_`, `values_`, `currentBlockId_`, two counters, frames on the C++ stack | one visitor per node | SSA, closed blocks, phis that match the control flow, dominance |
| IR verifier | `ir/IRVerifier.cpp` | - | `verify` | rejects what the lowering cannot take, accepts what the generator makes |
| LLVM lowering | `codegen/llvm/LLVMCodeGenerator.cpp` | map of values, cleanup slots | `generate` | no missing value; every return path releases every tensor once |
| Optimiser, target | `codegen/llvm/LLVMOptimizer.cpp`, `TargetCodeGenerator.cpp` | LLVM's | `optimize`, `emit` | the output file is complete or an error is reported |
| Runtime | `runtime/runtime.c` | thread-local error | `alloc`, `free`, `last_error` | storage or NULL with a diagnostic |
| Driver | `main.cpp` | options | `main` | order of the passes, one output, an exit status |

The passes interact by return values and, in one place, by shared state:
`compileToLLVM` (`main.cpp:158`) parses, runs the analyser, and gives the
generator a reference to the *analyser itself*, from which the generator reads
types of tensors by name (`IRGenerator.cpp:296`) when the analysis is over. All
errors are exceptions; the first one ends the compilation.

The hard behaviours, each listed at its line under `hazards` of `PROJECT.json`:

- the symbol table is exchanged for copies of itself three times per `if`;
- the generator reads the analyser's *last* symbol table, which no longer has
  the names of blocks, and may have other tensors under the same names;
- the analyser intersects both blocks of an `if`, the generator merges those
  that go on: after an early return they disagree on which names are visible;
- ids of blocks double as indices, ids of nested blocks are kept across the
  creation of others, and a phi must name the block a branch *ends* in;
- statements after a `return` are an error at the top level, and skipped in a
  block; the analyser looks at both;
- the verifier does not check dominance, and the lowering relies on it;
- storage is released on every return path through slots of the entry block,
  those of tensors the path never reached included, in the order of an unordered
  map; an allocation that fails leaves a null pointer the program goes on with;
- sizes, literals and divisions have edges: a product that must be refused before
  it wraps, literals out of range, divisions without a result, floats that are
  not numbers;
- the lexer decides with two characters of lookahead, and keeps the location that
  every diagnostic depends on; the parser must blame the token that is wrong, and
  give operators their precedence and associativity;
- `-o` takes whatever follows it; the output is truncated before it is written, and
  before LLVM says whether the target has object files, and may be the source.

## 2. The modules

| Module | Models | Extends |
|---|---|---|
| `Lexer` | `frontend::Lexer`, one step per character | |
| `AST` | programs and types | |
| `Trees` | trees written down as sequences of nodes | `AST` |
| `Parser` | `frontend::Parser`, one step per call of a parsing method | `Trees` |
| `SemanticAnalyzer` | `sema::SemanticAnalyzer`, `SymbolTable` | `AST` |
| `IR` | `ir::Module` and everything in it | `AST` |
| `IRVerifier` | `ir::IRVerifier::verify` | `IR` |
| `IRGenerator` | `ir::IRGenerator`, composed with the analyser and the verifier as `compileToLLVM` composes them | `SemanticAnalyzer`, `IRVerifier` |
| `Compilation` | the properties of the composition | `IRGenerator` |
| `TensorStorage` | `tensorStorageSize`, as a function | |
| `SizeComputation` | the same, one dimension after the other | `TensorStorage` |
| `Lowering` | `LLVMCodeGenerator::generate`, one step per operation and terminator | `Compilation`, `TensorStorage` |
| `MachineArithmetic` | what LLVM's instructions compute (external) | |
| `Runtime` | `runtime.c`, one step per call | |
| `SourceMeaning` | what the language reference says a program does: the abstract specification | `AST`, `MachineArithmetic`, `TensorStorage` |
| `Execution` | the compiled program, run against `Runtime`; implements `SourceMeaning` | `Lowering`, `MachineArithmetic` |
| `Driver` | `main.cpp`, `LLVMOptimizer`, `TargetCodeGenerator`: arguments, calls that may throw, files | |
| `MCPrograms` | families of small programs | `Trees` |
| `MCCompilation`, `MCIRVerifier`, `MCStorage`, `MCExecution`, `MCLexer`, `MCParser`, `MCDriver` | instances for TLC; `MCStorage` composes `SizeComputation` and `Runtime`, `MCParser` holds the grammar | |
| `StackLemmas` | lemmas on sequences used as stacks, and the two forms of induction the proofs use: a set of numbers closed under successor holds all of them, and one that holds a number has a least one | |
| `Compilation_proofs` | theorems about the frontend, in three parts: the analyser, with the types and the control-flow graph of the generator; the values of the module (definitions, dominance, types); the generator follows the analyser | `Compilation` |
| `Execution_proofs` | theorems about the backend and the compiled program | `Execution`, `Compilation_proofs` |
| `Simulation_proofs` | lemmas: the generator follows the interpreter of `SourceMeaning` | `Execution`, `Compilation_proofs` |
| `Refinement_proofs` | the compiled program does what its source means | `Execution_proofs`, `Simulation_proofs` |
| `Lexer_proofs`, `Driver_proofs` | theorems about the modules they are named after | `Lexer`; `Driver` |
| `Storage_proofs` | sizes of tensors, and the runtime's calls | `SizeComputation`, `Runtime` |

**Programs.** Both visitors walk the tree in the same order, so a program is the
sequence of its nodes in that order: expressions in postfix form, an `if` as
condition, `if`, first block, `else`, second block, `endif`; a call has a node
before its arguments, where its name and arity are checked, and one after them.
A recursive visitor becomes an action per node, its local variables a stack:

| C++ | model |
|---|---|
| the node being visited | `semaPos`, `genPos` |
| results of `analyzeExpression` not consumed yet | `exprTypes` |
| `before`, `thenSymbols` of the active calls of `analyzeIf` | `branches` |
| results of `generateExpression` not consumed yet | `operands` |
| `before`, `elseBlock`, `thenEnd`, `thenValues` of the active calls of `generateIf` | `ifs` |
| `currentBlockId_`, empty after a return | `current`, `NoBlock` |
| a thrown `SemanticError`; another exception and its reason | `semaStatus = "rejected"`; `genStatus = "failed"`, `genError` |

An action is the whole visitor from one visited node to the next, with every
check in the order of the code. `generateIf` is five actions: up to the first
block, between the blocks, and one for each way the blocks can end (both return,
one does, none does). Phis follow the iteration order of an `unordered_map`: any
order (`\E order \in SetToSeqs(...)`). `SkipUnreachable` is the `break` of the
loops over a block's statements, `RejectUnreachable` the `throw` of the loop over
the program's. `Finish` calls the verifier. `Holding(n)` in the guard of a
statement, and the guard of `Finish` that no `if` is active, say where the C++
stack is when the visitor is called: a statement is visited with the values of its
own expressions and no others.

The dimensions of a declaration are a non-empty list (`DeclaredType`), since the
parser asks for the first one (`Parser.cpp:143`).

The verifier keeps nothing between calls, so it is a predicate: `Verify(module)`
holds if and only if `verify` returns. Its conjuncts are the rules, in order.

**Lexer.** `nextToken` reads from `current_`; a step is one character, so that
every decision taken with `peek` and `peekNext` is visible. `mode` is the function
that reads (`lexIdentifierOrKeyword`, `lexNumber` before and after the point).
The client calls until it gets the end of the file, and `ExtraCalls` times more.

**Parser.** The C++ stack is `goals`, what each active method still has to do, and
`built`, the tokens and trees in its local variables. A step is a method up to
its next call of a parsing method, with every check before it. Trees are the
sequences of nodes described above, so the tree of a parse is compared with the
program the text was made from.

**Lowering and execution.** `llvmBlocks` holds the instructions the backend has
built. Constants are operands, as in LLVM; registers keep the numbers of the IR's
values. The cleanup slots are made in block order and released in the order of an
unordered map: the model chooses any (`StartLowering`). `ValidLLVM` is what `llvm::verifyModule`
is relied on for, dominance. `Execution` then runs `main`, one instruction per
step: integers of `IntWidth` bits in two's complement; a division without a
result stops the program, which means no more from there on; all pairs of floats
relate in one way, any of the four, fixed at the start (`relation`). Each
`ExecAlloc` may fail.

**Driver.** An argument is what `parseCommandLine` takes it for, and its value; a
path keeps its extension. Each call that may throw is a step with both outcomes.
A file holds its text, nothing yet (`Truncated`), part of an output, or all of
it. An error of a stream that is destroyed unasked ends the process with status
1 (`raw_fd_ostream`), like an exception. `error` keeps what failed: the call, or
`"fileType"` if `addPassesToEmitFile` (`TargetCodeGenerator.cpp:132`) refuses a target
without object files. By then the output is open, so that `--emit-obj --target=xcore`
leaves an earlier `.o` file empty; no document says otherwise, so this is no finding,
and `OnlyLateRefusalsTruncate` states it as the one refusal that does this. A process that is killed leaves one of
the intermediate states, which the invariants are about as well.

**What is abstracted.** Texts of messages and names of blocks; source locations
but for the lexer's; in `Compilation`, numeric values (a literal's value is carried
but never computed with). Iteration over the symbol table in `analyzeIf` is a set
comprehension: only the name in the message depends on the order.

**Two specifications.** `Spec` is a compilation. `GeneratorSpec` is the
generator given an analyser that has seen nothing (its constructor and
`generate` are public, `IRGenerator.hpp:19`): there its own checks are all that
stands between it and a broken module, and its exceptions are reached, all but
`duplicateValue`: without an analysis, no tensor has a type to be declared twice with
(in `Spec` it is reached).

## 3. What is checked

Types are small: names `X`, `Y`, `Z`; element types `i64`, `f64`, `i1` and one
that is not scalar, `f32`; shapes of extents 2 and 3. The families of programs
are every program of a bounded grammar:

| Family | Programs | For |
|---|---|---|
| `ControlFlowPrograms` | `if` nested twice, blocks of at most one assignment, `return` or `if`, with types that differ, and what follows | early returns, leaks, merges of merges |
| `MergePrograms` | two names assigned in blocks of at most two statements | several phis, their order, swaps |
| `TensorPrograms` | tensors declared, multiplied and redeclared in and after blocks | the stale lookup of types |
| `ExpressionPrograms` | every operator and call on operands of every type, in every context | the type rules |
| `DeadCodePrograms` | statements, `if`s among them, after a `return` in and out of blocks | skipping |
| `RedeclarationPrograms`, `TensorExample` | the programs of two findings | |

Every control-flow feature interacts with itself at nesting depth 2 and with a
statement after it, which is where frames of two active calls coexist; a third
level adds no new pair of frames. Two names are needed for two phis of one block.

| Run | Specification | Properties | Shows |
|---|---|---|---|
| `compilation` | `FairSpec` | `SemaTypeOK`, `ScopesNest`, `VisibleNamesKeepTypes`, `VerifierAcceptsOutput`, `AcceptedProgramsAreWellTyped`, `ReturnsAreI64`, `StraightProgramsCompile`, `CompilationEnds` | the exchanges of the symbol table neither lose nor leak a name; which accepted programs the generator still refuses: those with tensors redeclared, with early returns, with a `return` missing or not last, and no others; no program leaves a visitor without a next step |
| `generator` | `GeneratorSpec` | `TypeOK`, `BlockIdsAreIndices`, `ValuesDefinedOnce`, `BranchesGoForward`, `OpenBlocksAreExpected`, `DefinitionsDominateUses`, `BlocksAreReachable`, `OnlyReturnTypesDiffer`, `ClosedBlocksAreFinal` | whatever it is given, the generator returns SSA in which definitions dominate uses, or throws; the one rule its own checks leave to the verifier is that what is returned has one type |
| `execution` | `ExecutionSpec` | `BackendTrustsFrontend`, `ScalarProgramsLower`, `ReleasesAreValid`, `NothingLeaks`, `ArgumentsAreLegal`, `TypesArePreserved`, `SourceIsImplemented` | the backend only refuses programs with tensors; what it builds does what the source means, releases what it was given and nothing twice, on every path and with any allocation failing |
| `storage` | `StorageSpec` | `SizeIsExact`, `OnlyImpossibleSizesAreRefused`, `RtTypeOK`, `ErrorTellsLastAllocation` | sizes never wrap and none is refused too early; with two threads that pass storage to each other, a diagnostic is about the thread's own last allocation |
| `lexer` | `FairSpec` | `LocationsAreExact`, `TokensAreLongestLexemes`, `TokensCoverText`, `EndIsReached` | longest lexemes at exact locations, nothing lost, an end that is reached and stays |
| `parser` | `ParserSpec` | `AcceptsTheGrammar`, `ErrorsAreEarliest`, `TreesAreTheProgramsWritten`, `ParsingEnds` | exactly the texts of the grammar are accepted, the token blamed is the first that cannot go on, and the tree is the one written |
| `driver` | `DriverSpec` | `CommandLineIsUnderstood`, `SuccessMeansComplete`, `OnlyLateRefusalsTruncate`, `SourceIsKept` | what a command line means, and what is in the files whatever fails; which failures lose an earlier output |

**Bounds.** Each is a constant of the run's `.cfg` or a family of its MC module.

| Run | Bounds | Why they are enough |
|---|---|---|
| `execution` | `IntWidth` 4, `StatusWidth` 3, `SizeLimit` and `SizeMax` 127, three addresses | 4 bits are enough for the operands to wrap under each operator, for the least integer to be divided by -1, and for an exit status to be truncated; programs have up to three tensors, of sizes that just fit (`f64[3,5]`, 120 bytes) or just do not (`i64[4,4]`); an address is free for each allocation, and reused after a release |
| `storage` | `SizeLimit` 31, `WordBits` 5, shapes of up to three extents of 0 to 31; two threads, two addresses, `SizeMax` 15 | every order of a zero, a one and a factor that exceeds the limit; every argument a word holds, sizes and alignments above `SIZE_MAX` of a target narrower than the ABI included |
| `lexer` | every text of up to 5 of 9 characters, one of each class and of each kind of lookahead; the keywords, whole and cut short, with a character on each side | the longest lookahead is two characters |
| `parser` | small programs with every rule, and their texts with any one token deleted, replaced or inserted, or cut short; `IntLimit` 3, `DimensionLimit` 7 | each method sees each kind of token first, and the end of the file in each place |
| `driver` | any command line of up to three of the arguments, and three more after a source and an option of output; one source that has the extension of an output | the third of three options meets the state the others have left; `-o` before every kind of argument, and last |

**Fairness.** `FairSpec` (of the generator and of the lexer), `ParserSpec` and
`ExecutionSpec` add weak fairness of the whole next-state relation: each is one
thread of sequential code that runs until it exits and waits for nobody. Nothing
else is assumed; the driver and the storage run need no fairness, since a process
may be killed at any time. Final stuttering steps (`Ended`, `ExecEnded`, `Stop`,
`DriverEnded`) let a program that is over rest, so that a deadlock TLC reports is
one that is stuck. `compilation` does not check deadlocks: `CompilationEnds` says
where it may stop, and that the compiler gets there.

**Refinement.** `SourceMeaning` interprets the source from left to right; what can
be observed is a sequence of events: allocations with their sizes, and the exit
status, or that the program has lost its meaning. `Execution` instantiates it with
its program, its `trace` of events and `RefusedByCompiler`; `SourceIsImplemented`
is its specification, fairness included. So a compiled program allocates and
returns exactly what the source says, in its order, or is refused before it has
done anything; and it ends. Blocks, phis, dominance and slots are what this is
about, and none of them occurs in `SourceMeaning`. Two things limit it: programs
that declare a name's tensor twice are left out of `MCExecution`, because finding 2
makes them allocate another size than they state; and the allocations that fail
are not events, since the language has no word for them.

**Disagreements** (`findings`; each is a run in which TLC finds the violation):

1. `branch_local_tensor`: a tensor declared in one block only is accepted by the
   analyser and stops the generator ("could not find type").
2. `redeclared_tensor`: declared again after the block with another shape, the
   block's tensor takes the later shape, and a validated `matmul` is not valid
   any more in the IR.
3. `nested_returns`: after an `if` of which one block returns, local names of the
   other leak, and an enclosing `if` refuses to merge them ("IR branch type
   mismatch"). The same leak makes a later tensor of that name a "duplicate
   value".
4. `tensor_example`: the tensor program of the language reference is rejected.
5. `verifier_order`: the README's list of what the verifier rejects holds for
   scalar operations, not for `matmul` and `relu`.

The run `execution` meets one more refusal of an accepted program, which is why
`ScalarProgramsLower` is about scalars: a tensor of one name declared in both blocks of an `if`
gets a phi, and `LLVMCodeGenerator.cpp:214` has no LLVM type for it.

`AcceptedProgramsAreWellTyped` and `StraightProgramsCompile` state how far these
go: outside 1 and 2 (`DeclarationsKeepTheirTypes`) the generator finds every
name, type and shape, and without a `return` inside a block (`HasEarlyReturn`) it
compiles what the analyser accepts.

Each property of a passing run has a mutant under `mutants`: a plausible slip in
the code, kept beside the definition it replaces, that TLC refutes with it.


## 4. What is proved

For every set of programs, names and element types, any length and any nesting.
The properties are those the runs check on small instances.

### The analyser

| Theorem | Property | Argument |
|---|---|---|
| `SemaTypeCorrect` | `SemaTypeOK` | inductive as it stands; one lemma per group of visitors (`ExpressionStepType`, `StatementStepType`, `IfStepType`) |
| `ScopesNestAlways` | `ScopesNest` | inductive with `SemaTypeOK`: `TableStep` says what a step does to the table in use and the stack, `MergedExtendsBefore` that leaving an `if` extends what it started from, and `Extends` is transitive |
| `VisibleNamesKeepTypesAlways` | `VisibleNamesKeepTypes` | from the two above and `TableStep` |

### The generator, whatever it is given

These hold of `Spec` and of `GeneratorSpec`: none depends on the analyser.

| Theorem | Property | Argument |
|---|---|---|
| `TypeCorrect` | `TypeOK` | inductive as it stands; one lemma per visitor |
| `BlocksAreNumbered`, `GraphIsAcyclic`, `NoBlockIsForgotten`, `ClosedBlocksStay` | `BlockIdsAreIndices`, `BranchesGoForward`, `OpenBlocksAreExpected`, `ClosedBlocksAreFinal` | `GraphInvariant` |
| `EveryValueIsDefinedOnce`, `UsesAreDominated`, `EveryBlockIsReachable`, `OnlyReturnTypesMayDiffer` | `ValuesDefinedOnce`, `DefinitionsDominateUses`, `BlocksAreReachable`, `OnlyReturnTypesDiffer` | `ValuesInvariant` |

**`GraphInvariant`** is the conjunction of four facts about the blocks, the current
block and the frames, none inductive without the others. A branch is forward
(`Forward`) because its target is a block created after its source, which needs
ids to be indices (`Numbered`); a block is closed once because the visitor that
closes it holds an open one (`OpenAreExpected`); and closing it leaves the other
open blocks expected only if no two frames hold the same block
(`PendingDiffer`). `Graph` states them of a sequence of blocks, not of the
variables, so that each way of changing the blocks is a lemma without primes
(`EmitGraph`, `ReturnGraph`, `IfGraph`, `ElseGraph`, `ClosedGraph`,
`MergeGraph`); each action is then one of these, and PTL closes the induction.

**`ValuesInvariant`** adds `Sound`, which says of the module that each operation and
terminator is right where it is (`ModuleSound`: operands defined before, of the
types the verifier asks for, phis with one value per predecessor), and of the state
that every value it names is `Known`: defined in a block that dominates the block
the value will be used from. That block differs from part to part, which is why
the properties are not inductive on their own: for `values` and `operands` it
is the current one, for the environment of a frame the block `generateIf` comes
back to (`Saved`, `Pending`). A step either emits (`EmitSound`), closes
(`ReturnSound`), forks (`IfSound`) or joins (`MergeSound`); in each case the old module
is in the new one with its definitions, predecessors and dominance unchanged (`Grown...`,
`GrownModule`). The merge is the hard one: a value both sides agree on must
dominate the merge block because it dominates both its predecessors
(`DominatesBlock`), a phi is right because each incoming value dominates the end of
its own predecessor, and both need that the ends of the blocks are the only two
predecessors. Dominance itself is defined by a region of blocks, in place of paths;
for an acyclic graph with ordered ids the two agree, and the region can be given
explicitly in a proof.

`OnlyReturnTypesMayDiffer` follows: with no block open, a sound module keeps each
rule of the verifier (`SoundModuleVerifies`), but the one that returned values have
one type, which only the analyser ensures.

### Both passes

| Theorem | Property | Argument |
|---|---|---|
| `OnlyI64IsReturned` | `ReturnsAreI64` | `Agreement`, and `ReturnsTyped`: what a block returns was an i64 when it was closed, and no step changes a definition |
| `AnalysedProgramsAreWellTyped` | `AcceptedProgramsAreWellTyped` | `Agreement` with `keep` |
| `VerifierNeverRejects` | `VerifierAcceptsOutput` | `ReturnsTyped` and `SoundModuleVerifies` |
| `ProgramsWithoutEarlyReturnsCompile` | `StraightProgramsCompile` | `Agreement` with `keep` and `straight` |

The generator walks the program after the analyser is done, so no invariant on the
state of the analyser says anything about the nodes in between. **`Agreement`**
says that there *is* a trace: a sequence of the states the analyser had at each node,
from nothing declared to the final tables, each following from the one before by the
visit of a node (`Analysed`, `Visits`). While the analyser runs, the trace grows by
its steps (`TraceGrows`); while the generator runs, its state agrees with the state
of the trace at `genPos` (`Agrees`): the operands are the types analysed last, each
declared name has a value of its type, and the frames match one by one. A visit
of the generator then moves along one visit of the analyser, or throws
(`VisitAgrees`, with a lemma for each group of visitors). This takes the place of an
induction over the program.

`Agrees` has two parameters, quantified inside of the invariant, because three of
the properties have hypotheses on the program. `keep` means that declarations keep
their types; without it, only scalars agree, which is all that `ReturnsAreI64`
needs. `straight` means that the program returns from no block; then the generator has no name the
analyser lacks, and there is an open block wherever the nesting is not zero
(`OnStraightLine`). `BlamesRightly` says which exceptions are left under each.

After an early return the generator leaves out the rest of a block (`SkipUnreachable`)
while the trace goes through it. That the frames are the same again at its end
(`SkipKeepsFrames`) is by induction over the distance from the return, as a set of
numbers that holds 0 and each successor (`SetInduction`).

### The backend

These hold of `ExecutionSpec`: a step of the backend or of the compiled program leaves
the frontend alone, so everything above holds of it too (`FrontendRuns`,
`PromisedAlways`).

| Theorem | Property | Argument |
|---|---|---|
| `FrontendIsTrusted` | `BackendTrustsFrontend` | `LowInvariant` |
| `ScalarProgramsAreLowered` | `ScalarProgramsLower` | `Scalars`, with `LowInvariant` |
| `ReleasesAreAlwaysValid`, `NothingEverLeaks` | `ReleasesAreValid`, `NothingLeaks` | `CodeInvariant`, then `ExecInvariant` |
| `ArgumentsAreAlwaysLegal` | `ArgumentsAreLegal` | `CodeInvariant` and `StorageFits`; on a target with `SizeLimit <= SizeMax` |
| `TypesAreAlwaysPreserved` | `TypesArePreserved` | `ArithmeticIsNumeric`, then `TypedInvariant` |

**`LowInvariant`** says that a value is known as soon as the operation that defines it
has been passed (`KnowsPassed`), and that the backend only starts when the generator
is done, so that the module no longer changes (`GeneratorRests`). The lookups then
succeed because a definition that dominates a use comes before it in the order of the
blocks (`DefinedIsPassed`). A phi is different: what it merges is
defined at the ends of its predecessors, and those are before it because the graph is
acyclic and the verifier has found the incoming blocks to be the predecessors
(`PredecessorsArePassed`). That the first return in block order has type i64
(`FirstReturnIsI64`) is `OnlyI64IsReturned`, with definitions unique; that LLVM's verifier
accepts the function is `UsesAreDominated`.

**`Scalars`** is an invariant of the generator: in a program without tensors and calls,
every value of the environment, of the operands and of the frames of `generateIf` has a
type `lowerType` knows, and each operation emitted has a lowering. The frames
belong to it since a phi takes its type from them. `LowInvariant` excludes the other
exceptions.

**`CodeInvariant`** says what the instructions of each block are: of a block the
backend has finished, those of its operations in their order, each once, then the
releases of a return, one for each slot, then the terminator (`Closed`); of the one it
is working on, a beginning of that (`Body`); of the entry, the slots first. Nothing is said of
constants, which have no instruction, but that whatever uses them has the operand
(`ValueOperand`). The order of the releases stays open, as in the code.

**`ExecInvariant`** is about the machine. `Written`: a register has a value only if
an instruction in an earlier block, or earlier in this one, gives it one; so a tensor
whose declaration is yet to come has none, whatever path was taken, since branches go
forward. `Heap`: what is allocated is what the slots not released yet hold, each
address in one slot; and the slot of a tensor without a value holds the null pointer. The last clause is
why an allocation never overwrites an address. At a release `Heap` is
`ReleasesAreValid`; at the end of a return, where every slot has been released, it
says that nothing is owned, which is `NothingLeaks`.

`ArgumentsAreAlwaysLegal` has a hypothesis on the target: addresses as wide as the
`std::uint64_t` the compiler computes sizes with, as in the run, where `SizeMax` is `SizeLimit`.
With a narrower `size_t` the runtime refuses the sizes above it for their size
(`runtime.c:21`), and the property does not hold. That a size is neither zero nor above `SizeLimit` is proved of
the computation (`Storage_proofs`, instantiated as `Sizes`).

**`TypedInvariant`** has the registers typed as the IR types their values, and needs the opposite of
`Written`: that an operand *has* a value. `Ready` says so for the block the
machine is in. For the others, the path taken would be needed; `CameFrom` takes its
place: the machine came from a predecessor, and each block that dominates
this predecessor has run. A block that dominates the next one dominates
its predecessors or is the next one itself, so the fact goes from one block to the next. A
phi reads along the edge taken. `ArithmeticIsNumeric` is a fact about the
analyser: no operand of an arithmetic operation is a tensor or an `i1`, so that its result has
the type of its left operand.

### The compiled program implements its source

| Theorem | States |
|---|---|
| `SourceIsFollowed` | `ExecutionSpec` implies `Source!Init` and that each step is a `Source!Refuse`, a stutter, or, if declarations keep their types, a `Source!Observe` |
| `SourceIsRefined` | under `[](semaStatus = "accepted" => DeclarationsKeepTheirTypes)`, the initial predicate and next-state relation of `SourceMeaning`, with the refinement mapping of the run |
| `EndedProgramsAreComplete` | partial correctness: a program that has ended has observed all that it promised, if declarations keep their types |

The first two are `SourceIsImplemented` without its fairness, for every program, nesting, pattern
of returns, width of integers and failure of allocations. The hypothesis is the exception of
finding 2: with a redeclared tensor the compiled program allocates another size than its source
states. It can only be stated once the program is accepted: `DeclarationsKeepTheirTypes`
compares the declarations with the table the analyser ends with.

Two recursions have to meet: the meaning of the source is a fold over the nodes of the program,
and the machine runs the blocks of a module that the generator built from the same
nodes in the same order, those of the block not taken included. Three steps bring them together.

**The fold has a trace.** `Interpreted` names the states of the interpreter before each node; that
they exist, and end with what was promised, is by `SetInduction` over the nodes (`Meant`).

**The generator follows the interpreter** (`Simulation_proofs`). A *meaning* gives each SSA value
the value the source computes there; a `Path` is a sequence of points in the module, from one
operation to the next and along the jumps its conditions mean, each with the events observed up
to there. **`Simulated`** says that the module under construction has a path and a meaning such that one of
three cases holds: the path is in the current block, and the environment and the operands of
the generator mean those of the interpreter (`Live`); it is in a block the generator will come back
to, while the interpreter skips the nodes of the block not taken (`Suspended`); or it has
ended, because the program has returned or lost its meaning (`Over`). The path may stop
in one of the cases while the generator goes on, so each way a module grows keeps the paths it has
(`Longer`, `Kept`). Each visitor then is a lemma (`SimulateBinary`,
`SimulateIf`, ...). The merge is the hard one: the path arrives from one of the two
blocks, executes *all* phis of the merge block, and the environment after them means
what it meant at the end of the block the path comes from. A path has no point at a
constant, which has no instruction. The invariant is `Faithful`: each state of the generator is
`Simulated` by the interpreter's state before the node visited; what the generator skips after a return
is nesting for the interpreter too.

**The machine follows the path** (`Refinement_proofs`). When the module is done its path is
whole, and ends with the events promised (`Finished`). **`KeepsUp`** says that the machine is
behind one point of it: the registers hold what they mean, and what was observed is what the path has
observed up to there (`Behind`). That an operand has been written when it is used is from
`TypedInvariant`; that the instruction executed was lowered from the next operation on the path,
from `CodeInvariant`; that the arithmetic of the machine gives what the source means, from
`ArithmeticIsNumeric`. `Obeys` carries this from start to end.
Since events are only ever added along the path, what was observed is always a beginning of what is
promised (`Begun`), which makes each event added a `Source!Observe`; and a refusal comes before the
program starts (`RefusedInTime`).

### The other components

For any word width, shapes, threads, texts, command lines and files:

| Theorem | Property | Argument |
|---|---|---|
| `SizeNeverWraps` | `SizeIsExact` | `DivisionBound`: the comparison with a quotient is the one with the product it stands for; `GrowIsExact`: so the product taken modulo the word is the product. Inductive with the range of `size` |
| `RefusalsAreDeserved` | `OnlyImpossibleSizesAreRefused` | the product and the size are folds: `FoldExists` and `FoldSteps` give each its values after one dimension after the other; up to a refusal the two agree (`SizesAgree`) and a refusal stays one (`RefusalStays`), each by `SetInduction` over the number of dimensions; `SizeFollowsFold` says where the loop is |
| `RuntimeIsTyped`, `LastErrorIsOwn` | `RtTypeOK`, `ErrorTellsLastAllocation` | inductive together; a call changes the diagnostic and the history of its own thread only |
| `LocationsNeverDrift` | `LocationsAreExact` | `OneFurther`: the line and column of the next offset from those of this one, which needs that the line ends before it have a last one (`Located`, carried by the invariant in place of an induction over the offset); `ComparisonIsExact`: no line ends inside an operator of two characters |
| `NothingIsLost` | `TokensCoverText` | `LexerInvariant`: what is between the last token and the place the next one starts at (`Reached`) is white space; `TokenStep` and `QuietStep` are the two kinds of step |
| `LongestIsTaken` | `TokensAreLongestLexemes` | `MunchInvariant`: what has been read since the start of the token is a word, an integer or a number with its point (`Reading`); when the next character does not continue it, no lexeme of any kind is longer (`TokenMunched`). A symbol or a keyword has its own spelling (`Spellings`) |
| `RefusalsAreClean` | `OnlyLateRefusalsTruncate` | `DriverInvariant` and `Unwritten`: until the output is opened the files are as they were, once it is open it is empty and the others are untouched, and LLVM refuses a target then only for an object file. `OutputPath` is the only file a step changes, and no step after the options changes which one that is |
| `SuccessIsVerified` | - | the same invariant: a module goes on only through `Verify` |
| `LinesAreUnderstood`, `SourceSurvives` | `CommandLineIsUnderstood`, `SourceIsKept` | `CommandInvariant`: what has been read of the line so far is what the line means up to there (`OptionsRead`), each option from the last argument that gives it. Which arguments are operands of `-o` is a recursive function; `OperandEquation` unfolds it, and a boundary between options is followed by the next |
| `SuccessIsComplete` | `SuccessMeansComplete` | `Stages`: at each call, what the module is made of, its level, its target and whether it has been verified since |

**Assumptions**, each evaluated by TLC as well: `ElementTypesAssumption` (the three
scalar types are element types, and "" is none), `NamesAssumption` (finitely
many names; the symbol table is a finite map), `ProgramsAssumption` (a program
is a sequence of nodes; nothing is assumed about how it nests),
`SizeLimitAssumption` (an element's size fits), `TypesAssumption` (extents fit in
a word), `NullAssumption` and `WordAssumption` (NULL is no storage; `SIZE_MAX` and
the size of a pointer fit in a word), `ClassesAssumption` (letters, digits, white
space and the characters of operators are different characters),
`TextsAssumption` (a text is a sequence of characters), `CommandLinesAssumption` (a
command line is a sequence of arguments, each of a kind; those of kind `emit` have one of
the modes, and `--emit` with another word is `unknown`), `PathsAssumption` (each path
a command line can name, the default outputs included, is a path) and `TargetAssumption` (of
the target `Execution` runs on: NULL is no storage, 64 is a size and an
alignment the runtime takes).

## 5. What is only model-checked

- `CompilationEnds`, `EndIsReached`, `ParsingEnds`: liveness under fairness is out of the
  prover's reach. Of `SourceIsImplemented` this is what is left: that a program which is
  not refused ends. What it does until then, and that it has done everything when it
  ends, is proved.
- `AcceptsTheGrammar`, `ErrorsAreEarliest`, `TreesAreTheProgramsWritten`: they compare
  the parser with a recogniser of the grammar, which is recursive over texts, and the
  prover has no means to reason about `RECURSIVE` operators.
- The recursive operators build families of programs in `MCPrograms` and
  recognise the grammar in `MCParser`, which no module with a theorem uses.

An induction over data with the library's theorems is out of reach, since they take
an operator as a parameter. The proofs above replace it: by an invariant that carries
the fact from step to step (locations, lexemes, options), by a trace (`Agreement`),
or by a set of numbers (`SetInduction`), where the definition is a recursive function.

## 6. What is not modelled, and why

- **LLVM.** Its builder, verifier, passes and targets are external: modelled by
  what the code relies on. What the passes do to a module, and what they assume of the data layout
  while the module has none yet, is not.
- **Dumps of tokens, the AST and the IR** (`toString`, `dump`, `emitToString`): no
  state; the driver writes an output of that form.
- **Depth.** The C++ stack of the recursive passes is a sequence without a limit.
- **Values of floats.** One relation stands for all comparisons of a program.
- **Redeclared tensors** are not executed (finding 2): what such a program means and
  what it does differ.
- **Build files, packaging, tests and examples.** Read as documentation.

Where the language reference (`docs/language.md:36`) says that a name is
available after an `if` *only if* every continuing block defines it, the analyser
asks both blocks, the returning one included; that is stricter, and the model
follows the code.

## 7. Plan

Models: what the verifier rejects against an independent definition of well-formed
IR; the parser fed by the lexer; programs with calls the backend refuses in every
context.
