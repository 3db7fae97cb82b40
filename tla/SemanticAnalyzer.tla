-------------------------- MODULE SemanticAnalyzer --------------------------
(***************************************************************************)
(* sema::SemanticAnalyzer.  One action per visitor; semaPos is the node    *)
(* being visited.  The values C++ keeps in local variables of the          *)
(* recursive visitors are two stacks: exprTypes holds the types of the     *)
(* sub-expressions already analysed, branches the SymbolTable copies of    *)
(* the if statements being analysed.  A thrown SemanticError ends the      *)
(* analysis: semaStatus becomes "rejected".                                *)
(***************************************************************************)
EXTENDS AST

VARIABLES
    prog,        \* the program analysed
    semaPos,     \* the node visited next
    semaStatus,  \* "analyzing", "accepted" or "rejected"
    symbols,     \* symbols_: the type of each name, NoType if not declared
    returnType,  \* returnType_: NoType until a return is analysed
    exprTypes,   \* types of the operands analysed and not yet consumed
    branches     \* the frames of analyzeIf, outermost first

semaVars == <<prog, semaPos, semaStatus, symbols, returnType, exprTypes, branches>>

SymbolTable == [Names -> MaybeType]
NoSymbols == [name \in Names |-> NoType]

\* inElse: the first block is analysed, and the second one has started.
IfFrame == [before : SymbolTable, inElse : BOOLEAN, thenSymbols : SymbolTable]

SemaInit ==
    /\ prog \in Programs
    /\ semaPos = 1
    /\ semaStatus = "analyzing"
    /\ symbols = NoSymbols
    /\ returnType = NoType
    /\ exprTypes = <<>>
    /\ branches = <<>>

-----------------------------------------------------------------------------
(* SymbolTable *)

Declared(table, name) == table[name] # NoType

Declare(table, name, type) == [table EXCEPT ![name] = type]

-----------------------------------------------------------------------------
(* The visitors' common steps *)

Visiting(kind) ==
    /\ semaStatus = "analyzing"
    /\ semaPos <= Len(prog)
    /\ prog[semaPos].kind = kind

Visited == prog[semaPos]

Advance ==
    /\ semaPos' = semaPos + 1
    /\ UNCHANGED <<prog, semaStatus>>

Reject ==
    /\ semaStatus' = "rejected"
    /\ UNCHANGED <<prog, semaPos, symbols, returnType, exprTypes, branches>>

\* The type of the expression analysed last, and of the one before it.
LastType == exprTypes[Len(exprTypes)]
PreviousType == exprTypes[Len(exprTypes) - 1]

\* exprTypes without its last n elements.
Consume(n) == SubSeq(exprTypes, 1, Len(exprTypes) - n)

\* An expression with n operands yields type.
Yield(n, type) ==
    /\ exprTypes' = Append(Consume(n), type)
    /\ Advance
    /\ UNCHANGED <<symbols, returnType, branches>>

-----------------------------------------------------------------------------
(* Expressions *)

AnalyzeIdentifier ==
    /\ Visiting("identifier")
    /\ LET name == Visited.name IN
          \/ ~ Declared(symbols, name) /\ Reject
          \/ Declared(symbols, name) /\ Yield(0, symbols[name])

AnalyzeInteger == Visiting("integer") /\ Yield(0, I64)

AnalyzeFloat == Visiting("float") /\ Yield(0, F64)

BinaryAllowed(lhs, rhs) ==
    /\ lhs.shape = <<>>
    /\ rhs.shape = <<>>
    /\ lhs.elementType = rhs.elementType
    /\ lhs.elementType \in {"i64", "f64"}

AnalyzeBinary ==
    /\ Visiting("binary")
    /\ Len(exprTypes) >= 2
    /\ \/ ~ BinaryAllowed(PreviousType, LastType) /\ Reject
       \/ /\ BinaryAllowed(PreviousType, LastType)
          /\ Yield(2, BinaryType(Visited.op, PreviousType))

KnownCall(callee, arity) == <<callee, arity>> \in {<<"relu", 1>>, <<"matmul", 2>>}

\* analyzeCall up to its arguments: the callee and the arity are checked first.
AnalyzeCall ==
    /\ Visiting("call")
    /\ \/ ~ KnownCall(Visited.callee, Visited.arity) /\ Reject
       \/ /\ KnownCall(Visited.callee, Visited.arity)
          /\ Advance
          /\ UNCHANGED <<symbols, returnType, exprTypes, branches>>

MatMulAllowed(lhs, rhs) ==
    /\ Len(lhs.shape) = 2
    /\ Len(rhs.shape) = 2
    /\ lhs.elementType = rhs.elementType
    /\ lhs.shape[2] = rhs.shape[1]

\* analyzeCall once its arguments are analysed.
AnalyzeRelu ==
    /\ Visiting("endcall")
    /\ Visited.callee = "relu"
    /\ Len(exprTypes) >= 1
    /\ Yield(1, LastType)

AnalyzeMatMul ==
    /\ Visiting("endcall")
    /\ Visited.callee = "matmul"
    /\ Len(exprTypes) >= 2
    /\ \/ ~ MatMulAllowed(PreviousType, LastType) /\ Reject
       \/ /\ MatMulAllowed(PreviousType, LastType)
          /\ Yield(2, MatMulType(PreviousType, LastType))

-----------------------------------------------------------------------------
(* Statements *)

AnalyzeTensorDeclaration ==
    /\ Visiting("tensor")
    /\ \/ Declared(symbols, Visited.name) /\ Reject
       \/ /\ ~ Declared(symbols, Visited.name)
          /\ symbols' = Declare(symbols, Visited.name, Visited.type)
          /\ Advance
          /\ UNCHANGED <<returnType, exprTypes, branches>>

\* Mutant: the type of an existing target is not compared.
AnyAssignmentAllowed(table, target, inferred) == TRUE

\* An existing target keeps its type, a new one gets the type of the value.
AssignmentAllowed(table, target, inferred) ==
    Declared(table, target) => table[target] = inferred

AnalyzeAssignment ==
    /\ Visiting("assign")
    /\ Len(exprTypes) >= 1
    /\ \/ ~ AssignmentAllowed(symbols, Visited.name, LastType) /\ Reject
       \/ /\ AssignmentAllowed(symbols, Visited.name, LastType)
          /\ symbols' = Declare(symbols, Visited.name, LastType)
          /\ exprTypes' = Consume(1)
          /\ Advance
          /\ UNCHANGED <<returnType, branches>>

\* Mutant: only the consistency of the returns is checked, not their type.
AnyReturnAllowed(type) == returnType \in {NoType, type}

ReturnAllowed(type) == returnType \in {NoType, type} /\ type = I64

AnalyzeReturn ==
    /\ Visiting("return")
    /\ Len(exprTypes) >= 1
    /\ \/ ~ ReturnAllowed(LastType) /\ Reject
       \/ /\ ReturnAllowed(LastType)
          /\ returnType' = LastType
          /\ exprTypes' = Consume(1)
          /\ Advance
          /\ UNCHANGED <<symbols, branches>>

Frame == branches[Len(branches)]

ConditionAllowed(type) == type = I1

\* analyzeIf up to its first block: the condition, and the copy "before".
AnalyzeIf ==
    /\ Visiting("if")
    /\ Len(exprTypes) >= 1
    /\ \/ ~ ConditionAllowed(LastType) /\ Reject
       \/ /\ ConditionAllowed(LastType)
          /\ branches' = Append(branches, [before |-> symbols, inElse |-> FALSE,
                                             thenSymbols |-> NoSymbols])
          /\ exprTypes' = Consume(1)
          /\ Advance
          /\ UNCHANGED <<symbols, returnType>>

\* analyzeIf between its blocks.
AnalyzeElse ==
    /\ Visiting("else")
    /\ branches # <<>> /\ ~ Frame.inElse
    /\ branches' = [branches EXCEPT ![Len(branches)] = [@ EXCEPT !.inElse = TRUE,
                                                               !.thenSymbols = symbols]]
    /\ symbols' = Frame.before
    /\ Advance
    /\ UNCHANGED <<returnType, exprTypes>>

\* The names the two blocks introduced.
Introduced(before, thenSymbols, elseSymbols) ==
    {name \in Names : /\ ~ Declared(before, name)
                      /\ Declared(thenSymbols, name)
                      /\ Declared(elseSymbols, name)}

\* Mutant: the types of a name both blocks introduce are not compared.
BranchesNeverCompared(before, thenSymbols, elseSymbols) == TRUE

BranchesAgree(before, thenSymbols, elseSymbols) ==
    \A name \in Introduced(before, thenSymbols, elseSymbols) :
        thenSymbols[name] = elseSymbols[name]

\* Mutant: the merged table starts empty, not as a copy of "before".
MergedFromNothing(before, thenSymbols, elseSymbols) ==
    [name \in Names |->
        IF name \in Introduced(before, thenSymbols, elseSymbols)
        THEN thenSymbols[name] ELSE NoType]

\* Mutant: symbols_ is left as the second block leaves it.
MergedFromElse(before, thenSymbols, elseSymbols) == elseSymbols

MergedSymbols(before, thenSymbols, elseSymbols) ==
    [name \in Names |->
        IF name \in Introduced(before, thenSymbols, elseSymbols)
        THEN thenSymbols[name] ELSE before[name]]

\* analyzeIf after its second block.
AnalyzeEndIf ==
    /\ Visiting("endif")
    /\ branches # <<>> /\ Frame.inElse
    /\ \/ ~ BranchesAgree(Frame.before, Frame.thenSymbols, symbols) /\ Reject
       \/ /\ BranchesAgree(Frame.before, Frame.thenSymbols, symbols)
          /\ symbols' = MergedSymbols(Frame.before, Frame.thenSymbols, symbols)
          /\ branches' = SubSeq(branches, 1, Len(branches) - 1)
          /\ Advance
          /\ UNCHANGED <<returnType, exprTypes>>

\* analyze returns: every statement has been analysed.
Accept ==
    /\ semaStatus = "analyzing"
    /\ semaPos > Len(prog)
    /\ semaStatus' = "accepted"
    /\ UNCHANGED <<prog, semaPos, symbols, returnType, exprTypes, branches>>

SemaStep ==
    \/ AnalyzeIdentifier
    \/ AnalyzeInteger
    \/ AnalyzeFloat
    \/ AnalyzeBinary
    \/ AnalyzeCall
    \/ AnalyzeRelu
    \/ AnalyzeMatMul
    \/ AnalyzeTensorDeclaration
    \/ AnalyzeAssignment
    \/ AnalyzeReturn
    \/ AnalyzeIf
    \/ AnalyzeElse
    \/ AnalyzeEndIf
    \/ Accept

SemaSpec == SemaInit /\ [][SemaStep]_semaVars

-----------------------------------------------------------------------------
(* Properties *)

(* The state of the analyser has its type: symbols_, returnType_ and the   *)
(* copies of the symbol table analyzeIf keeps on the C++ stack.            *)
SemaTypeOK ==
    /\ prog \in Seq(Node)
    /\ semaPos \in 1 .. Len(prog) + 1
    /\ semaStatus \in {"analyzing", "accepted", "rejected"}
    /\ symbols \in SymbolTable
    /\ returnType \in {NoType, I64}
    /\ exprTypes \in Seq(TensorType)
    /\ branches \in Seq(IfFrame)

\* Every name of inner is in outer, with the same type.
Extends(outer, inner) ==
    \A name \in Names : Declared(inner, name) => outer[name] = inner[name]

(* analyzeIf swaps symbols_ for copies of itself three times.  Whatever    *)
(* the nesting, the table in use extends the one each enclosing if         *)
(* statement started from, and so does the table kept for its first block: *)
(* no statement inside a block forgets or retypes a name of the enclosing  *)
(* scopes.                                                                 *)
ScopesNest ==
    \A i \in 1 .. Len(branches) :
        /\ Extends(symbols, branches[i].before)
        /\ \A j \in i .. Len(branches) : Extends(branches[j].before, branches[i].before)
        /\ branches[i].inElse => Extends(branches[i].thenSymbols, branches[i].before)

(* A step never forgets or retypes a visible name, except where one block  *)
(* is left for the other; and where an if statement ends, everything that  *)
(* was visible where it started is visible again, with the same type,      *)
(* whatever its blocks and the if statements inside them declared.         *)
VisibleNamesKeepTypes ==
    [][/\ branches' = branches => Extends(symbols', symbols)
       /\ Len(branches') > Len(branches) => symbols' = symbols
       /\ Len(branches') < Len(branches) => Extends(symbols', Frame.before)]_semaVars

=============================================================================
