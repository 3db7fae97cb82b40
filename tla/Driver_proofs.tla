--------------------------- MODULE Driver_proofs ---------------------------
(***************************************************************************)
(* What the compiler as a process may do to files, for any command line,   *)
(* any files and any calls that throw.                                     *)
(***************************************************************************)
EXTENDS Driver, StackLemmas, FiniteSetTheorems

Calls == {"options", "readFile", "compileToLLVM", "optimize", "configure", "open", "emit", "exit"}

\* While main runs, nothing has been thrown.
ErrorEnds == pc \in Calls /\ (pc # "exit" => error = "none")

\* No file has changed, unless it is the output, which is being written or
\* has been, completely or not.
OnlyOutputChanges ==
    \A path \in Paths :
        files[path] # original[path] =>
            /\ path = OutputPath
            /\ pc \in {"emit", "exit"}
            /\ error \in {"none", "emit", "fileType"}

FilesTyped == DOMAIN files = Paths

\* From the backend on, a module is one that has been verified.
ModuleIsVerified ==
    pc \in {"optimize", "configure", "open", "emit"} \/ (pc = "exit" /\ error = "none") =>
        options.emit = "Tokens" \/ module.valid

DriverInvariant == FilesTyped /\ ErrorEnds /\ OnlyOutputChanges /\ ModuleIsVerified

-----------------------------------------------------------------------------

\* Nothing is written before the output is opened.
LEMMA Untouched ==
    ASSUME DriverInvariant, pc \notin {"emit", "exit"}
    PROVE  (\A path \in Paths : files[path] = original[path]) /\ error = "none"
BY DEF DriverInvariant, OnlyOutputChanges, ErrorEnds

\* An exception leaves the files as they are.
LEMMA ThrowPreserves ==
    ASSUME DriverInvariant, pc \notin {"emit", "exit"}, Throw, files' = files
    PROVE  DriverInvariant'
BY Untouched DEF DriverInvariant, FilesTyped, ErrorEnds, OnlyOutputChanges, ModuleIsVerified, Throw, Fail, Calls

\* So does a call that returns, unless it opens or writes the output.
LEMMA GoPreserves ==
    ASSUME DriverInvariant, pc \notin {"emit", "exit"}, NEW next \in Calls \ {"exit"}, Go(next),
           files' = files, options' = options,
           next \in {"optimize", "configure", "open", "emit"} => options.emit = "Tokens" \/ module'.valid
    PROVE  DriverInvariant'
BY Untouched DEF DriverInvariant, FilesTyped, ErrorEnds, OnlyOutputChanges, ModuleIsVerified, Go

LEMMA VerifyPreserves ==
    ASSUME DriverInvariant, pc \notin {"emit", "exit"}, NEW m, NEW next \in Calls \ {"exit"},
           Verify(m, next)
    PROVE  DriverInvariant'
<1>1. CASE m.valid
  BY <1>1, GoPreserves DEF Verify, Go
<1>2. CASE ~ m.valid
  BY <1>2, ThrowPreserves DEF Verify
<1> QED BY <1>1, <1>2

\* An argument is understood, or refused.
LEMMA OptionsPreserve ==
    ASSUME DriverInvariant,
           \/ SetEmitMode \/ SetOptimizationLevel \/ SetOutputPath \/ SetTarget
           \/ RejectUnknownOption \/ SetSourcePath
    PROVE  DriverInvariant'
<1>1. pc = "options"
  BY DEF SetEmitMode, SetOptimizationLevel, SetOutputPath, SetTarget, RejectUnknownOption,
         SetSourcePath, Parsing
<1>2. Reject \/ \E o, n : Understand(o, n)
  BY DEF SetEmitMode, SetOptimizationLevel, SetOutputPath, SetTarget, RejectUnknownOption,
         SetSourcePath
<1>3. CASE Reject
  BY <1>1, <1>3, ThrowPreserves DEF Reject
<1>4. ASSUME NEW o, NEW n, Understand(o, n) PROVE DriverInvariant'
  BY <1>1, <1>4, Untouched
     DEF DriverInvariant, FilesTyped, ErrorEnds, OnlyOutputChanges, ModuleIsVerified, Understand
<1> QED BY <1>2, <1>3, <1>4

LEMMA CheckOptionsPreserves == DriverInvariant /\ CheckOptions => DriverInvariant'
<1> SUFFICES ASSUME DriverInvariant, CheckOptions PROVE DriverInvariant'
  OBVIOUS
<1>1. pc \notin {"emit", "exit"}
  BY DEF CheckOptions
<1>2. CASE Reject
  BY <1>1, <1>2, ThrowPreserves DEF Reject
<1>3. CASE Go("readFile") /\ UNCHANGED <<files, source, module>>
  BY <1>1, <1>3, GoPreserves DEF Calls, Go
<1> QED BY <1>2, <1>3 DEF CheckOptions

LEMMA ReadFilePreserves == DriverInvariant /\ ReadFile => DriverInvariant'
<1> SUFFICES ASSUME DriverInvariant, ReadFile PROVE DriverInvariant'
  OBVIOUS
<1>1. pc \notin {"emit", "exit"}
  BY DEF ReadFile
<1>2. CASE Throw /\ UNCHANGED files
  BY <1>1, <1>2, ThrowPreserves
<1>3. CASE /\ Go(IF options.emit = "Tokens" THEN "open" ELSE "compileToLLVM")
           /\ UNCHANGED <<files, module>>
  BY <1>1, <1>3, GoPreserves DEF Calls, Go
<1> QED BY <1>2, <1>3 DEF ReadFile

LEMMA CompilePreserves == DriverInvariant /\ CompileToLLVM => DriverInvariant'
<1> SUFFICES ASSUME DriverInvariant, CompileToLLVM PROVE DriverInvariant'
  OBVIOUS
<1>1. pc \notin {"emit", "exit"}
  BY DEF CompileToLLVM
<1>2. CASE Throw /\ UNCHANGED files
  BY <1>1, <1>2, ThrowPreserves
<1>3. CASE /\ module' = [of |-> source, level |-> "O0", target |-> NoTarget, valid |-> TRUE]
           /\ Go(IF options.emit = "LLVMBeforeOptimization" THEN "configure" ELSE "optimize")
           /\ UNCHANGED <<files, source>>
  BY <1>1, <1>3, GoPreserves DEF Calls, Go
<1> QED BY <1>2, <1>3 DEF CompileToLLVM

\* The passes of LLVM may break the module: it is then not the one that goes on.
LEMMA OptimizePreserves == DriverInvariant /\ Optimize => DriverInvariant'
<1> SUFFICES ASSUME DriverInvariant, Optimize PROVE DriverInvariant'
  OBVIOUS
<1>1. pc \notin {"emit", "exit"}
  BY DEF Optimize
<1>2. \E m : Verify(m, "configure")
  BY DEF Optimize
<1> QED BY <1>1, <1>2, VerifyPreserves DEF Calls

LEMMA ConfigurePreserves == DriverInvariant /\ ConfigureTarget => DriverInvariant'
<1> SUFFICES ASSUME DriverInvariant, ConfigureTarget PROVE DriverInvariant'
  OBVIOUS
<1>1. pc = "configure"
  BY DEF ConfigureTarget
<1>2. CASE Throw /\ UNCHANGED files
  BY <1>1, <1>2, ThrowPreserves
<1>3. CASE Go("open") /\ UNCHANGED <<files, source, module>>
  BY <1>1, <1>3, GoPreserves DEF Calls, Go, DriverInvariant, ModuleIsVerified
<1>4. CASE \E m : Verify(m, "open")
  BY <1>1, <1>4, VerifyPreserves DEF Calls
<1> QED BY <1>2, <1>3, <1>4 DEF ConfigureTarget

LEMMA OpenPreserves == DriverInvariant /\ OpenOutput => DriverInvariant'
<1> SUFFICES ASSUME DriverInvariant, OpenOutput PROVE DriverInvariant'
  OBVIOUS
<1>1. pc = "open"
  BY DEF OpenOutput
<1>2. CASE Throw /\ UNCHANGED files
  BY <1>1, <1>2, ThrowPreserves
<1>3. CASE Go("emit") /\ UNCHANGED <<source, module>> /\ (files' = files \/ files' = [files EXCEPT ![OutputPath] = Truncated])
  <2>1. \A path \in Paths : path # OutputPath => files'[path] = original[path]
    BY <1>1, <1>3, Untouched DEF DriverInvariant, FilesTyped
  <2>2. OutputPath' = OutputPath /\ original' = original /\ pc' = "emit" /\ error' = "none"
    BY <1>1, <1>3, Untouched DEF Go, OutputPath, IsNative
  <2>3. OnlyOutputChanges'
    BY <2>1, <2>2 DEF OnlyOutputChanges
  <2> QED BY <1>1, <1>3, <2>2, <2>3 DEF DriverInvariant, FilesTyped, ErrorEnds, ModuleIsVerified, Calls, Go
<1> QED BY <1>2, <1>3 DEF OpenOutput

LEMMA EmitPreserves == DriverInvariant /\ Emit => DriverInvariant'
<1> SUFFICES ASSUME DriverInvariant, Emit PROVE DriverInvariant'
  OBVIOUS
<1>1. pc = "emit" /\ error = "none"
  BY DEF Emit, DriverInvariant, ErrorEnds
<1>2. /\ files' = files \/ \E contents : files' = [files EXCEPT ![OutputPath] = contents]
      /\ UNCHANGED <<options, original, module>>
      /\ pc' = "exit" /\ error' \in {"none", "emit", "fileType"}
  BY <1>1 DEF Emit, Throw, Fail, Go
<1>3. OutputPath' = OutputPath
  BY <1>2 DEF OutputPath, IsNative
<1>4. FilesTyped' /\ \A path \in Paths : path # OutputPath => files'[path] = files[path]
  BY <1>2 DEF DriverInvariant, FilesTyped
<1>5. OnlyOutputChanges'
  BY <1>2, <1>3, <1>4 DEF DriverInvariant, OnlyOutputChanges
<1>6. ErrorEnds' /\ ModuleIsVerified'
  BY <1>1, <1>2 DEF DriverInvariant, ErrorEnds, ModuleIsVerified, Calls
<1> QED BY <1>4, <1>5, <1>6 DEF DriverInvariant

LEMMA DriverInvariantHolds == DriverSpec => []DriverInvariant
<1>1. DriverInit => DriverInvariant
  BY DEF DriverInit, DriverInvariant, FilesTyped, ErrorEnds, OnlyOutputChanges, ModuleIsVerified, Calls
<1>2. DriverInvariant /\ [DriverStep \/ DriverEnded]_driverVars => DriverInvariant'
  <2> SUFFICES ASSUME DriverInvariant, [DriverStep \/ DriverEnded]_driverVars PROVE DriverInvariant'
    OBVIOUS
  <2>1. CASE UNCHANGED driverVars
    BY <2>1 DEF driverVars, DriverInvariant, FilesTyped, ErrorEnds, OnlyOutputChanges,
                ModuleIsVerified, OutputPath, IsNative
  <2>2. CASE DriverEnded
    BY <2>1, <2>2 DEF DriverEnded
  <2>3. CASE DriverStep
    BY <2>3, OptionsPreserve, CheckOptionsPreserves, ReadFilePreserves, CompilePreserves,
       OptimizePreserves, ConfigurePreserves, OpenPreserves, EmitPreserves DEF DriverStep
  <2> QED BY <2>1, <2>2, <2>3
<1> QED BY <1>1, <1>2, PTL DEF DriverSpec

\* Whatever LLVM's passes and its target make of the module, main only returns
\* with 0 if the module it has written was valid when it was last changed.
THEOREM SuccessIsVerified ==
    DriverSpec => [](pc = "exit" /\ error = "none" => options.emit = "Tokens" \/ module.valid)
<1>1. DriverInvariant => (pc = "exit" /\ error = "none" => options.emit = "Tokens" \/ module.valid)
  BY DEF DriverInvariant, ModuleIsVerified
<1> QED BY <1>1, DriverInvariantHolds, PTL

-----------------------------------------------------------------------------
(* The command line *)

LEMMA LineTyped ==
    ASSUME args \in CommandLines
    PROVE  /\ Len(args) \in Nat
           /\ DOMAIN args = 1 .. Len(args)
           /\ \A i \in 1 .. Len(args) :
                 /\ args[i] \in [is : ArgumentKinds, value : STRING, extension : STRING]
                 /\ args[i].is = "emit" => args[i].value \in EmitModes
                 /\ args[i] \in Paths
                 /\ args[i].is = "path" =>
                       \A extension \in {".s", ".o"} : Path(args[i].value, extension) \in Paths
<1>1. args \in Seq([is : ArgumentKinds, value : STRING, extension : STRING])
  BY CommandLinesAssumption
<1>2. Len(args) \in Nat /\ DOMAIN args = 1 .. Len(args)
  BY <1>1, LenProperties
<1>3. \A i \in 1 .. Len(args) : args[i] \in [is : ArgumentKinds, value : STRING, extension : STRING]
  BY <1>1, ElementOfSeq
<1> QED BY <1>2, <1>3, CommandLinesAssumption, PathsAssumption

\* The recursion from the left is well-founded.
OperandEquation(n, f) ==
    f = [i \in 1 .. n |-> i > 1 /\ args[i - 1].is = "output" /\ ~ f[i - 1]]

LEMMA OperandsExist == \A n \in Nat : \E f : OperandEquation(n, f)
<1> DEFINE S == {n \in Nat : \E f : OperandEquation(n, f)}
<1>1. 0 \in S
  <2>1. OperandEquation(0, [i \in {} |-> FALSE])
    BY DEF OperandEquation
  <2> QED BY <2>1
<1>2. ASSUME NEW n \in Nat, n \in S PROVE n + 1 \in S
  <2>1. PICK f : OperandEquation(n, f)
    BY <1>2
  <2> DEFINE last == n + 1 > 1 /\ args[n].is = "output" /\ ~ f[n]
             g == [i \in 1 .. n + 1 |-> IF i = n + 1 THEN last ELSE f[i]]
  <2>2. ASSUME NEW i \in 1 .. n + 1
        PROVE  g[i] = (i > 1 /\ args[i - 1].is = "output" /\ ~ g[i - 1])
    <3>1. CASE i = n + 1
      <4>1. CASE n = 0
        BY <3>1, <4>1
      <4>2. CASE n # 0
        <5>1. n \in 1 .. n + 1 /\ n # n + 1 /\ i - 1 = n
          BY <3>1, <4>2
        <5>2. g[i - 1] = f[n] /\ g[i] = last
          BY <3>1, <5>1
        <5> QED BY <3>1, <5>1, <5>2
      <4> QED BY <4>1, <4>2
    <3>2. CASE i # n + 1
      <4>1. i \in 1 .. n
        BY <3>2
      <4>2. f[i] = (i > 1 /\ args[i - 1].is = "output" /\ ~ f[i - 1])
        BY <2>1, <4>1, Zenon DEF OperandEquation
      <4>3. CASE i = 1
        BY <4>1, <4>2, <4>3
      <4>4. CASE i # 1
        <5>1. i - 1 \in 1 .. n + 1 /\ i - 1 # n + 1
          BY <4>1, <4>4
        <5> QED BY <4>1, <4>2, <5>1
      <4> QED BY <4>3, <4>4
    <3> QED BY <3>1, <3>2
  <2>3. g = [i \in 1 .. n + 1 |-> g[i]]
    OBVIOUS
  <2> HIDE DEF g
  <2>4. OperandEquation(n + 1, g)
    BY <2>2, <2>3, Zenon DEF OperandEquation
  <2> QED BY <2>4
<1>3. \A n \in Nat : n \in S
  <2> HIDE DEF S
  <2> QED BY <1>1, <1>2, SetInduction
<1> QED BY <1>3

LEMMA OperandRecursion ==
    ASSUME args \in CommandLines, NEW i \in 1 .. Len(args)
    PROVE  IsOperand[i] <=> i > 1 /\ args[i - 1].is = "output" /\ ~ IsOperand[i - 1]
<1>1. IsOperand = CHOOSE f : OperandEquation(Len(args), f)
  BY Zenon DEF IsOperand, OperandEquation
<1>2. OperandEquation(Len(args), IsOperand)
  BY <1>1, LineTyped, OperandsExist, Zenon
<1> QED BY <1>2, Zenon DEF OperandEquation

-----------------------------------------------------------------------------

\* The arguments of a kind before n, the last of them, and that there is none.
Latest(is, n, i) == i \in Given(is) /\ i < n /\ \A j \in Given(is) : j < n => j <= i
NoneBefore(is, n) == \A j \in Given(is) : ~ (j < n)

\* The argument at n is not the path after a -o.
Boundary(n) == n \in 1 .. Len(args) + 1 /\ (n <= Len(args) => ~ IsOperand[n])

LEMMA GivenTyped ==
    ASSUME args \in CommandLines
    PROVE  \A is : \A i \in Given(is) : i \in 1 .. Len(args) /\ i \in Nat /\ args[i].is = is /\ ~ IsOperand[i]
BY LineTyped DEF Given

LEMMA InLine ==
    ASSUME args \in CommandLines, NEW n, Boundary(n), n <= Len(args)
    PROVE  /\ n \in 1 .. Len(args) /\ n \in Nat
           /\ n \in Given(args[n].is)
           /\ args[n] \in [is : ArgumentKinds, value : STRING, extension : STRING]
<1>1. n \in 1 .. Len(args) + 1 /\ ~ IsOperand[n] /\ Len(args) \in Nat /\ DOMAIN args = 1 .. Len(args)
  BY LineTyped DEF Boundary
<1>2. n \in 1 .. Len(args) /\ n \in Nat
  BY <1>1
<1> QED BY <1>1, <1>2, LineTyped DEF Given

\* The next argument to look at: a -o takes the one behind it.
Follows(n, m) == IF args[n].is = "output" THEN n < Len(args) /\ m = n + 2 ELSE m = n + 1

\* From one argument that is not an operand to the next.
LEMMA NextArgument ==
    ASSUME args \in CommandLines, NEW n, Boundary(n), n <= Len(args), NEW m, Follows(n, m)
    PROVE  /\ Boundary(m)
           /\ n \in Given(args[n].is)
           /\ \A is : \A j \in Given(is) : j < m <=> j < n \/ (j = n /\ is = args[n].is)
<1>1. n \in 1 .. Len(args) /\ n \in Nat /\ ~ IsOperand[n] /\ Len(args) \in Nat /\ DOMAIN args = 1 .. Len(args)
  BY LineTyped DEF Boundary
<1>2. n \in Given(args[n].is)
  BY <1>1 DEF Given
<1>3. CASE args[n].is = "output"
  <2>1. m = n + 2 /\ n + 1 \in 1 .. Len(args) /\ (n + 1) - 1 = n
    BY <1>1, <1>3 DEF Follows
  <2>2. IsOperand[n + 1]
    <3>1. IsOperand[n + 1] <=> n + 1 > 1 /\ args[(n + 1) - 1].is = "output" /\ ~ IsOperand[(n + 1) - 1]
      BY <2>1, OperandRecursion
    <3>2. n + 1 > 1
      BY <1>1
    <3> QED BY <1>1, <1>3, <2>1, <3>1, <3>2
  <2>3. m <= Len(args) => ~ IsOperand[m]
    <3>1. m <= Len(args) => m \in 1 .. Len(args) /\ m - 1 = n + 1
      BY <1>1, <2>1
    <3> QED BY <2>2, <3>1, OperandRecursion
  <2>4. m \in 1 .. Len(args) + 1
    BY <1>1, <2>1
  <2>5. \A is : \A j \in Given(is) : j \in Nat /\ j # n + 1 /\ (j = n => is = args[n].is)
    BY <2>2, GivenTyped
  <2>6. \A is : \A j \in Given(is) : j < m <=> j < n \/ (j = n /\ is = args[n].is)
    <3> SUFFICES ASSUME NEW is, NEW j \in Given(is)
                 PROVE  j < m <=> j < n \/ (j = n /\ is = args[n].is)
      OBVIOUS
    <3>1. j \in Nat /\ j # n + 1 /\ (j = n => is = args[n].is)
      BY <2>5
    <3>2. j < m <=> j < n \/ j = n
      BY <3>1, <1>1, <2>1
    <3> QED BY <3>1, <3>2
  <2> QED BY <1>2, <2>3, <2>4, <2>6 DEF Boundary
<1>4. CASE args[n].is # "output"
  <2>1. m = n + 1 /\ m \in 1 .. Len(args) + 1 /\ m - 1 = n
    BY <1>1, <1>4 DEF Follows
  <2>2. m <= Len(args) => ~ IsOperand[m]
    <3>1. m <= Len(args) => m \in 1 .. Len(args)
      BY <1>1, <2>1
    <3> QED BY <1>4, <2>1, <3>1, OperandRecursion
  <2>3. \A is : \A j \in Given(is) : j < m <=> j < n \/ (j = n /\ is = args[n].is)
    <3> SUFFICES ASSUME NEW is, NEW j \in Given(is)
                 PROVE  j < m <=> j < n \/ (j = n /\ is = args[n].is)
      OBVIOUS
    <3>1. j \in Nat /\ (j = n => is = args[n].is)
      BY GivenTyped
    <3>2. j < m <=> j < n \/ j = n
      BY <3>1, <1>1, <2>1
    <3> QED BY <3>1, <3>2
  <2> QED BY <1>2, <2>1, <2>2, <2>3 DEF Boundary
<1> QED BY <1>3, <1>4

\* So it becomes the last of its kind, and those of other kinds stay.
LEMMA NextLatest ==
    ASSUME args \in CommandLines, NEW n, Boundary(n), n <= Len(args), NEW m, Follows(n, m)
    PROVE  /\ Latest(args[n].is, m, n)
           /\ \A is : is # args[n].is =>
                 /\ NoneBefore(is, n) => NoneBefore(is, m)
                 /\ \A i : Latest(is, n, i) => Latest(is, m, i)
<1>1. /\ n \in Given(args[n].is) /\ n \in Nat
      /\ \A is : \A j \in Given(is) : j < m <=> j < n \/ (j = n /\ is = args[n].is)
  BY NextArgument, LineTyped DEF Boundary
<1>2. Latest(args[n].is, m, n)
  <2>1. \A j \in Given(args[n].is) : j \in Nat
    BY GivenTyped
  <2>2. n < m
    BY <1>1
  <2>3. \A j \in Given(args[n].is) : j < m => j <= n
    BY <1>1, <2>1
  <2> QED BY <1>1, <2>2, <2>3 DEF Latest
<1>3. ASSUME NEW is, is # args[n].is
      PROVE  /\ NoneBefore(is, n) => NoneBefore(is, m)
             /\ \A i : Latest(is, n, i) => Latest(is, m, i)
  BY <1>1, <1>3 DEF NoneBefore, Latest
<1> QED BY <1>2, <1>3

\* At the end of the line, the last is the last of all.
LEMMA LatestOfAll ==
    ASSUME args \in CommandLines, NEW is, NEW i, Latest(is, Len(args) + 1, i)
    PROVE  /\ Given(is) # {}
           /\ Max(Given(is)) = i
<1>1. i \in Given(is) /\ \A j \in Given(is) : j \in Nat /\ j < Len(args) + 1
  BY GivenTyped, LineTyped DEF Latest
<1>2. \A j \in Given(is) : j <= i
  BY <1>1 DEF Latest
<1>3. \A k \in Given(is) : (\A j \in Given(is) : k >= j) <=> k = i
  <2> SUFFICES ASSUME NEW k \in Given(is) PROVE (\A j \in Given(is) : k >= j) <=> k = i
    OBVIOUS
  <2>1. k >= i => k = i
    BY <1>1, <1>2
  <2>2. (\A j \in Given(is) : i >= j)
    BY <1>1, <1>2
  <2> QED BY <1>1, <2>1, <2>2
<1> QED BY <1>1, <1>3 DEF Max

LEMMA NoneOfAll ==
    ASSUME args \in CommandLines, NEW is, NoneBefore(is, Len(args) + 1)
    PROVE  Given(is) = {}
<1>1. \A j \in Given(is) : j < Len(args) + 1
  BY GivenTyped, LineTyped
<1> QED BY <1>1 DEF NoneBefore

-----------------------------------------------------------------------------

\* An option read from the arguments before n: the last one counts.
ReadValue(is, n, got, default) ==
    \/ NoneBefore(is, n) /\ got = default
    \/ \E i : Latest(is, n, i) /\ got = args[i].value

Once(is, n) == \A i, j \in Given(is) : i < n /\ j < n => i = j

ReadSource(n, got) ==
    \/ NoneBefore("path", n) /\ got = NoPath
    \/ \E i : /\ Latest("path", n, i) /\ got = args[i]
             /\ \A j \in Given("path") : j < n => j = i \/ args[j] = NoPath

ReadOutput(n, got) ==
    /\ \A i \in Given("output") : i < n => i < Len(args)
    /\ \/ NoneBefore("output", n) /\ got = NoPath
       \/ \E i : Latest("output", n, i) /\ got = args[i + 1]

\* The strings an option may be, the defaults included.
Texts == STRING \cup {"", "None", "O0"}

AnyArgument == [is : ArgumentKinds, value : Texts, extension : Texts]

OptionsType ==
    [source : AnyArgument, output : AnyArgument, emit : Texts, level : Texts,
     levelSpecified : BOOLEAN, target : [triple : Texts, cpu : Texts, features : Texts]]

\* The options o are those of the arguments before n, which are legal so far.
OptionsRead(n, o) ==
    /\ o \in OptionsType
    /\ Boundary(n)
    /\ NoneBefore("unknown", n)
    /\ ReadSource(n, o.source)
    /\ ReadOutput(n, o.output)
    /\ ReadValue("emit", n, o.emit, "None") /\ Once("emit", n)
    /\ ReadValue("level", n, o.level, "O0") /\ Once("level", n)
    /\ o.levelSpecified = ~ NoneBefore("level", n)
    /\ ReadValue("triple", n, o.target.triple, "")
    /\ ReadValue("cpu", n, o.target.cpu, "")
    /\ ReadValue("features", n, o.target.features, "")

\* An argument of another kind changes nothing of what is read.
LEMMA OthersStay ==
    ASSUME args \in CommandLines, NEW n, Boundary(n), n <= Len(args), NEW m, Follows(n, m)
    PROVE  /\ \A is : is # args[n].is =>
                 /\ NoneBefore(is, n) <=> NoneBefore(is, m)
                 /\ Once(is, n) => Once(is, m)
                 /\ \A got, default : ReadValue(is, n, got, default) => ReadValue(is, m, got, default)
           /\ args[n].is # "path" => \A got : ReadSource(n, got) => ReadSource(m, got)
           /\ args[n].is # "output" => \A got : ReadOutput(n, got) => ReadOutput(m, got)
<1>1. \A is : is # args[n].is =>
         /\ NoneBefore(is, n) => NoneBefore(is, m)
         /\ \A i : Latest(is, n, i) => Latest(is, m, i)
  BY NextLatest
<1>2. \A is : is # args[n].is => \A j \in Given(is) : j < m <=> j < n
  BY NextArgument
<1>3. \A is : is # args[n].is =>
         /\ NoneBefore(is, n) <=> NoneBefore(is, m)
         /\ Once(is, n) => Once(is, m)
  BY <1>2 DEF NoneBefore, Once
<1>4. ASSUME NEW is, is # args[n].is, NEW got, NEW default, ReadValue(is, n, got, default)
      PROVE  ReadValue(is, m, got, default)
  BY <1>1, <1>4 DEF ReadValue
<1>5. ASSUME args[n].is # "path", NEW got, ReadSource(n, got) PROVE ReadSource(m, got)
  BY <1>1, <1>2, <1>5 DEF ReadSource
<1>6. ASSUME args[n].is # "output", NEW got, ReadOutput(n, got) PROVE ReadOutput(m, got)
  BY <1>1, <1>2, <1>6 DEF ReadOutput
<1> QED BY <1>3, <1>4, <1>5, <1>6

\* What the argument at n changes is read, and what is not its own stays.
LEMMA ArgumentIsRead ==
    ASSUME args \in CommandLines, NEW n, NEW o, OptionsRead(n, o), n <= Len(args), NEW m, Follows(n, m),
           NEW p \in OptionsType,
           args[n].is # "unknown",
           IF args[n].is = "path" THEN o.source = NoPath /\ p.source = args[n] ELSE p.source = o.source,
           p.output = IF args[n].is = "output" THEN args[n + 1] ELSE o.output,
           IF args[n].is = "emit" THEN o.emit = "None" /\ p.emit = args[n].value ELSE p.emit = o.emit,
           IF args[n].is = "level" THEN ~ o.levelSpecified /\ p.levelSpecified /\ p.level = args[n].value
                                   ELSE p.levelSpecified = o.levelSpecified /\ p.level = o.level,
           p.target.triple = IF args[n].is = "triple" THEN args[n].value ELSE o.target.triple,
           p.target.cpu = IF args[n].is = "cpu" THEN args[n].value ELSE o.target.cpu,
           p.target.features = IF args[n].is = "features" THEN args[n].value ELSE o.target.features
    PROVE  OptionsRead(m, p)
<1> DEFINE kind == args[n].is
<1>1. Boundary(n) /\ Boundary(m) /\ n \in 1 .. Len(args) /\ Len(args) \in Nat
  <2>1. Boundary(n)
    BY DEF OptionsRead
  <2>2. Boundary(m)
    BY <2>1, NextArgument
  <2>3. n \in 1 .. Len(args) /\ Len(args) \in Nat
    BY <2>1, LineTyped DEF Boundary
  <2> QED BY <2>1, <2>2, <2>3
<1>2. /\ Latest(kind, m, n) /\ n \in Given(kind) /\ n < m
      /\ \A j \in Given(kind) : j < m <=> j < n \/ j = n
  BY <1>1, NextLatest, NextArgument DEF Latest
<1>3. /\ \A is : is # kind =>
            /\ NoneBefore(is, n) <=> NoneBefore(is, m)
            /\ Once(is, n) => Once(is, m)
            /\ \A got, default : ReadValue(is, n, got, default) => ReadValue(is, m, got, default)
      /\ kind # "path" => \A got : ReadSource(n, got) => ReadSource(m, got)
      /\ kind # "output" => \A got : ReadOutput(n, got) => ReadOutput(m, got)
  BY <1>1, OthersStay
<1>4. \A default : ReadValue(kind, m, args[n].value, default)
  BY <1>2 DEF ReadValue
<1>5. ~ NoneBefore(kind, m)
  BY <1>2 DEF NoneBefore
<1>6. NoneBefore(kind, n) => Once(kind, m)
  BY <1>2 DEF NoneBefore, Once
<1>7. NoneBefore("unknown", m)
  BY <1>3 DEF OptionsRead
<1>8. ReadSource(m, p.source)
  <2>1. CASE kind = "path"
    <3>1. \A j \in Given("path") : j < n => args[j] = NoPath
      <4>1. CASE NoneBefore("path", n)
        BY <4>1 DEF NoneBefore
      <4>2. CASE ~ NoneBefore("path", n)
        <5>1. PICK i : /\ Latest("path", n, i) /\ o.source = args[i]
                       /\ \A j \in Given("path") : j < n => j = i \/ args[j] = NoPath
          BY <4>2 DEF OptionsRead, ReadSource
        <5> QED BY <2>1, <5>1
      <4> QED BY <4>1, <4>2
    <3>2. \A j \in Given("path") : j < m => j = n \/ args[j] = NoPath
      BY <1>2, <2>1, <3>1
    <3> QED BY <1>2, <2>1, <3>2 DEF ReadSource
  <2>2. CASE kind # "path"
    BY <1>3, <2>2 DEF OptionsRead
  <2> QED BY <2>1, <2>2
<1>9. ReadOutput(m, p.output)
  <2>1. CASE kind = "output"
    <3>1. n < Len(args)
      BY <2>1 DEF Follows
    <3>2. \A i \in Given("output") : i < m => i < Len(args)
      BY <1>2, <2>1, <3>1 DEF OptionsRead, ReadOutput
    <3> QED BY <1>2, <2>1, <3>2 DEF ReadOutput
  <2>2. CASE kind # "output"
    BY <1>3, <2>2 DEF OptionsRead
  <2> QED BY <2>1, <2>2
<1>10. ReadValue("emit", m, p.emit, "None") /\ Once("emit", m)
  <2>1. CASE kind = "emit"
    <3>1. \A i : Latest("emit", n, i) => args[i].value \in EmitModes
      BY GivenTyped, LineTyped DEF Latest
    <3>2. NoneBefore("emit", n)
      BY <2>1, <3>1 DEF OptionsRead, ReadValue, EmitModes
    <3> QED BY <1>4, <1>6, <2>1, <3>2
  <2>2. CASE kind # "emit"
    BY <1>3, <2>2 DEF OptionsRead
  <2> QED BY <2>1, <2>2
<1>11. /\ ReadValue("level", m, p.level, "O0") /\ Once("level", m)
       /\ p.levelSpecified = ~ NoneBefore("level", m)
  <2>1. CASE kind = "level"
    <3>1. NoneBefore("level", n)
      BY <2>1 DEF OptionsRead
    <3>2. p.levelSpecified = TRUE
      BY <2>1 DEF OptionsType
    <3> QED BY <1>4, <1>5, <1>6, <2>1, <3>1, <3>2
  <2>2. CASE kind # "level"
    BY <1>3, <2>2 DEF OptionsRead
  <2> QED BY <2>1, <2>2
<1>12. ReadValue("triple", m, p.target.triple, "")
  BY <1>3, <1>4 DEF OptionsRead
<1>13. ReadValue("cpu", m, p.target.cpu, "")
  BY <1>3, <1>4 DEF OptionsRead
<1>14. ReadValue("features", m, p.target.features, "")
  BY <1>3, <1>4 DEF OptionsRead
<1> QED BY <1>1, <1>7, <1>8, <1>9, <1>10, <1>11, <1>12, <1>13, <1>14 DEF OptionsRead

-----------------------------------------------------------------------------

LEMMA GivenCounted ==
    ASSUME args \in CommandLines, NEW is
    PROVE  /\ Cardinality(Given(is)) = 1 <=> Given(is) # {} /\ \A i, j \in Given(is) : i = j
           /\ Cardinality(Given(is)) <= 1 <=> \A i, j \in Given(is) : i = j
<1>1. IsFiniteSet(Given(is))
  <2>1. IsFiniteSet(1 .. Len(args))
    BY FS_Interval, LineTyped
  <2>2. Given(is) \in SUBSET (1 .. Len(args))
    BY GivenTyped
  <2> QED BY <2>1, <2>2, FS_Subset
<1>2. Cardinality(Given(is)) \in Nat
  BY <1>1, FS_CardinalityType
<1>3. Cardinality(Given(is)) = 0 <=> Given(is) = {}
  BY <1>1, FS_EmptySet
<1>4. Cardinality(Given(is)) = 1 <=> \E i : Given(is) = {i}
  BY <1>1, FS_Singleton
<1>5. Cardinality(Given(is)) = 1 <=> Given(is) # {} /\ \A i, j \in Given(is) : i = j
  BY <1>4
<1>6. Cardinality(Given(is)) <= 1 <=> Cardinality(Given(is)) = 0 \/ Cardinality(Given(is)) = 1
  BY <1>2
<1> QED BY <1>3, <1>5, <1>6

LEMMA GreatestGiven ==
    ASSUME args \in CommandLines, NEW is, Given(is) # {}
    PROVE  \E k \in Given(is) : \A j \in Given(is) : j <= k
<1> DEFINE T == {Len(args) - i : i \in Given(is)}
<1>1. \A i \in Given(is) : i \in Nat /\ Len(args) - i \in Nat
  BY GivenTyped, LineTyped
<1>2. T \in SUBSET Nat /\ T # {}
  BY <1>1
<1>3. PICK x \in T : \A y \in T : x <= y
  BY <1>2, LeastNatural, Zenon
<1>4. PICK k \in Given(is) : x = Len(args) - k
  BY <1>3
<1>5. ASSUME NEW j \in Given(is) PROVE j <= k
  <2>1. Len(args) - k <= Len(args) - j
    BY <1>3, <1>4
  <2> QED BY <1>1, <2>1, LineTyped
<1> QED BY <1>5

\* One path only is not the empty one.
LEMMA SourcesCounted ==
    ASSUME args \in CommandLines
    PROVE  Cardinality({i \in Given("path") : args[i] # NoPath}) = 1 <=>
              \E i \in Given("path") : args[i] # NoPath /\ \A j \in Given("path") : j = i \/ args[j] = NoPath
<1> DEFINE T == {i \in Given("path") : args[i] # NoPath}
<1>1. IsFiniteSet(T)
  <2>1. IsFiniteSet(1 .. Len(args))
    BY FS_Interval, LineTyped
  <2>2. T \in SUBSET (1 .. Len(args))
    BY GivenTyped
  <2> QED BY <2>1, <2>2, FS_Subset
<1>2. Cardinality(T) = 1 <=> \E i : T = {i}
  BY <1>1, FS_Singleton
<1> QED BY <1>2

LEMMA ValueOfAll ==
    ASSUME args \in CommandLines, NEW is, NEW got, NEW default, ReadValue(is, Len(args) + 1, got, default)
    PROVE  got = LastGiven(is, default)
<1>1. CASE NoneBefore(is, Len(args) + 1) /\ got = default
  BY <1>1, NoneOfAll DEF LastGiven
<1>2. ASSUME NEW i, Latest(is, Len(args) + 1, i), got = args[i].value PROVE got = LastGiven(is, default)
  <2>1. Given(is) # {} /\ Max(Given(is)) = i
    BY <1>2, LatestOfAll
  <2> QED BY <1>2, <2>1 DEF LastGiven
<1> QED BY <1>1, <1>2 DEF ReadValue

\* Once all arguments are read, the options are what the line asks for, and
\* what main still has to look at is all that may be wrong with it.
LEMMA LineIsRead ==
    ASSUME args \in CommandLines, NEW o, OptionsRead(Len(args) + 1, o)
    PROVE  /\ o = Asked
           /\ IsLegal <=> ~ \/ o.source = NoPath
                            \/ o.emit = "None"
                            \/ o.emit = "Tokens" /\ (o.target # NoTarget \/ o.levelSpecified)
<1> DEFINE n == Len(args) + 1
<1>1. \A is : \A i \in Given(is) : i < n
  BY GivenTyped, LineTyped
<1> HIDE DEF n
<1>2. o.source = Asked.source /\ \A j \in Given("path") : args[j] \in {NoPath, o.source}
  <2>1. CASE NoneBefore("path", n) /\ o.source = NoPath
    BY <2>1, NoneOfAll DEF Asked, n
  <2>2. ASSUME NEW i, Latest("path", n, i), o.source = args[i],
               \A j \in Given("path") : j < n => j = i \/ args[j] = NoPath
        PROVE  o.source = Asked.source /\ \A j \in Given("path") : args[j] \in {NoPath, o.source}
    <3>1. Given("path") # {} /\ Max(Given("path")) = i
      BY <2>2, LatestOfAll DEF n
    <3>2. Asked.source = args[i]
      BY <3>1 DEF Asked
    <3> QED BY <1>1, <2>2, <3>2
  <2> QED BY <2>1, <2>2 DEF OptionsRead, ReadSource, n
<1>3. o.output = Asked.output
  <2>1. CASE NoneBefore("output", n) /\ o.output = NoPath
    BY <2>1, NoneOfAll DEF Asked, n
  <2>2. ASSUME NEW i, Latest("output", n, i), o.output = args[i + 1] PROVE o.output = Asked.output
    <3>1. Given("output") # {} /\ Max(Given("output")) = i
      BY <2>2, LatestOfAll DEF n
    <3>2. Asked.output = args[i + 1]
      BY <3>1 DEF Asked
    <3> QED BY <2>2, <3>2
  <2> QED BY <2>1, <2>2 DEF OptionsRead, ReadOutput, n
<1>4. /\ o.emit = Asked.emit /\ o.level = Asked.level
      /\ o.target.triple = Asked.target.triple /\ o.target.cpu = Asked.target.cpu
      /\ o.target.features = Asked.target.features
  <2>1. o.emit = LastGiven("emit", "None") /\ o.level = LastGiven("level", "O0")
    BY ValueOfAll DEF OptionsRead
  <2>2. /\ o.target.triple = LastGiven("triple", "") /\ o.target.cpu = LastGiven("cpu", "")
        /\ o.target.features = LastGiven("features", "")
    BY ValueOfAll DEF OptionsRead
  <2> QED BY <2>1, <2>2 DEF Asked, Configuration
<1>5. o.levelSpecified = (Given("level") # {})
  <2>1. NoneBefore("level", n) <=> Given("level") = {}
    BY <1>1 DEF NoneBefore
  <2>2. o.levelSpecified = ~ NoneBefore("level", n)
    BY DEF OptionsRead, n
  <2> QED BY <2>1, <2>2
<1>6. o = Asked
  <2>1. o \in OptionsType
    BY DEF OptionsRead
  <2>2. o.target = Asked.target
    BY <1>4, <2>1 DEF OptionsType, Asked, Configuration
  <2>3. o.levelSpecified = Asked.levelSpecified
    BY <1>5 DEF Asked
  <2> QED BY <1>2, <1>3, <1>4, <2>1, <2>2, <2>3 DEF OptionsType, Asked
<1>7. /\ \A i \in Given("output") : i < Len(args)
      /\ Given("unknown") = {}
  <2>1. \A i \in Given("output") : i < Len(args)
    BY <1>1 DEF OptionsRead, ReadOutput, n
  <2>2. Given("unknown") = {}
    BY NoneOfAll DEF OptionsRead
  <2> QED BY <2>1, <2>2
<1>8. Cardinality(Given("emit")) = 1 <=> o.emit # "None"
  <2>1. \A i, j \in Given("emit") : i = j
    BY <1>1 DEF OptionsRead, Once, n
  <2>2. Given("emit") # {} <=> o.emit # "None"
    <3>1. \A i : Latest("emit", n, i) => i \in Given("emit") /\ args[i].value \in EmitModes
      BY GivenTyped, LineTyped DEF Latest
    <3>2. "None" \notin EmitModes
      BY DEF EmitModes
    <3>3. NoneBefore("emit", n) => Given("emit") = {}
      BY NoneOfAll DEF n
    <3>4. ReadValue("emit", n, o.emit, "None")
      BY DEF OptionsRead, n
    <3>5. CASE NoneBefore("emit", n) /\ o.emit = "None"
      BY <3>3, <3>5
    <3>6. ASSUME NEW i, Latest("emit", n, i), o.emit = args[i].value
          PROVE  Given("emit") # {} /\ o.emit # "None"
      BY <3>1, <3>2, <3>6
    <3> QED BY <3>4, <3>5, <3>6 DEF ReadValue
  <2> QED BY <2>1, <2>2, GivenCounted
<1>9. Cardinality(Given("level")) <= 1
  <2>1. \A i, j \in Given("level") : i = j
    BY <1>1 DEF OptionsRead, Once, n
  <2> QED BY <2>1, GivenCounted
<1>10. o.source # NoPath => Cardinality({i \in Given("path") : args[i] # NoPath}) = 1
  <2> SUFFICES ASSUME o.source # NoPath
               PROVE  \E i \in Given("path") : args[i] # NoPath /\ \A j \in Given("path") : j = i \/ args[j] = NoPath
    BY SourcesCounted
  <2>1. PICK i : /\ Latest("path", n, i) /\ o.source = args[i]
                 /\ \A j \in Given("path") : j < n => j = i \/ args[j] = NoPath
    BY DEF OptionsRead, ReadSource, n
  <2> QED BY <1>1, <2>1 DEF Latest
<1>11. IsLegal <=> ~ \/ o.source = NoPath
                     \/ o.emit = "None"
                     \/ o.emit = "Tokens" /\ (o.target # NoTarget \/ o.levelSpecified)
  BY <1>2, <1>6, <1>7, <1>8, <1>9, <1>10 DEF IsLegal
<1> QED BY <1>6, <1>11

\* An argument that is refused makes the line illegal, whatever follows it.
LEMMA RefusedLineIsIllegal ==
    ASSUME args \in CommandLines, NEW n, NEW o, OptionsRead(n, o), n <= Len(args),
           \/ args[n].is = "emit" /\ o.emit # "None"
           \/ args[n].is = "level" /\ o.levelSpecified
           \/ args[n].is = "output" /\ n = Len(args)
           \/ args[n].is = "unknown"
           \/ args[n].is = "path" /\ o.source # NoPath
    PROVE  ~ IsLegal
<1>1. n \in Given(args[n].is) /\ n \in Nat
  BY InLine DEF OptionsRead
<1>2. CASE args[n].is = "emit" /\ o.emit # "None"
  <2>1. PICK i : Latest("emit", n, i)
    BY <1>2 DEF OptionsRead, ReadValue
  <2>2. i \in Given("emit") /\ i # n
    BY <1>1, <2>1, GivenTyped DEF Latest
  <2> QED BY <1>1, <1>2, <2>2, GivenCounted DEF IsLegal
<1>3. CASE args[n].is = "level" /\ o.levelSpecified
  <2>1. PICK i \in Given("level") : i < n
    BY <1>3 DEF OptionsRead, NoneBefore
  <2>2. i # n
    BY <1>1, <2>1, GivenTyped
  <2> QED BY <1>1, <1>3, <2>1, <2>2, GivenCounted DEF IsLegal
<1>4. CASE args[n].is = "output" /\ n = Len(args)
  BY <1>1, <1>4 DEF IsLegal
<1>5. CASE args[n].is = "unknown"
  BY <1>1, <1>5 DEF IsLegal
<1>6. CASE args[n].is = "path" /\ o.source # NoPath
  <2> SUFFICES ASSUME IsLegal PROVE FALSE
    OBVIOUS
  <2>1. PICK i : Latest("path", n, i) /\ args[i] # NoPath
    BY <1>6 DEF OptionsRead, ReadSource
  <2>2. i \in Given("path") /\ i < n /\ i \in Nat
    BY <2>1, GivenTyped DEF Latest
  <2>3. PICK k \in Given("path") : \A j \in Given("path") : j <= k
    BY <2>2, GreatestGiven
  <2>4. k \in Nat /\ n <= k /\ i # k
    <3>1. n \in Given("path") /\ n \in Nat /\ k \in Nat
      BY <1>1, <1>6, GivenTyped
    <3>2. n <= k
      BY <2>3, <3>1
    <3> QED BY <2>2, <3>1, <3>2
  <2>5. args[k] = NoPath
    <3>1. PICK h \in Given("path") : \A j \in Given("path") : j = h \/ args[j] = NoPath
      BY SourcesCounted DEF IsLegal
    <3> QED BY <2>1, <2>2, <2>4, <3>1
  <2>6. Max(Given("path")) = k
    <3>1. \A h \in Given("path") : h \in Nat
      BY GivenTyped
    <3>2. \A h \in Given("path") : h >= k => h = k
      BY <2>3, <3>1
    <3>3. \A j \in Given("path") : k >= j
      BY <2>3, <3>1
    <3> QED BY <3>2, <3>3 DEF Max
  <2>7. Asked.source = args[k]
    BY <2>2, <2>6 DEF Asked
  <2> QED BY <2>5, <2>7 DEF IsLegal
<1> QED BY <1>2, <1>3, <1>4, <1>5, <1>6

-----------------------------------------------------------------------------

CommandInvariant ==
    /\ args \in CommandLines
    /\ pc # "exit" => error = "none"
    /\ pc = "options" => OptionsRead(index, options)
    /\ CommandLineIsUnderstood

\* What a line asks for depends on nothing else.
LEMMA LineStays ==
    ASSUME args' = args
    PROVE  /\ \A n, o : OptionsRead(n, o)' <=> OptionsRead(n, o)
           /\ Asked' = Asked /\ (IsLegal' <=> IsLegal)
<1>1. IsOperand' = IsOperand
  BY DEF IsOperand
<1>2. \A is : Given(is)' = Given(is)
  BY <1>1 DEF Given
<1>3. \A is, default : LastGiven(is, default)' = LastGiven(is, default)
  BY <1>2 DEF LastGiven
<1>4. Asked' = Asked
  BY <1>2, <1>3 DEF Asked
<1>5. IsLegal' <=> IsLegal
  BY <1>2, <1>4 DEF IsLegal
<1>6. /\ \A is, n : (NoneBefore(is, n)' <=> NoneBefore(is, n)) /\ (Once(is, n)' <=> Once(is, n))
      /\ \A is, n, i : Latest(is, n, i)' <=> Latest(is, n, i)
      /\ \A n : Boundary(n)' <=> Boundary(n)
  BY <1>1, <1>2 DEF NoneBefore, Once, Latest, Boundary
<1>7. /\ \A is, n, got, default : ReadValue(is, n, got, default)' <=> ReadValue(is, n, got, default)
      /\ \A n, got : (ReadSource(n, got)' <=> ReadSource(n, got))
                     /\ (ReadOutput(n, got)' <=> ReadOutput(n, got))
  BY <1>2, <1>6 DEF ReadValue, ReadSource, ReadOutput
<1>8. \A n, o : OptionsRead(n, o)' <=> OptionsRead(n, o)
  BY <1>6, <1>7 DEF OptionsRead
<1> QED BY <1>4, <1>5, <1>8

LEMMA NothingIsRead == DriverInit => CommandInvariant
<1> SUFFICES ASSUME DriverInit PROVE CommandInvariant
  OBVIOUS
<1>1. args \in CommandLines /\ index = 1 /\ options = NoOptions /\ pc = "options" /\ error = "none"
  BY DEF DriverInit
<1>2. Boundary(1)
  <2>1. 1 \in 1 .. Len(args) + 1 /\ (1 <= Len(args) => 1 \in 1 .. Len(args))
    BY <1>1, LineTyped
  <2> QED BY <1>1, <2>1, OperandRecursion DEF Boundary
<1>3. \A is : \A j \in Given(is) : ~ (j < 1)
  BY <1>1, GivenTyped
<1>4. NoOptions \in OptionsType
  <2>1. NoPath \in AnyArgument
    BY DEF NoPath, Path, AnyArgument, ArgumentKinds, Texts
  <2>2. NoTarget \in [triple : Texts, cpu : Texts, features : Texts]
    BY DEF NoTarget, Configuration, Texts
  <2> QED BY <2>1, <2>2 DEF NoOptions, OptionsType, Texts
<1>5. OptionsRead(1, NoOptions)
  BY <1>2, <1>3, <1>4 DEF OptionsRead, NoneBefore, Once, ReadValue, ReadSource, ReadOutput,
                           NoOptions, NoTarget, Configuration
<1> QED BY <1>1, <1>5 DEF CommandInvariant, CommandLineIsUnderstood

LEMMA UnderstandPreserves ==
    ASSUME CommandInvariant, pc = "options", NEW o, NEW n, Understand(o, n), OptionsRead(index + n, o)
    PROVE  CommandInvariant'
<1>1. args' = args /\ pc' = pc /\ error' = error /\ options' = o /\ index' = index + n
  BY DEF Understand
<1>2. OptionsRead(index, options)'
  BY <1>1, LineStays
<1> QED BY <1>1, <1>2 DEF CommandInvariant, CommandLineIsUnderstood

LEMMA RejectPreserves ==
    ASSUME CommandInvariant, pc = "options", Reject, ~ IsLegal
    PROVE  CommandInvariant'
<1>1. args' = args /\ pc' = "exit" /\ error' = "options"
  BY DEF Reject, Throw, Fail
<1>2. ~ IsLegal'
  BY <1>1, LineStays
<1> QED BY <1>1, <1>2 DEF CommandInvariant, CommandLineIsUnderstood

\* After the options, nothing changes what was understood.
LEMMA LaterCallsPreserve ==
    ASSUME CommandInvariant, pc \notin {"options", "exit"}, args' = args, options' = options,
           pc' # "options", error' \in {error, pc, "fileType"}, pc' = "exit" \/ error' = error
    PROVE  CommandInvariant'
<1>1. Asked' = Asked /\ (IsLegal' <=> IsLegal)
  BY LineStays
<1>2. error = "none" /\ error' # "options" /\ IsLegal /\ options = Asked
  BY DEF CommandInvariant, CommandLineIsUnderstood
<1> QED BY <1>1, <1>2 DEF CommandInvariant, CommandLineIsUnderstood

LEMMA ReadingPreserves ==
    ASSUME CommandInvariant, index <= Len(args),
           \/ SetEmitMode \/ SetOptimizationLevel \/ SetOutputPath \/ SetTarget
           \/ RejectUnknownOption \/ SetSourcePath
    PROVE  CommandInvariant'
<1>1. pc = "options"
  BY DEF SetEmitMode, SetOptimizationLevel, SetOutputPath, SetTarget, RejectUnknownOption,
         SetSourcePath, Parsing
<1>2. args \in CommandLines /\ OptionsRead(index, options)
  BY <1>1 DEF CommandInvariant
<1>3. /\ options \in [source : AnyArgument, output : AnyArgument, emit : Texts, level : Texts,
                      levelSpecified : BOOLEAN,
                      target : [triple : Texts, cpu : Texts, features : Texts]]
      /\ options.target \in [triple : Texts, cpu : Texts, features : Texts]
  BY <1>2 DEF OptionsRead, OptionsType
<1>4. Boundary(index)
  BY <1>2 DEF OptionsRead
<1>5. index \in 1 .. Len(args) /\ args[index] \in AnyArgument /\ args[index].value \in Texts
  <2>1. index \in 1 .. Len(args) /\ args[index] \in [is : ArgumentKinds, value : STRING, extension : STRING]
    BY <1>2, <1>4, InLine
  <2> QED BY <2>1 DEF AnyArgument, Texts
<1>6. ASSUME Reject, \/ args[index].is = "emit" /\ options.emit # "None"
                     \/ args[index].is = "level" /\ options.levelSpecified
                     \/ args[index].is = "output" /\ index = Len(args)
                     \/ args[index].is = "unknown"
                     \/ args[index].is = "path" /\ options.source # NoPath
      PROVE CommandInvariant'
  BY <1>1, <1>2, <1>6, RefusedLineIsIllegal, RejectPreserves
<1>7. CASE SetEmitMode
  <2>1. args[index].is = "emit"
    BY <1>7 DEF SetEmitMode, Parsing
  <2>2. CASE options.emit # "None"
    BY <1>6, <1>7, <2>1, <2>2 DEF SetEmitMode
  <2>3. CASE options.emit = "None"
    <3> DEFINE o == [options EXCEPT !.emit = args[index].value]
    <3>1. Understand(o, 1)
      BY <1>7, <2>3 DEF SetEmitMode, Value
    <3>2. Follows(index, index + 1)
      BY <2>1 DEF Follows
    <3>3. /\ o \in OptionsType /\ o.source = options.source /\ o.output = options.output
          /\ o.emit = args[index].value /\ o.level = options.level
          /\ o.levelSpecified = options.levelSpecified /\ o.target = options.target
      BY <1>3, <1>5 DEF OptionsType
    <3> HIDE DEF o
    <3>4. OptionsRead(index + 1, o)
      BY <1>2, <2>1, <2>3, <3>2, <3>3, ArgumentIsRead
    <3> QED BY <1>1, <3>1, <3>4, UnderstandPreserves
  <2> QED BY <2>2, <2>3
<1>8. CASE SetOptimizationLevel
  <2>1. args[index].is = "level"
    BY <1>8 DEF SetOptimizationLevel, Parsing
  <2>2. CASE options.levelSpecified
    BY <1>6, <1>8, <2>1, <2>2 DEF SetOptimizationLevel
  <2>3. CASE ~ options.levelSpecified
    <3> DEFINE o == [options EXCEPT !.level = args[index].value, !.levelSpecified = TRUE]
    <3>1. Understand(o, 1)
      BY <1>8, <2>3 DEF SetOptimizationLevel, Value
    <3>2. Follows(index, index + 1)
      BY <2>1 DEF Follows
    <3>3. /\ o \in OptionsType /\ o.source = options.source /\ o.output = options.output
          /\ o.emit = options.emit /\ o.level = args[index].value
          /\ o.levelSpecified = TRUE /\ o.target = options.target
      BY <1>3, <1>5 DEF OptionsType
    <3> HIDE DEF o
    <3>4. OptionsRead(index + 1, o)
      BY <1>2, <2>1, <2>3, <3>2, <3>3, ArgumentIsRead
    <3> QED BY <1>1, <3>1, <3>4, UnderstandPreserves
  <2> QED BY <2>2, <2>3
<1>9. CASE SetOutputPath
  <2>1. args[index].is = "output"
    BY <1>9 DEF SetOutputPath, Parsing
  <2>2. CASE index = Len(args)
    BY <1>6, <1>9, <2>1, <2>2 DEF SetOutputPath
  <2>3. CASE index # Len(args)
    <3> DEFINE o == [options EXCEPT !.output = args[index + 1]]
    <3>1. Understand(o, 2)
      BY <1>9, <2>3 DEF SetOutputPath
    <3>2. index < Len(args) /\ index + 1 \in 1 .. Len(args)
      <4>1. Len(args) \in Nat
        BY <1>2, LineTyped
      <4> QED BY <1>5, <2>3, <4>1
    <3>3. Follows(index, index + 2)
      BY <2>1, <3>2 DEF Follows
    <3>4. args[index + 1] \in AnyArgument
      BY <1>2, <3>2, LineTyped DEF AnyArgument, Texts
    <3>5. /\ o \in OptionsType /\ o.source = options.source /\ o.output = args[index + 1]
          /\ o.emit = options.emit /\ o.level = options.level
          /\ o.levelSpecified = options.levelSpecified /\ o.target = options.target
      BY <1>3, <3>4 DEF OptionsType
    <3> HIDE DEF o
    <3>6. OptionsRead(index + 2, o)
      BY <1>2, <2>1, <2>3, <3>3, <3>5, ArgumentIsRead
    <3> QED BY <1>1, <3>1, <3>6, UnderstandPreserves
  <2> QED BY <2>2, <2>3
<1>10. CASE SetTarget
  <2>1. PICK o : /\ Understand(o, 1) /\ args[index].is \in {"triple", "cpu", "features"}
                 /\ o \in OptionsType /\ o.source = options.source /\ o.output = options.output
                 /\ o.emit = options.emit /\ o.level = options.level
                 /\ o.levelSpecified = options.levelSpecified
                 /\ o.target.triple = IF args[index].is = "triple" THEN args[index].value
                                       ELSE options.target.triple
                 /\ o.target.cpu = IF args[index].is = "cpu" THEN args[index].value
                                    ELSE options.target.cpu
                 /\ o.target.features = IF args[index].is = "features" THEN args[index].value
                                         ELSE options.target.features
    <3>1. CASE Parsing("triple") /\ Understand([options EXCEPT !.target.triple = Value], 1)
      <4> DEFINE o == [options EXCEPT !.target.triple = args[index].value]
      <4>1. /\ o \in OptionsType /\ o.source = options.source /\ o.output = options.output
            /\ o.emit = options.emit /\ o.level = options.level
            /\ o.levelSpecified = options.levelSpecified
            /\ o.target.triple = args[index].value /\ o.target.cpu = options.target.cpu
            /\ o.target.features = options.target.features
        BY <1>3, <1>5 DEF OptionsType
      <4>2. Understand(o, 1) /\ args[index].is = "triple"
        BY <3>1 DEF Parsing, Value
      <4> HIDE DEF o
      <4> QED BY <4>1, <4>2
    <3>2. CASE Parsing("cpu") /\ Understand([options EXCEPT !.target.cpu = Value], 1)
      <4> DEFINE o == [options EXCEPT !.target.cpu = args[index].value]
      <4>1. /\ o \in OptionsType /\ o.source = options.source /\ o.output = options.output
            /\ o.emit = options.emit /\ o.level = options.level
            /\ o.levelSpecified = options.levelSpecified
            /\ o.target.triple = options.target.triple /\ o.target.cpu = args[index].value
            /\ o.target.features = options.target.features
        BY <1>3, <1>5 DEF OptionsType
      <4>2. Understand(o, 1) /\ args[index].is = "cpu"
        BY <3>2 DEF Parsing, Value
      <4> HIDE DEF o
      <4> QED BY <4>1, <4>2
    <3>3. CASE Parsing("features") /\ Understand([options EXCEPT !.target.features = Value], 1)
      <4> DEFINE o == [options EXCEPT !.target.features = args[index].value]
      <4>1. /\ o \in OptionsType /\ o.source = options.source /\ o.output = options.output
            /\ o.emit = options.emit /\ o.level = options.level
            /\ o.levelSpecified = options.levelSpecified
            /\ o.target.triple = options.target.triple /\ o.target.cpu = options.target.cpu
            /\ o.target.features = args[index].value
        BY <1>3, <1>5 DEF OptionsType
      <4>2. Understand(o, 1) /\ args[index].is = "features"
        BY <3>3 DEF Parsing, Value
      <4> HIDE DEF o
      <4> QED BY <4>1, <4>2
    <3> QED BY <1>10, <3>1, <3>2, <3>3 DEF SetTarget
  <2>2. Follows(index, index + 1)
    BY <2>1 DEF Follows
  <2>3. OptionsRead(index + 1, o)
    BY <1>2, <2>1, <2>2, ArgumentIsRead
  <2> QED BY <1>1, <2>1, <2>3, UnderstandPreserves
<1>11. CASE RejectUnknownOption
  BY <1>6, <1>11 DEF RejectUnknownOption, Parsing
<1>12. CASE SetSourcePath
  <2>1. args[index].is = "path"
    BY <1>12 DEF SetSourcePath, Parsing
  <2>2. CASE options.source # NoPath
    BY <1>6, <1>12, <2>1, <2>2 DEF SetSourcePath
  <2>3. CASE options.source = NoPath
    <3> DEFINE o == [options EXCEPT !.source = args[index]]
    <3>1. Understand(o, 1)
      BY <1>12, <2>3 DEF SetSourcePath
    <3>2. Follows(index, index + 1)
      BY <2>1 DEF Follows
    <3>3. /\ o \in OptionsType /\ o.source = args[index] /\ o.output = options.output
          /\ o.emit = options.emit /\ o.level = options.level
          /\ o.levelSpecified = options.levelSpecified /\ o.target = options.target
      BY <1>3, <1>5 DEF OptionsType
    <3> HIDE DEF o
    <3>4. OptionsRead(index + 1, o)
      BY <1>2, <2>1, <2>3, <3>2, <3>3, ArgumentIsRead
    <3> QED BY <1>1, <3>1, <3>4, UnderstandPreserves
  <2> QED BY <2>2, <2>3
<1> QED BY <1>7, <1>8, <1>9, <1>10, <1>11, <1>12

LEMMA CheckPreserves == CommandInvariant /\ CheckOptions => CommandInvariant'
<1> SUFFICES ASSUME CommandInvariant, CheckOptions PROVE CommandInvariant'
  OBVIOUS
<1>1. pc = "options" /\ index > Len(args) /\ args \in CommandLines /\ OptionsRead(index, options)
      /\ error = "none"
  BY DEF CheckOptions, CommandInvariant
<1>2. index = Len(args) + 1
  <2>1. index \in 1 .. Len(args) + 1
    BY <1>1 DEF OptionsRead, Boundary
  <2> QED BY <1>1, <2>1, LineTyped
<1>3. /\ options = Asked
      /\ IsLegal <=> ~ \/ options.source = NoPath
                       \/ options.emit = "None"
                       \/ options.emit = "Tokens" /\ (options.target # NoTarget \/ options.levelSpecified)
  BY <1>1, <1>2, LineIsRead
<1>4. CASE ~ IsLegal
  BY <1>1, <1>3, <1>4, RejectPreserves DEF CheckOptions
<1>5. CASE IsLegal
  <2>1. Go("readFile")
    BY <1>3, <1>5 DEF CheckOptions
  <2>2. args' = args /\ pc' = "readFile" /\ error' = "none" /\ options' = options
    BY <1>1, <2>1 DEF Go
  <2> QED BY <1>1, <1>3, <1>5, <2>2, LineStays DEF CommandInvariant, CommandLineIsUnderstood
<1> QED BY <1>4, <1>5

LEMMA CommandStep ==
    CommandInvariant /\ [DriverStep \/ DriverEnded]_driverVars => CommandInvariant'
<1> SUFFICES ASSUME CommandInvariant, [DriverStep \/ DriverEnded]_driverVars PROVE CommandInvariant'
  OBVIOUS
<1>1. CASE UNCHANGED driverVars \/ DriverEnded
  <2>1. UNCHANGED <<args, index, options, pc, error>>
    BY <1>1 DEF driverVars, DriverEnded
  <2> QED BY <2>1, LineStays DEF CommandInvariant, CommandLineIsUnderstood
<1>2. CASE \/ SetEmitMode \/ SetOptimizationLevel \/ SetOutputPath \/ SetTarget
           \/ RejectUnknownOption \/ SetSourcePath
  <2>1. index <= Len(args)
    BY <1>2 DEF SetEmitMode, SetOptimizationLevel, SetOutputPath, SetTarget, RejectUnknownOption,
                SetSourcePath, Parsing
  <2> QED BY <1>2, <2>1, ReadingPreserves
<1>3. CASE CheckOptions
  BY <1>3, CheckPreserves
<1>4. CASE ReadFile \/ CompileToLLVM \/ Optimize \/ ConfigureTarget \/ OpenOutput \/ Emit
  <2>1. /\ pc \in {"readFile", "compileToLLVM", "optimize", "configure", "open", "emit"}
        /\ args' = args /\ options' = options /\ error' \in {error, pc, "fileType"} /\ pc' # "options"
        /\ pc' = "exit" \/ error' = error
    BY <1>4 DEF ReadFile, CompileToLLVM, Optimize, ConfigureTarget, OpenOutput, Emit, Verify, Throw, Fail, Go
  <2> QED BY <2>1, LaterCallsPreserve
<1> QED BY <1>1, <1>2, <1>3, <1>4 DEF DriverStep

\* A command line of any length is refused exactly if it is illegal, and
\* otherwise means what it means read as a whole: the loop, which reads it
\* from the left and takes the argument after a -o with it, loses nothing.
THEOREM LinesAreUnderstood == DriverSpec => []CommandLineIsUnderstood
<1>1. CommandInvariant => CommandLineIsUnderstood
  BY DEF CommandInvariant
<1> QED BY <1>1, NothingIsRead, CommandStep, PTL DEF DriverSpec

-----------------------------------------------------------------------------
(* The files *)

LEMMA MaxGiven ==
    ASSUME args \in CommandLines, NEW is, Given(is) # {}
    PROVE  Max(Given(is)) \in Given(is)
<1>1. PICK k \in Given(is) : \A j \in Given(is) : j <= k
  BY GreatestGiven
<1>2. \A j \in Given(is) : k >= j
  BY <1>1, GivenTyped
<1> QED BY <1>1, <1>2 DEF Max

\* The paths a legal line is about: those of files, and the output is where
\* the line asks for it.
LEMMA PathsOfLegalLine ==
    ASSUME args \in CommandLines, IsLegal, options = Asked
    PROVE  /\ options.source.is = "path" /\ options.source \in Paths
           /\ options.emit \in EmitModes
           /\ options.output # NoPath => \E i \in Given("output") : args[i + 1] = options.output
           /\ OutputPath = AskedPath
           /\ OutputPath \in Paths
<1>1. /\ options.source = Asked.source /\ options.output = Asked.output /\ options.emit = Asked.emit
      /\ Asked.source # NoPath
  BY DEF IsLegal
<1>2. \E i \in 1 .. Len(args) : options.source = args[i] /\ args[i].is = "path"
  <2>1. Given("path") # {} /\ Asked.source = args[Max(Given("path"))]
    BY <1>1 DEF Asked
  <2> QED BY <1>1, <2>1, MaxGiven, GivenTyped
<1>3. PICK s \in 1 .. Len(args) : options.source = args[s] /\ args[s].is = "path"
  BY <1>2
<1>4. /\ options.source \in [is : ArgumentKinds, value : STRING, extension : STRING]
      /\ options.source.is = "path" /\ options.source \in Paths
      /\ \A extension \in {".s", ".o"} : Path(options.source.value, extension) \in Paths
  BY <1>3, LineTyped
<1>5. \A extension : [options.source EXCEPT !.extension = extension] = Path(options.source.value, extension)
  <2> DEFINE a == options.source
  <2>1. a \in [is : ArgumentKinds, value : STRING, extension : STRING] /\ a.is = "path"
    BY <1>4
  <2> HIDE DEF a
  <2>2. \A extension : [a EXCEPT !.extension = extension] = Path(a.value, extension)
    BY <2>1 DEF Path
  <2> QED BY <2>2 DEF a
<1>6. options.emit \in EmitModes
  <2>1. Given("emit") # {}
    BY GivenCounted DEF IsLegal
  <2>2. options.emit = args[Max(Given("emit"))].value
    BY <1>1, <2>1 DEF Asked, LastGiven
  <2>3. Max(Given("emit")) \in 1 .. Len(args) /\ args[Max(Given("emit"))].is = "emit"
    BY <2>1, MaxGiven, GivenTyped
  <2> QED BY <2>2, <2>3, LineTyped
<1>7. ASSUME options.output # NoPath
      PROVE  \E i \in Given("output") : args[i + 1] = options.output /\ i + 1 \in 1 .. Len(args)
  <2>1. Given("output") # {} /\ options.output = args[Max(Given("output")) + 1]
    BY <1>1, <1>7 DEF Asked
  <2>2. Max(Given("output")) \in Given("output")
    BY <2>1, MaxGiven
  <2>3. \A i \in Given("output") : i + 1 \in 1 .. Len(args)
    <3>1. \A i \in Given("output") : i \in Nat /\ i < Len(args)
      BY GivenTyped DEF IsLegal
    <3>2. Len(args) \in Nat
      BY LineTyped
    <3> QED BY <3>1, <3>2
  <2> QED BY <2>1, <2>2, <2>3
<1>8. OutputPath = AskedPath /\ OutputPath \in Paths
  <2>1. CASE options.output # NoPath
    <3>1. OutputPath = options.output
      BY <2>1, Zenon DEF OutputPath
    <3>2. AskedPath = options.output
      BY <1>1, <2>1 DEF AskedPath
    <3> QED BY <1>7, <2>1, <3>1, <3>2, LineTyped
  <2>2. CASE options.output = NoPath /\ options.emit \in {"LLVM", "LLVMBeforeOptimization", "Tokens"}
    <3>1. OutputPath = StandardOutput /\ AskedPath = StandardOutput
      BY <1>1, <2>2 DEF OutputPath, AskedPath, IsNative
    <3> QED BY <3>1, PathsAssumption
  <2>3. CASE options.output = NoPath /\ options.emit \in {"Assembly", "Object"}
    <3> DEFINE extension == IF options.emit = "Assembly" THEN ".s" ELSE ".o"
    <3>1. IsNative /\ ExtensionOf[options.emit] = extension
      BY <2>3 DEF IsNative, ExtensionOf
    <3>2. OutputPath = [options.source EXCEPT !.extension = ExtensionOf[options.emit]]
      BY <2>3, <3>1, Zenon DEF OutputPath
    <3>3. OutputPath = Path(options.source.value, extension)
      BY <1>5, <3>1, <3>2, Zenon
    <3>4. AskedPath = Path(options.source.value, extension)
      BY <1>1, <2>3 DEF AskedPath
    <3> QED BY <1>4, <3>3, <3>4
  <2> QED BY <1>6, <2>1, <2>2, <2>3 DEF EmitModes
<1> QED BY <1>4, <1>6, <1>7, <1>8

\* The files once the output is open.
Opened ==
    IF OutputPath = StandardOutput THEN original
    ELSE [original EXCEPT ![OutputPath] = Truncated]

\* What the files are until something is written.
Unwritten ==
    /\ (pc \notin {"emit", "exit"} \/ error \notin {"none", "emit", "fileType"}) => files = original
    /\ (pc = "emit" \/ error = "fileType") => files = Opened
    /\ error = "fileType" => options.emit = "Object" /\ Selected.triple \notin ObjectTargets

LEMMA UnwrittenStart == DriverInit => Unwritten
BY DEF DriverInit, Unwritten

\* A call that comes before the output is opened changes no file.
LEMMA EarlyCallsKeepFiles ==
    ASSUME DriverInvariant, Unwritten, pc \notin {"emit", "exit"}, files' = files, original' = original,
           pc' # "emit", error' \in {error, pc}
    PROVE  Unwritten'
<1>1. error = "none" /\ pc \in Calls /\ files = original
  BY DEF DriverInvariant, ErrorEnds, Unwritten
<1>2. error' # "fileType"
  BY <1>1 DEF Calls
<1> QED BY <1>1, <1>2 DEF Unwritten

LEMMA OpeningTruncates ==
    ASSUME DriverInvariant, Unwritten, OpenOutput
    PROVE  Unwritten'
<1>1. pc = "open" /\ error = "none" /\ files = original
  BY DEF OpenOutput, DriverInvariant, ErrorEnds, Unwritten
<1>2. CASE Throw /\ UNCHANGED files
  <2>1. pc' = "exit" /\ error' = "open" /\ files' = original'
    BY <1>1, <1>2 DEF Throw, Fail
  <2> QED BY <2>1 DEF Unwritten
<1>3. CASE /\ Go("emit")
           /\ files' = IF OutputPath = StandardOutput THEN files
                       ELSE [files EXCEPT ![OutputPath] = Truncated]
  <2>1. pc' = "emit" /\ error' = "none" /\ original' = original /\ OutputPath' = OutputPath
    BY <1>1, <1>3 DEF Go, OutputPath, IsNative
  <2>2. files' = Opened'
    BY <1>1, <1>3, <2>1 DEF Opened
  <2> QED BY <2>1, <2>2 DEF Unwritten
<1> QED BY <1>2, <1>3 DEF OpenOutput

LEMMA EmittingWrites ==
    ASSUME DriverInvariant, Unwritten, Emit
    PROVE  Unwritten'
<1>1. pc = "emit" /\ error = "none" /\ files = Opened
  BY DEF Emit, DriverInvariant, ErrorEnds, Unwritten
<1>2. pc' = "exit" /\ UNCHANGED <<options, original>>
  BY DEF Emit, Throw, Fail, Go
<1>3. CASE error' \in {"none", "emit"}
  BY <1>2, <1>3 DEF Unwritten
<1>4. CASE error' \notin {"none", "emit"}
  <2>1. /\ options.emit = "Object" /\ Selected.triple \notin ObjectTargets
        /\ error' = "fileType" /\ files' = files
    BY <1>1, <1>4 DEF Emit, Throw, Fail, Go
  <2>2. Opened' = Opened /\ Selected' = Selected
    BY <1>2 DEF Opened, OutputPath, IsNative, Selected
  <2> QED BY <1>1, <1>2, <2>1, <2>2 DEF Unwritten
<1> QED BY <1>3, <1>4

LEMMA UnwrittenStep ==
    DriverInvariant /\ Unwritten /\ [DriverStep \/ DriverEnded]_driverVars => Unwritten'
<1> SUFFICES ASSUME DriverInvariant, Unwritten, [DriverStep \/ DriverEnded]_driverVars
             PROVE  Unwritten'
  OBVIOUS
<1>1. CASE UNCHANGED driverVars \/ DriverEnded
  <2>1. UNCHANGED <<options, pc, error, files, original>>
    BY <1>1 DEF driverVars, DriverEnded
  <2>2. Opened' = Opened /\ Selected' = Selected
    BY <2>1 DEF Opened, OutputPath, IsNative, Selected
  <2> QED BY <2>1, <2>2 DEF Unwritten
<1>2. CASE \/ SetEmitMode \/ SetOptimizationLevel \/ SetOutputPath \/ SetTarget
           \/ RejectUnknownOption \/ SetSourcePath
  <2>1. pc = "options" /\ (Reject \/ \E o, n : Understand(o, n))
    BY <1>2 DEF SetEmitMode, SetOptimizationLevel, SetOutputPath, SetTarget, RejectUnknownOption,
                SetSourcePath, Parsing
  <2>2. files' = files /\ original' = original /\ pc' # "emit" /\ error' \in {error, pc}
    BY <2>1 DEF Reject, Throw, Fail, Understand
  <2> QED BY <2>1, <2>2, EarlyCallsKeepFiles
<1>3. CASE CheckOptions \/ ReadFile \/ CompileToLLVM \/ Optimize \/ ConfigureTarget
  <2>1. /\ pc \notin {"emit", "exit"}
        /\ files' = files /\ original' = original /\ pc' # "emit" /\ error' \in {error, pc}
    BY <1>3 DEF CheckOptions, ReadFile, CompileToLLVM, Optimize, ConfigureTarget, Verify, Reject,
                Throw, Fail, Go
  <2> QED BY <2>1, EarlyCallsKeepFiles
<1> QED BY <1>1, <1>2, <1>3, OpeningTruncates, EmittingWrites DEF DriverStep

LEMMA SelectedIsAsked ==
    ASSUME options = Asked
    PROVE  Selected.triple = AskedTriple
<1>1. Selected = [Asked.target EXCEPT !.triple = AskedTriple]
  BY Zenon DEF Selected, AskedTriple
<1>2. Asked.target = Configuration(LastGiven("triple", ""), LastGiven("cpu", ""), LastGiven("features", ""))
  BY DEF Asked
<1>3. PICK triple, cpu, features : Asked.target = [triple |-> triple, cpu |-> cpu, features |-> features]
  BY <1>2, Zenon DEF Configuration
<1>4. ASSUME NEW t, t = Asked.target, NEW new
      PROVE  [t EXCEPT !.triple = new].triple = new
  <2>1. t = [triple |-> triple, cpu |-> cpu, features |-> features]
    BY <1>3, <1>4
  <2> QED BY <2>1
<1> QED BY <1>1, <1>4, Zenon

LEMMA OutputFollows == DriverInvariant /\ CommandInvariant /\ Unwritten => OnlyLateRefusalsTruncate
<1> SUFFICES ASSUME DriverInvariant, CommandInvariant, Unwritten
             PROVE  OnlyLateRefusalsTruncate
  OBVIOUS
<1>1. ASSUME pc # "options", error # "options"
      PROVE  /\ options = Asked /\ OutputPath = AskedPath /\ Selected.triple = AskedTriple
             /\ options.emit = Asked.emit
  <2>1. args \in CommandLines /\ IsLegal /\ options = Asked
    BY <1>1 DEF CommandInvariant, CommandLineIsUnderstood
  <2> QED BY <2>1, PathsOfLegalLine, SelectedIsAsked
<1>2. error # "none" => pc = "exit"
  BY DEF DriverInvariant, ErrorEnds
<1>3. error \notin {"none", "emit", "fileType"} => files = original
  BY DEF Unwritten
<1>4. ASSUME error = "fileType"
      PROVE  /\ Asked.emit = "Object" /\ AskedTriple \notin ObjectTargets
             /\ files = IF AskedPath = StandardOutput THEN original
                        ELSE [original EXCEPT ![AskedPath] = Truncated]
  <2>1. OutputPath = AskedPath /\ Selected.triple = AskedTriple /\ options.emit = Asked.emit
    BY <1>1, <1>2, <1>4
  <2>2. /\ options.emit = "Object" /\ Selected.triple \notin ObjectTargets
        /\ files = IF OutputPath = StandardOutput THEN original
                   ELSE [original EXCEPT ![OutputPath] = Truncated]
    BY <1>4, Zenon DEF Unwritten, Opened
  <2> QED BY <2>1, <2>2, Zenon
<1>5. ASSUME NEW path \in Paths, files[path] # original[path]
      PROVE  path = AskedPath
  <2>1. path = OutputPath /\ pc \in {"emit", "exit"} /\ error \in {"none", "emit", "fileType"}
    BY <1>5 DEF DriverInvariant, OnlyOutputChanges
  <2> QED BY <1>1, <2>1
<1> QED BY <1>3, <1>4, <1>5, Zenon DEF OnlyLateRefusalsTruncate

LEMMA SourceFollows == DriverInvariant /\ CommandInvariant => SourceIsKept
<1> SUFFICES ASSUME DriverInvariant, CommandInvariant,
                    options.source \in Paths, files[options.source] # original[options.source]
             PROVE  \/ \E i \in Given("output") : args[i + 1] = options.source
                    \/ Asked.emit = "Assembly" /\ options.source.extension = ".s"
                    \/ Asked.emit = "Object" /\ options.source.extension = ".o"
  BY DEF SourceIsKept
<1>1. options.source = OutputPath /\ pc \in {"emit", "exit"} /\ error \in {"none", "emit", "fileType"}
  BY DEF DriverInvariant, OnlyOutputChanges
<1>2. args \in CommandLines /\ IsLegal /\ options = Asked
  BY <1>1 DEF CommandInvariant, CommandLineIsUnderstood
<1>3. options.source = AskedPath /\ options.source.is = "path" /\ options.emit \in EmitModes
  BY <1>1, <1>2, PathsOfLegalLine
<1>4. CASE options.output # NoPath
  <2>1. OutputPath = options.output
    BY <1>4, Zenon DEF OutputPath
  <2> QED BY <1>1, <1>2, <1>4, <2>1, PathsOfLegalLine
<1>5. CASE options.output = NoPath
  <2>1. CASE Asked.emit \in {"LLVM", "LLVMBeforeOptimization", "Tokens"}
    <3>1. options.source = StandardOutput
      BY <1>2, <1>3, <1>5, <2>1 DEF AskedPath
    <3>2. StandardOutput.is = "unknown"
      BY DEF StandardOutput, Argument
    <3> QED BY <1>3, <3>1, <3>2
  <2>2. CASE Asked.emit \in {"Assembly", "Object"}
    BY <1>2, <1>3, <1>5, <2>2 DEF AskedPath, Path
  <2> QED BY <1>2, <1>3, <2>1, <2>2 DEF EmitModes
<1> QED BY <1>4, <1>5

LEMMA BothInvariantsHold == DriverSpec => [](DriverInvariant /\ CommandInvariant)
BY DriverInvariantHolds, NothingIsRead, CommandStep, PTL DEF DriverSpec

\* Whatever is refused, and whatever call throws: no file changes but the
\* output the command line asks for; that one is only lost to output that was
\* not written completely, or to a target that turns out to have no object
\* files when the output is open already.
THEOREM RefusalsAreClean == DriverSpec => []OnlyLateRefusalsTruncate
BY OutputFollows, BothInvariantsHold, UnwrittenStart, UnwrittenStep, PTL DEF DriverSpec

\* The source is only overwritten if a -o names it, or if it has the
\* extension a default output gets.
THEOREM SourceSurvives == DriverSpec => []SourceIsKept
BY SourceFollows, BothInvariantsHold, PTL

-----------------------------------------------------------------------------
(* The output *)

Module(level, target) == [of |-> Text(options.source), level |-> level, target |-> target, valid |-> TRUE]

FinalLevel == IF options.emit = "LLVMBeforeOptimization" THEN "O0" ELSE options.level
FinalTarget == IF ~ IsNative /\ options.target = NoTarget THEN NoTarget ELSE Selected
FinalOutput ==
    Output(options.emit, IF options.emit = "Tokens" THEN Text(options.source)
                         ELSE Module(FinalLevel, FinalTarget))

\* What main has made of the source so far.
Stages ==
    /\ DOMAIN original = Paths
    /\ \A path \in Paths : original[path] \in {Text(path), Missing}
    /\ pc \in {"compileToLLVM", "optimize", "configure", "open", "emit"} => source = Text(options.source)
    /\ pc = "compileToLLVM" => options.emit # "Tokens"
    /\ pc = "optimize" => /\ module = Module("O0", NoTarget)
                          /\ options.emit \notin {"Tokens", "LLVMBeforeOptimization"}
    /\ pc = "configure" => module = Module(FinalLevel, NoTarget) /\ options.emit # "Tokens"
    /\ pc \in {"open", "emit"} => options.emit = "Tokens" \/ module = Module(FinalLevel, FinalTarget)
    /\ pc = "exit" /\ error = "none" => files = [original EXCEPT ![OutputPath] = FinalOutput]

LEMMA FirstStage == DriverInit => Stages
<1> SUFFICES ASSUME DriverInit PROVE Stages
  OBVIOUS
<1>1. pc = "options"
  BY DEF DriverInit
<1>2. DOMAIN original = Paths /\ \A path \in Paths : original[path] \in {Text(path), Missing}
  BY DEF DriverInit
<1> QED BY <1>1, <1>2 DEF Stages

\* The definitions above depend on the options only.
LEMMA OptionsDecide ==
    ASSUME options' = options
    PROVE  /\ FinalLevel' = FinalLevel /\ FinalTarget' = FinalTarget /\ FinalOutput' = FinalOutput
           /\ OutputPath' = OutputPath
           /\ \A level, target : Module(level, target)' = Module(level, target)
BY DEF FinalLevel, FinalTarget, FinalOutput, OutputPath, Module, IsNative, Selected

LEMMA FailStops ==
    ASSUME Stages, NEW what, what # "none", Fail(what)
    PROVE  Stages'
BY DEF Stages, Fail

LEMMA ThrowStops ==
    ASSUME Stages, pc \notin {"exit", "none"}, Throw
    PROVE  Stages'
BY FailStops DEF Throw

\* Options are only read.
LEMMA OptionsStage ==
    ASSUME Stages, pc = "options", pc' \in {"options", "readFile"}, original' = original
    PROVE  Stages'
BY DEF Stages

LEMMA ReadStage ==
    ASSUME DriverInvariant, CommandInvariant, Stages, ReadFile
    PROVE  Stages'
<1>1. CASE Throw
  BY <1>1, ThrowStops DEF ReadFile
<1>2. CASE /\ files[options.source] # Missing
           /\ source' = files[options.source]
           /\ Go(IF options.emit = "Tokens" THEN "open" ELSE "compileToLLVM")
           /\ UNCHANGED <<files, module>>
  <2>1. pc = "readFile" /\ error = "none"
    BY DEF ReadFile, DriverInvariant, ErrorEnds
  <2>2. args \in CommandLines /\ IsLegal /\ options = Asked
    BY <2>1 DEF CommandInvariant, CommandLineIsUnderstood
  <2>3. options.source \in Paths
    BY <2>2, PathsOfLegalLine
  <2>4. files[options.source] = Text(options.source)
    BY <1>2, <2>1, <2>3, Untouched DEF Stages
  <2>5. options' = options /\ original' = original /\ error' = "none"
    BY <1>2, <2>1 DEF Go
  <2>6. source' = Text(options'.source)
    BY <1>2, <2>4, <2>5
  <2>7. CASE options.emit = "Tokens"
    <3>1. pc' = "open"
      BY <1>2, <2>7 DEF Go
    <3> QED BY <2>5, <2>6, <2>7, <3>1 DEF Stages
  <2>8. CASE options.emit # "Tokens"
    <3>1. pc' = "compileToLLVM"
      BY <1>2, <2>8 DEF Go
    <3> QED BY <2>5, <2>6, <2>8, <3>1 DEF Stages
  <2> QED BY <2>7, <2>8
<1> QED BY <1>1, <1>2 DEF ReadFile

LEMMA CompileStage ==
    ASSUME Stages, CompileToLLVM
    PROVE  Stages'
<1>1. CASE Throw
  BY <1>1, ThrowStops DEF CompileToLLVM
<1>2. CASE /\ module' = [of |-> source, level |-> "O0", target |-> NoTarget, valid |-> TRUE]
           /\ Go(IF options.emit = "LLVMBeforeOptimization" THEN "configure" ELSE "optimize")
           /\ UNCHANGED <<files, source>>
  <2>1. pc = "compileToLLVM" /\ source = Text(options.source) /\ options.emit # "Tokens"
    BY DEF CompileToLLVM, Stages
  <2>2. options' = options /\ original' = original /\ source' = source
    BY <1>2 DEF Go
  <2>3. module' = Module("O0", NoTarget)
    BY <1>2, <2>1 DEF Module
  <2>4. CASE options.emit = "LLVMBeforeOptimization"
    <3>1. pc' = "configure" /\ FinalLevel = "O0"
      BY <1>2, <2>4 DEF Go, FinalLevel
    <3> QED BY <2>1, <2>2, <2>3, <3>1, OptionsDecide DEF Stages
  <2>5. CASE options.emit # "LLVMBeforeOptimization"
    <3>1. pc' = "optimize"
      BY <1>2, <2>5 DEF Go
    <3> QED BY <2>1, <2>2, <2>3, <2>5, <3>1, OptionsDecide DEF Stages
  <2> QED BY <2>4, <2>5
<1> QED BY <1>1, <1>2 DEF CompileToLLVM

\* What verify makes of a module it knows to be valid, or not.
LEMMA VerifiedOrThrown ==
    ASSUME NEW m, NEW next, Verify(m, next)
    PROVE  Throw \/ (m.valid /\ Go(next) /\ source' = source /\ module' = m)
BY DEF Verify

IsMade(m, level, target, valid) ==
    m = [of |-> Text(options.source), level |-> level, target |-> target, valid |-> valid]

LEMMA ModuleUpdates ==
    ASSUME NEW level, NEW target, NEW valid, IsMade(module, level, target, valid),
           NEW new, NEW holds
    PROVE  /\ IsMade([module EXCEPT !.level = new, !.valid = holds], new, target, holds)
           /\ IsMade([module EXCEPT !.target = new, !.valid = holds], level, new, holds)
<1> DEFINE of == Text(options.source)
<1> HIDE DEF of
<1>1. \A m : m = [of |-> of, level |-> level, target |-> target, valid |-> valid] =>
             /\ [m EXCEPT !.level = new] = [of |-> of, level |-> new, target |-> target, valid |-> valid]
             /\ [m EXCEPT !.target = new] = [of |-> of, level |-> level, target |-> new, valid |-> valid]
  <2> TAKE m
  <2> HAVE m = [of |-> of, level |-> level, target |-> target, valid |-> valid]
  <2>1. m \in [of : {of}, level : {level}, target : {target}, valid : {valid}]
    OBVIOUS
  <2>2. [m EXCEPT !.level = new] = [of |-> of, level |-> new, target |-> target, valid |-> valid]
    BY <2>1
  <2>3. [m EXCEPT !.target = new] = [of |-> of, level |-> level, target |-> new, valid |-> valid]
    BY <2>1
  <2> QED BY <2>2, <2>3
<1>2. \A m, l, t : m = [of |-> of, level |-> l, target |-> t, valid |-> valid] =>
             [m EXCEPT !.valid = holds] = [of |-> of, level |-> l, target |-> t, valid |-> holds]
  <2> TAKE m, l, t
  <2> HAVE m = [of |-> of, level |-> l, target |-> t, valid |-> valid]
  <2>1. m \in [of : {of}, level : {l}, target : {t}, valid : {valid}]
    OBVIOUS
  <2> QED BY <2>1
<1>3. module = [of |-> of, level |-> level, target |-> target, valid |-> valid]
  BY DEF IsMade, of
<1>4. [module EXCEPT !.level = new, !.valid = holds]
         = [of |-> of, level |-> new, target |-> target, valid |-> holds]
  BY <1>1, <1>2, <1>3, ZenonT(40)
<1>5. [module EXCEPT !.target = new, !.valid = holds]
         = [of |-> of, level |-> level, target |-> new, valid |-> holds]
  BY <1>1, <1>2, <1>3, ZenonT(40)
<1> QED BY <1>4, <1>5, Zenon DEF IsMade, of

LEMMA OptimizeStage ==
    ASSUME Stages, Optimize
    PROVE  Stages'
<1>1. /\ pc = "optimize" /\ module = Module("O0", NoTarget)
      /\ source = Text(options.source)
      /\ options.emit \notin {"Tokens", "LLVMBeforeOptimization"}
  BY DEF Optimize, Stages
<1>2. FinalLevel = options.level
  BY <1>1 DEF FinalLevel
<1>3. Throw \/ (Go("configure") /\ source' = source /\ module' = Module(options.level, NoTarget))
  <2>1. CASE options.level = "O0"
    <3>1. Verify(module, "configure")
      BY <2>1 DEF Optimize
    <3> QED BY <1>1, <2>1, <3>1, VerifiedOrThrown
  <2>2. CASE options.level # "O0"
    <3>1. IsMade(module, "O0", NoTarget, module.valid) /\ module.valid
      BY <1>1 DEF Module, IsMade
    <3>2. PICK valid \in BOOLEAN :
             Verify([module EXCEPT !.level = options.level, !.valid = valid], "configure")
      BY <2>2, <3>1, Zenon DEF Optimize
    <3> DEFINE m == [module EXCEPT !.level = options.level, !.valid = valid]
    <3>3. IsMade(m, options.level, NoTarget, valid)
      BY <3>1, ModuleUpdates, Zenon
    <3>4. m.valid => m = Module(options.level, NoTarget)
      BY <3>3 DEF Module, IsMade
    <3>5. Verify(m, "configure")
      BY <3>2
    <3> HIDE DEF m
    <3> QED BY <3>4, <3>5, VerifiedOrThrown
  <2> QED BY <2>1, <2>2
<1>4. CASE Throw
  BY <1>1, <1>4, ThrowStops
<1>5. CASE Go("configure") /\ source' = source /\ module' = Module(options.level, NoTarget)
  <2>1. options' = options /\ original' = original /\ pc' = "configure"
    BY <1>5 DEF Go
  <2> QED BY <1>1, <1>2, <1>5, <2>1, OptionsDecide DEF Stages
<1> QED BY <1>3, <1>4, <1>5

LEMMA ConfigureStage ==
    ASSUME Stages, ConfigureTarget
    PROVE  Stages'
<1>1. /\ pc = "configure" /\ module = Module(FinalLevel, NoTarget)
      /\ source = Text(options.source) /\ options.emit # "Tokens"
  BY DEF ConfigureTarget, Stages
<1>2. Throw \/ (Go("open") /\ source' = source /\ module' = Module(FinalLevel, FinalTarget))
  <2>1. CASE ~ IsNative /\ options.target = NoTarget
    BY <1>1, <2>1 DEF ConfigureTarget, FinalTarget
  <2>2. CASE ~ (~ IsNative /\ options.target = NoTarget) /\ ~ Throw
    <3>1. IsMade(module, FinalLevel, NoTarget, module.valid)
      BY <1>1 DEF Module, IsMade
    <3>2. PICK valid \in BOOLEAN :
             Verify([module EXCEPT !.target = Selected, !.valid = valid], "open")
      BY <2>2, Zenon DEF ConfigureTarget
    <3> DEFINE m == [module EXCEPT !.target = Selected, !.valid = valid]
    <3>3. IsMade(m, FinalLevel, Selected, valid)
      BY <3>1, ModuleUpdates, Zenon
    <3>4. m.valid => m = Module(FinalLevel, FinalTarget)
      BY <2>2, <3>3 DEF Module, IsMade, FinalTarget
    <3>5. Verify(m, "open")
      BY <3>2
    <3> HIDE DEF m
    <3> QED BY <3>4, <3>5, VerifiedOrThrown
  <2>3. CASE Throw
    BY <2>3
  <2> QED BY <2>1, <2>2, <2>3
<1>3. CASE Throw
  BY <1>1, <1>3, ThrowStops
<1>4. CASE Go("open") /\ source' = source /\ module' = Module(FinalLevel, FinalTarget)
  <2>1. options' = options /\ original' = original /\ pc' = "open"
    BY <1>4 DEF Go
  <2> QED BY <1>1, <1>4, <2>1, OptionsDecide DEF Stages
<1> QED BY <1>2, <1>3, <1>4

LEMMA OpenStage ==
    ASSUME Stages, OpenOutput
    PROVE  Stages'
<1>1. pc = "open"
  BY DEF OpenOutput
<1>2. CASE Throw
  BY <1>1, <1>2, ThrowStops
<1>3. CASE Go("emit") /\ UNCHANGED <<source, module>>
  <2>1. options' = options /\ original' = original /\ pc' = "emit"
    BY <1>3 DEF Go
  <2> QED BY <1>1, <1>3, <2>1, OptionsDecide DEF Stages
<1> QED BY <1>2, <1>3 DEF OpenOutput

LEMMA EmitStage ==
    ASSUME DriverInvariant, Stages, Emit
    PROVE  Stages'
<1>1. /\ pc = "emit" /\ error = "none" /\ source = Text(options.source)
      /\ options.emit = "Tokens" \/ module = Module(FinalLevel, FinalTarget)
  BY DEF Emit, Stages, DriverInvariant, ErrorEnds
<1>2. CASE Throw \/ Fail("fileType")
  BY <1>1, <1>2, ThrowStops, FailStops
<1>3. CASE /\ files' = [files EXCEPT ![OutputPath] =
                           Output(options.emit, IF options.emit = "Tokens" THEN source ELSE module)]
           /\ Go("exit")
           /\ UNCHANGED <<source, module>>
  <2>1. options' = options /\ original' = original /\ pc' = "exit"
    BY <1>3 DEF Go
  <2>2. Output(options.emit, IF options.emit = "Tokens" THEN source ELSE module) = FinalOutput
    BY <1>1 DEF FinalOutput
  <2>3. \A path \in Paths : path # OutputPath => files[path] = original[path]
    BY DEF DriverInvariant, OnlyOutputChanges
  <2>4. [files EXCEPT ![OutputPath] = FinalOutput] = [original EXCEPT ![OutputPath] = FinalOutput]
    <3> DEFINE o == OutputPath
               f == FinalOutput
    <3>1. DOMAIN files = Paths /\ DOMAIN original = Paths
      BY DEF DriverInvariant, FilesTyped, Stages
    <3>2. /\ [files EXCEPT ![o] = f] = [path \in Paths |-> IF path = o THEN f ELSE files[path]]
          /\ [original EXCEPT ![o] = f] = [path \in Paths |-> IF path = o THEN f ELSE original[path]]
      BY <3>1
    <3>3. \A path \in Paths : path # o => files[path] = original[path]
      BY <2>3
    <3> HIDE DEF o, f
    <3>4. [files EXCEPT ![o] = f] = [original EXCEPT ![o] = f]
      BY <3>2, <3>3
    <3> QED BY <3>4 DEF o, f
  <2>5. files' = [original EXCEPT ![OutputPath] = FinalOutput]
    BY <1>3, <2>2, <2>4
  <2> QED BY <1>1, <2>1, <2>5, OptionsDecide DEF Stages
<1> QED BY <1>2, <1>3 DEF Emit

LEMMA StageStep ==
    DriverInvariant /\ CommandInvariant /\ Stages /\ [DriverStep \/ DriverEnded]_driverVars => Stages'
<1> SUFFICES ASSUME DriverInvariant, CommandInvariant, Stages, [DriverStep \/ DriverEnded]_driverVars
             PROVE  Stages'
  OBVIOUS
<1>1. CASE UNCHANGED driverVars \/ DriverEnded
  <2>1. UNCHANGED <<options, pc, error, files, original, source, module>>
    BY <1>1 DEF driverVars, DriverEnded
  <2> QED BY <2>1, OptionsDecide DEF Stages
<1>2. CASE \/ SetEmitMode \/ SetOptimizationLevel \/ SetOutputPath \/ SetTarget
           \/ RejectUnknownOption \/ SetSourcePath \/ CheckOptions
  <2>1. pc = "options"
    BY <1>2 DEF SetEmitMode, SetOptimizationLevel, SetOutputPath, SetTarget, RejectUnknownOption,
                SetSourcePath, Parsing, CheckOptions
  <2>2. Throw \/ (pc' \in {"options", "readFile"} /\ original' = original)
    <3>1. \/ \E o, n : Understand(o, n)
          \/ Throw
          \/ Go("readFile")
      BY <1>2, Zenon DEF SetEmitMode, SetOptimizationLevel, SetOutputPath, SetTarget, RejectUnknownOption,
                SetSourcePath, CheckOptions, Reject
    <3> QED BY <2>1, <3>1 DEF Understand, Go
  <2> QED BY <2>1, <2>2, ThrowStops, OptionsStage
<1> QED BY <1>1, <1>2, ReadStage, CompileStage, OptimizeStage, ConfigureStage, OpenStage, EmitStage
        DEF DriverStep

LEMMA FinalIsAsked ==
    DriverInvariant /\ CommandInvariant /\ Stages => SuccessMeansComplete
<1> SUFFICES ASSUME DriverInvariant, CommandInvariant, Stages, pc = "exit", error = "none"
             PROVE  files = [original EXCEPT ![AskedPath] = AskedOutput]
  BY DEF SuccessMeansComplete
<1>1. args \in CommandLines /\ IsLegal /\ options = Asked
  BY DEF CommandInvariant, CommandLineIsUnderstood
<1>2. OutputPath = AskedPath /\ options.emit \in EmitModes
  BY <1>1, PathsOfLegalLine
<1>3. FinalOutput = AskedOutput
  <2>1. Selected = [Asked.target EXCEPT !.triple = AskedTriple]
    BY <1>1, Zenon DEF Selected, AskedTriple
  <2>2. FinalTarget = IF Asked.target = NoTarget /\ Asked.emit \notin {"Assembly", "Object"}
                      THEN NoTarget ELSE Selected
    BY <1>1, Zenon DEF FinalTarget, IsNative
  <2>3. FinalLevel = IF Asked.emit = "LLVMBeforeOptimization" THEN "O0" ELSE Asked.level
    BY <1>1, Zenon DEF FinalLevel
  <2> QED BY <1>1, <2>1, <2>2, <2>3, Zenon DEF FinalOutput, AskedOutput, Module
<1> QED BY <1>2, <1>3 DEF Stages

\* Exit status 0: the output asked for is complete where it was asked for,
\* made of the source as it was, optimised and targeted as asked and valid
\* when it was last changed; and every other file is as it was.
THEOREM SuccessIsComplete == DriverSpec => []SuccessMeansComplete
BY BothInvariantsHold, FirstStage, StageStep, FinalIsAsked, PTL DEF DriverSpec

=============================================================================
