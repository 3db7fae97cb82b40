------------------------------- MODULE Driver -------------------------------
(***************************************************************************)
(* ocelotlc: main, its command line and its files, with LLVMOptimizer and  *)
(* TargetCodeGenerator.  One step per argument, then one per call that may *)
(* throw.  The passes of the compiler are in the other modules: here each  *)
(* returns or throws.  What the system does (files that cannot be opened,  *)
(* read or written) and what LLVM does is external.                        *)
(*                                                                         *)
(* An argument is what it is taken for, its value, and the extension of a  *)
(* path.  Paths are arguments: -o takes the next one, whatever it is.      *)
(***************************************************************************)
EXTENDS Integers, Sequences, FiniteSets, SequencesExt

CONSTANTS
    CommandLines,  \* the sequences of arguments considered
    Paths,         \* the paths of the files, and that of the standard output
    Inputs,        \* those that may hold a file at first
    Host,          \* the triple of the host, a normalised one
    Normalize,     \* what llvm::Triple::normalize makes of each triple
    Targets,       \* the normalised triples this LLVM has a backend for
    ObjectTargets  \* those of them whose backend writes object files

Argument(is, value) == [is |-> is, value |-> value, extension |-> ""]
Path(stem, extension) == [is |-> "path", value |-> stem, extension |-> extension]
NoPath == Path("", "")
StandardOutput == Argument("unknown", "-")

\* What parseCommandLine may take an argument for.
ArgumentKinds == {"emit", "level", "output", "triple", "cpu", "features", "unknown", "path"}
EmitModes == {"Tokens", "LLVMBeforeOptimization", "LLVM", "Assembly", "Object"}

ASSUME CommandLinesAssumption ==
    \A line \in CommandLines :
        /\ line \in Seq([is : ArgumentKinds, value : STRING, extension : STRING])
        /\ \A i \in DOMAIN line : line[i].is = "emit" => line[i].value \in EmitModes

\* Every file a command line may be about has a path.
ASSUME PathsAssumption ==
    /\ StandardOutput \in Paths
    /\ \A line \in CommandLines : \A i \in DOMAIN line :
          /\ line[i] \in Paths
          /\ line[i].is = "path" =>
                \A extension \in {".s", ".o"} : Path(line[i].value, extension) \in Paths

Configuration(triple, cpu, features) == [triple |-> triple, cpu |-> cpu, features |-> features]
NoTarget == Configuration("", "", "")

VARIABLES
    args,
    index,
    options,   \* CommandLineOptions
    pc,        \* the call main makes next, "exit" once it has returned
    error,     \* the call that threw, "fileType" if LLVM refuses to emit the
               \* kind of file, "none" if nothing has thrown
    files,     \* what each path holds
    original,  \* a history variable: what each path held at first
    source,    \* the text read
    module     \* the LLVM module: what it was compiled from, and what was done to it

driverVars == <<args, index, options, pc, error, files, original, source, module>>

Missing == [what |-> "missing"]
Text(path) == [what |-> "text", path |-> path]
Truncated == [what |-> "truncated"]
Partial == [what |-> "partial"]
Output(form, contents) == [what |-> "output", form |-> form, contents |-> contents]

NoOptions == [source |-> NoPath, output |-> NoPath, emit |-> "None", level |-> "O0",
              levelSpecified |-> FALSE, target |-> NoTarget]

DriverInit ==
    /\ args \in CommandLines
    /\ index = 1
    /\ options = NoOptions
    /\ pc = "options"
    /\ error = "none"
    /\ \E existing \in SUBSET Inputs :
          original = [path \in Paths |-> IF path \in existing THEN Text(path) ELSE Missing]
    /\ files = original
    /\ source = Missing
    /\ module = [of |-> Missing, level |-> "O0", target |-> NoTarget, valid |-> FALSE]

\* main has returned: error says whether with 0, or 1 after an exception.
Fail(what) ==
    /\ error' = what
    /\ pc' = "exit"
    /\ UNCHANGED <<args, index, options, original, source, module>>

Throw == Fail(pc)

Go(next) == pc' = next /\ UNCHANGED <<args, index, options, error, original>>

-----------------------------------------------------------------------------
(* parseCommandLine *)

Parsing(is) == pc = "options" /\ index <= Len(args) /\ args[index].is = is
Value == args[index].value

Understand(newOptions, n) ==
    /\ options' = newOptions
    /\ index' = index + n
    /\ UNCHANGED <<args, pc, error, files, original, source, module>>

Reject == Throw /\ UNCHANGED files

SetEmitMode ==
    /\ Parsing("emit")
    /\ IF options.emit # "None" THEN Reject ELSE Understand([options EXCEPT !.emit = Value], 1)

SetOptimizationLevel ==
    /\ Parsing("level")
    /\ IF options.levelSpecified THEN Reject
       ELSE Understand([options EXCEPT !.level = Value, !.levelSpecified = TRUE], 1)

\* Mutant: the argument after -o is read again.
SetOutputPathOnly ==
    /\ Parsing("output")
    /\ IF index = Len(args) THEN Reject
       ELSE Understand([options EXCEPT !.output = args[index + 1]], 1)

SetOutputPath ==
    /\ Parsing("output")
    /\ IF index = Len(args) THEN Reject
       ELSE Understand([options EXCEPT !.output = args[index + 1]], 2)

SetTarget ==
    \/ Parsing("triple") /\ Understand([options EXCEPT !.target.triple = Value], 1)
    \/ Parsing("cpu") /\ Understand([options EXCEPT !.target.cpu = Value], 1)
    \/ Parsing("features") /\ Understand([options EXCEPT !.target.features = Value], 1)

RejectUnknownOption == Parsing("unknown") /\ Reject

SetSourcePath ==
    /\ Parsing("path")
    /\ IF options.source # NoPath THEN Reject
       ELSE Understand([options EXCEPT !.source = args[index]], 1)

CheckOptions ==
    /\ pc = "options"
    /\ index > Len(args)
    /\ IF \/ options.source = NoPath
          \/ options.emit = "None"
          \/ options.emit = "Tokens" /\ (options.target # NoTarget \/ options.levelSpecified)
       THEN Reject
       ELSE Go("readFile") /\ UNCHANGED <<files, source, module>>

-----------------------------------------------------------------------------

IsNative == options.emit \in {"Assembly", "Object"}

ExtensionOf == [Assembly |-> ".s", Object |-> ".o"]

\* Mutant: the extension of the source is kept.
OutputPathAsSource ==
    IF options.output # NoPath THEN options.output
    ELSE IF IsNative THEN options.source ELSE StandardOutput

\* defaultOutputPath
OutputPath ==
    IF options.output # NoPath THEN options.output
    ELSE IF IsNative THEN [options.source EXCEPT !.extension = ExtensionOf[options.emit]]
    ELSE StandardOutput

\* A directory opens, and throws when it is read.
ReadFile ==
    /\ pc = "readFile"
    /\ \/ Throw /\ UNCHANGED files
       \/ /\ files[options.source] # Missing
          /\ source' = files[options.source]
          /\ Go(IF options.emit = "Tokens" THEN "open" ELSE "compileToLLVM")
          /\ UNCHANGED <<files, module>>

\* The lexer, the parser, the analyser, the generator and the backend.  The
\* backend verifies what it returns.
CompileToLLVM ==
    /\ pc = "compileToLLVM"
    /\ \/ Throw /\ UNCHANGED files
       \/ /\ module' = [of |-> source, level |-> "O0", target |-> NoTarget, valid |-> TRUE]
          /\ Go(IF options.emit = "LLVMBeforeOptimization" THEN "configure" ELSE "optimize")
          /\ UNCHANGED <<files, source>>

\* verify and verifyModule, of the module m that LLVM has changed.
Verify(m, next) ==
    IF m.valid THEN Go(next) /\ module' = m /\ UNCHANGED <<files, source>>
    ELSE Throw /\ UNCHANGED files

\* Mutant: the module is not verified after the passes.
OptimizeUnverified ==
    /\ pc = "optimize"
    /\ \E valid \in BOOLEAN :
          /\ module' = IF options.level = "O0" THEN module
                       ELSE [module EXCEPT !.level = options.level, !.valid = valid]
          /\ Go("configure")
          /\ UNCHANGED <<files, source>>

\* LLVMOptimizer::optimize.  The passes of LLVM are trusted no further than
\* verify does.
Optimize ==
    /\ pc = "optimize"
    /\ IF ~ module.valid \/ options.level = "O0" THEN Verify(module, "configure")
       ELSE \E valid \in BOOLEAN :
               Verify([module EXCEPT !.level = options.level, !.valid = valid], "configure")

\* The configuration the constructor of TargetCodeGenerator makes of the options.
Selected ==
    [options.target EXCEPT !.triple = IF @ = "" THEN Host ELSE Normalize[@]]

\* Mutant: the output is opened before there is a target.
ConfigureTargetAfterOpening ==
    /\ pc = "configure"
    /\ IF ~ IsNative /\ options.target = NoTarget
       THEN Go("open") /\ UNCHANGED <<files, source, module>>
       ELSE \/ Throw /\ files' = [files EXCEPT ![OutputPath] = Truncated]
            \/ /\ Selected.triple \in Targets
               /\ Go("open")
               /\ module' = [module EXCEPT !.target = Selected]
               /\ UNCHANGED <<files, source>>

\* The constructor, configureModule and verifyModule.  No target machine may
\* be created for a target there is.
ConfigureTarget ==
    /\ pc = "configure"
    /\ IF ~ IsNative /\ options.target = NoTarget
       THEN Go("open") /\ UNCHANGED <<files, source, module>>
       ELSE \/ Throw /\ UNCHANGED files
            \/ /\ Selected.triple \in Targets
               /\ \E valid \in BOOLEAN :
                     Verify([module EXCEPT !.target = Selected, !.valid = valid], "open")

\* raw_fd_ostream opens the standard output, or truncates the file.
OpenOutput ==
    /\ pc = "open"
    /\ IF OutputPath = StandardOutput
       THEN Go("emit") /\ UNCHANGED <<files, source, module>>
       ELSE \/ Throw /\ UNCHANGED files
            \/ /\ files' = [files EXCEPT ![OutputPath] = Truncated]
               /\ Go("emit")
               /\ UNCHANGED <<source, module>>

\* Mutant: an error of the stream is not looked for.
EmitUnchecked ==
    /\ pc = "emit"
    /\ \E written \in {Partial, Output(options.emit, IF options.emit = "Tokens" THEN source ELSE module)} :
          files' = [files EXCEPT ![OutputPath] = written]
    /\ Go("exit")
    /\ UNCHANGED <<source, module>>

\* emitTokens, writeTextOutput, and the rest of TargetCodeGenerator::emit.  Only
\* addPassesToEmitFile, to which the open file is given, finds out whether the
\* target has object files.  A stream with an error makes its destructor exit
\* with 1, like the exception.
Emit ==
    /\ pc = "emit"
    /\ IF options.emit = "Object" /\ Selected.triple \notin ObjectTargets
       THEN Fail("fileType") /\ UNCHANGED files
       ELSE \/ Throw /\ files' = [files EXCEPT ![OutputPath] = Partial]
            \/ /\ files' = [files EXCEPT ![OutputPath] =
                               Output(options.emit,
                                      IF options.emit = "Tokens" THEN source ELSE module)]
               /\ Go("exit")
               /\ UNCHANGED <<source, module>>

DriverStep ==
    \/ SetEmitMode
    \/ SetOptimizationLevel
    \/ SetOutputPath
    \/ SetTarget
    \/ RejectUnknownOption
    \/ SetSourcePath
    \/ CheckOptions
    \/ ReadFile
    \/ CompileToLLVM
    \/ Optimize
    \/ ConfigureTarget
    \/ OpenOutput
    \/ Emit

DriverEnded == pc = "exit" /\ UNCHANGED driverVars

DriverSpec == DriverInit /\ [][DriverStep \/ DriverEnded]_driverVars

-----------------------------------------------------------------------------
(* What a command line asks for, read as a whole rather than from the left *)

\* The argument at i is the path after a -o.
IsOperand[i \in 1 .. Len(args)] == i > 1 /\ args[i - 1].is = "output" /\ ~ IsOperand[i - 1]

Given(is) == {i \in DOMAIN args : args[i].is = is /\ ~ IsOperand[i]}

\* The last argument that is such, as the paths and the target options go.
LastGiven(is, default) ==
    IF Given(is) = {} THEN default
    ELSE args[Max(Given(is))].value

Asked == [
    source |-> IF Given("path") = {} THEN NoPath
               ELSE args[Max(Given("path"))],
    output |-> IF Given("output") = {} THEN NoPath
               ELSE args[Max(Given("output")) + 1],
    emit |-> LastGiven("emit", "None"),
    level |-> LastGiven("level", "O0"),
    levelSpecified |-> Given("level") # {},
    target |-> Configuration(LastGiven("triple", ""), LastGiven("cpu", ""), LastGiven("features", ""))]

\* The command lines the documentation describes: one source file, one emit
\* option, at most one level, none of the options of the target for tokens.
IsLegal ==
    /\ \A i \in Given("output") : i < Len(args)
    /\ Given("unknown") = {}
    /\ Cardinality(Given("emit")) = 1
    /\ Cardinality(Given("level")) <= 1
    /\ Asked.source # NoPath
    /\ \A i \in Given("path") : args[i] \in {NoPath, Asked.source}
    /\ Cardinality({i \in Given("path") : args[i] # NoPath}) = 1
    /\ Asked.emit = "Tokens" => Asked.target = NoTarget /\ ~ Asked.levelSpecified

\* Where the output is to go.
AskedPath ==
    IF Asked.output # NoPath THEN Asked.output
    ELSE IF Asked.emit \in {"LLVM", "LLVMBeforeOptimization", "Tokens"} THEN StandardOutput
    ELSE Path(Asked.source.value, IF Asked.emit = "Assembly" THEN ".s" ELSE ".o")

\* The target it is to be for, that of the host unless another is given.
AskedTriple == IF Asked.target.triple = "" THEN Host ELSE Normalize[Asked.target.triple]

\* What is to be there: for LLVM IR a target only if one is given, for
\* assembly and objects always.
AskedOutput ==
    Output(Asked.emit,
           IF Asked.emit = "Tokens" THEN Text(Asked.source)
           ELSE [of |-> Text(Asked.source),
                 level |-> IF Asked.emit = "LLVMBeforeOptimization" THEN "O0" ELSE Asked.level,
                 target |-> IF Asked.target = NoTarget /\ Asked.emit \notin {"Assembly", "Object"}
                            THEN NoTarget ELSE [Asked.target EXCEPT !.triple = AskedTriple],
                 valid |-> TRUE])

-----------------------------------------------------------------------------
(* Properties *)

\* A command line is refused before any file is read exactly if it is not one
\* the documentation describes, and is otherwise understood as a whole: no
\* option is taken for a path, or the reverse, and of paths and target options
\* given more than once the last one counts.
CommandLineIsUnderstood ==
    /\ error = "options" => ~ IsLegal
    /\ pc # "options" /\ error # "options" => IsLegal /\ options = Asked

\* Exit status 0 means that the output asked for, made of the whole source as
\* it was, optimised and targeted as asked and verified last, is where it was
\* asked for; and that no other file has changed.
SuccessMeansComplete ==
    (pc = "exit" /\ error = "none") =>
        files = [original EXCEPT ![AskedPath] = AskedOutput]

\* What the output held before is lost only once the program and the command
\* line have been accepted, in two cases: what was written is not complete, or
\* the target has no object files, which LLVM says too late, with the output
\* already open and empty (TargetCodeGenerator.cpp:132).  Every other refusal,
\* of a command line, a source, a program, a module or a target, leaves all
\* files as they were; and no file but the output ever changes.
OnlyLateRefusalsTruncate ==
    /\ error \notin {"none", "emit", "fileType"} => files = original
    /\ error = "fileType" =>
          /\ Asked.emit = "Object" /\ AskedTriple \notin ObjectTargets
          /\ files = IF AskedPath = StandardOutput THEN original
                     ELSE [original EXCEPT ![AskedPath] = Truncated]
    /\ \A path \in Paths : files[path] # original[path] => path = AskedPath

\* The source is overwritten only if -o names it, or if it has the extension
\* of the output, as a default output has.
SourceIsKept ==
    (options.source \in Paths /\ files[options.source] # original[options.source]) =>
        \/ \E i \in Given("output") : args[i + 1] = options.source
        \/ Asked.emit = "Assembly" /\ options.source.extension = ".s"
        \/ Asked.emit = "Object" /\ options.source.extension = ".o"

=============================================================================
