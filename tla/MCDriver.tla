------------------------------ MODULE MCDriver ------------------------------
EXTENDS Driver

Emits == {Argument("emit", mode) :
            mode \in {"Tokens", "LLVMBeforeOptimization", "LLVM", "Assembly", "Object"}}

SomeSources == {Path("a", ".oc"), Path("a", ".o")}

SomeArguments ==
    SomeSources \cup Emits
      \cup {NoPath, Argument("output", ""), Argument("unknown", "-"), Argument("cpu", "generic"),
            Argument("features", "+sve")}
      \cup {Argument("level", n) : n \in {"O0", "O2"}}
      \cup {Argument("triple", t) : t \in {"", "aarch64", "xcore", "none"}}

\* Any arguments, up to three; and more of them after a source and an emit option.
SomeCommandLines ==
    BoundedSeq(SomeArguments, 3)
      \cup {<<path, emit>> \o rest : path \in SomeSources, emit \in Emits,
                                       rest \in BoundedSeq(SomeArguments \ Emits, 3)}

SomePaths == SomeArguments \cup {Path("a", ".s"), Path("", ".s"), Path("", ".o")}

Normalized == [aarch64 |-> "aarch64-unknown-unknown", xcore |-> "xcore-unknown-unknown",
               none |-> "none-unknown-unknown"]

=============================================================================
