SPECIFICATION DriverSpec
CONSTANTS
    CommandLines <- SomeCommandLines
    Paths <- SomePaths
    Inputs <- SomeSources
    Host = "x86_64-pc-linux-gnu"
    Normalize <- Normalized
    Targets = {"x86_64-pc-linux-gnu", "aarch64-unknown-unknown", "xcore-unknown-unknown"}
    ObjectTargets = {"x86_64-pc-linux-gnu", "aarch64-unknown-unknown"}
INVARIANTS
    CommandLineIsUnderstood
    SuccessMeansComplete
    OnlyLateRefusalsTruncate
    SourceIsKept
