SPECIFICATION FairSpec
CONSTANTS
    Names = {"X", "Y", "Z"}
    ElementTypes = {"i64", "f64", "i1", "f32"}
    Programs <- AllPrograms
INVARIANTS
    SemaTypeOK
    ScopesNest
    VerifierAcceptsOutput
    AcceptedProgramsAreWellTyped
    ReturnsAreI64
    StraightProgramsCompile
PROPERTIES
    VisibleNamesKeepTypes
    CompilationEnds
\* CompilationEnds says where the compiler may stop.
CHECK_DEADLOCK FALSE
