SPECIFICATION ExecutionSpec
CONSTANTS
    Names = {"X", "Y", "Z"}
    ElementTypes = {"i64", "f64", "i1", "f32"}
    SizeLimit = 127
    IntWidth = 4
    StatusWidth = 3
    Storage = {s1, s2, s3}
    NULL = null
    WordBits = 7
    SizeMax = 127
    PointerSize = 8
    Programs <- ExecutedPrograms
INVARIANTS
    BackendTrustsFrontend
    ScalarProgramsLower
    ReleasesAreValid
    NothingLeaks
    ArgumentsAreLegal
    TypesArePreserved
PROPERTIES
    SourceIsImplemented
