SPECIFICATION GeneratorSpec
CONSTANTS
    Names = {"X", "Y", "Z"}
    ElementTypes = {"i64", "f64", "i1", "f32"}
    Programs <- UnanalysedPrograms
INVARIANTS
    TypeOK
    BlockIdsAreIndices
    ValuesDefinedOnce
    BranchesGoForward
    OpenBlocksAreExpected
    DefinitionsDominateUses
    BlocksAreReachable
    OnlyReturnTypesDiffer
PROPERTIES
    ClosedBlocksAreFinal
