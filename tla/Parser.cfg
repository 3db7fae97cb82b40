SPECIFICATION ParserSpec
CONSTANTS
    Names = {"X"}
    ElementTypes = {"i64", "f64", "i1", "f32"}
    Programs <- SomePrograms
    Inputs <- SomeInputs
    IntLimit = 3
    DimensionLimit = 7
    Doubles = {2}
INVARIANTS
    AcceptsTheGrammar
    ErrorsAreEarliest
    TreesAreTheProgramsWritten
PROPERTIES
    ParsingEnds
