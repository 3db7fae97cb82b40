SPECIFICATION Spec
CONSTANTS
    Names = {"X", "Y", "Z"}
    ElementTypes = {"i64", "f64", "i1", "f32"}
    Programs <- ControlFlowPrograms
INVARIANT
    NestedReturnsAreSupported
