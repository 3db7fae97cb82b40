SPECIFICATION Spec
CONSTANTS
    Names = {"A", "B", "C", "D"}
    ElementTypes = {"i64", "f64", "i1", "f32"}
    Programs <- TensorExample
INVARIANT
    TensorExampleIsAccepted
