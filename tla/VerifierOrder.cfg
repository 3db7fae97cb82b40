SPECIFICATION Spec
CONSTANTS
    Names = {"X"}
    ElementTypes = {"i64", "f64", "i1", "f32"}
    Programs = {}
INVARIANT
    VerifiedOperandsComeFirst
\* The verifier is called once.
CHECK_DEADLOCK FALSE
