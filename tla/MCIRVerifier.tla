---------------------------- MODULE MCIRVerifier ----------------------------
(***************************************************************************)
(* The verifier on modules no generator made: it is given any module of a  *)
(* small universe, and either returns or throws.                           *)
(***************************************************************************)
EXTENDS IRVerifier

VARIABLES
    candidate,  \* the module verified
    verdict     \* "pending", "accepted" or "rejected"

F32 == [elementType |-> "f32", shape |-> <<2, 2>>]

Operations ==
    {ConstantIntOp(0, 1)}
      \cup {TensorDeclOp(result, "X", F32) : result \in 0 .. 1}
      \cup {ReluOp(1, input, F32) : input \in 0 .. 2}
      \cup {BinaryOp(result, "Add", lhs, 0, I64) : result, lhs \in 0 .. 2}
      \cup {MatMulOp(2, lhs, rhs, F32) : lhs, rhs \in 0 .. 1}

Candidates ==
    {[entry |-> 0, blocks |-> <<[id |-> 0, operations |-> operations, terminator |-> terminator]>>] :
        operations \in BoundedSeq(Operations, 3),
        terminator \in {ReturnOp(0), ReturnOp(2), NoTerminator, BranchOp(0)}}

Init == candidate \in Candidates /\ verdict = "pending"

VerifyModule ==
    /\ verdict = "pending"
    /\ \/ Verify(candidate) /\ verdict' = "accepted"
       \/ ~ Verify(candidate) /\ verdict' = "rejected"
    /\ UNCHANGED candidate

Spec == Init /\ [][VerifyModule]_<<candidate, verdict>>

(* README.md: the verifier rejects uses of a value in its own block before *)
(* its definition.                                                         *)
VerifiedOperandsComeFirst ==
    verdict = "accepted" =>
        \A p \in Places(candidate) : \A value \in OperandsOf(OperationAt(candidate, p)) :
            \E d \in Definitions(candidate, value) : d[1] = p[1] => d[2] < p[2]

=============================================================================
