------------------------- MODULE MachineArithmetic -------------------------
(***************************************************************************)
(* What the instructions of LLVM the backend emits compute, with integers  *)
(* of IntWidth bits in two's complement in place of 64.  A value is a      *)
(* record of its type and a number: the truth value of an i1, nothing for  *)
(* an f64, whose comparisons depend on how two floats relate.              *)
(***************************************************************************)
EXTENDS Integers

CONSTANTS
    IntWidth,    \* the bits of an i64
    StatusWidth  \* the bits of the exit status

ASSUME WidthAssumption == IntWidth \in Nat \ {0} /\ StatusWidth \in Nat \ {0}

Int64(n) == [type |-> "i64", value |-> n]
Int1(truth) == [type |-> "i1", value |-> IF truth THEN 1 ELSE 0]
Double == [type |-> "f64", value |-> 0]

\* The number of width bits congruent to n.
Wrap(n, width) == ((n + 2 ^ (width - 1)) % (2 ^ width)) - 2 ^ (width - 1)

MinInt == - (2 ^ (IntWidth - 1))

\* sdiv truncates towards zero.
Quotient(m, n) ==
    LET magnitude(k) == IF k < 0 THEN -k ELSE k
        q == magnitude(m) \div magnitude(n)
    IN  IF (m < 0) = (n < 0) THEN q ELSE -q

DivisionUndefined(kind, m, n) == kind = "Divide" /\ (n = 0 \/ (m = MinInt /\ n = -1))

Compute(kind, m, n) ==
    CASE kind = "Add" -> Wrap(m + n, IntWidth)
      [] kind = "Subtract" -> Wrap(m - n, IntWidth)
      [] kind = "Multiply" -> Wrap(m * n, IntWidth)
      [] kind = "Divide" -> Quotient(m, n)

\* How two numbers relate; one that is not a number is unordered with all.
Relations == {"less", "equal", "greater", "unordered"}
IntegerRelation(m, n) == IF m < n THEN "less" ELSE IF m = n THEN "equal" ELSE "greater"

\* The relations of ordered numbers a comparison holds of.
Satisfying(kind) ==
    CASE kind = "Equal" -> {"equal"}
      [] kind = "NotEqual" -> {"less", "greater"}
      [] kind = "Less" -> {"less"}
      [] kind = "LessEqual" -> {"less", "equal"}
      [] kind = "Greater" -> {"greater"}
      [] kind = "GreaterEqual" -> {"greater", "equal"}

=============================================================================
