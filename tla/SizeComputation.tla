-------------------------- MODULE SizeComputation --------------------------
(***************************************************************************)
(* tensorStorageSize as it runs, one dimension after the other, beside the *)
(* size as a number without a limit.                                       *)
(***************************************************************************)
EXTENDS TensorStorage

CONSTANT Types  \* the types whose size is computed

ASSUME TypesAssumption ==
    Types \subseteq [elementType : STRING, shape : Seq(0 .. SizeLimit)]

VARIABLES
    type,   \* the argument
    next,   \* the dimension read next
    size,   \* size, Refused once an exception is thrown
    bytes   \* the number of bytes of the dimensions read

vars == <<type, next, size, bytes>>

Init ==
    /\ type \in Types
    /\ next = 1
    /\ bytes = ElementSize(type.elementType)
    /\ size = IF HasStorage(type) THEN bytes ELSE Refused

Multiply ==
    /\ size # Refused
    /\ next <= Len(type.shape)
    /\ size' = Grow(size, type.shape[next])
    /\ bytes' = bytes * type.shape[next]
    /\ next' = next + 1
    /\ UNCHANGED type

Spec == Init /\ [][Multiply]_vars

-----------------------------------------------------------------------------

(* The product never wraps: it is the exact size of the dimensions read,   *)
(* and an exception means that this size is zero or has no representation. *)
SizeIsExact ==
    HasStorage(type) =>
        IF size = Refused THEN bytes = 0 \/ bytes > SizeLimit ELSE size = bytes

\* The exact size of all dimensions, those the function never reads included.
ExactSize == FoldLeft(LAMBDA total, dimension : total * dimension,
                      ElementSize(type.elementType), type.shape)

(* A type is refused if and only if its size is zero or too large, whatever *)
(* the order of its dimensions: the exception thrown half-way, when a       *)
(* dimension of zero or of one may still follow, never is premature.        *)
OnlyImpossibleSizesAreRefused ==
    size = Refused \/ next > Len(type.shape) =>
        /\ size = StorageSize(type)
        /\ HasStorage(type) => size = IF ExactSize \in 1 .. SizeLimit THEN ExactSize ELSE Refused

=============================================================================
