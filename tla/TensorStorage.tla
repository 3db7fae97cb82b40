--------------------------- MODULE TensorStorage ---------------------------
(***************************************************************************)
(* tensorStorageSize of the LLVM backend: the bytes a tensor declaration   *)
(* asks the runtime for.  A size is a 64-bit unsigned number; SizeLimit is *)
(* the greatest one, a parameter so that small instances meet the limit.   *)
(* Refused stands for the exceptions of the function.                      *)
(***************************************************************************)
EXTENDS Integers, Sequences, SequencesExt

CONSTANT SizeLimit

ASSUME SizeLimitAssumption == SizeLimit \in Nat /\ SizeLimit >= 8

Refused == -1

ElementSize(elementType) ==
    CASE elementType = "f32" -> 4
      [] elementType \in {"f64", "i64"} -> 8
      [] OTHER -> 0

HasStorage(type) == ElementSize(type.elementType) # 0 /\ type.shape # <<>>

\* Mutant: the greatest dimension that fits is refused.
GrowBelowLimit(size, dimension) ==
    IF size # Refused /\ dimension # 0 /\ dimension < SizeLimit \div size
    THEN (size * dimension) % (SizeLimit + 1) ELSE Refused

\* Mutant: the product is not compared with the limit.
GrowAndWrap(size, dimension) ==
    IF size # Refused /\ dimension # 0 THEN (size * dimension) % (SizeLimit + 1) ELSE Refused

\* One iteration: the product is taken once it is known not to wrap.
Grow(size, dimension) ==
    IF size # Refused /\ dimension # 0 /\ dimension <= SizeLimit \div size
    THEN (size * dimension) % (SizeLimit + 1) ELSE Refused

StorageSize(type) ==
    IF HasStorage(type) THEN FoldLeft(Grow, ElementSize(type.elementType), type.shape)
                        ELSE Refused

=============================================================================
