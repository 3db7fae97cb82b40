----------------------------- MODULE MCStorage -----------------------------
(***************************************************************************)
(* The storage of a tensor, from its type to its release: the compiler     *)
(* computes a size; if there is one, programs are linked with the runtime  *)
(* and run, and any of their threads asks for storage and releases it.     *)
(***************************************************************************)
EXTENDS SizeComputation, Runtime

AllTypes ==
    [elementType : {"f32", "f64", "i1"}, shape : BoundedSeq(0 .. SizeLimit, 3)]

\* The size the compiler has written into a program.
Sized == size # Refused /\ next > Len(type.shape)

StorageInit == Init /\ RtInit

StorageNext ==
    \/ Multiply /\ UNCHANGED rtVars
    \/ Sized /\ RtNext /\ UNCHANGED vars
    \/ size = Refused /\ UNCHANGED <<vars, rtVars>>

StorageSpec == StorageInit /\ [][StorageNext]_<<vars, rtVars>>

=============================================================================
