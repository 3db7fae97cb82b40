------------------------------ MODULE Runtime ------------------------------
(***************************************************************************)
(* libocelotlrt, the runtime the compiled program is linked with: the      *)
(* storage it has handed out and the diagnostic of each thread.  A call    *)
(* touches shared state only inside malloc and free, which are thread      *)
(* safe: one step per call.                                                *)
(***************************************************************************)
EXTENDS Integers, FiniteSets

CONSTANTS
    Threads,      \* the threads that call the runtime
    Storage,      \* the addresses posix_memalign may return
    NULL,
    WordBits,     \* the bits of a uint64_t, fewer in small instances
    SizeMax,      \* SIZE_MAX of the target
    PointerSize   \* sizeof(void *) of the target

Word == 0 .. 2 ^ WordBits - 1

ASSUME NullAssumption == NULL \notin Storage
ASSUME WordAssumption == WordBits \in Nat /\ SizeMax \in Word /\ PointerSize \in Word

VARIABLES
    owned,     \* the storage allocated and not released
    rtError,   \* ocelotl_rt_error, thread-local: "" if there is no diagnostic
    lastAlloc  \* a history variable: how the last allocation of each thread ended

rtVars == <<owned, rtError, lastAlloc>>

Diagnostics == {"size", "addressSpace", "alignment", "memory"}

RtInit ==
    /\ owned = {}
    /\ rtError = [thread \in Threads |-> ""]
    /\ lastAlloc = [thread \in Threads |-> "none"]

PowerOfTwo(n) == \E k \in 0 .. WordBits - 1 : n = 2 ^ k

\* The diagnostic of the arguments of an allocation, "" if they are legal.
Refusal(requested, alignment) ==
    IF requested = 0 THEN "size"
    ELSE IF requested > SizeMax THEN "addressSpace"
    ELSE IF \/ alignment < PointerSize
            \/ ~ PowerOfTwo(alignment)
            \/ alignment > SizeMax THEN "alignment"
    ELSE ""

AllocFails(thread, diagnostic) ==
    /\ rtError' = [rtError EXCEPT ![thread] = diagnostic]
    /\ lastAlloc' = [lastAlloc EXCEPT ![thread] = "failed"]
    /\ UNCHANGED owned

\* Mutant: the diagnostic of an earlier failure is left in place.
AllocKeepsDiagnostic(thread, requested, alignment, pointer) ==
    \/ pointer = NULL /\ Refusal(requested, alignment) = "" /\ AllocFails(thread, "memory")
    \/ /\ pointer \in Storage \ owned
       /\ Refusal(requested, alignment) = ""
       /\ owned' = owned \cup {pointer}
       /\ lastAlloc' = [lastAlloc EXCEPT ![thread] = "succeeded"]
       /\ UNCHANGED rtError

\* Mutant: the result of posix_memalign is not tested.
AllocUnchecked(thread, requested, alignment, pointer) ==
    /\ pointer \in (Storage \ owned) \cup {NULL}
    /\ Refusal(requested, alignment) = ""
    /\ owned' = owned \cup {pointer}
    /\ rtError' = [rtError EXCEPT ![thread] = ""]
    /\ lastAlloc' = [lastAlloc EXCEPT ![thread] = "succeeded"]

\* ocelotl_rt_v1_alloc, called by thread, returns pointer.
Alloc(thread, requested, alignment, pointer) ==
    \/ /\ pointer = NULL
       /\ Refusal(requested, alignment) # ""
       /\ AllocFails(thread, Refusal(requested, alignment))
    \/ pointer = NULL /\ Refusal(requested, alignment) = "" /\ AllocFails(thread, "memory")
    \/ /\ pointer \in Storage \ owned
       /\ Refusal(requested, alignment) = ""
       /\ owned' = owned \cup {pointer}
       /\ rtError' = [rtError EXCEPT ![thread] = ""]
       /\ lastAlloc' = [lastAlloc EXCEPT ![thread] = "succeeded"]

\* Freeing is defined for NULL and for storage that is owned.
MayFree(pointer) == pointer \in owned \cup {NULL}

\* ocelotl_rt_v1_free.
Free(pointer) ==
    /\ MayFree(pointer)
    /\ owned' = owned \ {pointer}
    /\ UNCHANGED <<rtError, lastAlloc>>

\* Any clients that keep to the contract; storage may change hands.
RtNext ==
    \/ \E thread \in Threads, requested, alignment \in Word, pointer \in Storage \cup {NULL} :
          Alloc(thread, requested, alignment, pointer)
    \/ \E pointer \in owned \cup {NULL} : Free(pointer)

RtSpec == RtInit /\ [][RtNext]_rtVars

-----------------------------------------------------------------------------

(* The state of the runtime has its type; NULL is never storage.           *)
RtTypeOK ==
    /\ owned \subseteq Storage
    /\ rtError \in [Threads -> Diagnostics \cup {""}]
    /\ lastAlloc \in [Threads -> {"none", "failed", "succeeded"}]

(* docs/runtime-abi.md: the empty diagnostic means that the last           *)
(* allocation of this thread succeeded.  No call of another thread, and no *)
(* release in between, changes what ocelotl_rt_v1_last_error says.         *)
ErrorTellsLastAllocation ==
    \A thread \in Threads : rtError[thread] # "" <=> lastAlloc[thread] = "failed"

=============================================================================
