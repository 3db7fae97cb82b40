--------------------------- MODULE Storage_proofs ---------------------------
(***************************************************************************)
(* The storage of a tensor.  tensorStorageSize never wraps, whatever the   *)
(* width of its numbers: the runs check it on small words, the theorem is  *)
(* about 64 bits as well.  The diagnostic of the runtime is right for any  *)
(* number of threads, whatever they allocate and release, in any order.    *)
(***************************************************************************)
EXTENDS SizeComputation, Runtime, StackLemmas

-----------------------------------------------------------------------------
(* The size the compiler computes *)

\* The size so far is a number of bytes the runtime can be asked for.
InRange == size \in (1 .. SizeLimit) \cup {Refused}

SizeInvariant ==
    /\ type \in Types
    /\ next \in Nat \ {0}
    /\ bytes \in Nat
    /\ InRange
    /\ ~ HasStorage(type) => size = Refused
    /\ SizeIsExact

(* The comparison the code makes before it multiplies is the one it means, *)
(* although it divides instead.                                            *)
LEMMA DivisionBound ==
    ASSUME NEW limit \in Nat, NEW factor \in Nat \ {0}, NEW dimension \in Nat
    PROVE  dimension <= limit \div factor <=> factor * dimension <= limit
<1> DEFINE q == limit \div factor
<1>1. q \in Nat /\ factor * q <= limit /\ limit < factor * (q + 1)
  OBVIOUS
<1> HIDE DEF q
<1>2. dimension <= q => factor * dimension <= factor * q
  BY <1>1
<1>3. dimension >= q + 1 => factor * dimension >= factor * (q + 1)
  BY <1>1
<1>4. dimension <= q \/ dimension >= q + 1
  BY <1>1
<1>5. factor * dimension \in Nat /\ factor * q \in Nat /\ factor * (q + 1) \in Nat
  BY <1>1
<1>6. dimension <= q => factor * dimension <= limit
  BY <1>1, <1>2, <1>5
<1>7. dimension >= q + 1 => factor * dimension > limit
  BY <1>1, <1>3, <1>5
<1>8. dimension <= q <=> factor * dimension <= limit
  BY <1>1, <1>4, <1>5, <1>6, <1>7
<1> QED BY <1>8 DEF q

\* One iteration refuses, or multiplies without wrapping.
LEMMA GrowIsExact ==
    ASSUME NEW s \in 1 .. SizeLimit, NEW dimension \in Nat
    PROVE  Grow(s, dimension) =
              IF s * dimension \in 1 .. SizeLimit THEN s * dimension ELSE Refused
<1>1. SizeLimit \in Nat /\ s \in Nat \ {0} /\ s # Refused
  BY SizeLimitAssumption DEF Refused
<1>2. dimension <= SizeLimit \div s <=> s * dimension <= SizeLimit
  BY <1>1, DivisionBound
<1> DEFINE product == s * dimension
<1>3. product \in Nat /\ (product = 0 <=> dimension = 0)
  BY <1>1
<1>4. Grow(s, dimension) = IF dimension # 0 /\ product <= SizeLimit
                           THEN product % (SizeLimit + 1) ELSE Refused
  BY <1>1, <1>2 DEF Grow
<1> HIDE DEF product
<1>5. product <= SizeLimit => product % (SizeLimit + 1) = product
  BY <1>1, <1>3
<1>6. dimension # 0 /\ product <= SizeLimit <=> product \in 1 .. SizeLimit
  BY <1>1, <1>3
<1>7. Grow(s, dimension) = IF product \in 1 .. SizeLimit THEN product ELSE Refused
  BY <1>4, <1>5, <1>6
<1> QED BY <1>7 DEF product

LEMMA InitEstablishes == Init => SizeInvariant
<1> SUFFICES ASSUME Init PROVE SizeInvariant
  OBVIOUS
<1>1. ElementSize(type.elementType) \in {0, 4, 8}
  BY DEF ElementSize
<1>2. HasStorage(type) => bytes \in 1 .. SizeLimit
  BY <1>1, SizeLimitAssumption DEF Init, HasStorage
<1>3. InRange /\ (~ HasStorage(type) => size = Refused)
  BY <1>2 DEF Init, InRange
<1>4. SizeIsExact
  BY <1>2, SizeLimitAssumption DEF Init, SizeIsExact, Refused
<1> QED BY <1>1, <1>3, <1>4 DEF Init, SizeInvariant

LEMMA MultiplyPreserves == SizeInvariant /\ Multiply => SizeInvariant'
<1> SUFFICES ASSUME SizeInvariant, Multiply PROVE SizeInvariant'
  OBVIOUS
<1> DEFINE dimension == type.shape[next]
<1>1. HasStorage(type) /\ HasStorage(type)' /\ size = bytes /\ size \in 1 .. SizeLimit
  BY DEF SizeInvariant, Multiply, InRange, SizeIsExact, HasStorage
<1>2. dimension \in Nat
  <2>1. type \in [elementType : STRING, shape : Seq(0 .. SizeLimit)]
    BY TypesAssumption DEF SizeInvariant
  <2>2. type.shape \in Seq(0 .. SizeLimit) /\ next \in 1 .. Len(type.shape)
    BY <2>1 DEF SizeInvariant, Multiply
  <2>3. type.shape[next] \in 0 .. SizeLimit
    BY <2>2, ElementOfSeq
  <2> QED BY <2>3, SizeLimitAssumption
<1>3. size' = Grow(size, dimension) /\ bytes' = size * dimension
  BY <1>1 DEF Multiply
<1> HIDE DEF dimension
<1>4. size' = IF bytes' \in 1 .. SizeLimit THEN bytes' ELSE Refused
  BY <1>1, <1>2, <1>3, GrowIsExact
<1>5. bytes' \in Nat
  <2>1. size \in Nat
    BY <1>1, SizeLimitAssumption
  <2> QED BY <2>1, <1>2, <1>3
<1>6. InRange'
  BY <1>4 DEF InRange
<1>7. SizeIsExact'
  BY <1>4, <1>5, SizeLimitAssumption DEF SizeIsExact, Refused
<1> QED BY <1>1, <1>5, <1>6, <1>7 DEF SizeInvariant, Multiply

\* Whatever the limit and the dimensions, the product is exact: the size
\* returned is the number of bytes, and what is thrown for has no size.
THEOREM SizeNeverWraps == Spec => []SizeIsExact
<1>1. Init => SizeInvariant
  BY InitEstablishes
<1>2. SizeInvariant /\ [Multiply]_vars => SizeInvariant'
  <2>1. SizeInvariant /\ UNCHANGED vars => SizeInvariant'
    BY DEF SizeInvariant, InRange, SizeIsExact, HasStorage, vars
  <2> QED BY <2>1, MultiplyPreserves
<1>3. SizeInvariant => SizeIsExact
  BY DEF SizeInvariant
<1> QED BY <1>1, <1>2, <1>3, PTL DEF Spec

-----------------------------------------------------------------------------
(* The size of all dimensions *)

\* One step of either fold: of the number without a limit, or of the size.
Times(exact, total, dimension) == IF exact THEN total * dimension ELSE Grow(total, dimension)

\* The equation of the recursive function both folds are defined by.
FoldEquation(exact, base, s, n, iter) ==
    iter = [t \in SUBSET (1 .. n) |->
              IF t = {} THEN base ELSE Times(exact, iter[t \ {Max(t)}], s[Max(t)])]

Fold(exact, base, s) == (CHOOSE iter : FoldEquation(exact, base, s, Len(s), iter))[1 .. Len(s)]

LEMMA FoldsAreFolds ==
  ASSUME NEW base, NEW S, NEW s \in Seq(S)
  PROVE  /\ FoldLeft(Grow, base, s) = Fold(FALSE, base, s)
         /\ FoldLeft(LAMBDA total, dimension : total * dimension, base, s) = Fold(TRUE, base, s)
<1>0. DOMAIN s = 1 .. Len(s)
  BY LenProperties
<1>1. FoldLeft(Grow, base, s) = 
    (CHOOSE iter : iter = [t \in SUBSET DOMAIN s |-> IF t = {} THEN base ELSE Grow(iter[t \ {Max(t)}], s[Max(t)])])[DOMAIN s]
   BY DEF FoldLeft, MapThenFoldSet
<1>2. FoldLeft(LAMBDA total, dimension : total * dimension, base, s) = 
    (CHOOSE iter : iter = [t \in SUBSET DOMAIN s |-> IF t = {} THEN base ELSE iter[t \ {Max(t)}] * s[Max(t)]])[DOMAIN s]
   BY DEF FoldLeft, MapThenFoldSet
<1>3. FoldLeft(Grow, base, s) = Fold(FALSE, base, s)
   BY <1>1, <1>0 DEF Fold, FoldEquation, Times
<1>4. FoldLeft(LAMBDA total, dimension : total * dimension, base, s) = Fold(TRUE, base, s)
   BY <1>2, <1>0, ZenonT(40) DEF Fold, FoldEquation, Times
<1> QED BY <1>3, <1>4

\* The greatest element.
LEMMA MaxIsGreatest ==
  ASSUME NEW n \in Nat, NEW t \in SUBSET (1 .. n + 1)
  PROVE  /\ n + 1 \in t => Max(t) = n + 1
         /\ n + 1 \notin t => t \in SUBSET (1 .. n)
<1>1. ASSUME n + 1 \in t PROVE Max(t) = n + 1
  <2>1. \A x \in t : n + 1 >= x
    OBVIOUS
  <2>2. ASSUME NEW m, m \in t, \A x \in t : m >= x PROVE m = n + 1
    <3>1. m \in 1 .. n + 1 /\ m >= n + 1
      BY <1>1, <2>2
    <3> QED BY <3>1
  <2> QED BY <1>1, <2>1, <2>2 DEF Max
<1> QED BY <1>1

LEMMA FoldExists ==
  ASSUME NEW exact, NEW base, NEW s
  PROVE  \A n \in Nat : \E iter : FoldEquation(exact, base, s, n, iter)
<1> DEFINE S == {n \in Nat : \E iter : FoldEquation(exact, base, s, n, iter)}
<1>1. 0 \in S
  <2>1. 1 .. 0 = {}
    OBVIOUS
  <2>2. FoldEquation(exact, base, s, 0, [t \in {{}} |-> base])
    BY <2>1 DEF FoldEquation
  <2> QED BY <2>2
<1>2. ASSUME NEW n \in Nat, n \in S PROVE n + 1 \in S
  <2>1. PICK h : FoldEquation(exact, base, s, n, h)
    BY <1>2
  <2> DEFINE 
         g == [t \in SUBSET (1 .. n + 1) |->
                 IF n + 1 \in t THEN Times(exact, h[t \ {n + 1}], s[n + 1]) ELSE h[t]]
  <2>2. ASSUME NEW t \in SUBSET (1 .. n + 1)
        PROVE  g[t] = IF t = {} THEN base ELSE Times(exact, g[t \ {Max(t)}], s[Max(t)])
    <3>1. CASE n + 1 \in t
      <4>1. Max(t) = n + 1 /\ t \ {n + 1} \in SUBSET (1 .. n + 1) /\ n + 1 \notin t \ {n + 1}
        BY <3>1, MaxIsGreatest
      <4>2. g[t] = Times(exact, h[t \ {n + 1}], s[n + 1]) /\ g[t \ {n + 1}] = h[t \ {n + 1}]
        BY <3>1, <4>1, Zenon
      <4> QED BY <4>1, <4>2, <3>1
    <3>2. CASE n + 1 \notin t
      <4>1. t \in SUBSET (1 .. n)
        BY <3>2, MaxIsGreatest
      <4>2. h[t] = IF t = {} THEN base ELSE Times(exact, h[t \ {Max(t)}], s[Max(t)])
        BY <2>1, <4>1, Zenon DEF FoldEquation
      <4>3. g[t] = h[t] /\ g[t \ {Max(t)}] = h[t \ {Max(t)}]
        BY <3>2
      <4> QED BY <4>2, <4>3
    <3> QED BY <3>1, <3>2
  <2> HIDE DEF g
  <2>3. g = [t \in SUBSET (1 .. n + 1) |-> g[t]]
    BY DEF g
  <2>4. FoldEquation(exact, base, s, n + 1, g)
    BY <2>2, <2>3 DEF FoldEquation
  <2> QED BY <2>4
<1>3. \A n \in Nat : n \in S
  <2> HIDE DEF S
  <2> QED BY <1>1, <1>2, SetInduction
<1> QED BY <1>3

\* A fold is the last of the values after each element.
LEMMA FoldSteps ==
  ASSUME NEW exact, NEW base, NEW S, NEW s \in Seq(S)
  PROVE  \E g : /\ g[0] = base
                /\ \A k \in 1 .. Len(s) : g[k] = Times(exact, g[k - 1], s[k])
                /\ g[Len(s)] = Fold(exact, base, s)
<1> DEFINE n == Len(s)
           iter == CHOOSE iter : FoldEquation(exact, base, s, n, iter)
           g == [k \in 0 .. n |-> iter[1 .. k]]
<1>1. n \in Nat
  BY LenProperties
<1>2. FoldEquation(exact, base, s, n, iter)
  BY <1>1, FoldExists, Zenon
<1> HIDE DEF iter
<1>3. g[0] = base
  <2>1. 1 .. 0 = {} /\ {} \in SUBSET (1 .. n) /\ 0 \in 0 .. n
    BY <1>1
  <2> QED BY <1>2, <2>1 DEF FoldEquation
<1>4. ASSUME NEW k \in 1 .. n PROVE g[k] = Times(exact, g[k - 1], s[k])
  <2>1. k \in 0 .. n /\ k - 1 \in 0 .. n /\ k - 1 \in Nat /\ (k - 1) + 1 = k /\ k \in 1 .. k
    BY <1>1
  <2>2. (1 .. k) \ {k} = 1 .. k - 1
    BY <1>1, <2>1
  <2>3. 1 .. k \in SUBSET (1 .. n) /\ 1 .. k # {}
    <3>1. \A j \in 1 .. k : j \in 1 .. n
      BY <1>1
    <3> QED BY <2>1, <3>1
  <2>4. Max(1 .. k) = k
    BY <2>1, MaxIsGreatest
  <2>5. iter[1 .. k] = Times(exact, iter[(1 .. k) \ {Max(1 .. k)}], s[Max(1 .. k)])
    BY <1>2, <2>3, Zenon DEF FoldEquation
  <2> QED BY <2>1, <2>2, <2>4, <2>5
<1>5. g[n] = Fold(exact, base, s)
  BY <1>1 DEF Fold, iter
<1> HIDE DEF g, n
<1> QED BY <1>3, <1>4, <1>5 DEF n

\* g holds the size before the first dimension, and after each.
Sizes(g, exact) ==
    /\ g[0] = ElementSize(type.elementType)
    /\ \A k \in 1 .. Len(type.shape) : g[k] = Times(exact, g[k - 1], type.shape[k])

LEMMA ShapeTyped ==
    ASSUME type \in Types
    PROVE  type.shape \in Seq(0 .. SizeLimit) /\ Len(type.shape) \in Nat
<1>1. type.shape \in Seq(0 .. SizeLimit)
  BY TypesAssumption
<1> QED BY <1>1, LenProperties

\* After each dimension, the size is the number of bytes if that is one the
\* runtime can be asked for: a refusal is never taken back.
LEMMA SizesAgree ==
    ASSUME type \in Types, HasStorage(type), NEW g, Sizes(g, FALSE), NEW p, Sizes(p, TRUE)
    PROVE  \A k \in 0 .. Len(type.shape) :
              p[k] \in Nat /\ g[k] = IF p[k] \in 1 .. SizeLimit THEN p[k] ELSE Refused
<1> DEFINE n == Len(type.shape)
           Agree(k) == p[k] \in Nat /\ g[k] = IF p[k] \in 1 .. SizeLimit THEN p[k] ELSE Refused
           S == {k \in Nat : k <= n => Agree(k)}
<1>1. n \in Nat /\ \A k \in 1 .. n : type.shape[k] \in 0 .. SizeLimit
  BY ShapeTyped, ElementOfSeq
<1>2. 0 \in S
  <2>1. g[0] \in {4, 8} /\ p[0] = g[0]
    BY DEF Sizes, HasStorage, ElementSize
  <2>2. g[0] \in 1 .. SizeLimit
    BY <2>1, SizeLimitAssumption
  <2> QED BY <2>1, <2>2
<1>3. ASSUME NEW k \in Nat, k \in S PROVE k + 1 \in S
  <2> SUFFICES ASSUME k + 1 <= n PROVE Agree(k + 1)
    OBVIOUS
  <2> DEFINE dimension == type.shape[k + 1]
  <2>1. k + 1 \in 1 .. n /\ (k + 1) - 1 = k /\ k <= n
    BY <1>1
  <2>2. dimension \in Nat /\ SizeLimit \in Nat
    BY <1>1, <2>1, SizeLimitAssumption
  <2>3. Agree(k)
    BY <1>3, <2>1
  <2>4. g[k + 1] = Grow(g[k], dimension) /\ p[k + 1] = p[k] * dimension
    BY <2>1 DEF Sizes, Times
  <2> HIDE DEF dimension
  <2>5. p[k + 1] \in Nat
    <3> DEFINE a == p[k]
    <3>1. a \in Nat
      BY <2>3
    <3> HIDE DEF a
    <3>2. a * dimension \in Nat
      BY <3>1, <2>2
    <3> QED BY <3>2, <2>4 DEF a
  <2>6. CASE p[k] \in 1 .. SizeLimit
    BY <2>2, <2>3, <2>4, <2>5, <2>6, GrowIsExact
  <2>7. CASE p[k] \notin 1 .. SizeLimit
    <3>1. g[k + 1] = Refused
      BY <2>3, <2>4, <2>7 DEF Grow
    <3> DEFINE a == p[k]
    <3>2. a \in Nat /\ a \notin 1 .. SizeLimit
      BY <2>3, <2>7
    <3> HIDE DEF a
    <3>3. a * dimension \notin 1 .. SizeLimit
      <4>1. CASE a = 0 \/ dimension = 0
        BY <4>1, <2>2, <3>2
      <4>2. CASE a > SizeLimit /\ dimension >= 1
        <5>1. a * dimension >= a * 1
          BY <4>2, <2>2, <3>2
        <5> QED BY <4>2, <5>1, <2>2, <3>2
      <4> QED BY <4>1, <4>2, <2>2, <3>2
    <3>4. p[k + 1] = a * dimension
      BY <2>4 DEF a
    <3> QED BY <2>5, <3>1, <3>3, <3>4
  <2> QED BY <2>6, <2>7
<1>4. \A k \in Nat : k \in S
  <2> HIDE DEF S
  <2> QED BY <1>2, <1>3, SetInduction
<1> QED BY <1>1, <1>4

\* A refusal stays one, whatever dimensions follow.
LEMMA RefusalStays ==
    ASSUME type \in Types, NEW g, Sizes(g, FALSE),
           NEW k \in 0 .. Len(type.shape), g[k] = Refused
    PROVE  g[Len(type.shape)] = Refused
<1> DEFINE n == Len(type.shape)
           S == {j \in Nat : k + j <= n => g[k + j] = Refused}
<1>1. n \in Nat /\ k \in Nat /\ k <= n
  BY ShapeTyped
<1>2. 0 \in S
  BY <1>1
<1>3. ASSUME NEW j \in Nat, j \in S, k + (j + 1) <= n PROVE g[k + (j + 1)] = Refused
  <2>1. k + (j + 1) \in 1 .. n /\ (k + (j + 1)) - 1 = k + j /\ k + j <= n
    BY <1>1, <1>3
  <2>2. g[k + (j + 1)] = Grow(Refused, type.shape[k + (j + 1)])
    BY <1>3, <2>1 DEF Sizes, Times
  <2> QED BY <2>2 DEF Grow
<1>4. \A j \in Nat : j \in S
  <2>1. \A j \in Nat : j \in S => j + 1 \in S
    BY <1>3
  <2> HIDE DEF S
  <2> QED BY <1>2, <2>1, SetInduction
<1>5. n - k \in Nat /\ k + (n - k) = n
  BY <1>1
<1>6. n - k \in S
  BY <1>4, <1>5
<1> HIDE DEF n
<1>7. g[n] = Refused
  BY <1>1, <1>5, <1>6
<1> QED BY <1>7 DEF n

\* The size computed so far is that of the dimensions read.
SizeFollowsFold ==
    /\ next <= Len(type.shape) + 1
    /\ HasStorage(type) =>
          \E g : /\ Sizes(g, FALSE)
                 /\ g[Len(type.shape)] = StorageSize(type)
                 /\ size = g[next - 1]

LEMMA InitFollowsFold == Init => SizeFollowsFold
<1> SUFFICES ASSUME Init PROVE SizeFollowsFold
  OBVIOUS
<1>1. type \in Types /\ next = 1
  BY DEF Init
<1>2. PICK g : /\ g[0] = ElementSize(type.elementType)
               /\ \A k \in 1 .. Len(type.shape) : g[k] = Times(FALSE, g[k - 1], type.shape[k])
               /\ g[Len(type.shape)] = Fold(FALSE, ElementSize(type.elementType), type.shape)
  <2>1. type.shape \in Seq(0 .. SizeLimit)
    BY <1>1, ShapeTyped
  <2>2. \A base, S : \A s \in Seq(S) :
           \E g : /\ g[0] = base
                  /\ \A k \in 1 .. Len(s) : g[k] = Times(FALSE, g[k - 1], s[k])
                  /\ g[Len(s)] = Fold(FALSE, base, s)
    BY FoldSteps, ZenonT(40)
  <2> QED
    BY <2>1, <2>2
<1>3. HasStorage(type) => StorageSize(type) = Fold(FALSE, ElementSize(type.elementType), type.shape)
  BY <1>1, ShapeTyped, FoldsAreFolds DEF StorageSize
<1>4. Sizes(g, FALSE)
  BY <1>2 DEF Sizes
<1>5. HasStorage(type) => size = g[next - 1]
  BY <1>1, <1>2 DEF Init
<1>6. next <= Len(type.shape) + 1
  BY <1>1, ShapeTyped
<1> QED BY <1>2, <1>3, <1>4, <1>5, <1>6 DEF SizeFollowsFold

LEMMA MultiplyFollowsFold == SizeInvariant /\ SizeFollowsFold /\ Multiply => SizeFollowsFold'
<1> SUFFICES ASSUME SizeInvariant, SizeFollowsFold, Multiply PROVE SizeFollowsFold'
  OBVIOUS
<1>1. type' = type /\ next \in 1 .. Len(type.shape) /\ next' = next + 1 /\ type \in Types
  BY ShapeTyped DEF SizeInvariant, Multiply
<1>2. next' <= Len(type'.shape) + 1
  BY <1>1, ShapeTyped
<1>3. ASSUME HasStorage(type),
             NEW g, Sizes(g, FALSE), g[Len(type.shape)] = StorageSize(type), size = g[next - 1]
      PROVE  size' = g[next' - 1]
  <2>1. g[next] = Grow(size, type.shape[next])
    BY <1>1, <1>3 DEF Sizes, Times
  <2>2. next' - 1 = next
    BY <1>1
  <2> QED BY <2>1, <2>2 DEF Multiply
<1>4. \A g : Sizes(g, FALSE)' <=> Sizes(g, FALSE)
  BY <1>1 DEF Sizes
<1>5. StorageSize(type)' = StorageSize(type) /\ (HasStorage(type)' <=> HasStorage(type))
  BY <1>1
<1> QED BY <1>1, <1>2, <1>3, <1>4, <1>5 DEF SizeFollowsFold

LEMMA FollowedFoldIsExact == SizeInvariant /\ SizeFollowsFold => OnlyImpossibleSizesAreRefused
<1> SUFFICES ASSUME SizeInvariant, SizeFollowsFold, size = Refused \/ next > Len(type.shape)
             PROVE  /\ size = StorageSize(type)
                    /\ HasStorage(type) =>
                          size = IF ExactSize \in 1 .. SizeLimit THEN ExactSize ELSE Refused
  BY DEF OnlyImpossibleSizesAreRefused
<1>1. type \in Types /\ next \in Nat \ {0}
  BY DEF SizeInvariant
<1>2. CASE ~ HasStorage(type)
  BY <1>2 DEF SizeInvariant, StorageSize
<1>3. CASE HasStorage(type)
  <2> DEFINE n == Len(type.shape)
  <2>1. PICK g : Sizes(g, FALSE) /\ g[n] = StorageSize(type) /\ size = g[next - 1]
    BY <1>3 DEF SizeFollowsFold
  <2>2. PICK p : /\ p[0] = ElementSize(type.elementType)
                 /\ \A k \in 1 .. n : p[k] = Times(TRUE, p[k - 1], type.shape[k])
                 /\ p[n] = Fold(TRUE, ElementSize(type.elementType), type.shape)
    <3>1. type.shape \in Seq(0 .. SizeLimit)
      BY <1>1, ShapeTyped
    <3>2. \A base, S : \A s \in Seq(S) :
             \E h : /\ h[0] = base
                    /\ \A k \in 1 .. Len(s) : h[k] = Times(TRUE, h[k - 1], s[k])
                    /\ h[Len(s)] = Fold(TRUE, base, s)
      BY FoldSteps, ZenonT(40)
    <3> QED
      BY <3>1, <3>2
  <2>3. Sizes(p, TRUE) /\ p[n] = ExactSize
    BY <1>1, <2>2, ShapeTyped, FoldsAreFolds DEF Sizes, ExactSize
  <2>4. n \in Nat /\ next - 1 \in 0 .. n
    BY <1>1, ShapeTyped DEF SizeFollowsFold
  <2>5. size = g[n]
    <3>1. CASE size = Refused
      BY <1>1, <2>1, <2>4, <3>1, RefusalStays
    <3>2. CASE next > n
      <4>1. next - 1 = n
        BY <1>1, <2>4, <3>2
      <4> QED BY <2>1, <4>1
    <3> QED BY <3>1, <3>2
  <2>6. g[n] = IF p[n] \in 1 .. SizeLimit THEN p[n] ELSE Refused
    <3>1. \A k \in 0 .. n : g[k] = IF p[k] \in 1 .. SizeLimit THEN p[k] ELSE Refused
      BY <1>1, <1>3, <2>1, <2>3, SizesAgree
    <3>2. n \in 0 .. n
      BY <2>4
    <3> QED BY <3>1, <3>2
  <2> QED BY <2>1, <2>3, <2>5, <2>6
<1> QED BY <1>2, <1>3

\* Whatever the limit and the dimensions, in any order: a type is refused
\* exactly if it has no size, and an exception thrown half-way, when a zero
\* or ones may still follow, never is premature.
THEOREM RefusalsAreDeserved == Spec => []OnlyImpossibleSizesAreRefused
<1>1. Init => SizeInvariant /\ SizeFollowsFold
  BY InitEstablishes, InitFollowsFold
<1>2. SizeInvariant /\ SizeFollowsFold /\ [Multiply]_vars => SizeInvariant' /\ SizeFollowsFold'
  <2>1. SizeInvariant /\ UNCHANGED vars => SizeInvariant'
    BY DEF SizeInvariant, InRange, SizeIsExact, HasStorage, vars
  <2>2. SizeFollowsFold /\ UNCHANGED vars => SizeFollowsFold'
    BY DEF SizeFollowsFold, Sizes, StorageSize, HasStorage, vars
  <2> QED BY <2>1, <2>2, MultiplyPreserves, MultiplyFollowsFold
<1>3. SizeInvariant /\ SizeFollowsFold => OnlyImpossibleSizesAreRefused
  BY FollowedFoldIsExact
<1> QED BY <1>1, <1>2, <1>3, PTL DEF Spec

-----------------------------------------------------------------------------
(* The runtime *)

RtInvariant == RtTypeOK /\ ErrorTellsLastAllocation

\* An allocation that fails says so to its own thread, and to no other.
LEMMA FailureIsTold ==
    ASSUME RtInvariant, NEW thread \in Threads, NEW diagnostic \in Diagnostics,
           AllocFails(thread, diagnostic)
    PROVE  RtInvariant'
<1>1. diagnostic # ""
  BY DEF Diagnostics
<1>2. RtTypeOK'
  BY DEF RtInvariant, RtTypeOK, AllocFails
<1>3. ErrorTellsLastAllocation'
  <2> SUFFICES ASSUME NEW other \in Threads
               PROVE  rtError'[other] # "" <=> lastAlloc'[other] = "failed"
    BY DEF ErrorTellsLastAllocation
  <2>1. CASE other = thread
    BY <2>1, <1>1 DEF RtInvariant, RtTypeOK, AllocFails
  <2>2. CASE other # thread
    BY <2>2 DEF RtInvariant, RtTypeOK, ErrorTellsLastAllocation, AllocFails
  <2> QED BY <2>1, <2>2
<1> QED BY <1>2, <1>3 DEF RtInvariant

LEMMA AllocPreserves ==
    ASSUME RtInvariant, NEW thread \in Threads, NEW requested \in Word, NEW alignment \in Word,
           NEW pointer \in Storage \cup {NULL}, Alloc(thread, requested, alignment, pointer)
    PROVE  RtInvariant'
<1>1. Refusal(requested, alignment) \in Diagnostics \cup {""}
  BY DEF Refusal, Diagnostics
<1>2. CASE Refusal(requested, alignment) # "" /\ AllocFails(thread, Refusal(requested, alignment))
  BY <1>1, <1>2, FailureIsTold
<1>3. CASE AllocFails(thread, "memory")
  BY <1>3, FailureIsTold DEF Diagnostics
<1>4. CASE /\ pointer \in Storage \ owned
           /\ owned' = owned \cup {pointer}
           /\ rtError' = [rtError EXCEPT ![thread] = ""]
           /\ lastAlloc' = [lastAlloc EXCEPT ![thread] = "succeeded"]
  <2>1. RtTypeOK'
    BY <1>4 DEF RtInvariant, RtTypeOK
  <2>2. ErrorTellsLastAllocation'
    <3> SUFFICES ASSUME NEW other \in Threads
                 PROVE  rtError'[other] # "" <=> lastAlloc'[other] = "failed"
      BY DEF ErrorTellsLastAllocation
    <3>1. CASE other = thread
      BY <3>1, <1>4 DEF RtInvariant, RtTypeOK
    <3>2. CASE other # thread
      BY <3>2, <1>4 DEF RtInvariant, RtTypeOK, ErrorTellsLastAllocation
    <3> QED BY <3>1, <3>2
  <2> QED BY <2>1, <2>2 DEF RtInvariant
<1> QED BY <1>2, <1>3, <1>4 DEF Alloc

LEMMA FreePreserves ==
    ASSUME RtInvariant, NEW pointer \in owned \cup {NULL}, Free(pointer)
    PROVE  RtInvariant'
BY DEF RtInvariant, RtTypeOK, ErrorTellsLastAllocation, Free

LEMMA RtInvariantHolds == RtSpec => []RtInvariant
<1>1. RtInit => RtInvariant
  BY DEF RtInit, RtInvariant, RtTypeOK, ErrorTellsLastAllocation
<1>2. RtInvariant /\ [RtNext]_rtVars => RtInvariant'
  <2> SUFFICES ASSUME RtInvariant, [RtNext]_rtVars PROVE RtInvariant'
    OBVIOUS
  <2>1. CASE UNCHANGED rtVars
    BY <2>1 DEF rtVars, RtInvariant, RtTypeOK, ErrorTellsLastAllocation
  <2>2. CASE \E thread \in Threads, requested, alignment \in Word, pointer \in Storage \cup {NULL} :
                Alloc(thread, requested, alignment, pointer)
    BY <2>2, AllocPreserves
  <2>3. CASE \E pointer \in owned \cup {NULL} : Free(pointer)
    BY <2>3, FreePreserves
  <2> QED BY <2>1, <2>2, <2>3 DEF RtNext
<1> QED BY <1>1, <1>2, PTL DEF RtSpec

\* The state of the runtime keeps its type: NULL never counts as storage.
THEOREM RuntimeIsTyped == RtSpec => []RtTypeOK
<1>1. RtInvariant => RtTypeOK
  BY DEF RtInvariant
<1> QED BY <1>1, RtInvariantHolds, PTL

\* Whatever the other threads do, what ocelotl_rt_v1_last_error returns is
\* empty unless the last allocation of this thread failed.
THEOREM LastErrorIsOwn == RtSpec => []ErrorTellsLastAllocation
<1>1. RtInvariant => ErrorTellsLastAllocation
  BY DEF RtInvariant
<1> QED BY <1>1, RtInvariantHolds, PTL

=============================================================================
