----------------------------- MODULE StackLemmas -----------------------------
(***************************************************************************)
(* Lemmas the proofs share: on sequences used as stacks, the visitors'     *)
(* operands and the frames of the if statements; and on natural numbers,   *)
(* induction stated of a set instead of an operator, so that the provers   *)
(* can apply it.                                                           *)
(***************************************************************************)
EXTENDS Integers, SequenceTheorems, WellFoundedInduction, TLAPS

(* A stack that is not empty has a top.                                    *)
LEMMA StackTop ==
  ASSUME NEW S, NEW s \in Seq(S), s # <<>>
  PROVE  Len(s) >= 1 /\ Len(s) \in 1 .. Len(s) /\ s[Len(s)] \in S
  <1>1. Len(s) # 0
    BY EmptySeq
  <1> QED
    BY <1>1, LenProperties, ElementOfSeq

(* What is left once n elements are popped.                                *)
LEMMA StackPop ==
  ASSUME NEW S, NEW s \in Seq(S), NEW n \in Nat, n <= Len(s)
  PROVE  /\ SubSeq(s, 1, Len(s) - n) \in Seq(S)
         /\ Len(SubSeq(s, 1, Len(s) - n)) = Len(s) - n
         /\ \A i \in 1 .. Len(s) - n : SubSeq(s, 1, Len(s) - n)[i] = s[i]
  <1>1. \A i \in 1 .. Len(s) - n : i \in 1 .. Len(s) /\ s[i] \in S
    BY LenProperties, ElementOfSeq
  <1>2. Len(s) - n \in Nat
    BY LenProperties
  <1> DEFINE t == SubSeq(s, 1, Len(s) - n)
  <1>3. /\ t \in Seq(S)
        /\ Len(t) = IF 1 <= Len(s) - n THEN Len(s) - n - 1 + 1 ELSE 0
        /\ \A i \in 1 .. Len(s) - n - 1 + 1 : t[i] = s[1 + i - 1]
    BY <1>1, <1>2, SubSeqProperties
  <1> QED
    BY <1>2, <1>3

(* The first n elements.                                                   *)
LEMMA StackPrefix ==
  ASSUME NEW S, NEW s \in Seq(S), NEW n \in Nat, n <= Len(s)
  PROVE  /\ SubSeq(s, 1, n) \in Seq(S)
         /\ Len(SubSeq(s, 1, n)) = n
         /\ \A i \in 1 .. n : SubSeq(s, 1, n)[i] = s[i]
  <1>1. Len(s) \in Nat /\ Len(s) - n \in Nat /\ Len(s) - n <= Len(s)
        /\ Len(s) - (Len(s) - n) = n
    BY LenProperties
  <1> DEFINE k == Len(s) - n
  <1>2. /\ SubSeq(s, 1, Len(s) - k) \in Seq(S)
        /\ Len(SubSeq(s, 1, Len(s) - k)) = Len(s) - k
        /\ \A i \in 1 .. Len(s) - k : SubSeq(s, 1, Len(s) - k)[i] = s[i]
    <2>1. k \in Nat /\ k <= Len(s)
      BY <1>1
    <2> HIDE DEF k
    <2> QED
      BY <2>1, StackPop
  <1> QED
    BY <1>1, <1>2

(* What is left once the top is popped.                                    *)
LEMMA StackPopTop ==
  ASSUME NEW S, NEW s \in Seq(S), s # <<>>
  PROVE  LET t == SubSeq(s, 1, Len(s) - 1) IN
         /\ t \in Seq(S)
         /\ Len(t) = Len(s) - 1
         /\ Len(t) \in Nat
         /\ \A i \in 1 .. Len(t) : t[i] = s[i] /\ i \in 1 .. Len(s)
  <1>1. 1 \in Nat /\ 1 <= Len(s) /\ Len(s) \in Nat
    BY StackTop, LenProperties
  <1>2. /\ SubSeq(s, 1, Len(s) - 1) \in Seq(S)
        /\ Len(SubSeq(s, 1, Len(s) - 1)) = Len(s) - 1
        /\ \A i \in 1 .. Len(s) - 1 : SubSeq(s, 1, Len(s) - 1)[i] = s[i]
    BY ONLY <1>1, StackPop, s \in Seq(S)
  <1> QED
    BY <1>1, <1>2

(* The top of a stack is replaced.                                         *)
LEMMA StackReplace ==
  ASSUME NEW S, NEW s \in Seq(S), s # <<>>, NEW e \in S
  PROVE  LET t == [s EXCEPT ![Len(s)] = e] IN
         /\ t \in Seq(S)
         /\ Len(t) = Len(s)
         /\ t[Len(s)] = e
         /\ \A i \in 1 .. Len(s) - 1 : t[i] = s[i]
  BY StackTop, ExceptSeq

(* An update outside its indices leaves a sequence as it is.               *)
LEMMA ExceptOutside ==
  ASSUME NEW S, NEW s \in Seq(S), NEW i, i \notin 1 .. Len(s), NEW e
  PROVE  [s EXCEPT ![i] = e] = s
  <1>1. DOMAIN s = 1 .. Len(s) /\ s \in [1 .. Len(s) -> S]
    BY LenProperties
  <1> QED
    BY <1>1

-----------------------------------------------------------------------------

(* A set of natural numbers that is not empty has a least element.         *)
LEMMA LeastNatural ==
  ASSUME NEW T \in SUBSET Nat, T # {}
  PROVE  \E x \in T : \A y \in T : x <= y
  <1> DEFINE R == OpToRel(<, Nat)
  <1>1. IsWellFoundedOn(R, Nat)
    BY NatLessThanWellFounded, Zenon
  <1>2. \A x, y \in Nat : x < y => <<x, y>> \in R
    BY SMT DEF OpToRel
  <1> HIDE DEF R
  <1>3. PICK x \in T : \A y \in T : <<y, x>> \notin R
    BY <1>1, WFMin, Zenon
  <1>4. ASSUME NEW y \in T PROVE x <= y
    <2>1. ~ (y < x)
      BY <1>2, <1>3
    <2> QED
      BY <2>1
  <1> QED
    BY <1>4

(* Induction: a set that has 0, and with a number the next one, has all.   *)
LEMMA SetInduction ==
  ASSUME NEW S, 0 \in S, \A n \in Nat : n \in S => n + 1 \in S
  PROVE  \A n \in Nat : n \in S
  <1> SUFFICES ASSUME Nat \ S # {} PROVE FALSE
    OBVIOUS
  <1>1. PICK x \in Nat \ S : \A y \in Nat \ S : x <= y
    BY LeastNatural, Zenon
  <1>2. x # 0 /\ x \in Nat
    BY <1>1
  <1>3. x - 1 \in Nat /\ ~ (x <= x - 1) /\ (x - 1) + 1 = x
    BY <1>2
  <1>4. x - 1 \in S
    BY <1>1, <1>3
  <1> QED
    BY <1>1, <1>3, <1>4

=============================================================================
