-------------------------- MODULE Simulation_proofs --------------------------
(***************************************************************************)
(* The interpreter of the source follows the generator: at each visit the  *)
(* module under construction has a path, and the operations on it do what  *)
(* the interpreter has done with the nodes generated so far.  An           *)
(* operation, a block or a terminator more prolongs the path or leaves it. *)
(***************************************************************************)
EXTENDS Execution, Compilation_proofs

-----------------------------------------------------------------------------
(* The meaning of the source, node after node *)

\* states[i] is the state of the interpreter before node i.
Interpreted(states) ==
    /\ states[1] = Source!Start
    /\ \A i \in 1 .. Len(prog) : states[i + 1] = Source!Interpret(states[i], prog[i])
    /\ promised = states[Len(prog) + 1].events

Meant == \E states : Interpreted(states)

\* One iteration of the fold, once for all nodes.
LEMMA InterpretNextIs ==
  \A state, node : Source!InterpretNext(state, node) = Source!Interpret(state, node)
  <1> TAKE state, node
  <1>1. {Source!Interpret(s, node) : s \in {state}} = {Source!Interpret(state, node)}
    OBVIOUS
  <1>2. \A x : (CHOOSE y \in {x} : TRUE) = x
    OBVIOUS
  <1> QED
    BY <1>1, <1>2 DEF Source!InterpretNext

\* The equation of the recursive function that folds the nodes 1 to n.
MeaningEquation(p, n, iter) ==
    iter = [t \in SUBSET (1 .. n) |->
              IF t = {} THEN Source!Start ELSE Source!InterpretNext(iter[t \ {Max(t)}], p[Max(t)])]

LEMMA GreatestNode ==
  ASSUME NEW n \in Nat, NEW t \in SUBSET (1 .. n + 1)
  PROVE  /\ n + 1 \in t => Max(t) = n + 1
         /\ n + 1 \notin t => t \in SUBSET (1 .. n)
  <1>1. ASSUME n + 1 \in t
        PROVE  Max(t) = n + 1
    <2>1. \A x \in t : n + 1 >= x
      OBVIOUS
    <2>2. ASSUME NEW m, m \in t, \A x \in t : m >= x
          PROVE  m = n + 1
      <3>1. m \in 1 .. n + 1 /\ m >= n + 1
        BY <1>1, <2>2
      <3> QED
        BY <3>1
    <2> QED
      BY <1>1, <2>1, <2>2 DEF Max
  <1> QED
    BY <1>1

LEMMA MeaningExists ==
  ASSUME NEW p
  PROVE  \A n \in Nat : \E iter : MeaningEquation(p, n, iter)
  <1> DEFINE S == {n \in Nat : \E iter : MeaningEquation(p, n, iter)}
  <1>1. 0 \in S
    <2>1. 1 .. 0 = {}
      OBVIOUS
    <2>2. MeaningEquation(p, 0, [t \in {{}} |-> Source!Start])
      BY <2>1 DEF MeaningEquation
    <2> QED
      BY <2>2
  <1>2. ASSUME NEW n \in Nat, n \in S
        PROVE  n + 1 \in S
    <2>1. PICK h : MeaningEquation(p, n, h)
      BY <1>2
    <2> DEFINE g == [t \in SUBSET (1 .. n + 1) |->
                       IF n + 1 \in t THEN Source!InterpretNext(h[t \ {n + 1}], p[n + 1])
                                      ELSE h[t]]
    <2>2. ASSUME NEW t \in SUBSET (1 .. n + 1)
          PROVE  g[t] = IF t = {} THEN Source!Start
                        ELSE Source!InterpretNext(g[t \ {Max(t)}], p[Max(t)])
      <3>1. CASE n + 1 \in t
        <4>1. Max(t) = n + 1 /\ t \ {n + 1} \in SUBSET (1 .. n + 1) /\ n + 1 \notin t \ {n + 1}
          BY <3>1, GreatestNode
        <4>2. g[t] = Source!InterpretNext(h[t \ {n + 1}], p[n + 1])
              /\ g[t \ {n + 1}] = h[t \ {n + 1}]
          BY <3>1, <4>1, Zenon
        <4> QED
          BY <4>1, <4>2, <3>1
      <3>2. CASE n + 1 \notin t
        <4>1. t \in SUBSET (1 .. n)
          BY <3>2, GreatestNode
        <4>2. h[t] = IF t = {} THEN Source!Start
                     ELSE Source!InterpretNext(h[t \ {Max(t)}], p[Max(t)])
          BY <2>1, <4>1, Zenon DEF MeaningEquation
        <4>3. g[t] = h[t] /\ g[t \ {Max(t)}] = h[t \ {Max(t)}]
          BY <3>2
        <4> QED
          BY <4>2, <4>3
      <3> QED
        BY <3>1, <3>2
    <2> HIDE DEF g
    <2>3. g = [t \in SUBSET (1 .. n + 1) |-> g[t]]
      BY DEF g
    <2>4. MeaningEquation(p, n + 1, g)
      BY <2>2, <2>3 DEF MeaningEquation
    <2> QED
      BY <2>4
  <1> HIDE DEF S
  <1>3. \A n \in Nat : n \in S
    BY <1>1, <1>2, SetInduction
  <1> QED
    BY <1>3 DEF S

LEMMA MeaningIsInterpreted ==
  ASSUME prog \in Seq(Node), promised = Source!Meaning
  PROVE  Meant
  <1> DEFINE n == Len(prog)
             chosen == CHOOSE iter : MeaningEquation(prog, n, iter)
             states == [i \in 1 .. n + 1 |-> chosen[1 .. i - 1]]
  <1>1. DOMAIN prog = 1 .. n /\ n \in Nat
    BY LenProperties
  <1>2. Source!Meaning =
           (CHOOSE iter : iter = [t \in SUBSET (1 .. Len(prog)) |->
               IF t = {} THEN Source!Start
               ELSE Source!InterpretNext(iter[t \ {Max(t)}], prog[Max(t)])])[1 .. Len(prog)].events
    BY <1>1 DEF Source!Meaning, Source!FoldLeft, Source!MapThenFoldSet, Source!Max, Max
  <1>3. Source!Meaning = chosen[1 .. n].events
    BY <1>2 DEF MeaningEquation
  <1>4. MeaningEquation(prog, n, chosen)
    BY <1>1, MeaningExists, Zenon
  <1> HIDE DEF chosen
  <1>5. states[1] = Source!Start
    <2>1. 1 .. 1 - 1 = {} /\ {} \in SUBSET (1 .. n) /\ 1 \in 1 .. n + 1
      BY <1>1
    <2> QED
      BY <1>4, <2>1 DEF MeaningEquation
  <1>6. ASSUME NEW i \in 1 .. n
        PROVE  states[i + 1] = Source!Interpret(states[i], prog[i])
    <2>1. /\ i \in 1 .. n + 1 /\ i + 1 \in 1 .. n + 1 /\ i - 1 \in Nat /\ i \in 1 .. i
          /\ (i + 1) - 1 = i /\ (i - 1) + 1 = i
      BY <1>1
    <2>2. (1 .. i) \ {i} = 1 .. i - 1
      BY <1>1, <2>1
    <2>3. 1 .. i \in SUBSET (1 .. n) /\ 1 .. i # {}
      <3>1. \A j \in 1 .. i : j \in 1 .. n
        BY <1>1
      <3> QED
        BY <2>1, <3>1
    <2>4. Max(1 .. i) = i
      BY <2>1, GreatestNode
    <2>5. chosen[1 .. i] = Source!InterpretNext(chosen[(1 .. i) \ {Max(1 .. i)}], prog[Max(1 .. i)])
      BY <1>4, <2>3, Zenon DEF MeaningEquation
    <2>6. states[i + 1] = chosen[1 .. i] /\ states[i] = chosen[1 .. i - 1]
      BY <2>1
    <2> QED
      BY <2>2, <2>4, <2>5, <2>6, InterpretNextIs
  <1>7. states[n + 1].events = promised
    <2>1. n + 1 \in 1 .. n + 1 /\ (n + 1) - 1 = n
      BY <1>1
    <2> QED
      BY <1>3, <2>1
  <1> HIDE DEF n, states
  <1>8. Interpreted(states)
    BY <1>5, <1>6, <1>7 DEF Interpreted, n
  <1> QED
    BY <1>8 DEF Meant

-----------------------------------------------------------------------------
(* What a node does to the state of the interpreter *)

\* The source computes with the arithmetic of the machine, and sizes as the backend does.
LEMMA SameNumbers ==
  /\ \A n : Source!Int64(n) = Int64(n)
  /\ \A truth : Source!Int1(truth) = Int1(truth)
  /\ Source!Double = Double
  /\ \A n, width : Source!Wrap(n, width) = Wrap(n, width)
  /\ \A kind, m, n : Source!DivisionUndefined(kind, m, n) = DivisionUndefined(kind, m, n)
  /\ \A m, n : Source!IntegerRelation(m, n) = IntegerRelation(m, n)
  /\ \A kind : Source!Satisfying(kind) = Satisfying(kind)
  /\ Source!Comparison = Comparison
  <1>1. \A n, width : Source!Wrap(n, width) = Wrap(n, width)
    BY DEF Source!Wrap, Wrap
  <1>2. \A kind, m, n : Source!DivisionUndefined(kind, m, n) = DivisionUndefined(kind, m, n)
    BY DEF Source!DivisionUndefined, DivisionUndefined, Source!MinInt, MinInt
  <1>3. \A kind : Source!Satisfying(kind) = Satisfying(kind)
    BY DEF Source!Satisfying, Satisfying
  <1> QED
    BY <1>1, <1>2, <1>3
       DEF Source!Int64, Int64, Source!Int1, Int1, Source!Double, Double, Source!IntegerRelation,
           IntegerRelation, Source!Comparison, Comparison

LEMMA SameComputation ==
  \A kind, m, n : Source!Compute(kind, m, n) = Compute(kind, m, n)
  <1>1. \A m, n : Source!Quotient(m, n) = Quotient(m, n)
    BY DEF Source!Quotient, Quotient
  <1> QED
    BY <1>1, SameNumbers DEF Source!Compute, Compute

LEMMA SameSizes ==
  \A type : Source!StorageSize(type) = StorageSize(type)
  <1> TAKE type
  <1>1. Source!FoldLeft(Source!Grow, Source!ElementSize(type.elementType), type.shape)
           = FoldLeft(Grow, ElementSize(type.elementType), type.shape)
    BY DEF Source!FoldLeft, FoldLeft, Source!MapThenFoldSet, MapThenFoldSet, Source!Max, Max,
           Source!Grow, Grow, Source!Refused, Refused, Source!ElementSize, ElementSize
  <1> QED
    BY <1>1 DEF Source!StorageSize, StorageSize, Source!HasStorage, HasStorage, Source!Refused,
                Refused, Source!ElementSize, ElementSize

IsState(s) ==
    /\ s = [env |-> s.env, stack |-> s.stack, skip |-> s.skip, over |-> s.over,
            events |-> s.events]
    /\ s.env = [name \in Names |-> s.env[name]]
    /\ IsList(s.stack)
    /\ s.skip \in Nat
    /\ s.over \in BOOLEAN
    /\ IsList(s.events)

\* The last n elements of a stack are gone, or replaced by one.
Popped(old, n, new) ==
    /\ Len(new) = Len(old) - n
    /\ \A i \in 1 .. Len(old) - n : new[i] = old[i]

Pushed(old, n, value, new) ==
    /\ Len(new) = Len(old) - n + 1
    /\ \A i \in 1 .. Len(old) - n : new[i] = old[i]
    /\ new[Len(old) - n + 1] = value

LEMMA SequenceList ==
  ASSUME NEW S, NEW s \in Seq(S)
  PROVE  IsList(s)
  <1>1. DOMAIN s = 1 .. Len(s) /\ Len(s) \in Nat
    BY LenProperties
  <1>2. \A i \in 1 .. Len(s) : s[i] \in Range(s)
    BY <1>1 DEF Range
  <1>3. s \in Seq(Range(s))
    BY <1>1, <1>2
  <1> QED
    BY <1>3 DEF IsList

LEMMA ListPopped ==
  ASSUME NEW s, IsList(s), NEW n \in Nat, n <= Len(s)
  PROVE  LET t == SubSeq(s, 1, Len(s) - n) IN
         /\ IsList(t) /\ Popped(s, n, t)
         /\ \A value : IsList(Append(t, value)) /\ Pushed(s, n, value, Append(t, value))
  <1> DEFINE t == SubSeq(s, 1, Len(s) - n)
  <1>1. s \in Seq(Range(s)) /\ Len(s) \in Nat
    BY ListLength DEF IsList
  <1>2. /\ t \in Seq(Range(s)) /\ Len(t) = Len(s) - n
        /\ \A i \in 1 .. Len(s) - n : t[i] = s[i]
    BY <1>1, StackPop, Zenon
  <1> HIDE DEF t
  <1>3. IsList(t)
    BY <1>2, SequenceList
  <1>4. Popped(s, n, t)
    BY <1>2 DEF Popped
  <1>5. ASSUME NEW value
        PROVE  IsList(Append(t, value)) /\ Pushed(s, n, value, Append(t, value))
    <2>1. /\ IsList(Append(t, value)) /\ Len(Append(t, value)) = Len(t) + 1
          /\ \A i \in 1 .. Len(t) : Append(t, value)[i] = t[i]
          /\ Append(t, value)[Len(t) + 1] = value
      BY <1>3, ListAppend, ZenonT(60)
    <2> QED
      BY <1>1, <1>2, <2>1 DEF Pushed
  <1> QED
    BY <1>3, <1>4, <1>5 DEF t

\* The state goes on, and nothing is observed.
Silent(s, t) ==
    IsState(t) /\ t.over = s.over /\ t.skip = s.skip /\ t.events = s.events

LEMMA PushToIs ==
  ASSUME NEW s, IsState(s), NEW n \in Nat, n <= Len(s.stack), NEW value, NEW t,
         t = Source!PushTo(s, n, value)
  PROVE  Silent(s, t) /\ t.env = s.env /\ Pushed(s.stack, n, value, t.stack)
  <1> DEFINE new == Append(SubSeq(s.stack, 1, Len(s.stack) - n), value)
  <1>1. IsList(new) /\ Pushed(s.stack, n, value, new)
    BY ListPopped, Zenon DEF IsState
  <1>2. t = [s EXCEPT !.stack = new]
    BY DEF Source!PushTo, Source!PopN
  <1> HIDE DEF new
  <1>3. t = [env |-> s.env, stack |-> new, skip |-> s.skip, over |-> s.over, events |-> s.events]
    BY <1>2 DEF IsState
  <1> QED
    BY <1>1, <1>3 DEF IsState, Silent

LEMMA EndWithIs ==
  ASSUME NEW s, IsState(s), NEW event, NEW t, t = Source!EndWith(s, event)
  PROVE  IsState(t) /\ t.over /\ t.events = Append(s.events, event)
  <1>1. IsList(Append(s.events, event))
    BY ListAppend, Zenon DEF IsState
  <1>2. t = [env |-> s.env, stack |-> s.stack, skip |-> s.skip, over |-> TRUE,
             events |-> Append(s.events, event)]
    BY DEF Source!EndWith, IsState
  <1> QED
    BY <1>1, <1>2 DEF IsState

Ongoing(s) == IsState(s) /\ ~ s.over /\ s.skip = 0

\* The value of a literal or a name.
LeafValue(s, node) ==
    IF node.kind = "identifier" THEN s.env[node.name]
    ELSE IF node.kind = "integer" THEN Int64(node.value) ELSE Double

LEMMA InterpretLeaf ==
  ASSUME NEW s, Ongoing(s), NEW node, node.kind \in {"identifier", "integer", "float"},
         NEW t, t = Source!Interpret(s, node)
  PROVE  Silent(s, t) /\ t.env = s.env /\ Pushed(s.stack, 0, LeafValue(s, node), t.stack)
  <1>1. t = Source!PushTo(s, 0, LeafValue(s, node))
    BY SameNumbers DEF Source!Interpret, Ongoing, LeafValue
  <1>2. 0 \in Nat /\ 0 <= Len(s.stack) /\ IsState(s)
    BY ListLength DEF Ongoing, IsState
  <1> QED
    BY <1>1, <1>2, PushToIs

\* The value of a binary expression, unless it has none.
Compared(lhs, rhs) == IF lhs.type = "i64" THEN IntegerRelation(lhs.value, rhs.value) ELSE relation
Combined(op, lhs, rhs) ==
    IF op \in Comparison
    THEN Int1(\/ Compared(lhs, rhs) \in Satisfying(op)
              \/ Compared(lhs, rhs) = "unordered" /\ op = "NotEqual")
    ELSE IF lhs.type = "f64" THEN Double ELSE Int64(Compute(op, lhs.value, rhs.value))
Stuck(op, lhs, rhs) ==
    op \notin Comparison /\ lhs.type # "f64" /\ DivisionUndefined(op, lhs.value, rhs.value)

UndefinedEvent == [event |-> "undefined"]
AllocationEvent(size) == [event |-> "allocation", size |-> size]
ExitEvent(status) == [event |-> "exit", status |-> status]

LEMMA InterpretBinary ==
  ASSUME NEW s, Ongoing(s), NEW node, node.kind = "binary", Len(s.stack) >= 2,
         NEW lhs, lhs = s.stack[Len(s.stack) - 1], NEW rhs, rhs = s.stack[Len(s.stack)],
         NEW t, t = Source!Interpret(s, node)
  PROVE  /\ ~ Stuck(node.op, lhs, rhs) =>
               /\ Silent(s, t) /\ t.env = s.env
               /\ Pushed(s.stack, 2, Combined(node.op, lhs, rhs), t.stack)
         /\ Stuck(node.op, lhs, rhs) =>
               IsState(t) /\ t.over /\ t.events = Append(s.events, UndefinedEvent)
  <1>1. t = Source!BinaryMeaning(s, node.op)
    BY DEF Source!Interpret, Ongoing
  <1>2. lhs = Source!Second(s) /\ rhs = Source!Top(s)
    BY DEF Source!Second, Source!Top, Source!Last
  <1>3. ~ Stuck(node.op, lhs, rhs) => t = Source!PushTo(s, 2, Combined(node.op, lhs, rhs))
    BY <1>1, <1>2, SameNumbers, SameComputation
       DEF Source!BinaryMeaning, Stuck, Combined, Compared
  <1>4. Stuck(node.op, lhs, rhs) => t = Source!EndWith(s, UndefinedEvent)
    BY <1>1, <1>2, SameNumbers
       DEF Source!BinaryMeaning, Stuck, UndefinedEvent, Source!Undefined
  <1>5. 2 \in Nat /\ 2 <= Len(s.stack) /\ IsState(s)
    BY ListLength DEF Ongoing, IsState
  <1>6. ~ Stuck(node.op, lhs, rhs) =>
               /\ Silent(s, t) /\ t.env = s.env
               /\ Pushed(s.stack, 2, Combined(node.op, lhs, rhs), t.stack)
    BY <1>3, <1>5, PushToIs
  <1>7. Stuck(node.op, lhs, rhs) =>
               IsState(t) /\ t.over /\ t.events = Append(s.events, UndefinedEvent)
    BY <1>4, <1>5, EndWithIs
  <1> QED
    BY <1>6, <1>7

\* The value of a tensor: there is nothing to tell two of them apart.
TensorValue == [type |-> "tensor", value |-> 0]

LEMMA InterpretTensor ==
  ASSUME NEW s, Ongoing(s), NEW node, node.kind = "tensor", NEW t, t = Source!Interpret(s, node)
  PROVE  /\ IsState(t) /\ t.over = s.over /\ t.skip = s.skip /\ t.stack = s.stack
         /\ t.events = Append(s.events, AllocationEvent(StorageSize(node.type)))
         /\ \A name \in Names : t.env[name] = IF name = node.name THEN TensorValue ELSE s.env[name]
  <1> DEFINE events == Append(s.events, AllocationEvent(StorageSize(node.type)))
             env == [s.env EXCEPT ![node.name] = TensorValue]
  <1>1. IsList(events)
    BY ListAppend, Zenon DEF IsState, Ongoing
  <1>2. t = [s EXCEPT !.events = events, !.env[node.name] = TensorValue]
    <2>1. t = [s EXCEPT !.events = Append(@, Source!Allocation(Source!StorageSize(node.type))),
                        !.env[node.name] = [type |-> "tensor", value |-> 0]]
      BY DEF Source!Interpret, Ongoing
    <2>2. Source!Allocation(Source!StorageSize(node.type))
             = AllocationEvent(StorageSize(node.type))
      BY SameSizes, Zenon DEF Source!Allocation, AllocationEvent
    <2> QED
      BY <2>1, <2>2 DEF TensorValue
  <1>3. t = [env |-> env, stack |-> s.stack, skip |-> s.skip, over |-> s.over, events |-> events]
    BY <1>2 DEF IsState, Ongoing
  <1>4. /\ env = [name \in Names |-> env[name]]
        /\ \A name \in Names : env[name] = IF name = node.name THEN TensorValue ELSE s.env[name]
    BY DEF IsState, Ongoing
  <1> HIDE DEF events, env
  <1>5. IsState(t)
    BY <1>1, <1>3, <1>4 DEF IsState, Ongoing
  <1> QED
    BY <1>3, <1>4, <1>5 DEF events

LEMMA InterpretAssign ==
  ASSUME NEW s, Ongoing(s), NEW node, node.kind = "assign", Len(s.stack) >= 1,
         NEW t, t = Source!Interpret(s, node)
  PROVE  /\ Silent(s, t) /\ Popped(s.stack, 1, t.stack)
         /\ \A name \in Names :
               t.env[name] = IF name = node.name THEN s.stack[Len(s.stack)] ELSE s.env[name]
  <1> DEFINE new == SubSeq(s.stack, 1, Len(s.stack) - 1)
             env == [s.env EXCEPT ![node.name] = s.stack[Len(s.stack)]]
  <1>1. IsList(new) /\ Popped(s.stack, 1, new)
    BY ListPopped, Zenon DEF IsState, Ongoing
  <1>2. t = [s EXCEPT !.env[node.name] = s.stack[Len(s.stack)], !.stack = new]
    BY DEF Source!Interpret, Ongoing, Source!Top, Source!Last, Source!PopN
  <1>3. t = [env |-> env, stack |-> new, skip |-> s.skip, over |-> s.over, events |-> s.events]
    BY <1>2 DEF IsState, Ongoing
  <1>4. /\ env = [name \in Names |-> env[name]]
        /\ \A name \in Names :
               env[name] = IF name = node.name THEN s.stack[Len(s.stack)] ELSE s.env[name]
    BY DEF IsState, Ongoing
  <1> HIDE DEF new, env
  <1>5. IsState(t)
    BY <1>1, <1>3, <1>4 DEF IsState, Ongoing
  <1> QED
    BY <1>1, <1>3, <1>4, <1>5 DEF Silent

LEMMA InterpretReturn ==
  ASSUME NEW s, Ongoing(s), NEW node, node.kind = "return", NEW t, t = Source!Interpret(s, node)
  PROVE  /\ IsState(t) /\ t.over
         /\ t.events = Append(s.events, ExitEvent(Wrap(s.stack[Len(s.stack)].value, StatusWidth)))
  <1>1. t = Source!EndWith(s, ExitEvent(Wrap(s.stack[Len(s.stack)].value, StatusWidth)))
    BY SameNumbers DEF Source!Interpret, Ongoing, Source!Exit, ExitEvent, Source!Top, Source!Last
  <1> QED
    BY <1>1, EndWithIs DEF Ongoing

LEMMA InterpretIf ==
  ASSUME NEW s, Ongoing(s), NEW node, node.kind = "if", Len(s.stack) >= 1,
         NEW t, t = Source!Interpret(s, node)
  PROVE  /\ IsState(t) /\ t.over = s.over /\ t.events = s.events /\ t.env = s.env
         /\ Popped(s.stack, 1, t.stack)
         /\ t.skip = IF s.stack[Len(s.stack)].value = 1 THEN 0 ELSE 1
  <1> DEFINE new == SubSeq(s.stack, 1, Len(s.stack) - 1)
             skip == IF s.stack[Len(s.stack)].value = 1 THEN 0 ELSE 1
  <1>1. IsList(new) /\ Popped(s.stack, 1, new)
    BY ListPopped, Zenon DEF IsState, Ongoing
  <1>2. t = [s EXCEPT !.stack = new, !.skip = skip]
    BY DEF Source!Interpret, Ongoing, Source!Top, Source!Last, Source!PopN
  <1>3. skip \in Nat
    OBVIOUS
  <1> HIDE DEF new, skip
  <1>4. t = [env |-> s.env, stack |-> new, skip |-> skip, over |-> s.over, events |-> s.events]
    BY <1>2 DEF IsState, Ongoing
  <1> QED
    BY <1>1, <1>3, <1>4 DEF IsState, Ongoing, skip

LEMMA InterpretElse ==
  ASSUME NEW s, Ongoing(s), NEW node, node.kind = "else", NEW t, t = Source!Interpret(s, node)
  PROVE  /\ IsState(t) /\ t.over = s.over /\ t.events = s.events /\ t.env = s.env
         /\ t.stack = s.stack /\ t.skip = 1
  <1>1. t = [s EXCEPT !.skip = 1]
    BY DEF Source!Interpret, Ongoing
  <1>2. t = [env |-> s.env, stack |-> s.stack, skip |-> 1, over |-> s.over, events |-> s.events]
    BY <1>1 DEF IsState, Ongoing
  <1> QED
    BY <1>2 DEF IsState, Ongoing

LEMMA InterpretNothing ==
  ASSUME NEW s, Ongoing(s), NEW node, node.kind \in {"call", "endcall", "endif"}
  PROVE  Source!Interpret(s, node) = s
  BY DEF Source!Interpret, Ongoing

LEMMA InterpretOver ==
  ASSUME NEW s, s.over, NEW node
  PROVE  Source!Interpret(s, node) = s
  BY DEF Source!Interpret

\* How many if statements end before the block taken goes on, after node.
SkipAfter(s, node) ==
    IF node.kind = "if" THEN s.skip + 1
    ELSE IF node.kind = "endif" \/ (node.kind = "else" /\ s.skip = 1) THEN s.skip - 1
    ELSE s.skip

\* A node of a block that is not taken.
LEMMA InterpretSkipped ==
  ASSUME NEW s, IsState(s), ~ s.over, s.skip > 0, NEW node, NEW t, t = Source!Interpret(s, node)
  PROVE  /\ IsState(t) /\ t.over = s.over /\ t.events = s.events /\ t.env = s.env
         /\ t.stack = s.stack /\ t.skip = SkipAfter(s, node)
  <1>1. SkipAfter(s, node) \in Nat
    BY DEF IsState, SkipAfter
  <1>2. t = [env |-> s.env, stack |-> s.stack, skip |-> SkipAfter(s, node), over |-> s.over,
             events |-> s.events]
    BY DEF Source!Interpret, Source!Skipped, IsState, SkipAfter
  <1> QED
    BY <1>1, <1>2 DEF IsState

\* A node that is no part of an if statement changes nothing there.
LEMMA InterpretIgnored ==
  ASSUME NEW s, IsState(s), ~ s.over, s.skip > 0, NEW node,
         node.kind \notin {"if", "else", "endif"}, NEW t, t = Source!Interpret(s, node)
  PROVE  /\ IsState(t) /\ t.over = s.over /\ t.events = s.events /\ t.env = s.env
         /\ t.stack = s.stack /\ t.skip = s.skip
  <1>1. t = [env |-> s.env, stack |-> s.stack, skip |-> s.skip, over |-> s.over,
             events |-> s.events]
    BY DEF Source!Interpret, Source!Skipped, IsState
  <1> QED
    BY <1>1 DEF IsState

-----------------------------------------------------------------------------
(* The path a module takes *)

\* The operations of the block before count and count itself are executed.
Point(block_, count, from, events) ==
    [block |-> block_, count |-> count, from |-> from, events |-> events]

IsPoint(m, p) ==
    /\ p.block \in 0 .. Len(m.blocks) - 1
    /\ p.count \in Nat
    /\ IsList(p.events)

OperationsOf(m, id) == m.blocks[id + 1].operations
TerminatorOf(m, id) == m.blocks[id + 1].terminator

\* Between two operations of a block are constants only, which are no instructions.
Idle(m, id, k, l) ==
    \A j \in 1 .. Len(OperationsOf(m, id)) : k < j /\ j < l => Constant(OperationsOf(m, id)[j])

IdleAfter(m, p) == Idle(m, p.block, p.count, Len(OperationsOf(m, p.block)) + 1)

\* The value meanings gives the result of an operation reached from block from.
Evaluates(meanings, from, operation) ==
    /\ Coded(operation)
    /\ operation.op = "tensor" => meanings[operation.result] = TensorValue
    /\ operation.op \in {"binary", "compare"} =>
          /\ ~ Stuck(operation.kind, meanings[operation.lhs], meanings[operation.rhs])
          /\ meanings[operation.result]
                = Combined(operation.kind, meanings[operation.lhs], meanings[operation.rhs])
    /\ operation.op = "phi" => \A i \in DOMAIN operation.incoming :
          operation.incoming[i].predecessor = from =>
             meanings[operation.result] = meanings[operation.incoming[i].value]

EventsAfter(events, operation) ==
    IF operation.op = "tensor" THEN Append(events, AllocationEvent(StorageSize(operation.type)))
                               ELSE events

\* From one point to the next: an operation, or the jump at the end of the block.
Executes(m, meanings, p, q) ==
    /\ q.count \in 1 .. Len(OperationsOf(m, p.block))
    /\ p.count < q.count /\ Idle(m, p.block, p.count, q.count)
    /\ Evaluates(meanings, p.from, OperationsOf(m, p.block)[q.count])
    /\ q = Point(p.block, q.count, p.from, EventsAfter(p.events, OperationsOf(m, p.block)[q.count]))

Taken(meanings, terminator, target) ==
    \/ terminator.op = "branch" /\ target = terminator.target
    \/ /\ terminator.op = "condbranch"
       /\ target = IF meanings[terminator.condition].value = 1 THEN terminator.trueTarget
                                                               ELSE terminator.falseTarget

Jumps(m, meanings, p, q) ==
    /\ IdleAfter(m, p)
    /\ Taken(meanings, TerminatorOf(m, p.block), q.block)
    /\ q = Point(q.block, 0, p.block, p.events)

Path(m, meanings, w, n) ==
    /\ n \in Nat \ {0}
    /\ w[1] = Point(0, 0, NoBlock, <<>>)
    /\ \A i \in 1 .. n - 1 : Executes(m, meanings, w[i], w[i + 1]) \/ Jumps(m, meanings, w[i], w[i + 1])
    /\ \A i \in 1 .. n : IsPoint(m, w[i]) /\ Begins(w[i].events, w[n].events)

\* A path ends where there is no value, or where the program returns.
GetsStuck(m, meanings, p) ==
    \E k \in 1 .. Len(OperationsOf(m, p.block)) : LET operation == OperationsOf(m, p.block)[k] IN
        /\ p.count < k /\ Idle(m, p.block, p.count, k)
        /\ operation.op = "binary"
        /\ Stuck(operation.kind, meanings[operation.lhs], meanings[operation.rhs])

Returns(m, meanings, p, status) ==
    /\ IdleAfter(m, p)
    /\ TerminatorOf(m, p.block).op = "return"
    /\ status = Wrap(meanings[TerminatorOf(m, p.block).value].value, StatusWidth)

Stops(m, meanings, p, events) ==
    \/ GetsStuck(m, meanings, p) /\ events = Append(p.events, UndefinedEvent)
    \/ \E status : Returns(m, meanings, p, status) /\ events = Append(p.events, ExitEvent(status))

\* A constant means its value.
ConstantMeans(meanings, operation) ==
    /\ operation.op = "int" => meanings[operation.result] = Int64(operation.value)
    /\ operation.op = "float" => meanings[operation.result] = Double

ConstantsMean(m, meanings) ==
    \A id \in 0 .. Len(m.blocks) - 1 : \A k \in 1 .. Len(OperationsOf(m, id)) :
        ConstantMeans(meanings, OperationsOf(m, id)[k])

-----------------------------------------------------------------------------
(* A path stays one when the module grows *)

\* Both give the values that exist already the same meaning.
SameMeanings(old, new, next) == \A v \in Nat : v < next => new[v] = old[v]

\* All values a module uses exist.
UsesBelow(m, next) ==
    \A id \in 0 .. Len(m.blocks) - 1 :
        /\ \A k \in 1 .. Len(OperationsOf(m, id)) : LET operation == OperationsOf(m, id)[k] IN
              /\ operation.result \in Nat /\ operation.result < next
              /\ \A v \in OperandsOf(operation) : v \in Nat /\ v < next
              /\ operation.op = "phi" => \A i \in DOMAIN operation.incoming :
                    operation.incoming[i].value \in Nat /\ operation.incoming[i].value < next
        /\ \A v \in Uses(TerminatorOf(m, id)) : v \in Nat /\ v < next

LEMMA DefinedIsBelow ==
  ASSUME NEW m \in Module, NEW next, Below(m, next), NEW v, NEW place, DefinedBefore(m, v, place)
  PROVE  v \in Nat /\ v < next
  <1>1. PICK p : p \in Definitions(m, v)
    BY DEF DefinedBefore
  <1>2. p \in Places(m) /\ resultOf(OperationAt(m, p)) = v
    BY <1>1 DEF Definitions
  <1> QED
    BY <1>2, ResultType DEF Below

LEMMA SoundUsesBelow ==
  ASSUME NEW m \in Module, NEW next, ModuleSound(m, next)
  PROVE  UsesBelow(m, next)
  <1> SUFFICES ASSUME NEW id \in 0 .. Len(m.blocks) - 1
               PROVE  /\ \A k \in 1 .. Len(OperationsOf(m, id)) :
                            LET operation == OperationsOf(m, id)[k] IN
                            /\ operation.result \in Nat /\ operation.result < next
                            /\ \A v \in OperandsOf(operation) : v \in Nat /\ v < next
                            /\ operation.op = "phi" => \A i \in DOMAIN operation.incoming :
                                  /\ operation.incoming[i].value \in Nat
                                  /\ operation.incoming[i].value < next
                      /\ \A v \in Uses(TerminatorOf(m, id)) : v \in Nat /\ v < next
    BY DEF UsesBelow
  <1>0. id + 1 \in 1 .. Len(m.blocks) /\ Below(m, next)
    BY BlockTypes DEF ModuleSound
  <1>1. ASSUME NEW k \in 1 .. Len(OperationsOf(m, id)), NEW operation,
               operation = OperationsOf(m, id)[k]
        PROVE  /\ operation.result \in Nat /\ operation.result < next
               /\ \A v \in OperandsOf(operation) : v \in Nat /\ v < next
               /\ operation.op = "phi" => \A i \in DOMAIN operation.incoming :
                     operation.incoming[i].value \in Nat /\ operation.incoming[i].value < next
    <2>1. <<id + 1, k>> \in Places(m) /\ OperationAt(m, <<id + 1, k>>) = operation
      BY <1>0, <1>1, PlaceFacts DEF OperationsOf
    <2>2. operation.result \in Nat /\ operation.result < next
      BY <1>0, <2>1, ResultType DEF Below, resultOf
    <2>3. OperationSound(m, <<id + 1, k>>)
      BY <2>1 DEF ModuleSound
    <2>4. \A v \in OperandsOf(operation) : DefinedBefore(m, v, <<id + 1, k>>)
      BY <2>1, <2>3 DEF OperationSound
    <2>5. operation.op = "phi" => \A i \in DOMAIN operation.incoming :
             \E place : DefinedBefore(m, operation.incoming[i].value, place)
      BY <2>1, <2>3 DEF OperationSound
    <2> QED
      BY <1>0, <2>2, <2>4, <2>5, DefinedIsBelow
  <1>2. ASSUME NEW v \in Uses(TerminatorOf(m, id))
        PROVE  v \in Nat /\ v < next
    <2>1. TerminatorSound(m, id + 1)
      BY <1>0 DEF ModuleSound
    <2>2. \E place : DefinedBefore(m, v, place)
      BY <1>2, <2>1 DEF TerminatorSound, TerminatorOf
    <2> QED
      BY <1>0, <2>2, DefinedIsBelow
  <1> QED
    BY <1>1, <1>2

\* The module t is the module m with more operations, blocks and terminators.
Continues(m, t) == m \in Module /\ t \in Module /\ Longer(m, t) /\ Kept(m.blocks, t.blocks)

LEMMA ContinuedBlock ==
  ASSUME NEW m, NEW t, Continues(m, t), NEW id \in 0 .. Len(m.blocks) - 1
  PROVE  /\ id \in 0 .. Len(t.blocks) - 1
         /\ Len(OperationsOf(m, id)) \in Nat /\ Len(OperationsOf(t, id)) \in Nat
         /\ Len(OperationsOf(m, id)) <= Len(OperationsOf(t, id))
         /\ \A k \in 1 .. Len(OperationsOf(m, id)) : OperationsOf(t, id)[k] = OperationsOf(m, id)[k]
         /\ TerminatorOf(m, id) # NoTerminator =>
               /\ TerminatorOf(t, id) = TerminatorOf(m, id)
               /\ OperationsOf(t, id) = OperationsOf(m, id)
  <1>1. id + 1 \in 1 .. Len(m.blocks) /\ Len(m.blocks) \in Nat /\ Len(t.blocks) \in Nat
    BY BlockTypes DEF Continues
  <1>2. id + 1 \in 1 .. Len(t.blocks)
    BY <1>1 DEF Continues, Longer
  <1>3. Len(OperationsOf(m, id)) \in Nat /\ Len(OperationsOf(t, id)) \in Nat
    BY <1>1, <1>2, BlockTypes DEF Continues, OperationsOf
  <1> QED
    BY <1>1, <1>2, <1>3 DEF Continues, Longer, Kept, OperationsOf, TerminatorOf

LEMMA IdleStays ==
  ASSUME NEW m, NEW t, Continues(m, t), NEW id \in 0 .. Len(m.blocks) - 1, NEW k \in Nat,
         NEW l \in Nat, l <= Len(OperationsOf(m, id)) + 1, Idle(m, id, k, l)
  PROVE  Idle(t, id, k, l)
  <1>1. /\ Len(OperationsOf(m, id)) \in Nat /\ Len(OperationsOf(t, id)) \in Nat
        /\ \A j \in 1 .. Len(OperationsOf(m, id)) : OperationsOf(t, id)[j] = OperationsOf(m, id)[j]
    BY ContinuedBlock
  <1> QED
    BY <1>1 DEF Idle

LEMMA EvaluatesStays ==
  ASSUME NEW operation, NEW next, NEW old, NEW new, SameMeanings(old, new, next), NEW from,
         operation.result \in Nat, operation.result < next,
         \A v \in OperandsOf(operation) : v \in Nat /\ v < next,
         operation.op = "phi" => \A i \in DOMAIN operation.incoming :
            operation.incoming[i].value \in Nat /\ operation.incoming[i].value < next,
         Evaluates(old, from, operation)
  PROVE  Evaluates(new, from, operation)
  <1>1. new[operation.result] = old[operation.result]
    BY DEF SameMeanings
  <1>2. operation.op \in {"binary", "compare"} =>
           new[operation.lhs] = old[operation.lhs] /\ new[operation.rhs] = old[operation.rhs]
    BY DEF SameMeanings, OperandsOf
  <1>3. operation.op = "phi" => \A i \in DOMAIN operation.incoming :
           new[operation.incoming[i].value] = old[operation.incoming[i].value]
    BY DEF SameMeanings
  <1> QED
    BY <1>1, <1>2, <1>3 DEF Evaluates

LEMMA TakenStays ==
  ASSUME NEW terminator, NEW next, NEW old, NEW new, SameMeanings(old, new, next),
         \A v \in Uses(terminator) : v \in Nat /\ v < next, NEW target
  PROVE  Taken(old, terminator, target) <=> Taken(new, terminator, target)
  <1>1. terminator.op = "condbranch" => new[terminator.condition] = old[terminator.condition]
    BY DEF SameMeanings, Uses
  <1> QED
    BY <1>1 DEF Taken

LEMMA StepStays ==
  ASSUME NEW m, NEW t, Continues(m, t), NEW next, UsesBelow(m, next), NEW old, NEW new,
         SameMeanings(old, new, next), NEW p, IsPoint(m, p), NEW q,
         Executes(m, old, p, q) \/ Jumps(m, old, p, q)
  PROVE  Executes(t, new, p, q) \/ Jumps(t, new, p, q)
  <1> DEFINE id == p.block
  <1>0. id \in 0 .. Len(m.blocks) - 1 /\ p.count \in Nat
    BY DEF IsPoint
  <1>1. /\ Len(OperationsOf(m, id)) \in Nat /\ Len(OperationsOf(t, id)) \in Nat
        /\ Len(OperationsOf(m, id)) <= Len(OperationsOf(t, id))
        /\ \A k \in 1 .. Len(OperationsOf(m, id)) : OperationsOf(t, id)[k] = OperationsOf(m, id)[k]
        /\ TerminatorOf(m, id) # NoTerminator =>
              /\ TerminatorOf(t, id) = TerminatorOf(m, id)
              /\ OperationsOf(t, id) = OperationsOf(m, id)
    BY <1>0, ContinuedBlock
  <1>2. CASE Executes(m, old, p, q)
    <2>1. /\ q.count \in 1 .. Len(OperationsOf(m, id)) /\ q.count \in Nat
          /\ q.count <= Len(OperationsOf(m, id)) + 1
          /\ p.count < q.count /\ Idle(m, id, p.count, q.count)
          /\ Evaluates(old, p.from, OperationsOf(m, id)[q.count])
      BY <1>1, <1>2 DEF Executes
    <2>2. Idle(t, id, p.count, q.count)
      BY <1>0, <2>1, IdleStays
    <2>3. OperationsOf(t, id)[q.count] = OperationsOf(m, id)[q.count]
          /\ q.count \in 1 .. Len(OperationsOf(t, id))
      BY <1>1, <2>1
    <2>4. Evaluates(new, p.from, OperationsOf(m, id)[q.count])
      BY <1>0, <2>1, EvaluatesStays DEF UsesBelow
    <2> QED
      BY <1>2, <2>1, <2>2, <2>3, <2>4 DEF Executes
  <1>3. CASE Jumps(m, old, p, q)
    <2>1. TerminatorOf(m, id) # NoTerminator
      BY <1>3 DEF Jumps, Taken, NoTerminator
    <2>2. \A v \in Uses(TerminatorOf(m, id)) : v \in Nat /\ v < next
      BY <1>0 DEF UsesBelow
    <2>3. Taken(new, TerminatorOf(t, id), q.block)
      BY <1>1, <1>3, <2>1, <2>2, TakenStays DEF Jumps
    <2>4. IdleAfter(t, p)
      BY <1>1, <1>3, <2>1 DEF Jumps, IdleAfter, Idle
    <2> QED
      BY <1>3, <2>3, <2>4 DEF Jumps
  <1> QED
    BY <1>2, <1>3

LEMMA PathStays ==
  ASSUME NEW m, NEW t, Continues(m, t), NEW next, UsesBelow(m, next), NEW old, NEW new,
         SameMeanings(old, new, next), NEW w, NEW n, Path(m, old, w, n)
  PROVE  Path(t, new, w, n)
  <1>1. n \in Nat \ {0} /\ \A i \in 1 .. n - 1 : i \in 1 .. n
    BY DEF Path
  <1>2. ASSUME NEW i \in 1 .. n - 1
        PROVE  Executes(t, new, w[i], w[i + 1]) \/ Jumps(t, new, w[i], w[i + 1])
    <2>1. IsPoint(m, w[i]) /\ (Executes(m, old, w[i], w[i + 1]) \/ Jumps(m, old, w[i], w[i + 1]))
      BY <1>1 DEF Path
    <2> QED
      BY <2>1, StepStays
  <1>3. ASSUME NEW i \in 1 .. n
        PROVE  IsPoint(t, w[i])
    BY ContinuedBlock DEF Path, IsPoint
  <1> QED
    BY <1>1, <1>2, <1>3 DEF Path

LEMMA StopsStays ==
  ASSUME NEW m, NEW t, Continues(m, t), NEW next, UsesBelow(m, next), NEW old, NEW new,
         SameMeanings(old, new, next), NEW p, IsPoint(m, p), NEW events,
         Stops(m, old, p, events)
  PROVE  Stops(t, new, p, events)
  <1> DEFINE id == p.block
  <1>0. id \in 0 .. Len(m.blocks) - 1 /\ p.count \in Nat
    BY DEF IsPoint
  <1>1. /\ Len(OperationsOf(m, id)) \in Nat /\ Len(OperationsOf(t, id)) \in Nat
        /\ Len(OperationsOf(m, id)) <= Len(OperationsOf(t, id))
        /\ \A k \in 1 .. Len(OperationsOf(m, id)) : OperationsOf(t, id)[k] = OperationsOf(m, id)[k]
        /\ TerminatorOf(m, id) # NoTerminator =>
              /\ TerminatorOf(t, id) = TerminatorOf(m, id)
              /\ OperationsOf(t, id) = OperationsOf(m, id)
    BY <1>0, ContinuedBlock
  <1>2. ASSUME GetsStuck(m, old, p)
        PROVE  GetsStuck(t, new, p)
    <2>1. PICK k \in 1 .. Len(OperationsOf(m, id)) :
             /\ p.count < k /\ Idle(m, id, p.count, k)
             /\ OperationsOf(m, id)[k].op = "binary"
             /\ Stuck(OperationsOf(m, id)[k].kind, old[OperationsOf(m, id)[k].lhs],
                      old[OperationsOf(m, id)[k].rhs])
      BY <1>2 DEF GetsStuck
    <2>2. /\ k \in Nat /\ k <= Len(OperationsOf(m, id)) + 1 /\ k \in 1 .. Len(OperationsOf(t, id))
          /\ OperationsOf(t, id)[k] = OperationsOf(m, id)[k]
      BY <1>1
    <2>3. Idle(t, id, p.count, k)
      BY <1>0, <2>1, <2>2, IdleStays
    <2>4. /\ old[OperationsOf(m, id)[k].lhs] = new[OperationsOf(m, id)[k].lhs]
          /\ old[OperationsOf(m, id)[k].rhs] = new[OperationsOf(m, id)[k].rhs]
      BY <1>0, <2>1 DEF UsesBelow, SameMeanings, OperandsOf
    <2> QED
      BY <2>1, <2>2, <2>3, <2>4 DEF GetsStuck
  <1>3. ASSUME NEW status, Returns(m, old, p, status)
        PROVE  Returns(t, new, p, status)
    <2>1. TerminatorOf(m, id) # NoTerminator /\ TerminatorOf(m, id).op = "return"
      BY <1>3 DEF Returns, NoTerminator
    <2>2. old[TerminatorOf(m, id).value] = new[TerminatorOf(m, id).value]
      BY <1>0, <2>1 DEF UsesBelow, SameMeanings, Uses
    <2>3. IdleAfter(t, p)
      BY <1>1, <1>3, <2>1 DEF Returns, IdleAfter, Idle
    <2> QED
      BY <1>1, <1>3, <2>1, <2>2, <2>3 DEF Returns
  <1> QED
    BY <1>2, <1>3 DEF Stops

LEMMA BeginsTransitive ==
  ASSUME NEW a, IsList(a), NEW b, IsList(b), NEW c, IsList(c), Begins(a, b), Begins(b, c)
  PROVE  Begins(a, c)
  BY ListLength DEF Begins

LEMMA BeginsAppend ==
  ASSUME NEW a, IsList(a), NEW e
  PROVE  Begins(a, a) /\ Begins(a, Append(a, e)) /\ IsList(Append(a, e))
  BY ListAppend, ListLength DEF Begins

\* One more point.
LEMMA PathGoesOn ==
  ASSUME NEW m, NEW meanings, NEW w, NEW n, Path(m, meanings, w, n), NEW q, IsPoint(m, q),
         Begins(w[n].events, q.events),
         Executes(m, meanings, w[n], q) \/ Jumps(m, meanings, w[n], q)
  PROVE  \E v : v[n + 1] = q /\ Path(m, meanings, v, n + 1)
  <1> DEFINE v == [i \in 1 .. n + 1 |-> IF i = n + 1 THEN q ELSE w[i]]
  <1>1. n \in Nat \ {0} /\ n \in 1 .. n /\ n + 1 \in 1 .. n + 1 /\ 1 \in 1 .. n + 1 /\ n + 1 # 1
    BY DEF Path
  <1>2. v[n + 1] = q /\ v[1] = w[1] /\ \A i \in 1 .. n : v[i] = w[i]
    BY <1>1
  <1> HIDE DEF v
  <1>3. ASSUME NEW i \in 1 .. n
        PROVE  Executes(m, meanings, v[i], v[i + 1]) \/ Jumps(m, meanings, v[i], v[i + 1])
    <2>1. CASE i = n
      BY <1>1, <1>2, <2>1
    <2>2. CASE i # n
      <3>1. i \in 1 .. n - 1 /\ i + 1 \in 1 .. n
        BY <1>1, <2>2
      <3> QED
        BY <1>2, <3>1 DEF Path
    <2> QED
      BY <2>1, <2>2
  <1>4. ASSUME NEW i \in 1 .. n + 1
        PROVE  IsPoint(m, v[i]) /\ Begins(v[i].events, q.events)
    <2>1. CASE i = n + 1
      BY <1>2, <2>1, BeginsAppend DEF IsPoint
    <2>2. CASE i # n + 1
      <3>1. i \in 1 .. n
        BY <1>1, <2>2
      <3>2. IsPoint(m, w[i]) /\ IsPoint(m, w[n]) /\ Begins(w[i].events, w[n].events)
        BY <1>1, <3>1 DEF Path
      <3>3. Begins(w[i].events, q.events)
        BY <3>2, BeginsTransitive DEF IsPoint
      <3> QED
        BY <1>2, <3>1, <3>2, <3>3
    <2> QED
      BY <2>1, <2>2
  <1>5. n + 1 \in Nat \ {0} /\ (n + 1) - 1 = n
    BY <1>1
  <1>6. Path(m, meanings, v, n + 1)
    BY <1>2, <1>3, <1>4, <1>5 DEF Path
  <1> QED
    BY <1>2, <1>6

-----------------------------------------------------------------------------
(* Where the path is while the module is generated *)

\* An environment, or a stack of operands, means the one the interpreter has.
EnvMeans(meanings, environment, env) ==
    \A name \in Names : environment[name] # NoValue => meanings[environment[name].value] = env[name]

StackMeans(meanings, ops, stack) ==
    Len(ops) = Len(stack) /\ \A i \in 1 .. Len(ops) : meanings[ops[i].value] = stack[i]

\* All operations of block id are executed.
Reaches(m, p, id, s) ==
    p.block = id /\ p.count <= Len(OperationsOf(m, id)) /\ IdleAfter(m, p) /\ p.events = s.events

\* The path is in the current block.
Live(m, meanings, p, s, c, environment, ops) ==
    /\ Ongoing(s) /\ c # NoBlock
    /\ Reaches(m, p, c, s)
    /\ EnvMeans(meanings, environment, s.env)
    /\ StackMeans(meanings, ops, s.stack)

\* The path is in a block the generator will come back to, with the values saved for it.
Waits(m, meanings, p, s, frame) ==
    /\ Pending(frame) # NoBlock
    /\ Reaches(m, p, Pending(frame), s)
    /\ EnvMeans(meanings, Saved(frame), s.env)

Suspended(m, meanings, p, s, frames) ==
    /\ IsState(s) /\ ~ s.over /\ Len(s.stack) = 0
    /\ \E k \in 1 .. Len(frames) :
          s.skip = Len(frames) - k + 1 /\ Waits(m, meanings, p, s, frames[k])

\* The path has ended.
Over(m, meanings, p, s) == IsState(s) /\ s.over /\ Stops(m, meanings, p, s.events)

Simulated(m, c, environment, ops, frames, s) ==
    \E meanings, w, n :
        /\ Path(m, meanings, w, n)
        /\ ConstantsMean(m, meanings)
        /\ \/ Live(m, meanings, w[n], s, c, environment, ops)
           \/ Suspended(m, meanings, w[n], s, frames)
           \/ Over(m, meanings, w[n], s)

EnvBelow(environment, next) ==
    \A name \in Names : environment[name] # NoValue =>
        environment[name].value \in Nat /\ environment[name].value < next

StackBelow(ops, next) == \A i \in 1 .. Len(ops) : ops[i].value \in Nat /\ ops[i].value < next

FramesBelow(frames, next) ==
    \A k \in 1 .. Len(frames) : Pending(frames[k]) # NoBlock => EnvBelow(Saved(frames[k]), next)

LEMMA KnownIsBelow ==
  ASSUME NEW m \in Module, NEW next, Below(m, next), NEW info, NEW c, Known(m, info, c)
  PROVE  info.value \in Nat /\ info.value < next
  <1>1. PICK p \in Places(m) : p \in Definitions(m, info.value)
    BY KnownFacts
  <1>2. resultOf(OperationAt(m, p)) = info.value
    BY <1>1 DEF Definitions
  <1> QED
    BY <1>1, <1>2, ResultType DEF Below

LEMMA SoundIsBelow ==
  ASSUME TypeOK, GraphInvariant, Sound
  PROVE  /\ UsesBelow(module, nextValueId)
         /\ current # NoBlock => EnvBelow(values, nextValueId) /\ StackBelow(operands, nextValueId)
         /\ FramesBelow(ifs, nextValueId)
  <1>1. module \in Module /\ ModuleSound(module, nextValueId) /\ Below(module, nextValueId)
    BY StateTypes DEF Sound, ModuleSound
  <1>2. DOMAIN operands = 1 .. Len(operands) /\ DOMAIN ifs = 1 .. Len(ifs)
    BY LenProperties DEF TypeOK
  <1>3. UsesBelow(module, nextValueId)
    BY <1>1, SoundUsesBelow
  <1>4. \A environment, c : EnvironmentSound(module, environment, c) => EnvBelow(environment, nextValueId)
    BY <1>1, KnownIsBelow DEF EnvironmentSound, EnvBelow
  <1>5. current # NoBlock => EnvBelow(values, nextValueId)
    BY <1>4 DEF Sound
  <1>6. current # NoBlock => StackBelow(operands, nextValueId)
    BY <1>1, <1>2, KnownIsBelow DEF Sound, OperandsSound, StackBelow
  <1>7. FramesBelow(ifs, nextValueId)
    BY <1>2, <1>4 DEF Sound, FramesSound, FrameSound, FramesBelow
  <1> QED
    BY <1>3, <1>5, <1>6, <1>7

LEMMA EnvMeansStays ==
  ASSUME NEW environment, NEW next, EnvBelow(environment, next), NEW old, NEW new,
         SameMeanings(old, new, next), NEW env, EnvMeans(old, environment, env)
  PROVE  EnvMeans(new, environment, env)
  BY DEF EnvBelow, SameMeanings, EnvMeans

LEMMA StackMeansPop ==
  ASSUME NEW ops \in Seq(ValueInfo), NEW next, StackBelow(ops, next), NEW old, NEW new,
         SameMeanings(old, new, next), NEW stack, StackMeans(old, ops, stack),
         NEW n \in Nat, n <= Len(ops), NEW rest, Popped(stack, n, rest)
  PROVE  StackMeans(new, SubSeq(ops, 1, Len(ops) - n), rest)
  <1> DEFINE t == SubSeq(ops, 1, Len(ops) - n)
  <1>1. Len(ops) \in Nat /\ Len(t) = Len(ops) - n /\ \A i \in 1 .. Len(ops) - n : t[i] = ops[i]
    BY StackPop, LenProperties
  <1> HIDE DEF t
  <1>2. ASSUME NEW i \in 1 .. Len(ops) - n
        PROVE  new[t[i].value] = rest[i]
    <2>1. i \in 1 .. Len(ops) /\ t[i] = ops[i]
      BY <1>1
    <2>2. new[ops[i].value] = old[ops[i].value]
      BY <2>1 DEF StackBelow, SameMeanings
    <2>3. old[ops[i].value] = stack[i] /\ rest[i] = stack[i]
      BY <2>1 DEF StackMeans, Popped
    <2> QED
      BY <2>1, <2>2, <2>3
  <1>3. Len(t) = Len(rest)
    BY <1>1 DEF StackMeans, Popped
  <1>4. StackMeans(new, t, rest)
    BY <1>1, <1>2, <1>3 DEF StackMeans
  <1> QED
    BY <1>4 DEF t

LEMMA StackMeansPush ==
  ASSUME NEW ops \in Seq(ValueInfo), NEW next, StackBelow(ops, next), NEW old, NEW new,
         SameMeanings(old, new, next), NEW stack, StackMeans(old, ops, stack),
         NEW n \in Nat, n <= Len(ops), NEW info \in ValueInfo, NEW pushed,
         Pushed(stack, n, new[info.value], pushed)
  PROVE  StackMeans(new, Append(SubSeq(ops, 1, Len(ops) - n), info), pushed)
  <1> DEFINE t == SubSeq(ops, 1, Len(ops) - n)
             u == Append(t, info)
  <1>1. /\ Len(ops) \in Nat /\ Len(t) = Len(ops) - n /\ t \in Seq(ValueInfo)
        /\ \A i \in 1 .. Len(ops) - n : t[i] = ops[i]
    BY StackPop, LenProperties
  <1> HIDE DEF t
  <1>2. Len(u) = Len(t) + 1 /\ (\A i \in 1 .. Len(t) : u[i] = t[i]) /\ u[Len(t) + 1] = info
    BY <1>1, AppendProperties
  <1> HIDE DEF u
  <1>3. Len(u) = Len(pushed) /\ Len(stack) = Len(ops)
    BY <1>1, <1>2 DEF StackMeans, Pushed
  <1>4. ASSUME NEW i \in 1 .. Len(u)
        PROVE  new[u[i].value] = pushed[i]
    <2>1. CASE i = Len(t) + 1
      BY <1>1, <1>2, <1>3, <2>1 DEF Pushed
    <2>2. CASE i # Len(t) + 1
      <3>1. i \in 1 .. Len(ops) - n /\ i \in 1 .. Len(ops) /\ u[i] = ops[i]
        BY <1>1, <1>2, <2>2
      <3>2. new[ops[i].value] = old[ops[i].value]
        BY <3>1 DEF StackBelow, SameMeanings
      <3>3. old[ops[i].value] = stack[i] /\ pushed[i] = stack[i]
        BY <1>3, <3>1 DEF StackMeans, Pushed
      <3> QED
        BY <3>1, <3>2, <3>3
    <2> QED
      BY <2>1, <2>2
  <1>5. StackMeans(new, u, pushed)
    BY <1>3, <1>4 DEF StackMeans
  <1> QED
    BY <1>5 DEF u, t

\* Only block c of m has got more operations in t.
OnlyGrows(m, t, c) ==
    \A id \in 0 .. Len(m.blocks) - 1 : id # c => OperationsOf(t, id) = OperationsOf(m, id)

LEMMA ReachesStays ==
  ASSUME NEW m, NEW t, NEW c, OnlyGrows(m, t, c), NEW p, IsPoint(m, p), NEW id, id # c,
         NEW s, Reaches(m, p, id, s), NEW u, u.events = s.events
  PROVE  Reaches(t, p, id, u)
  <1>1. OperationsOf(t, id) = OperationsOf(m, id)
    BY DEF OnlyGrows, Reaches, IsPoint
  <1> QED
    BY <1>1 DEF Reaches, IdleAfter, Idle

LEMMA WaitsStays ==
  ASSUME NEW m, NEW t, NEW c, OnlyGrows(m, t, c), NEW p, IsPoint(m, p), NEW frame,
         Pending(frame) # c, NEW next, Pending(frame) # NoBlock => EnvBelow(Saved(frame), next),
         NEW old, NEW new, SameMeanings(old, new, next),
         NEW s, Waits(m, old, p, s, frame), NEW u, u.events = s.events, u.env = s.env
  PROVE  Waits(t, new, p, u, frame)
  <1>1. Reaches(t, p, Pending(frame), u)
    BY ReachesStays DEF Waits
  <1>2. EnvMeans(new, Saved(frame), s.env)
    BY EnvMeansStays DEF Waits
  <1> QED
    BY <1>1, <1>2 DEF Waits

\* What was skipped or over stays so, whatever the generator adds to its current block.
LEMMA SuspendedStays ==
  ASSUME NEW m, NEW t, NEW c, OnlyGrows(m, t, c), NEW p, IsPoint(m, p),
         NEW frames \in Seq(GenFrame), PendingDiffer(c, frames),
         NEW next, FramesBelow(frames, next), NEW old, NEW new, SameMeanings(old, new, next),
         NEW s, Suspended(m, old, p, s, frames),
         NEW u, IsState(u), u.over = s.over, u.skip = s.skip, u.env = s.env, u.stack = s.stack,
         u.events = s.events
  PROVE  Suspended(t, new, p, u, frames)
  <1>1. PICK k \in 1 .. Len(frames) : s.skip = Len(frames) - k + 1 /\ Waits(m, old, p, s, frames[k])
    BY DEF Suspended
  <1>2. DOMAIN frames = 1 .. Len(frames)
    BY LenProperties
  <1>3. Pending(frames[k]) # NoBlock /\ Pending(frames[k]) # c
    BY <1>1, <1>2 DEF PendingDiffer, Waits
  <1>4. Waits(t, new, p, u, frames[k])
    BY <1>1, <1>3, WaitsStays DEF FramesBelow
  <1> QED
    BY <1>1, <1>4 DEF Suspended

-----------------------------------------------------------------------------
(* An operation more *)

LEMMA EmissionContinues ==
  ASSUME TypeOK, TypeOK', GraphInvariant, current # NoBlock, NEW operation \in Operation,
         Emit(operation)
  PROVE  /\ Continues(module, module') /\ OnlyGrows(module, module', current)
         /\ current \in 0 .. Len(module.blocks) - 1
         /\ Len(module'.blocks) = Len(module.blocks)
         /\ LET last == Len(OperationsOf(module, current)) + 1 IN
            /\ last \in Nat
            /\ Len(OperationsOf(module', current)) = last
            /\ \A k \in 1 .. last - 1 :
                  OperationsOf(module', current)[k] = OperationsOf(module, current)[k]
            /\ OperationsOf(module', current)[last] = operation
  <1>1. /\ module \in Module /\ module.blocks \in Seq(BasicBlock) /\ current \in Nat
        /\ Graph(module.blocks, current, ifs) /\ current \in 0 .. Len(module.blocks) - 1
        /\ current + 1 \in 1 .. Len(module.blocks) /\ Len(module.blocks) \in Nat
    BY StateTypes, CurrentIsOpen, BlockTypes
  <1>2. module' = [module EXCEPT !.blocks = AppendTo(module.blocks, current, operation)]
    BY DEF Emit
  <1>3. module' \in Module
    BY DEF TypeOK
  <1>4. Longer(module, module')
    BY EmitFollows
  <1>5. module'.blocks = AppendTo(module.blocks, current, operation)
    BY <1>1, <1>2 DEF Module
  <1>6. Kept(module.blocks, module'.blocks)
    BY <1>1, <1>5, EmitGraph
  <1>7. /\ Len(module'.blocks) = Len(module.blocks)
        /\ \A b \in 1 .. Len(module.blocks) : b # current + 1 => module'.blocks[b] = module.blocks[b]
        /\ LET last == Len(module.blocks[current + 1].operations) + 1 IN
           /\ Len(module'.blocks[current + 1].operations) = last
           /\ \A k \in 1 .. last - 1 : module'.blocks[current + 1].operations[k]
                                          = module.blocks[current + 1].operations[k]
           /\ module'.blocks[current + 1].operations[last] = operation
    <2> DEFINE t == [module EXCEPT !.blocks = AppendTo(module.blocks, current, operation)]
               last == Len(module.blocks[current + 1].operations) + 1
    <2>1. /\ t \in Module
          /\ t.blocks = AppendTo(module.blocks, current, operation)
          /\ Len(t.blocks) = Len(module.blocks)
          /\ \A b \in 1 .. Len(module.blocks) :
                /\ t.blocks[b].terminator = module.blocks[b].terminator
                /\ b # current + 1 => t.blocks[b] = module.blocks[b]
          /\ Len(t.blocks[current + 1].operations) = last
          /\ \A k \in 1 .. last - 1 : t.blocks[current + 1].operations[k]
                                         = module.blocks[current + 1].operations[k]
          /\ t.blocks[current + 1].operations[last] = operation
      BY <1>1, AppendedFacts, SMTT(30)
    <2>2. module' = t
      BY <1>2
    <2> HIDE DEF t
    <2> QED
      BY <2>1, <2>2
  <1>8. OnlyGrows(module, module', current)
    <2> SUFFICES ASSUME NEW id \in 0 .. Len(module.blocks) - 1, id # current
                 PROVE  OperationsOf(module', id) = OperationsOf(module, id)
      BY DEF OnlyGrows
    <2>1. id + 1 \in 1 .. Len(module.blocks) /\ id + 1 # current + 1
      BY <1>1
    <2> QED
      BY <1>7, <2>1 DEF OperationsOf
  <1>9. Len(module.blocks[current + 1].operations) \in Nat
    BY <1>1, BlockTypes
  <1> QED
    BY <1>1, <1>3, <1>4, <1>6, <1>7, <1>8, <1>9 DEF Continues, OperationsOf

\* new extends old to the values from next on.
LEMMA ConstantsStay ==
  ASSUME NEW m, NEW t, Continues(m, t), NEW next, UsesBelow(m, next), NEW old, NEW new,
         SameMeanings(old, new, next), ConstantsMean(m, old),
         \A id \in 0 .. Len(t.blocks) - 1 : \A k \in 1 .. Len(OperationsOf(t, id)) :
            \/ id \in 0 .. Len(m.blocks) - 1 /\ k \in 1 .. Len(OperationsOf(m, id))
            \/ ConstantMeans(new, OperationsOf(t, id)[k])
  PROVE  ConstantsMean(t, new)
  <1> SUFFICES ASSUME NEW id \in 0 .. Len(t.blocks) - 1, NEW k \in 1 .. Len(OperationsOf(t, id))
               PROVE  ConstantMeans(new, OperationsOf(t, id)[k])
    BY DEF ConstantsMean
  <1>1. CASE id \in 0 .. Len(m.blocks) - 1 /\ k \in 1 .. Len(OperationsOf(m, id))
    <2>1. OperationsOf(t, id)[k] = OperationsOf(m, id)[k]
      BY <1>1, ContinuedBlock
    <2>2. ConstantMeans(old, OperationsOf(m, id)[k])
      BY <1>1 DEF ConstantsMean
    <2>3. new[OperationsOf(m, id)[k].result] = old[OperationsOf(m, id)[k].result]
      BY <1>1 DEF UsesBelow, SameMeanings
    <2> QED
      BY <2>1, <2>2, <2>3 DEF ConstantMeans
  <1> QED
    BY <1>1

LEMMA MeaningExtends ==
  ASSUME NEW next \in Nat, NEW value, NEW old, NEW new,
         new = [v \in Nat |-> IF v = next THEN value ELSE old[v]]
  PROVE  SameMeanings(old, new, next) /\ new[next] = value
  BY DEF SameMeanings

LEMMA EmissionKeeps ==
  ASSUME TypeOK, TypeOK', GraphInvariant, Sound, current # NoBlock, NEW operation \in Operation,
         Emit(operation), NEW old, NEW w, NEW n, Path(module, old, w, n),
         ConstantsMean(module, old), NEW new, SameMeanings(old, new, nextValueId),
         ConstantMeans(new, operation)
  PROVE  Path(module', new, w, n) /\ ConstantsMean(module', new)
  <1>1. Continues(module, module') /\ UsesBelow(module, nextValueId)
    BY EmissionContinues, SoundIsBelow
  <1>2. Path(module', new, w, n)
    BY <1>1, PathStays
  <1>3. ASSUME NEW id \in 0 .. Len(module'.blocks) - 1, NEW k \in 1 .. Len(OperationsOf(module', id))
        PROVE  \/ id \in 0 .. Len(module.blocks) - 1 /\ k \in 1 .. Len(OperationsOf(module, id))
               \/ ConstantMeans(new, OperationsOf(module', id)[k])
    <2>1. id \in 0 .. Len(module.blocks) - 1
      BY EmissionContinues
    <2>2. CASE id # current
      BY <2>1, <2>2, EmissionContinues DEF OnlyGrows
    <2>3. CASE id = current
      BY <2>1, <2>3, EmissionContinues
    <2> QED
      BY <2>2, <2>3
  <1>4. ConstantsMean(module', new)
    BY <1>1, <1>3, ConstantsStay
  <1> QED
    BY <1>2, <1>4

\* The path in the current block executes the operation emitted, if it is no constant.
LEMMA EmissionReaches ==
  ASSUME TypeOK, TypeOK', GraphInvariant, Sound, current # NoBlock, NEW operation \in Operation,
         Emit(operation), NEW new, NEW w, NEW n, Path(module', new, w, n),
         IsPoint(module, w[n]), NEW s, Reaches(module, w[n], current, s)
  PROVE  /\ Constant(operation) => Reaches(module', w[n], current, s)
         /\ Evaluates(new, w[n].from, operation) =>
               \E v : /\ Path(module', new, v, n + 1)
                      /\ \A u : u.events = EventsAfter(s.events, operation) =>
                            Reaches(module', v[n + 1], current, u)
  <1> DEFINE last == Len(OperationsOf(module, current)) + 1
             p == w[n]
             q == Point(current, last, p.from, EventsAfter(p.events, operation))
  <1>1. /\ last \in Nat /\ Len(OperationsOf(module', current)) = last
        /\ OperationsOf(module', current)[last] = operation
        /\ \A k \in 1 .. last - 1 :
              OperationsOf(module', current)[k] = OperationsOf(module, current)[k]
        /\ current \in 0 .. Len(module'.blocks) - 1
    BY EmissionContinues
  <1>2. /\ p.block = current /\ p.count \in Nat /\ p.count < last /\ p.events = s.events
        /\ IsList(p.events)
        /\ \A j \in 1 .. last - 1 : p.count < j => Constant(OperationsOf(module, current)[j])
    BY <1>1 DEF Reaches, IsPoint, IdleAfter, Idle
  <1>3. Idle(module', current, p.count, last)
    BY <1>1, <1>2 DEF Idle
  <1>4. ASSUME Constant(operation)
        PROVE  Reaches(module', p, current, s)
    <2>1. ASSUME NEW j \in 1 .. last, p.count < j
          PROVE  Constant(OperationsOf(module', current)[j])
      <3>1. CASE j = last
        BY <1>1, <1>4, <3>1
      <3>2. CASE j # last
        <4>1. j \in 1 .. last - 1
          BY <1>1, <3>2
        <4> QED
          BY <1>1, <1>2, <2>1, <4>1
      <3> QED
        BY <3>1, <3>2
    <2> QED
      BY <1>1, <1>2, <2>1 DEF Reaches, IdleAfter, Idle
  <1>5. ASSUME Evaluates(new, p.from, operation)
        PROVE  \E v : /\ Path(module', new, v, n + 1)
                      /\ \A u : u.events = EventsAfter(s.events, operation) =>
                            Reaches(module', v[n + 1], current, u)
    <2>1. q.block = current /\ q.count = last /\ q.from = p.from
          /\ q.events = EventsAfter(p.events, operation)
      BY DEF Point
    <2>2. Executes(module', new, p, q)
      BY <1>1, <1>2, <1>3, <1>5, <2>1 DEF Executes
    <2>3. IsPoint(module', q) /\ Begins(p.events, q.events)
      <3>1. IsList(q.events) /\ Begins(p.events, q.events)
        BY <1>2, <2>1, BeginsAppend DEF EventsAfter
      <3> QED
        BY <1>1, <2>1, <3>1 DEF IsPoint
    <2>4. PICK v : v[n + 1] = q /\ Path(module', new, v, n + 1)
      BY <2>2, <2>3, PathGoesOn
    <2>5. ASSUME NEW u, u.events = EventsAfter(s.events, operation)
          PROVE  Reaches(module', q, current, u)
      <3>1. IdleAfter(module', q)
        BY <1>1, <2>1 DEF IdleAfter, Idle
      <3>2. q.events = u.events
        BY <1>2, <2>1, <2>5
      <3>3. q.count <= Len(OperationsOf(module', current))
        BY <1>1, <2>1
      <3> HIDE DEF q, last
      <3> QED
        BY <2>1, <3>1, <3>2, <3>3 DEF Reaches
    <2> QED
      BY <2>4, <2>5
  <1> QED
    BY <1>4, <1>5

-----------------------------------------------------------------------------
(* The generator visits an expression *)

LEMMA ContinuesItself ==
  ASSUME NEW m \in Module, NEW c
  PROVE  Continues(m, m) /\ OnlyGrows(m, m, c)
  <1>1. \A b \in 1 .. Len(m.blocks) : Len(m.blocks[b].operations) \in Nat
    BY BlockTypes
  <1>2. Len(m.blocks) \in Nat
    BY BlockTypes
  <1> QED
    BY <1>1, <1>2 DEF Continues, Longer, Kept, OnlyGrows

\* What is not live does not see a node that is no part of an if statement.
LEMMA UnmovedStays ==
  ASSUME NEW m, NEW t, Continues(m, t), NEW c, OnlyGrows(m, t, c),
         NEW next, UsesBelow(m, next), NEW frames \in Seq(GenFrame), FramesBelow(frames, next),
         PendingDiffer(c, frames), NEW old, NEW new, SameMeanings(old, new, next),
         NEW p, IsPoint(m, p), NEW s, Suspended(m, old, p, s, frames) \/ Over(m, old, p, s),
         NEW node, node.kind \notin {"if", "else", "endif"},
         NEW u, u = Source!Interpret(s, node)
  PROVE  Suspended(t, new, p, u, frames) \/ Over(t, new, p, u)
  <1>1. CASE Suspended(m, old, p, s, frames)
    <2>1. IsState(s) /\ ~ s.over /\ s.skip > 0
      <3>1. PICK k \in 1 .. Len(frames) : s.skip = Len(frames) - k + 1
        BY <1>1 DEF Suspended
      <3> QED
        BY <1>1, <3>1, LenProperties DEF Suspended
    <2>2. /\ IsState(u) /\ u.over = s.over /\ u.events = s.events /\ u.env = s.env
          /\ u.stack = s.stack /\ u.skip = s.skip
      BY <2>1, InterpretIgnored
    <2> QED
      BY <1>1, <2>2, SuspendedStays
  <1>2. CASE Over(m, old, p, s)
    <2>1. u = s
      BY <1>2, InterpretOver DEF Over
    <2>2. Stops(t, new, p, s.events)
      BY <1>2, StopsStays DEF Over
    <2> QED
      BY <1>2, <2>1, <2>2 DEF Over
  <1> QED
    BY <1>1, <1>2

\* The state before the step, as the lemmas about steps need it.
LEMMA StateIsBelow ==
  ASSUME TypeOK, GraphInvariant, Sound
  PROVE  /\ module \in Module /\ ifs \in Seq(GenFrame) /\ PendingDiffer(current, ifs)
         /\ UsesBelow(module, nextValueId) /\ FramesBelow(ifs, nextValueId)
         /\ nextValueId \in Nat /\ operands \in Seq(ValueInfo) /\ Len(operands) \in Nat
         /\ current # NoBlock => EnvBelow(values, nextValueId) /\ StackBelow(operands, nextValueId)
  BY SoundIsBelow, StateTypes, LenProperties DEF TypeOK, Graph

LEMMA LastPoint ==
  ASSUME NEW m, NEW meanings, NEW w, NEW n, Path(m, meanings, w, n)
  PROVE  IsPoint(m, w[n]) /\ n \in Nat
  BY DEF Path

\* An operation is emitted, and the path is not in the current block.
LEMMA OthersEmit ==
  ASSUME TypeOK, TypeOK', GraphInvariant, Sound, current # NoBlock, NEW operation \in Operation,
         Emit(operation), UNCHANGED flowVars, NEW old, NEW w, NEW n, Path(module, old, w, n),
         ConstantsMean(module, old), NEW value,
         \A new : new[nextValueId] = value => ConstantMeans(new, operation),
         NEW s, Suspended(module, old, w[n], s, ifs) \/ Over(module, old, w[n], s),
         NEW node, node.kind \notin {"if", "else", "endif"}, NEW u, u = Source!Interpret(s, node)
  PROVE  Simulated(module', current', values', operands', ifs', u)
  <1> DEFINE new == [v \in Nat |-> IF v = nextValueId THEN value ELSE old[v]]
  <1>1. SameMeanings(old, new, nextValueId) /\ new[nextValueId] = value
    BY StateIsBelow, MeaningExtends
  <1> HIDE DEF new
  <1>2. Path(module', new, w, n) /\ ConstantsMean(module', new)
    BY <1>1, EmissionKeeps
  <1>3. Continues(module, module') /\ OnlyGrows(module, module', current)
    BY EmissionContinues
  <1>4. Suspended(module', new, w[n], u, ifs) \/ Over(module', new, w[n], u)
    BY <1>1, <1>3, StateIsBelow, LastPoint, UnmovedStays
  <1>5. ifs' = ifs
    BY DEF flowVars
  <1> QED
    BY <1>2, <1>4, <1>5 DEF Simulated

\* An operation is emitted, and the path executes it.
LEMMA LiveEmits ==
  ASSUME TypeOK, TypeOK', GraphInvariant, Sound, current # NoBlock, NEW operation \in Operation,
         Emit(operation), NEW old, NEW w, NEW n, Path(module, old, w, n),
         ConstantsMean(module, old), NEW new, SameMeanings(old, new, nextValueId),
         ConstantMeans(new, operation),
         NEW s, Reaches(module, w[n], current, s),
         Constant(operation) \/ Evaluates(new, w[n].from, operation),
         NEW u, u.events = EventsAfter(s.events, operation)
  PROVE  \E v, j : /\ Path(module', new, v, j) /\ ConstantsMean(module', new)
                   /\ Reaches(module', v[j], current, u)
  <1>1. Path(module', new, w, n) /\ ConstantsMean(module', new)
    BY EmissionKeeps
  <1>2. IsPoint(module, w[n])
    BY LastPoint
  <1>3. CASE Constant(operation)
    <2>1. Reaches(module', w[n], current, s)
      BY <1>1, <1>2, <1>3, EmissionReaches
    <2>2. u.events = s.events
      BY <1>3 DEF Constant, EventsAfter
    <2>3. Reaches(module', w[n], current, u)
      BY <2>1, <2>2 DEF Reaches
    <2> QED
      BY <1>1, <2>3
  <1>4. CASE Evaluates(new, w[n].from, operation)
    <2>1. PICK v : /\ Path(module', new, v, n + 1)
                   /\ \A x : x.events = EventsAfter(s.events, operation) =>
                            Reaches(module', v[n + 1], current, x)
      BY <1>1, <1>2, <1>4, EmissionReaches
    <2> QED
      BY <1>1, <2>1
  <1> QED
    BY <1>3, <1>4

\* The value of an expression, which consumes n operands.
LEMMA LiveDefines ==
  ASSUME TypeOK, TypeOK', GraphInvariant, Sound, current # NoBlock, NEW operation \in Operation,
         NEW k \in Nat, k <= Len(operands), NEW type \in TensorType, Define(operation, k, type),
         NEW old, NEW w, NEW n, Path(module, old, w, n), ConstantsMean(module, old),
         NEW new, SameMeanings(old, new, nextValueId), ConstantMeans(new, operation),
         NEW s, Live(module, old, w[n], s, current, values, operands),
         Constant(operation) \/ Evaluates(new, w[n].from, operation), operation.op # "tensor",
         NEW u, Silent(s, u), u.env = s.env, Pushed(s.stack, k, new[nextValueId], u.stack)
  PROVE  Simulated(module', current', values', operands', ifs', u)
  <1> DEFINE info == [value |-> nextValueId, type |-> type]
  <1>1. /\ Emit(operation) /\ current' = current /\ values' = values /\ ifs' = ifs
        /\ operands' = Append(SubSeq(operands, 1, Len(operands) - k), info)
    BY DEF Define, flowVars, Pop
  <1>2. u.events = EventsAfter(s.events, operation)
    BY DEF Silent, EventsAfter
  <1>3. PICK v, j : /\ Path(module', new, v, j) /\ ConstantsMean(module', new)
                    /\ Reaches(module', v[j], current, u)
    BY <1>1, <1>2, LiveEmits DEF Live
  <1>4. EnvMeans(new, values, u.env)
    BY StateIsBelow, EnvMeansStays DEF Live
  <1>5. info \in ValueInfo /\ info.value = nextValueId
    BY StateIsBelow DEF ValueInfo, ValueId
  <1> HIDE DEF info
  <1>6. StackMeans(new, operands', u.stack)
    BY <1>1, <1>5, StateIsBelow, StackMeansPush DEF Live
  <1>7. Ongoing(u)
    BY DEF Live, Ongoing, Silent
  <1>8. Live(module', new, v[j], u, current', values', operands')
    BY <1>1, <1>3, <1>4, <1>6, <1>7 DEF Live
  <1> QED
    BY <1>3, <1>8 DEF Simulated

\* The calls of tensor operations are not lowered.
Supported(m) ==
    \A id \in 0 .. Len(m.blocks) - 1 : \A k \in 1 .. Len(OperationsOf(m, id)) :
        OperationsOf(m, id)[k].op \notin {"matmul", "relu"}

\* The operands of the generator are those of the interpreter.
LEMMA LiveOperands ==
  ASSUME TypeOK, GraphInvariant, Sound, current # NoBlock, NEW old, NEW p, NEW s,
         Live(module, old, p, s, current, values, operands)
  PROVE  /\ Len(s.stack) = Len(operands)
         /\ Len(operands) >= 1 => /\ LastOperand.value \in Nat /\ LastOperand.value < nextValueId
                                  /\ old[LastOperand.value] = s.stack[Len(s.stack)]
         /\ Len(operands) >= 2 =>
               /\ PreviousOperand.value \in Nat /\ PreviousOperand.value < nextValueId
               /\ old[PreviousOperand.value] = s.stack[Len(s.stack) - 1]
  <1>1. StackMeans(old, operands, s.stack) /\ StackBelow(operands, nextValueId)
        /\ Len(operands) \in Nat
    BY StateIsBelow DEF Live
  <1>2. ASSUME Len(operands) >= 1
        PROVE  /\ LastOperand.value \in Nat /\ LastOperand.value < nextValueId
               /\ old[LastOperand.value] = s.stack[Len(s.stack)]
    <2>1. Len(operands) \in 1 .. Len(operands)
      BY <1>1, <1>2
    <2> QED
      BY <1>1, <2>1 DEF LastOperand, StackMeans, StackBelow
  <1>3. ASSUME Len(operands) >= 2
        PROVE  /\ PreviousOperand.value \in Nat /\ PreviousOperand.value < nextValueId
               /\ old[PreviousOperand.value] = s.stack[Len(s.stack) - 1]
    <2>1. Len(operands) - 1 \in 1 .. Len(operands)
      BY <1>1, <1>3
    <2> QED
      BY <1>1, <2>1 DEF PreviousOperand, StackMeans, StackBelow
  <1> QED
    BY <1>1, <1>2, <1>3 DEF StackMeans

LEMMA SimulateIdentifier ==
  ASSUME TypeOK, GraphInvariant, Sound, GenerateIdentifier, Continue,
         NEW s, Simulated(module, current, values, operands, ifs, s),
         NEW u, u = Source!Interpret(s, GenNode)
  PROVE  Simulated(module', current', values', operands', ifs', u)
  <1> DEFINE found == values[GenNode.name]
  <1>1. current # NoBlock /\ GenNode.kind = "identifier" /\ GenNode.name \in Names
    BY GenNodeName DEF GenerateIdentifier, Emitting, Generating, GenNode
  <1>2. /\ found # NoValue /\ operands' = Append(operands, found)
        /\ module' = module /\ current' = current /\ values' = values /\ ifs' = ifs
    BY DEF GenerateIdentifier, Continue, Fail, codeVars, flowVars, TypeOK
  <1>3. found \in ValueInfo
    BY <1>1, <1>2 DEF TypeOK, Environment
  <1>4. PICK old, w, n : /\ Path(module, old, w, n) /\ ConstantsMean(module, old)
                         /\ \/ Live(module, old, w[n], s, current, values, operands)
                            \/ Suspended(module, old, w[n], s, ifs)
                            \/ Over(module, old, w[n], s)
    BY DEF Simulated
  <1>5. SameMeanings(old, old, nextValueId)
    BY DEF SameMeanings
  <1>6. CASE Live(module, old, w[n], s, current, values, operands)
    <2>1. /\ Silent(s, u) /\ u.env = s.env
          /\ Pushed(s.stack, 0, LeafValue(s, GenNode), u.stack)
      BY <1>1, <1>6, InterpretLeaf DEF Live
    <2>2. LeafValue(s, GenNode) = old[found.value]
      BY <1>1, <1>2, <1>6 DEF LeafValue, Live, EnvMeans
    <2>3. SubSeq(operands, 1, Len(operands) - 0) = operands
      BY DropNothing, StateIsBelow DEF Drop
    <2>4. StackMeans(old, operands', u.stack)
      <3>1. 0 \in Nat /\ 0 <= Len(operands)
        BY StateIsBelow
      <3> HIDE DEF found
      <3> QED
        BY <1>1, <1>2, <1>3, <1>5, <1>6, <2>1, <2>2, <2>3, <3>1, StateIsBelow, StackMeansPush
           DEF Live
    <2>5. Ongoing(u) /\ Reaches(module, w[n], current, u)
      BY <1>6, <2>1 DEF Live, Ongoing, Silent, Reaches
    <2>6. Live(module', old, w[n], u, current', values', operands')
      BY <1>2, <1>6, <2>1, <2>4, <2>5 DEF Live
    <2> QED
      BY <1>2, <1>4, <2>6 DEF Simulated
  <1>7. CASE Suspended(module, old, w[n], s, ifs) \/ Over(module, old, w[n], s)
    <2>1. Suspended(module, old, w[n], u, ifs) \/ Over(module, old, w[n], u)
      BY <1>1, <1>4, <1>5, <1>7, StateIsBelow, ContinuesItself, LastPoint, UnmovedStays
    <2> QED
      BY <1>2, <1>4, <2>1 DEF Simulated
  <1> QED
    BY <1>4, <1>6, <1>7

LEMMA SimulateLiteral ==
  ASSUME TypeOK, TypeOK', GraphInvariant, Sound, GenerateInteger \/ GenerateFloat,
         NEW s, Simulated(module, current, values, operands, ifs, s),
         NEW u, u = Source!Interpret(s, GenNode)
  PROVE  Simulated(module', current', values', operands', ifs', u)
  <1> DEFINE value == LeafValue(s, GenNode)
  <1>1. current # NoBlock /\ GenNode.kind \in {"integer", "float"}
    BY DEF GenerateInteger, GenerateFloat, Emitting, Generating, GenNode
  <1>2. PICK operation \in Operation, type \in TensorType :
           /\ Define(operation, 0, type) /\ Constant(operation)
           /\ operation.result = nextValueId
           /\ \A new : new[nextValueId] = value => ConstantMeans(new, operation)
    <2>1. CASE GenerateInteger
      <3>1. GenNode.kind = "integer" /\ GenNode.value \in Nat
        BY <2>1, GenNodeValue DEF GenerateInteger, Emitting, Generating, GenNode
      <3> DEFINE operation == ConstantIntOp(nextValueId, GenNode.value)
      <3>2. operation \in Operation
        BY <3>1, StateIsBelow, ScalarTypes, OperationTypes DEF ValueId
      <3>3. Constant(operation) /\ operation.result = nextValueId
            /\ \A new : new[nextValueId] = value => ConstantMeans(new, operation)
        BY <3>1 DEF ConstantIntOp, Constant, ConstantMeans, LeafValue
      <3>4. Define(operation, 0, I64)
        BY <2>1 DEF GenerateInteger
      <3> HIDE DEF operation, value
      <3> QED
        BY <3>2, <3>3, <3>4, ScalarTypes
    <2>2. CASE GenerateFloat
      <3>1. GenNode.kind = "float" /\ GenNode.value \in Nat
        BY <2>2, GenNodeValue DEF GenerateFloat, Emitting, Generating, GenNode
      <3> DEFINE operation == ConstantFloatOp(nextValueId, GenNode.value)
      <3>2. operation \in Operation
        BY <3>1, StateIsBelow, ScalarTypes, OperationTypes DEF ValueId
      <3>3. Constant(operation) /\ operation.result = nextValueId
            /\ \A new : new[nextValueId] = value => ConstantMeans(new, operation)
        BY <3>1 DEF ConstantFloatOp, Constant, ConstantMeans, LeafValue
      <3>4. Define(operation, 0, F64)
        BY <2>2 DEF GenerateFloat
      <3> HIDE DEF operation, value
      <3> QED
        BY <3>2, <3>3, <3>4, ScalarTypes
    <2> QED
      BY <2>1, <2>2
  <1>3. PICK old, w, n : /\ Path(module, old, w, n) /\ ConstantsMean(module, old)
                         /\ \/ Live(module, old, w[n], s, current, values, operands)
                            \/ Suspended(module, old, w[n], s, ifs)
                            \/ Over(module, old, w[n], s)
    BY DEF Simulated
  <1> HIDE DEF value
  <1>4. CASE Live(module, old, w[n], s, current, values, operands)
    <2> DEFINE new == [v \in Nat |-> IF v = nextValueId THEN value ELSE old[v]]
    <2>1. SameMeanings(old, new, nextValueId) /\ new[nextValueId] = value
      BY StateIsBelow, MeaningExtends
    <2>2. Silent(s, u) /\ u.env = s.env /\ Pushed(s.stack, 0, value, u.stack)
      BY <1>1, <1>4, InterpretLeaf DEF Live, value
    <2> HIDE DEF new
    <2>3. 0 \in Nat /\ 0 <= Len(operands) /\ operation.op # "tensor"
      BY <1>2, StateIsBelow DEF Constant
    <2> QED
      BY <1>1, <1>2, <1>3, <1>4, <2>1, <2>2, <2>3, LiveDefines
  <1>5. CASE Suspended(module, old, w[n], s, ifs) \/ Over(module, old, w[n], s)
    <2>1. Emit(operation) /\ UNCHANGED flowVars
      BY <1>2 DEF Define
    <2> QED
      BY <1>1, <1>2, <1>3, <1>5, <2>1, OthersEmit
  <1> QED
    BY <1>3, <1>4, <1>5

LEMMA LiveStuck ==
  ASSUME TypeOK, TypeOK', GraphInvariant, Sound, current # NoBlock, NEW operation \in Operation,
         Emit(operation), NEW old, NEW w, NEW n, Path(module, old, w, n),
         ConstantsMean(module, old), operation.op = "binary",
         Stuck(operation.kind, old[operation.lhs], old[operation.rhs]),
         NEW s, Reaches(module, w[n], current, s),
         NEW u, IsState(u), u.over, u.events = Append(s.events, UndefinedEvent)
  PROVE  Simulated(module', current', values', operands', ifs', u)
  <1> DEFINE last == Len(OperationsOf(module, current)) + 1
             p == w[n]
  <1>1. /\ last \in Nat /\ Len(OperationsOf(module', current)) = last
        /\ OperationsOf(module', current)[last] = operation
        /\ \A k \in 1 .. last - 1 :
              OperationsOf(module', current)[k] = OperationsOf(module, current)[k]
    BY EmissionContinues
  <1>2. IsPoint(module, p)
    BY LastPoint
  <1>3. /\ p.block = current /\ p.count \in Nat /\ p.count < last /\ p.events = s.events
        /\ \A j \in 1 .. last - 1 : p.count < j => Constant(OperationsOf(module, current)[j])
    BY <1>1, <1>2 DEF Reaches, IsPoint, IdleAfter, Idle
  <1>4. Idle(module', current, p.count, last)
    BY <1>1, <1>3 DEF Idle
  <1>5. last \in 1 .. last
    BY <1>1, <1>3
  <1>6. GetsStuck(module', old, p)
    BY <1>1, <1>3, <1>4, <1>5 DEF GetsStuck
  <1>7. Over(module', old, p, u)
    BY <1>3, <1>6 DEF Over, Stops
  <1>8. Path(module', old, w, n) /\ ConstantsMean(module', old)
    <2>1. ConstantMeans(old, operation) /\ SameMeanings(old, old, nextValueId)
      BY DEF ConstantMeans, SameMeanings
    <2> QED
      BY <2>1, EmissionKeeps
  <1> QED
    BY <1>7, <1>8 DEF Simulated

LEMMA SimulateBinary ==
  ASSUME TypeOK, TypeOK', GraphInvariant, Sound, GenerateBinary, Continue,
         NEW s, Simulated(module, current, values, operands, ifs, s),
         NEW u, u = Source!Interpret(s, GenNode)
  PROVE  Simulated(module', current', values', operands', ifs', u)
  <1> DEFINE operation == BinaryOperation(GenNode.op, PreviousOperand, LastOperand)
             type == BinaryType(GenNode.op, PreviousOperand.type)
  <1>1. current # NoBlock /\ GenNode.kind = "binary" /\ Emitting("binary") /\ Len(operands) >= 2
    BY DEF GenerateBinary, Emitting, Generating, GenNode
  <1>2. GenNode.op \in BinaryOperator
    BY <1>1, GenNodeOp DEF Emitting
  <1>3. Define(operation, 2, type)
    BY DEF GenerateBinary, Fail, Continue, TypeOK
  <1>4. /\ PreviousOperand.value \in ValueId /\ LastOperand.value \in ValueId
        /\ PreviousOperand.type \in TensorType
    BY <1>1, OperandTypes DEF ValueInfo
  <1>5. /\ operation \in Operation /\ operation.op \in {"binary", "compare"}
        /\ operation.kind = GenNode.op /\ operation.result = nextValueId
        /\ operation.lhs = PreviousOperand.value /\ operation.rhs = LastOperand.value
        /\ GenNode.op \notin Comparison => operation.op = "binary"
    <2>1. CASE GenNode.op \in Arithmetic
      BY <1>4, <2>1, OperationTypes, StateIsBelow DEF BinaryOperation, BinaryOp, ValueId
    <2>2. CASE GenNode.op \notin Arithmetic
      BY <1>2, <1>4, <2>2, OperationTypes, StateIsBelow
      DEF BinaryOperation, CompareOp, BinaryOperator, ValueId
    <2> QED
      BY <2>1, <2>2
  <1>6. type \in TensorType
    BY <1>4, BinaryTypeType
  <1>7. Emit(operation) /\ UNCHANGED flowVars
    BY <1>3 DEF Define
  <1> HIDE DEF operation, type
  <1>8. \A new : ConstantMeans(new, operation)
    BY <1>5 DEF ConstantMeans
  <1>9. PICK old, w, n : /\ Path(module, old, w, n) /\ ConstantsMean(module, old)
                         /\ \/ Live(module, old, w[n], s, current, values, operands)
                            \/ Suspended(module, old, w[n], s, ifs)
                            \/ Over(module, old, w[n], s)
    BY DEF Simulated
  <1>10. CASE Live(module, old, w[n], s, current, values, operands)
    <2> DEFINE lhs == s.stack[Len(s.stack) - 1]
               rhs == s.stack[Len(s.stack)]
               value == Combined(GenNode.op, lhs, rhs)
               new == [v \in Nat |-> IF v = nextValueId THEN value ELSE old[v]]
    <2>1. /\ Len(s.stack) >= 2 /\ old[operation.lhs] = lhs /\ old[operation.rhs] = rhs
          /\ operation.lhs \in Nat /\ operation.lhs < nextValueId
          /\ operation.rhs \in Nat /\ operation.rhs < nextValueId
      BY <1>1, <1>5, <1>10, LiveOperands
    <2>2. Ongoing(s)
      BY <1>10 DEF Live
    <2>3. /\ ~ Stuck(GenNode.op, lhs, rhs) =>
                Silent(s, u) /\ u.env = s.env /\ Pushed(s.stack, 2, value, u.stack)
          /\ Stuck(GenNode.op, lhs, rhs) =>
                IsState(u) /\ u.over /\ u.events = Append(s.events, UndefinedEvent)
      BY <1>1, <2>1, <2>2, InterpretBinary
    <2> HIDE DEF lhs, rhs
    <2>4. CASE Stuck(GenNode.op, lhs, rhs)
      <3>1. operation.op = "binary" /\ Stuck(operation.kind, old[operation.lhs], old[operation.rhs])
        BY <1>5, <2>1, <2>4 DEF Stuck
      <3>2. Reaches(module, w[n], current, s)
        BY <1>10 DEF Live
      <3> QED
        BY <1>1, <1>5, <1>7, <1>9, <2>3, <2>4, <3>1, <3>2, LiveStuck
    <2>5. CASE ~ Stuck(GenNode.op, lhs, rhs)
      <3> HIDE DEF value
      <3>1. SameMeanings(old, new, nextValueId) /\ new[nextValueId] = value
        BY StateIsBelow, MeaningExtends
      <3> HIDE DEF new
      <3>2. new[operation.lhs] = lhs /\ new[operation.rhs] = rhs
        BY <2>1, <3>1 DEF SameMeanings
      <3>3. Evaluates(new, w[n].from, operation)
        BY <1>5, <2>5, <3>1, <3>2 DEF Evaluates, Coded, value
      <3>4. 2 \in Nat /\ 2 <= Len(operands) /\ operation.op # "tensor"
        BY <1>1, <1>5, StateIsBelow
      <3> QED
        BY <1>1, <1>3, <1>5, <1>6, <1>8, <1>9, <1>10, <2>3, <2>5, <3>1, <3>3, <3>4, LiveDefines
    <2> QED
      BY <2>4, <2>5
  <1>11. CASE Suspended(module, old, w[n], s, ifs) \/ Over(module, old, w[n], s)
    BY <1>1, <1>5, <1>7, <1>8, <1>9, <1>11, OthersEmit
  <1> QED
    BY <1>9, <1>10, <1>11

LEMMA SimulateCall ==
  ASSUME TypeOK, GraphInvariant, Sound, GenerateCall, Continue,
         NEW s, Simulated(module, current, values, operands, ifs, s),
         NEW u, u = Source!Interpret(s, GenNode)
  PROVE  Simulated(module', current', values', operands', ifs', u)
  <1>1. current # NoBlock /\ GenNode.kind = "call"
    BY DEF GenerateCall, Emitting, Generating, GenNode
  <1>2. /\ module' = module /\ current' = current /\ values' = values /\ ifs' = ifs
        /\ operands' = operands
    BY DEF GenerateCall, Continue, Fail, codeVars, flowVars, TypeOK
  <1>3. PICK old, w, n : /\ Path(module, old, w, n) /\ ConstantsMean(module, old)
                         /\ \/ Live(module, old, w[n], s, current, values, operands)
                            \/ Suspended(module, old, w[n], s, ifs)
                            \/ Over(module, old, w[n], s)
    BY DEF Simulated
  <1>4. SameMeanings(old, old, nextValueId)
    BY DEF SameMeanings
  <1>5. CASE Live(module, old, w[n], s, current, values, operands)
    <2>1. u = s
      BY <1>1, <1>5, InterpretNothing DEF Live
    <2> QED
      BY <1>2, <1>3, <1>5, <2>1 DEF Simulated
  <1>6. CASE Suspended(module, old, w[n], s, ifs) \/ Over(module, old, w[n], s)
    <2>1. Suspended(module, old, w[n], u, ifs) \/ Over(module, old, w[n], u)
      BY <1>1, <1>3, <1>4, <1>6, StateIsBelow, ContinuesItself, LastPoint, UnmovedStays
    <2> QED
      BY <1>2, <1>3, <2>1 DEF Simulated
  <1> QED
    BY <1>3, <1>5, <1>6

\* A call whose arguments are generated makes the module one the backend does not lower.
LEMMA TensorOperationsAreUnsupported ==
  ASSUME TypeOK, TypeOK', GraphInvariant, Continue, GenerateRelu \/ GenerateMatMul
  PROVE  ~ Supported(module')
  <1>1. /\ current # NoBlock /\ nextValueId \in ValueId
    BY DEF GenerateRelu, GenerateMatMul, Emitting, TypeOK, ValueId
  <1>2. PICK operation \in Operation : Emit(operation) /\ operation.op \in {"matmul", "relu"}
    <2>1. CASE GenerateRelu
      <3>1. LastOperand.value \in ValueId /\ LastOperand.type \in TensorType
        BY <2>1, OperandTypes DEF GenerateRelu, ValueInfo
      <3>2. ReluOp(nextValueId, LastOperand.value, LastOperand.type) \in Operation
        BY <1>1, <3>1, OperationTypes
      <3> QED
        BY <2>1, <3>2 DEF GenerateRelu, Define, ReluOp
    <2>2. CASE GenerateMatMul
      <3> DEFINE type == MatMulType(PreviousOperand.type, LastOperand.type)
      <3>1. PreviousOperand \in ValueInfo /\ LastOperand \in ValueInfo
            /\ ExtentsExist(PreviousOperand.type, LastOperand.type)
        BY <2>2, OperandTypes DEF GenerateMatMul, Fail, Continue, TypeOK
      <3>2. type \in TensorType
        BY <3>1, ExtentsType DEF ValueInfo
      <3>3. MatMulOp(nextValueId, PreviousOperand.value, LastOperand.value, type) \in Operation
        BY <1>1, <3>1, <3>2, OperationTypes DEF ValueInfo
      <3>4. Emit(MatMulOp(nextValueId, PreviousOperand.value, LastOperand.value, type))
        BY <2>2 DEF GenerateMatMul, Fail, Continue, TypeOK, Define
      <3> QED
        BY <3>3, <3>4 DEF MatMulOp
    <2> QED
      BY <2>1, <2>2
  <1> DEFINE last == Len(OperationsOf(module, current)) + 1
  <1>3. /\ last \in Nat /\ Len(OperationsOf(module', current)) = last
        /\ OperationsOf(module', current)[last] = operation
        /\ current \in 0 .. Len(module'.blocks) - 1
        /\ Len(OperationsOf(module, current)) \in Nat
    <2>1. current \in 0 .. Len(module.blocks) - 1 /\ Continues(module, module')
      BY <1>1, <1>2, EmissionContinues
    <2>2. Len(OperationsOf(module, current)) \in Nat
      BY <2>1, ContinuedBlock
    <2> QED
      BY <1>1, <1>2, <2>2, EmissionContinues
  <1>4. last \in 1 .. last
    BY <1>3
  <1> QED
    BY <1>2, <1>3, <1>4 DEF Supported

-----------------------------------------------------------------------------
(* The generator visits a statement *)

LEMMA SimulateTensor ==
  ASSUME TypeOK, TypeOK', GraphInvariant, Sound, GenerateTensorDeclaration, Continue,
         DeclarationsKeepTheirTypes,
         NEW s, Simulated(module, current, values, operands, ifs, s),
         NEW u, u = Source!Interpret(s, GenNode)
  PROVE  Simulated(module', current', values', operands', ifs', u)
  <1> DEFINE operation == TensorDeclOp(nextValueId, GenNode.name, GenNode.type)
             info == [value |-> nextValueId, type |-> GenNode.type]
  <1>1. /\ current # NoBlock /\ GenNode.kind = "tensor" /\ Generating("tensor")
        /\ GenNode.name \in Names /\ GenNode.type \in TensorType /\ Holding(0)
        /\ GenNode = prog[genPos] /\ genPos \in 1 .. Len(prog)
    BY GenNodeName, GenNodeDeclared
       DEF GenerateTensorDeclaration, Emitting, Generating, GenNode, TypeOK
  <1>2. LookupType(GenNode.name) = GenNode.type
    BY <1>1, LenProperties DEF DeclarationsKeepTheirTypes, TypeOK, SemaTypeOK
  <1>3. /\ Emit(operation) /\ UNCHANGED flowVars /\ operands' = operands
        /\ values' = [values EXCEPT ![GenNode.name] = info]
    BY <1>2 DEF GenerateTensorDeclaration, Fail, Continue, TypeOK
  <1>4. operation \in Operation
    BY <1>1, OperationTypes, StateIsBelow DEF ValueId
  <1>5. /\ operation.op = "tensor" /\ operation.result = nextValueId
        /\ operation.type = GenNode.type /\ info.value = nextValueId
    BY DEF TensorDeclOp
  <1> HIDE DEF operation, info
  <1>6. \A new : ConstantMeans(new, operation)
    BY <1>5 DEF ConstantMeans
  <1>7. PICK old, w, n : /\ Path(module, old, w, n) /\ ConstantsMean(module, old)
                         /\ \/ Live(module, old, w[n], s, current, values, operands)
                            \/ Suspended(module, old, w[n], s, ifs)
                            \/ Over(module, old, w[n], s)
    BY DEF Simulated
  <1>8. CASE Live(module, old, w[n], s, current, values, operands)
    <2> DEFINE new == [v \in Nat |-> IF v = nextValueId THEN TensorValue ELSE old[v]]
    <2>1. SameMeanings(old, new, nextValueId) /\ new[nextValueId] = TensorValue
      BY StateIsBelow, MeaningExtends
    <2> HIDE DEF new
    <2>2. Ongoing(s) /\ Reaches(module, w[n], current, s)
      BY <1>8 DEF Live
    <2>3. /\ IsState(u) /\ u.over = s.over /\ u.skip = s.skip /\ u.stack = s.stack
          /\ u.events = Append(s.events, AllocationEvent(StorageSize(GenNode.type)))
          /\ \A name \in Names :
                u.env[name] = IF name = GenNode.name THEN TensorValue ELSE s.env[name]
      BY <1>1, <2>2, InterpretTensor
    <2>4. u.events = EventsAfter(s.events, operation)
      BY <1>5, <2>3 DEF EventsAfter
    <2>5. Evaluates(new, w[n].from, operation)
      BY <1>5, <2>1 DEF Evaluates, Coded
    <2>6. PICK v, j : /\ Path(module', new, v, j) /\ ConstantsMean(module', new)
                      /\ Reaches(module', v[j], current, u)
      BY <1>1, <1>3, <1>4, <1>6, <1>7, <2>1, <2>2, <2>4, <2>5, LiveEmits
    <2>7. EnvMeans(new, values', u.env)
      <3>1. EnvMeans(new, values, s.env)
        BY <1>1, <1>8, <2>1, StateIsBelow, EnvMeansStays DEF Live
      <3>2. \A name \in Names : values'[name] = IF name = GenNode.name THEN info ELSE values[name]
        BY <1>3 DEF TypeOK, Environment
      <3> QED
        BY <1>5, <2>1, <2>3, <3>1, <3>2 DEF EnvMeans
    <2>8. StackMeans(new, operands', u.stack)
      <3>1. Len(operands) = 0 /\ Len(s.stack) = 0
        BY <1>1, <1>8, LiveOperands DEF Holding
      <3> QED
        BY <1>3, <2>3, <3>1 DEF StackMeans
    <2>9. Live(module', new, v[j], u, current', values', operands')
      BY <1>1, <1>3, <2>2, <2>3, <2>6, <2>7, <2>8 DEF Live, Ongoing, flowVars
    <2> QED
      BY <2>6, <2>9 DEF Simulated
  <1>9. CASE Suspended(module, old, w[n], s, ifs) \/ Over(module, old, w[n], s)
    BY <1>1, <1>3, <1>4, <1>6, <1>7, <1>9, OthersEmit
  <1> QED
    BY <1>7, <1>8, <1>9

LEMMA SimulateAssignment ==
  ASSUME TypeOK, GraphInvariant, Sound, GenerateAssignment,
         NEW s, Simulated(module, current, values, operands, ifs, s),
         NEW u, u = Source!Interpret(s, GenNode)
  PROVE  Simulated(module', current', values', operands', ifs', u)
  <1>1. /\ current # NoBlock /\ GenNode.kind = "assign" /\ GenNode.name \in Names
        /\ Len(operands) = 1 /\ LastOperand \in ValueInfo
    BY GenNodeName, OperandTypes DEF GenerateAssignment, Emitting, Generating, GenNode, Holding
  <1>2. /\ module' = module /\ current' = current /\ ifs' = ifs
        /\ operands' = SubSeq(operands, 1, Len(operands) - 1)
        /\ \A name \in Names :
              values'[name] = IF name = GenNode.name THEN LastOperand ELSE values[name]
    BY DEF GenerateAssignment, flowVars, Pop, TypeOK, Environment
  <1>3. PICK old, w, n : /\ Path(module, old, w, n) /\ ConstantsMean(module, old)
                         /\ \/ Live(module, old, w[n], s, current, values, operands)
                            \/ Suspended(module, old, w[n], s, ifs)
                            \/ Over(module, old, w[n], s)
    BY DEF Simulated
  <1>4. SameMeanings(old, old, nextValueId)
    BY DEF SameMeanings
  <1>5. CASE Live(module, old, w[n], s, current, values, operands)
    <2>1. Ongoing(s) /\ Len(s.stack) >= 1 /\ old[LastOperand.value] = s.stack[Len(s.stack)]
      <3>1. Len(s.stack) = 1 /\ old[LastOperand.value] = s.stack[Len(s.stack)]
        BY <1>1, <1>5, LiveOperands
      <3> QED
        BY <1>5, <3>1 DEF Live
    <2>2. /\ Silent(s, u) /\ Popped(s.stack, 1, u.stack)
          /\ \A name \in Names :
                u.env[name] = IF name = GenNode.name THEN s.stack[Len(s.stack)] ELSE s.env[name]
      BY <1>1, <2>1, InterpretAssign
    <2>3. EnvMeans(old, values', u.env)
      BY <1>2, <1>5, <2>1, <2>2 DEF EnvMeans, Live
    <2>4. StackMeans(old, operands', u.stack)
      <3>1. 1 \in Nat /\ 1 <= Len(operands)
        BY <1>1
      <3> QED
        BY <1>1, <1>2, <1>4, <1>5, <2>2, <3>1, StateIsBelow, StackMeansPop DEF Live
    <2>5. Ongoing(u) /\ Reaches(module, w[n], current, u)
      BY <1>5, <2>2 DEF Live, Ongoing, Silent, Reaches
    <2>6. Live(module', old, w[n], u, current', values', operands')
      BY <1>1, <1>2, <2>3, <2>4, <2>5 DEF Live
    <2> QED
      BY <1>2, <1>3, <2>6 DEF Simulated
  <1>6. CASE Suspended(module, old, w[n], s, ifs) \/ Over(module, old, w[n], s)
    <2>1. Suspended(module, old, w[n], u, ifs) \/ Over(module, old, w[n], u)
      BY <1>1, <1>3, <1>4, <1>6, StateIsBelow, ContinuesItself, LastPoint, UnmovedStays
    <2> QED
      BY <1>2, <1>3, <2>1 DEF Simulated
  <1> QED
    BY <1>3, <1>5, <1>6

\* The current block is closed, and blocks without operations may follow.
Closes(m, t, c, terminator) ==
    /\ Continues(m, t)
    /\ \A id \in 0 .. Len(m.blocks) - 1 : OperationsOf(t, id) = OperationsOf(m, id)
    /\ \A id \in 0 .. Len(t.blocks) - 1 : id > Len(m.blocks) - 1 => Len(OperationsOf(t, id)) = 0
    /\ c \in 0 .. Len(m.blocks) - 1
    /\ TerminatorOf(t, c) = terminator

\* Nothing is emitted, so all stays as it is.
LEMMA ClosingKeeps ==
  ASSUME NEW m, NEW t, NEW c, NEW terminator, Closes(m, t, c, terminator),
         NEW next, UsesBelow(m, next), NEW old, NEW w, NEW n, Path(m, old, w, n),
         ConstantsMean(m, old)
  PROVE  /\ Path(t, old, w, n) /\ ConstantsMean(t, old) /\ IsPoint(t, w[n])
         /\ \A d : OnlyGrows(m, t, d)
         /\ IdleAfter(m, w[n]) => IdleAfter(t, w[n])
  <1>1. SameMeanings(old, old, next)
    BY DEF SameMeanings
  <1>2. Path(t, old, w, n)
    BY <1>1, PathStays DEF Closes
  <1>3. ASSUME NEW id \in 0 .. Len(t.blocks) - 1, NEW k \in 1 .. Len(OperationsOf(t, id))
        PROVE  id \in 0 .. Len(m.blocks) - 1 /\ k \in 1 .. Len(OperationsOf(m, id))
    <2>1. Len(m.blocks) \in Nat /\ Len(t.blocks) \in Nat
      BY BlockTypes DEF Closes, Continues
    <2>2. ~ id > Len(m.blocks) - 1
      <3> SUFFICES ASSUME id > Len(m.blocks) - 1
                   PROVE  FALSE
        OBVIOUS
      <3>1. Len(OperationsOf(t, id)) = 0
        BY DEF Closes
      <3> QED
        BY <3>1
    <2>3. id \in 0 .. Len(m.blocks) - 1
      BY <2>1, <2>2
    <2> QED
      BY <2>3 DEF Closes
  <1>4. ConstantsMean(t, old)
    BY <1>1, <1>3, ConstantsStay DEF Closes
  <1>5. IsPoint(m, w[n]) /\ IsPoint(t, w[n])
    BY <1>2, LastPoint
  <1>6. IdleAfter(m, w[n]) => IdleAfter(t, w[n])
    BY <1>5 DEF IsPoint, Closes, IdleAfter, Idle
  <1>7. \A d : OnlyGrows(m, t, d)
    BY DEF Closes, OnlyGrows
  <1> QED
    BY <1>2, <1>4, <1>5, <1>6, <1>7

-----------------------------------------------------------------------------
(* The generator visits a return and an if *)

LEMMA ReturnCloses ==
  ASSUME TypeOK, TypeOK', GraphInvariant, GenerateReturn
  PROVE  Closes(module, module', current, ReturnOp(LastOperand.value))
  <1> DEFINE op == ReturnOp(LastOperand.value)
  <1>1. /\ current # NoBlock /\ Len(operands) >= 1
        /\ module' = [module EXCEPT !.blocks = Close(module.blocks, current, op)]
    BY DEF GenerateReturn, Emitting, Holding
  <1>2. /\ module \in Module /\ module' \in Module /\ current \in 0 .. Len(module.blocks) - 1
        /\ current \in Nat /\ current + 1 \in 1 .. Len(module.blocks) /\ Len(module.blocks) \in Nat
    BY <1>1, StateTypes, CurrentIsOpen, BlockTypes DEF TypeOK
  <1>3. op \in Terminator
    BY <1>1, OperandTypes, TerminatorTypes DEF ValueInfo, ValueId
  <1> HIDE DEF op
  <1>4. ClosedWith(module.blocks, module'.blocks, current, op)
    BY <1>1, <1>2, <1>3, ClosedFacts
  <1>5. Kept(module.blocks, module'.blocks)
    BY ReturnStep DEF GraphStep
  <1>6. Longer(module, module')
    BY <1>2, <1>4, SameOperations DEF ClosedWith
  <1>7. \A id \in 0 .. Len(module.blocks) - 1 :
           id + 1 \in 1 .. Len(module.blocks)
           /\ OperationsOf(module', id) = OperationsOf(module, id)
    BY <1>2, <1>4 DEF ClosedWith, OperationsOf
  <1>8. Len(module'.blocks) = Len(module.blocks) /\ TerminatorOf(module', current) = op
    BY <1>4 DEF ClosedWith, TerminatorOf
  <1>9. Continues(module, module')
    BY <1>2, <1>5, <1>6 DEF Continues
  <1> QED
    BY <1>2, <1>7, <1>8, <1>9 DEF Closes, op

LEMMA SimulateReturn ==
  ASSUME TypeOK, TypeOK', GraphInvariant, Sound, GenerateReturn,
         NEW s, Simulated(module, current, values, operands, ifs, s),
         NEW u, u = Source!Interpret(s, GenNode)
  PROVE  Simulated(module', current', values', operands', ifs', u)
  <1> DEFINE op == ReturnOp(LastOperand.value)
  <1>1. current # NoBlock /\ GenNode.kind = "return" /\ Len(operands) = 1 /\ ifs' = ifs
    BY DEF GenerateReturn, Emitting, Generating, GenNode, Holding
  <1>2. Closes(module, module', current, op)
    BY ReturnCloses
  <1>3. PICK old, w, n : /\ Path(module, old, w, n) /\ ConstantsMean(module, old)
                         /\ \/ Live(module, old, w[n], s, current, values, operands)
                            \/ Suspended(module, old, w[n], s, ifs)
                            \/ Over(module, old, w[n], s)
    BY DEF Simulated
  <1>4. /\ Path(module', old, w, n) /\ ConstantsMean(module', old)
        /\ OnlyGrows(module, module', current) /\ IsPoint(module, w[n])
        /\ IdleAfter(module, w[n]) => IdleAfter(module', w[n])
    BY <1>2, <1>3, ClosingKeeps, StateIsBelow, LastPoint
  <1>5. CASE Live(module, old, w[n], s, current, values, operands)
    <2>1. /\ Ongoing(s) /\ Len(s.stack) >= 1 /\ old[LastOperand.value] = s.stack[Len(s.stack)]
          /\ w[n].block = current /\ IdleAfter(module, w[n]) /\ w[n].events = s.events
      <3>1. Len(s.stack) = 1 /\ old[LastOperand.value] = s.stack[Len(s.stack)]
        BY <1>1, <1>5, LiveOperands
      <3> QED
        BY <1>5, <3>1 DEF Live, Reaches
    <2> DEFINE status == Wrap(s.stack[Len(s.stack)].value, StatusWidth)
    <2>2. IsState(u) /\ u.over /\ u.events = Append(s.events, ExitEvent(status))
      BY <1>1, <2>1, InterpretReturn
    <2>3. TerminatorOf(module', w[n].block) = op /\ op.op = "return" /\ op.value = LastOperand.value
      BY <1>2, <2>1 DEF Closes, ReturnOp
    <2>4. Returns(module', old, w[n], status)
      BY <1>4, <2>1, <2>3 DEF Returns
    <2> HIDE DEF status
    <2>5. Over(module', old, w[n], u)
      BY <2>1, <2>2, <2>4 DEF Over, Stops
    <2> QED
      BY <1>4, <2>5 DEF Simulated
  <1>6. CASE Suspended(module, old, w[n], s, ifs) \/ Over(module, old, w[n], s)
    <2>1. SameMeanings(old, old, nextValueId)
      BY DEF SameMeanings
    <2>2. Continues(module, module')
      BY <1>2 DEF Closes
    <2>3. GenNode.kind \notin {"if", "else", "endif"}
      BY <1>1
    <2>4. Suspended(module', old, w[n], u, ifs) \/ Over(module', old, w[n], u)
      BY <1>4, <1>6, <2>1, <2>2, <2>3, StateIsBelow, UnmovedStays
    <2> QED
      BY <1>1, <1>4, <2>4 DEF Simulated
  <1> QED
    BY <1>3, <1>5, <1>6

\* The blocks of an if statement, and its frame.
Branched(c, condition, n, frame) ==
    /\ Closes(module, module', c, CondBranchOp(condition, n, n + 1))
    /\ n \in Nat /\ n = Len(module.blocks) /\ Len(module'.blocks) = n + 2
    /\ Len(OperationsOf(module', n)) = 0 /\ Len(OperationsOf(module', n + 1)) = 0
    /\ current' = n /\ values' = values
    /\ operands' = SubSeq(operands, 1, Len(operands) - 1) /\ ifs' = Append(ifs, frame)
    /\ frame \in GenFrame /\ Pending(frame) = n + 1 /\ Saved(frame) = values

LEMMA IfBranches ==
  ASSUME TypeOK, TypeOK', GraphInvariant, GenerateIf, Continue
  PROVE  \E n, frame : Branched(current, LastOperand.value, n, frame)
  <1> DEFINE n == Len(module.blocks)
             frame == [before |-> values, elseBlock |-> n + 1, inElse |-> FALSE,
                       thenEnd |-> NoBlock, thenValues |-> NoValues]
             condition == LastOperand.value
             op == CondBranchOp(condition, n, n + 1)
  <1>1. ~ Fail("conditionType")
    BY DEF GenerateIf, Emitting, Generating, Fail, Continue
  <1>2. /\ current # NoBlock /\ Len(operands) = 1
        /\ current' = n /\ operands' = Pop(1) /\ ifs' = Append(ifs, frame) /\ values' = values
        /\ module' = [module EXCEPT !.blocks = ForkedBlocks(module.blocks, current, condition)]
    BY <1>1 DEF GenerateIf, Emitting, Holding, GraphInvariant, ForkedBlocks
  <1>3. /\ n \in Nat /\ current \in 0 .. n - 1 /\ current \in Nat /\ current + 1 \in 1 .. n
        /\ module \in Module /\ module' \in Module /\ module.blocks \in Seq(BasicBlock)
    BY <1>2, StateTypes, BlockTypes, CurrentIsOpen DEF TypeOK
  <1>4. frame \in GenFrame /\ Pending(frame) = n + 1 /\ Saved(frame) = values
    BY <1>3 DEF TypeOK, GenFrame, BlockId, MaybeBlock, NoValues, Environment, Pending, Saved
  <1>5. condition \in ValueId
    BY <1>2, OperandTypes DEF ValueInfo
  <1> HIDE DEF condition
  <1>6. Forked(module.blocks, module'.blocks, current, op)
    <2>1. module'.blocks = ForkedBlocks(module.blocks, current, condition)
      BY <1>2 DEF TypeOK, Module
    <2> QED
      BY <1>3, <1>5, <2>1, ForkedFacts
  <1>7. Kept(module.blocks, module'.blocks) /\ Longer(module, module')
    BY IfStep, IfFollows DEF GraphStep
  <1>8. Continues(module, module')
    BY <1>3, <1>7 DEF Continues
  <1>9. \A id \in 0 .. n - 1 :
           id + 1 \in 1 .. n /\ OperationsOf(module', id) = OperationsOf(module, id)
    BY <1>3, <1>6 DEF Forked, OperationsOf
  <1>10. Len(module'.blocks) = n + 2 /\ TerminatorOf(module', current) = op
    BY <1>6 DEF Forked, TerminatorOf
  <1>11. Len(OperationsOf(module', n)) = 0 /\ Len(OperationsOf(module', n + 1)) = 0
    <2>1. /\ module'.blocks[n + 1] = NewBlock(n)
          /\ module'.blocks[n + 2] = NewBlock(n + 1) /\ (n + 1) + 1 = n + 2
      BY <1>3, <1>6 DEF Forked
    <2> HIDE DEF n
    <2> QED
      BY <2>1 DEF OperationsOf, NewBlock
  <1>12. Closes(module, module', current, op)
    <2>1. ASSUME NEW id \in 0 .. Len(module'.blocks) - 1, id > n - 1
          PROVE  Len(OperationsOf(module', id)) = 0
      <3>1. id = n \/ id = n + 1
        BY <1>3, <1>10, <2>1
      <3> QED
        BY <1>11, <3>1
    <2> QED
      BY <1>3, <1>8, <1>9, <1>10, <2>1 DEF Closes
  <1> HIDE DEF frame
  <1>13. Branched(current, condition, n, frame)
    BY <1>2, <1>3, <1>4, <1>10, <1>11, <1>12 DEF Branched, Pop
  <1> QED
    BY <1>13 DEF condition

\* The path leaves a closed block for one that is empty.
LEMMA EntersEmpty ==
  ASSUME NEW m, NEW meanings, NEW w, NEW n, Path(m, meanings, w, n), IdleAfter(m, w[n]),
         NEW target, target \in 0 .. Len(m.blocks) - 1, Len(OperationsOf(m, target)) = 0,
         Taken(meanings, TerminatorOf(m, w[n].block), target),
         NEW u, u.events = w[n].events
  PROVE  \E v, j : Path(m, meanings, v, j) /\ Reaches(m, v[j], target, u)
  <1> DEFINE q == Point(target, 0, w[n].block, w[n].events)
  <1>1. /\ q.block = target /\ q.count = 0 /\ q.events = w[n].events
        /\ q = Point(q.block, 0, w[n].block, w[n].events)
    BY DEF Point
  <1> HIDE DEF q
  <1>2. IsPoint(m, w[n])
    BY LastPoint
  <1>3. IsPoint(m, q) /\ Begins(w[n].events, q.events)
    BY <1>1, <1>2, BeginsAppend DEF IsPoint
  <1>4. Jumps(m, meanings, w[n], q)
    BY <1>1 DEF Jumps
  <1>5. PICK v : v[n + 1] = q /\ Path(m, meanings, v, n + 1)
    BY <1>3, <1>4, PathGoesOn
  <1>6. Reaches(m, q, target, u)
    BY <1>1 DEF Reaches, IdleAfter, Idle
  <1> QED
    BY <1>5, <1>6

LEMMA SimulateIf ==
  ASSUME TypeOK, TypeOK', GraphInvariant, Sound, GenerateIf, Continue,
         NEW s, Simulated(module, current, values, operands, ifs, s),
         NEW u, u = Source!Interpret(s, GenNode)
  PROVE  Simulated(module', current', values', operands', ifs', u)
  <1>1. current # NoBlock /\ GenNode.kind = "if" /\ Len(operands) = 1
    BY DEF GenerateIf, Emitting, Generating, GenNode, Holding
  <1>2. PICK b, frame : Branched(current, LastOperand.value, b, frame)
    BY IfBranches
  <1> DEFINE op == CondBranchOp(LastOperand.value, b, b + 1)
  <1>3. /\ Closes(module, module', current, op) /\ Continues(module, module')
        /\ op.op = "condbranch" /\ op.condition = LastOperand.value
        /\ op.trueTarget = b /\ op.falseTarget = b + 1
        /\ b \in 0 .. Len(module'.blocks) - 1 /\ b + 1 \in 0 .. Len(module'.blocks) - 1
        /\ TerminatorOf(module', current) = op
    BY <1>2 DEF Branched, CondBranchOp, Closes
  <1> HIDE DEF op
  <1>4. /\ Len(ifs) \in Nat /\ Len(ifs') = Len(ifs) + 1
        /\ \A k \in 1 .. Len(ifs) : ifs'[k] = ifs[k]
        /\ ifs'[Len(ifs) + 1] = frame
    BY <1>2, StateTypes, AppendProperties, LenProperties DEF Branched
  <1>5. PICK old, w, n : /\ Path(module, old, w, n) /\ ConstantsMean(module, old)
                         /\ \/ Live(module, old, w[n], s, current, values, operands)
                            \/ Suspended(module, old, w[n], s, ifs)
                            \/ Over(module, old, w[n], s)
    BY DEF Simulated
  <1>6. /\ Path(module', old, w, n) /\ ConstantsMean(module', old)
        /\ OnlyGrows(module, module', NoBlock) /\ IsPoint(module, w[n])
        /\ IdleAfter(module, w[n]) => IdleAfter(module', w[n])
        /\ SameMeanings(old, old, nextValueId)
    BY <1>3, <1>5, ClosingKeeps, StateIsBelow, LastPoint DEF SameMeanings
  <1>7. CASE Live(module, old, w[n], s, current, values, operands)
    <2>1. /\ Ongoing(s) /\ Len(s.stack) = 1 /\ Len(s.stack) >= 1
          /\ old[LastOperand.value] = s.stack[Len(s.stack)]
          /\ w[n].block = current /\ IdleAfter(module, w[n]) /\ w[n].events = s.events
      BY <1>1, <1>7, LiveOperands DEF Live, Reaches
    <2>2. /\ IsState(u) /\ u.over = s.over /\ u.events = s.events /\ u.env = s.env
          /\ Popped(s.stack, 1, u.stack)
          /\ u.skip = IF s.stack[Len(s.stack)].value = 1 THEN 0 ELSE 1
      BY <1>1, <2>1, InterpretIf
    <2>3. Len(u.stack) = 0 /\ ~ u.over /\ u.events = w[n].events
      BY <2>1, <2>2 DEF Popped, Ongoing
    <2>4. EnvMeans(old, values, u.env)
      BY <1>7, <2>2 DEF Live
    <2>5. CASE s.stack[Len(s.stack)].value = 1
      <3>1. Taken(old, TerminatorOf(module', w[n].block), b)
        BY <1>3, <2>1, <2>5 DEF Taken
      <3>2. PICK v, j : Path(module', old, v, j) /\ Reaches(module', v[j], b, u)
        BY <1>2, <1>3, <1>6, <2>1, <2>3, <3>1, EntersEmpty DEF Branched
      <3>3. StackMeans(old, operands', u.stack)
        <4>1. 1 \in Nat /\ 1 <= Len(operands) /\ StackMeans(old, operands, s.stack)
          BY <1>1, <1>7 DEF Live
        <4> QED
          BY <1>1, <1>2, <1>6, <2>2, <4>1, StateIsBelow, StackMeansPop DEF Branched
      <3>4. Ongoing(u) /\ current' # NoBlock
        BY <1>2, <2>2, <2>3, <2>5 DEF Ongoing, Branched, NoBlock
      <3>5. Live(module', old, v[j], u, current', values', operands')
        BY <1>2, <2>4, <3>2, <3>3, <3>4 DEF Live, Branched
      <3> QED
        BY <1>6, <3>2, <3>5 DEF Simulated
    <2>6. CASE s.stack[Len(s.stack)].value # 1
      <3>1. Taken(old, TerminatorOf(module', w[n].block), b + 1)
        BY <1>3, <2>1, <2>6 DEF Taken
      <3>2. PICK v, j : Path(module', old, v, j) /\ Reaches(module', v[j], b + 1, u)
        BY <1>2, <1>3, <1>6, <2>1, <2>3, <3>1, EntersEmpty DEF Branched
      <3>3. Waits(module', old, v[j], u, frame)
        BY <1>2, <2>4, <3>2 DEF Waits, Branched, NoBlock
      <3>4. Len(ifs) + 1 \in 1 .. Len(ifs') /\ u.skip = Len(ifs') - (Len(ifs) + 1) + 1
        BY <1>4, <2>2, <2>6
      <3>5. Suspended(module', old, v[j], u, ifs')
        BY <1>4, <2>2, <2>3, <3>3, <3>4 DEF Suspended
      <3> QED
        BY <1>6, <3>2, <3>5 DEF Simulated
    <2> QED
      BY <2>5, <2>6
  <1>8. CASE Suspended(module, old, w[n], s, ifs)
    <2>1. PICK k \in 1 .. Len(ifs) : s.skip = Len(ifs) - k + 1
                                     /\ Waits(module, old, w[n], s, ifs[k])
      BY <1>8 DEF Suspended
    <2>2. IsState(s) /\ ~ s.over /\ Len(s.stack) = 0 /\ s.skip > 0
      BY <1>4, <1>8, <2>1 DEF Suspended
    <2>3. /\ IsState(u) /\ u.over = s.over /\ u.events = s.events /\ u.env = s.env
          /\ u.stack = s.stack /\ u.skip = s.skip + 1
      BY <1>1, <2>2, InterpretSkipped DEF SkipAfter
    <2>4. Pending(ifs[k]) # NoBlock => EnvBelow(Saved(ifs[k]), nextValueId)
      BY <2>1, StateIsBelow DEF FramesBelow
    <2>5. Waits(module', old, w[n], u, ifs[k])
      <3>1. Pending(ifs[k]) # NoBlock
        BY <2>1 DEF Waits
      <3> QED
        BY <1>6, <2>1, <2>3, <2>4, <3>1, WaitsStays
    <2>6. k \in 1 .. Len(ifs') /\ u.skip = Len(ifs') - k + 1 /\ ifs'[k] = ifs[k]
      BY <1>4, <2>1, <2>3
    <2>7. Suspended(module', old, w[n], u, ifs')
      BY <2>2, <2>3, <2>5, <2>6 DEF Suspended
    <2> QED
      BY <1>6, <2>7 DEF Simulated
  <1>9. CASE Over(module, old, w[n], s)
    <2>1. u = s
      BY <1>9, InterpretOver DEF Over
    <2>2. Stops(module', old, w[n], s.events)
      BY <1>3, <1>6, <1>9, StateIsBelow, StopsStays DEF Over
    <2>3. Over(module', old, w[n], u)
      BY <1>9, <2>1, <2>2 DEF Over
    <2> QED
      BY <1>6, <2>3 DEF Simulated
  <1> QED
    BY <1>5, <1>7, <1>8, <1>9

LEMMA SimulateElse ==
  ASSUME TypeOK, GraphInvariant, Sound, GenerateElse,
         NEW s, Simulated(module, current, values, operands, ifs, s),
         NEW u, u = Source!Interpret(s, GenNode)
  PROVE  Simulated(module', current', values', operands', ifs', u)
  <1> DEFINE last == Len(ifs)
             frame == [GenIf EXCEPT !.inElse = TRUE, !.thenEnd = current, !.thenValues = values]
  <1>1. /\ GenNode.kind = "else" /\ Len(operands) = 0 /\ ifs # <<>> /\ ~ GenIf.inElse
        /\ module' = module /\ operands' = operands
        /\ current' = GenIf.elseBlock /\ values' = GenIf.before
        /\ ifs' = [ifs EXCEPT ![last] = frame]
    BY DEF GenerateElse, Generating, GenNode, Holding, GenIf
  <1>2. /\ GenIf \in GenFrame /\ ifs \in Seq(GenFrame) /\ last \in 1 .. last /\ last \in Nat
        /\ GenIf = ifs[last]
    BY <1>1, FrameType, StateTypes, StackTop, LenProperties DEF GenIf
  <1>3. /\ frame \in GenFrame /\ Pending(frame) = current /\ Saved(frame) = values
        /\ Pending(GenIf) = current' /\ Saved(GenIf) = values' /\ current' # NoBlock
    <2>1. /\ frame \in GenFrame /\ frame.inElse
          /\ frame.thenEnd = current /\ frame.thenValues = values
      BY <1>2 DEF GenFrame, TypeOK
    <2> HIDE DEF frame
    <2>2. Pending(frame) = current /\ Saved(frame) = values
      BY <2>1 DEF Pending, Saved
    <2>3. GenIf.elseBlock \in Nat
      BY <1>2 DEF GenFrame, BlockId
    <2>4. Pending(GenIf) = current' /\ Saved(GenIf) = values'
      BY <1>1 DEF Pending, Saved
    <2> QED
      BY <1>1, <2>1, <2>2, <2>3, <2>4 DEF NoBlock
  <1> HIDE DEF frame
  <1>4. /\ Len(ifs') = last /\ ifs'[last] = frame
        /\ \A k \in 1 .. last - 1 : ifs'[k] = ifs[k]
    BY <1>1, <1>2, <1>3, StackReplace
  <1>5. PICK old, w, n : /\ Path(module, old, w, n) /\ ConstantsMean(module, old)
                         /\ \/ Live(module, old, w[n], s, current, values, operands)
                            \/ Suspended(module, old, w[n], s, ifs)
                            \/ Over(module, old, w[n], s)
    BY DEF Simulated
  <1>6. CASE Live(module, old, w[n], s, current, values, operands)
    <2>1. Ongoing(s) /\ Reaches(module, w[n], current, s) /\ EnvMeans(old, values, s.env)
          /\ current # NoBlock /\ Len(s.stack) = 0
      BY <1>1, <1>6 DEF Live, StackMeans
    <2>2. /\ IsState(u) /\ u.over = s.over /\ u.events = s.events /\ u.env = s.env
          /\ u.stack = s.stack /\ u.skip = 1
      BY <1>1, <2>1, InterpretElse
    <2>3. Waits(module, old, w[n], u, frame)
      BY <1>3, <2>1, <2>2 DEF Waits, Reaches
    <2>4. u.skip = Len(ifs') - last + 1 /\ last \in 1 .. Len(ifs')
      BY <1>2, <1>4, <2>2
    <2>5. Suspended(module', old, w[n], u, ifs')
      BY <1>1, <1>4, <2>1, <2>2, <2>3, <2>4 DEF Suspended, Ongoing
    <2> QED
      BY <1>1, <1>5, <2>5 DEF Simulated
  <1>7. CASE Suspended(module, old, w[n], s, ifs)
    <2>1. PICK k \in 1 .. last : s.skip = last - k + 1 /\ Waits(module, old, w[n], s, ifs[k])
      BY <1>7 DEF Suspended
    <2>2. IsState(s) /\ ~ s.over /\ Len(s.stack) = 0 /\ s.skip > 0
      BY <1>2, <1>7, <2>1 DEF Suspended
    <2>3. /\ IsState(u) /\ u.over = s.over /\ u.events = s.events /\ u.env = s.env
          /\ u.stack = s.stack /\ u.skip = IF s.skip = 1 THEN s.skip - 1 ELSE s.skip
      BY <1>1, <2>2, InterpretSkipped DEF SkipAfter
    <2>4. CASE k = last
      <3>1. Ongoing(u)
        BY <1>2, <2>1, <2>2, <2>3, <2>4 DEF Ongoing
      <3>2. Reaches(module, w[n], current', u) /\ EnvMeans(old, values', u.env)
        BY <1>2, <1>3, <2>1, <2>3, <2>4 DEF Waits, Reaches
      <3>3. StackMeans(old, operands', u.stack)
        BY <1>1, <2>2, <2>3 DEF StackMeans
      <3>4. Live(module', old, w[n], u, current', values', operands')
        BY <1>1, <1>3, <3>1, <3>2, <3>3 DEF Live
      <3> QED
        BY <1>1, <1>5, <3>4 DEF Simulated
    <2>5. CASE k # last
      <3>1. k \in 1 .. last - 1 /\ s.skip # 1 /\ u.skip = s.skip
        BY <1>2, <2>1, <2>3, <2>5
      <3>2. ifs'[k] = ifs[k] /\ Waits(module, old, w[n], u, ifs[k])
        BY <1>4, <2>1, <2>3, <3>1 DEF Waits, Reaches
      <3>3. Suspended(module', old, w[n], u, ifs')
        BY <1>1, <1>4, <2>1, <2>2, <2>3, <3>1, <3>2 DEF Suspended
      <3> QED
        BY <1>1, <1>5, <3>3 DEF Simulated
    <2> QED
      BY <2>4, <2>5
  <1>8. CASE Over(module, old, w[n], s)
    <2>1. u = s
      BY <1>8, InterpretOver DEF Over
    <2> QED
      BY <1>1, <1>5, <1>8, <2>1 DEF Simulated
  <1> QED
    BY <1>5, <1>6, <1>7, <1>8

-----------------------------------------------------------------------------
(* The generator ends an if statement *)

LEMMA MergeContinues ==
  ASSUME TypeOK, TypeOK', GraphInvariant, EndIf, NEW operations \in Seq(Operation),
         Merge(Ends(current, ifs), operations)
  PROVE  /\ Continues(module, module') /\ OnlyGrows(module, module', NoBlock)
         /\ current' # NoBlock /\ current' = Len(module.blocks)
         /\ Len(module'.blocks) = Len(module.blocks) + 1
         /\ current' \in 0 .. Len(module'.blocks) - 1
         /\ \A id \in 0 .. Len(module.blocks) - 1 :
               OperationsOf(module', id) = OperationsOf(module, id)
         /\ OperationsOf(module', current') = operations
         /\ \A e \in Ends(current, ifs) : /\ e \in 0 .. Len(module.blocks) - 1
                                          /\ TerminatorOf(module', e) = BranchOp(current')
  <1> DEFINE n == Len(module.blocks)
             ends == Ends(current, ifs)
  <1>1. /\ ifs # <<>> /\ ifs[Len(ifs)].inElse /\ current' = n
        /\ module' = [module EXCEPT !.blocks = Joined(module.blocks, ends, n, operations)]
        /\ ends = {GenIf.thenEnd, current} \ {NoBlock}
    BY DEF EndIf, GenIf, Merge, GraphInvariant, Ends
  <1>2. /\ module \in Module /\ module' \in Module /\ n \in Nat /\ ifs \in Seq(GenFrame)
        /\ current \in MaybeBlock /\ Graph(module.blocks, current, ifs)
    BY StateTypes, BlockTypes DEF TypeOK
  <1>3. \A e \in ends : e \in 0 .. n - 1 /\ e + 1 \in 1 .. n
    BY <1>1, <1>2, EndsAreOpen
  <1>4. Kept(module.blocks, module'.blocks)
    <2>1. Merge({GenIf.thenEnd, current} \ {NoBlock}, operations)
      BY <1>1
    <2> QED
      BY <2>1, MergeStep DEF GraphStep
  <1>5. Longer(module, module')
    BY MergeFollows
  <1> HIDE DEF ends
  <1>6. JoinedAt(module, module', ends, operations)
    BY <1>1, <1>2, JoinedModule
  <1>7. ASSUME NEW id \in 0 .. n - 1
        PROVE  /\ OperationsOf(module', id) = OperationsOf(module, id)
               /\ id \in ends => TerminatorOf(module', id) = BranchOp(n)
    <2>1. id + 1 \in 1 .. n /\ (id + 1) - 1 = id
      BY <1>2
    <2> QED
      BY <1>6, <2>1 DEF JoinedAt, OperationsOf, TerminatorOf
  <1>8. OperationsOf(module', n) = operations /\ Len(module'.blocks) = n + 1
    BY <1>6 DEF JoinedAt, OperationsOf
  <1> QED
    <2>1. Continues(module, module')
      BY <1>2, <1>4, <1>5 DEF Continues
    <2>2. OnlyGrows(module, module', NoBlock)
      BY <1>7 DEF OnlyGrows
    <2>3. current' # NoBlock /\ current' \in 0 .. Len(module'.blocks) - 1
      BY <1>1, <1>2, <1>8 DEF NoBlock
    <2>4. \A e \in ends : /\ e \in 0 .. Len(module.blocks) - 1
                          /\ TerminatorOf(module', e) = BranchOp(current')
      BY <1>1, <1>3, <1>7
    <2> QED
      BY <1>1, <1>7, <1>8, <2>1, <2>2, <2>3, <2>4 DEF ends

\* The phis of a merge block are no constants.
LEMMA MergeKeeps ==
  ASSUME TypeOK, TypeOK', GraphInvariant, Sound, EndIf, NEW operations \in Seq(Operation),
         Merge(Ends(current, ifs), operations),
         \A k \in 1 .. Len(operations) : operations[k].op = "phi",
         NEW old, NEW w, NEW n, Path(module, old, w, n), ConstantsMean(module, old),
         NEW new, SameMeanings(old, new, nextValueId)
  PROVE  Path(module', new, w, n) /\ ConstantsMean(module', new)
  <1>1. /\ Continues(module, module') /\ UsesBelow(module, nextValueId)
        /\ Len(module.blocks) \in Nat /\ current' = Len(module.blocks)
        /\ Len(module'.blocks) = Len(module.blocks) + 1
        /\ OperationsOf(module', current') = operations
        /\ \A id \in 0 .. Len(module.blocks) - 1 :
              OperationsOf(module', id) = OperationsOf(module, id)
    BY MergeContinues, StateIsBelow, BlockTypes
  <1>2. Path(module', new, w, n)
    BY <1>1, PathStays
  <1>3. ASSUME NEW id \in 0 .. Len(module'.blocks) - 1, NEW k \in 1 .. Len(OperationsOf(module', id))
        PROVE  \/ id \in 0 .. Len(module.blocks) - 1 /\ k \in 1 .. Len(OperationsOf(module, id))
               \/ ConstantMeans(new, OperationsOf(module', id)[k])
    <2>1. CASE id \in 0 .. Len(module.blocks) - 1
      BY <1>1, <2>1
    <2>2. CASE id = Len(module.blocks)
      <3>1. OperationsOf(module', id)[k].op = "phi"
        BY <1>1, <2>2
      <3> QED
        BY <3>1 DEF ConstantMeans
    <2> QED
      BY <1>1, <2>1, <2>2
  <1>4. ConstantsMean(module', new)
    BY <1>1, <1>3, ConstantsStay
  <1> QED
    BY <1>2, <1>4

\* What skips more than the end of this if statement, or is over.
LEMMA OthersEndIf ==
  ASSUME TypeOK, GraphInvariant, Sound, EndIf,
         NEW t, Continues(module, t), OnlyGrows(module, t, NoBlock),
         NEW old, NEW p, IsPoint(module, p),
         NEW s, \/ Suspended(module, old, p, s, ifs) /\ s.skip # 1
                \/ Over(module, old, p, s),
         NEW u, u = Source!Interpret(s, GenNode)
  PROVE  Suspended(t, old, p, u, ifs') \/ Over(t, old, p, u)
  <1>1. /\ GenNode.kind = "endif" /\ ifs # <<>> /\ ifs' = SubSeq(ifs, 1, Len(ifs) - 1)
        /\ ifs \in Seq(GenFrame) /\ SameMeanings(old, old, nextValueId)
    BY StateTypes DEF EndIf, Generating, GenNode, SameMeanings
  <1>2. /\ Len(ifs) \in Nat /\ Len(ifs) >= 1 /\ Len(ifs') = Len(ifs) - 1
        /\ \A k \in 1 .. Len(ifs) - 1 : ifs'[k] = ifs[k]
    BY <1>1, StackTop, StackPop, LenProperties
  <1>3. CASE Suspended(module, old, p, s, ifs) /\ s.skip # 1
    <2>1. PICK k \in 1 .. Len(ifs) : s.skip = Len(ifs) - k + 1 /\ Waits(module, old, p, s, ifs[k])
      BY <1>3 DEF Suspended
    <2>2. IsState(s) /\ ~ s.over /\ Len(s.stack) = 0 /\ s.skip > 0
      BY <1>2, <1>3, <2>1 DEF Suspended
    <2>3. /\ IsState(u) /\ u.over = s.over /\ u.events = s.events /\ u.env = s.env
          /\ u.stack = s.stack /\ u.skip = s.skip - 1
      BY <1>1, <2>2, InterpretSkipped DEF SkipAfter
    <2>4. k \in 1 .. Len(ifs') /\ u.skip = Len(ifs') - k + 1 /\ ifs'[k] = ifs[k]
      BY <1>2, <1>3, <2>1, <2>3
    <2>5. Waits(t, old, p, u, ifs[k])
      <3>1. Pending(ifs[k]) # NoBlock /\ EnvBelow(Saved(ifs[k]), nextValueId)
        BY <2>1, StateIsBelow DEF Waits, FramesBelow
      <3> QED
        BY <1>1, <2>1, <2>3, <3>1, WaitsStays
    <2>6. Suspended(t, old, p, u, ifs')
      BY <2>2, <2>3, <2>4, <2>5 DEF Suspended
    <2> QED
      BY <2>6
  <1>4. CASE Over(module, old, p, s)
    <2>1. u = s
      BY <1>4, InterpretOver DEF Over
    <2>2. Stops(t, old, p, s.events)
      BY <1>1, <1>4, StateIsBelow, StopsStays DEF Over
    <2> QED
      BY <1>4, <2>1, <2>2 DEF Over
  <1> QED
    BY <1>3, <1>4

\* What goes on after the if statement, and the end it comes from.
Arrives(old, p, s, u, e, environment) ==
    /\ Ongoing(u) /\ u.events = s.events /\ u.env = s.env /\ Len(u.stack) = 0
    /\ e \in Ends(current, ifs) /\ Reaches(module, p, e, s)
    /\ EnvMeans(old, environment, s.env) /\ EnvBelow(environment, nextValueId)
    /\ \/ e = current /\ environment = values
       \/ e = GenIf.thenEnd /\ environment = GenIf.thenValues

LEMMA EndIfArrives ==
  ASSUME TypeOK, GraphInvariant, Sound, EndIf, NEW old, NEW p, IsPoint(module, p),
         NEW s, \/ Live(module, old, p, s, current, values, operands)
                \/ Suspended(module, old, p, s, ifs) /\ s.skip = 1,
         NEW u, u = Source!Interpret(s, GenNode)
  PROVE  \E e, environment : Arrives(old, p, s, u, e, environment)
  <1>1. /\ GenNode.kind = "endif" /\ ifs # <<>> /\ GenIf.inElse /\ Len(operands) = 0
        /\ ifs \in Seq(GenFrame) /\ GenIf = ifs[Len(ifs)]
    BY StateTypes DEF EndIf, Generating, GenNode, Holding, GenIf
  <1>2. Len(ifs) \in Nat /\ Len(ifs) \in 1 .. Len(ifs)
    BY <1>1, StackTop, LenProperties
  <1>3. CASE Live(module, old, p, s, current, values, operands)
    <2>1. u = s /\ Ongoing(s) /\ Len(s.stack) = 0
      BY <1>1, <1>3, InterpretNothing DEF Live, StackMeans
    <2>2. current \in Ends(current, ifs) /\ EnvBelow(values, nextValueId)
      BY <1>3, StateIsBelow DEF Live, Ends
    <2>3. Arrives(old, p, s, u, current, values)
      BY <1>3, <2>1, <2>2 DEF Live, Arrives
    <2> QED
      BY <2>3
  <1>4. CASE Suspended(module, old, p, s, ifs) /\ s.skip = 1
    <2>1. PICK k \in 1 .. Len(ifs) : s.skip = Len(ifs) - k + 1 /\ Waits(module, old, p, s, ifs[k])
      BY <1>4 DEF Suspended
    <2>2. k = Len(ifs)
      BY <1>2, <1>4, <2>1
    <2>3. /\ Pending(GenIf) = GenIf.thenEnd /\ Saved(GenIf) = GenIf.thenValues
          /\ Waits(module, old, p, s, GenIf)
      BY <1>1, <2>1, <2>2 DEF Pending, Saved
    <2>4. IsState(s) /\ ~ s.over /\ Len(s.stack) = 0 /\ s.skip > 0
      BY <1>4 DEF Suspended
    <2>5. /\ IsState(u) /\ u.over = s.over /\ u.events = s.events /\ u.env = s.env
          /\ u.stack = s.stack /\ u.skip = 0
      BY <1>1, <1>4, <2>4, InterpretSkipped DEF SkipAfter
    <2>6. GenIf.thenEnd \in Ends(current, ifs)
      BY <1>1, <2>3 DEF Waits, Ends
    <2>7. EnvBelow(GenIf.thenValues, nextValueId)
      BY <1>1, <1>2, <2>3, StateIsBelow DEF FramesBelow, Waits
    <2>8. Arrives(old, p, s, u, GenIf.thenEnd, GenIf.thenValues)
      BY <2>3, <2>4, <2>5, <2>6, <2>7 DEF Arrives, Ongoing, Waits
    <2> QED
      BY <2>8
  <1> QED
    BY <1>3, <1>4

LEMMA SimulateEndIfClosed ==
  ASSUME TypeOK, GraphInvariant, Sound, GenerateEndIfClosed,
         NEW s, Simulated(module, current, values, operands, ifs, s),
         NEW u, u = Source!Interpret(s, GenNode)
  PROVE  Simulated(module', current', values', operands', ifs', u)
  <1>1. /\ EndIf /\ current = NoBlock /\ GenIf.thenEnd = NoBlock
        /\ module' = module /\ current' = current
    BY DEF GenerateEndIfClosed
  <1>2. PICK old, w, n : /\ Path(module, old, w, n) /\ ConstantsMean(module, old)
                         /\ \/ Live(module, old, w[n], s, current, values, operands)
                            \/ Suspended(module, old, w[n], s, ifs)
                            \/ Over(module, old, w[n], s)
    BY DEF Simulated
  <1>3. IsPoint(module, w[n])
    BY <1>2, LastPoint
  <1>4. \/ Suspended(module, old, w[n], s, ifs) /\ s.skip # 1
        \/ Over(module, old, w[n], s)
    <2>1. Ends(current, ifs) = {}
      BY <1>1 DEF Ends, GenIf
    <2> QED
      BY <1>1, <1>2, <1>3, <2>1, EndIfArrives DEF Arrives
  <1>5. Continues(module, module) /\ OnlyGrows(module, module, NoBlock)
    BY StateTypes, ContinuesItself
  <1>6. Suspended(module, old, w[n], u, ifs') \/ Over(module, old, w[n], u)
    BY <1>1, <1>3, <1>4, <1>5, OthersEndIf
  <1> QED
    BY <1>1, <1>2, <1>6 DEF Simulated

LEMMA Enters ==
  ASSUME NEW m, NEW meanings, NEW w, NEW n, Path(m, meanings, w, n), IdleAfter(m, w[n]),
         NEW target, target \in 0 .. Len(m.blocks) - 1,
         Taken(meanings, TerminatorOf(m, w[n].block), target)
  PROVE  \E v : /\ Path(m, meanings, v, n + 1)
                /\ v[n + 1] = Point(target, 0, w[n].block, w[n].events)
  <1> DEFINE q == Point(target, 0, w[n].block, w[n].events)
  <1>1. /\ q.block = target /\ q.count = 0 /\ q.events = w[n].events
        /\ q = Point(q.block, 0, w[n].block, w[n].events)
    BY DEF Point
  <1> HIDE DEF q
  <1>2. IsPoint(m, w[n])
    BY LastPoint
  <1>3. IsPoint(m, q) /\ Begins(w[n].events, q.events)
    BY <1>1, <1>2, BeginsAppend DEF IsPoint
  <1>4. Jumps(m, meanings, w[n], q)
    BY <1>1 DEF Jumps
  <1>5. \E v : v[n + 1] = q /\ Path(m, meanings, v, n + 1)
    BY <1>3, <1>4, PathGoesOn
  <1> QED
    BY <1>5 DEF q

\* A path that has entered a block of phis executes all of them.
LEMMA ExecutesPhis ==
  ASSUME NEW m, NEW meanings, NEW w, NEW n, Path(m, meanings, w, n),
         NEW target, NEW from, NEW events, w[n] = Point(target, 0, from, events),
         NEW last \in Nat, last = Len(OperationsOf(m, target)),
         \A k \in 1 .. last : /\ OperationsOf(m, target)[k].op = "phi"
                              /\ Evaluates(meanings, from, OperationsOf(m, target)[k])
  PROVE  \E v, j : Path(m, meanings, v, j) /\ v[j] = Point(target, last, from, events)
  <1> DEFINE S == {k \in Nat : k <= last =>
                      \E v, j : Path(m, meanings, v, j) /\ v[j] = Point(target, k, from, events)}
  <1>1. 0 \in S
    OBVIOUS
  <1>2. ASSUME NEW k \in Nat, k \in S
        PROVE  k + 1 \in S
    <2> SUFFICES ASSUME k + 1 <= last
                 PROVE  \E v, j : /\ Path(m, meanings, v, j)
                                  /\ v[j] = Point(target, k + 1, from, events)
      OBVIOUS
    <2>1. PICK v, j : Path(m, meanings, v, j) /\ v[j] = Point(target, k, from, events)
      BY <1>2
    <2> DEFINE q == Point(target, k + 1, from, events)
               operation == OperationsOf(m, target)[k + 1]
    <2>2. /\ v[j].block = target /\ v[j].count = k /\ v[j].from = from /\ v[j].events = events
          /\ q.block = target /\ q.count = k + 1 /\ q.events = events
      BY <2>1 DEF Point
    <2>3. IsPoint(m, v[j]) /\ IsPoint(m, q) /\ Begins(v[j].events, q.events)
      BY <2>1, <2>2, LastPoint, BeginsAppend DEF IsPoint
    <2>4. k + 1 \in 1 .. last /\ Idle(m, target, k, k + 1)
      BY DEF Idle
    <2>5. operation.op = "phi" /\ Evaluates(meanings, from, operation)
      BY <2>4
    <2>6. q = Point(target, k + 1, from, EventsAfter(events, operation))
      BY <2>5 DEF EventsAfter
    <2> HIDE DEF q, operation
    <2>7. Executes(m, meanings, v[j], q)
      BY <2>2, <2>4, <2>5, <2>6 DEF Executes, operation
    <2>8. \E x : x[j + 1] = q /\ Path(m, meanings, x, j + 1)
      BY <2>1, <2>3, <2>7, PathGoesOn
    <2> QED
      BY <2>8 DEF q
  <1> HIDE DEF S
  <1>3. last \in S
    BY <1>1, <1>2, SetInduction
  <1> QED
    BY <1>3 DEF S

LEMMA SimulateEndIfOne ==
  ASSUME TypeOK, TypeOK', GraphInvariant, Sound, GenerateEndIfOne,
         NEW s, Simulated(module, current, values, operands, ifs, s),
         NEW u, u = Source!Interpret(s, GenNode)
  PROVE  Simulated(module', current', values', operands', ifs', u)
  <1>1. /\ EndIf /\ ifs # <<>> /\ GenIf.inElse /\ (GenIf.thenEnd = NoBlock) # (current = NoBlock)
        /\ values' = SurvivingValues /\ operands' = operands /\ Len(operands) = 0
        /\ Merge(Ends(current, ifs), <<>>)
    BY DEF GenerateEndIfOne, EndIf, Holding, Ends, GenIf
  <1>2. <<>> \in Seq(Operation) /\ Len(<<>>) = 0 /\ \A k \in 1 .. 0 : FALSE
    OBVIOUS
  <1>3. PICK old, w, n : /\ Path(module, old, w, n) /\ ConstantsMean(module, old)
                         /\ \/ Live(module, old, w[n], s, current, values, operands)
                            \/ Suspended(module, old, w[n], s, ifs)
                            \/ Over(module, old, w[n], s)
    BY DEF Simulated
  <1>4. /\ Path(module', old, w, n) /\ ConstantsMean(module', old) /\ IsPoint(module, w[n])
        /\ Continues(module, module') /\ OnlyGrows(module, module', NoBlock)
        /\ current' # NoBlock /\ current' \in 0 .. Len(module'.blocks) - 1
        /\ Len(OperationsOf(module', current')) = 0
        /\ \A id \in 0 .. Len(module.blocks) - 1 :
              OperationsOf(module', id) = OperationsOf(module, id)
        /\ \A e \in Ends(current, ifs) : /\ e \in 0 .. Len(module.blocks) - 1
                                         /\ TerminatorOf(module', e) = BranchOp(current')
    <2>1. SameMeanings(old, old, nextValueId) /\ \A k \in 1 .. Len(<<>>) : <<>>[k].op = "phi"
      BY <1>2 DEF SameMeanings
    <2> QED
      BY <1>1, <1>2, <1>3, <2>1, MergeKeeps, MergeContinues, LastPoint
  <1>5. CASE \/ Live(module, old, w[n], s, current, values, operands)
             \/ Suspended(module, old, w[n], s, ifs) /\ s.skip = 1
    <2>1. PICK e, environment : Arrives(old, w[n], s, u, e, environment)
      BY <1>1, <1>4, <1>5, EndIfArrives
    <2>2. /\ Ongoing(u) /\ u.events = s.events /\ u.env = s.env /\ Len(u.stack) = 0
          /\ e \in Ends(current, ifs) /\ Reaches(module, w[n], e, s)
          /\ EnvMeans(old, environment, s.env)
      BY <2>1 DEF Arrives
    <2>3. environment = values'
      <3>1. e \in Ends(current, ifs) => e # NoBlock
        BY DEF Ends
      <3> QED
        BY <1>1, <2>1, <3>1 DEF Arrives, SurvivingValues
    <2>4. w[n].block = e /\ IdleAfter(module', w[n]) /\ u.events = w[n].events
      BY <1>4, <2>2 DEF Reaches, IdleAfter, Idle
    <2>5. Taken(old, TerminatorOf(module', w[n].block), current')
      BY <1>4, <2>2, <2>4 DEF Taken, BranchOp
    <2>6. PICK v, j : Path(module', old, v, j) /\ Reaches(module', v[j], current', u)
      BY <1>4, <2>4, <2>5, EntersEmpty
    <2>7. StackMeans(old, operands', u.stack)
      BY <1>1, <2>2 DEF StackMeans
    <2>8. Live(module', old, v[j], u, current', values', operands')
      BY <1>4, <2>2, <2>3, <2>6, <2>7 DEF Live
    <2> QED
      BY <1>4, <2>6, <2>8 DEF Simulated
  <1>6. CASE \/ Suspended(module, old, w[n], s, ifs) /\ s.skip # 1
             \/ Over(module, old, w[n], s)
    <2>1. Suspended(module', old, w[n], u, ifs') \/ Over(module', old, w[n], u)
      BY <1>1, <1>4, <1>6, OthersEndIf
    <2> QED
      BY <1>4, <2>1 DEF Simulated
  <1> QED
    BY <1>3, <1>5, <1>6

\* The values of the phis are those the names have where the path comes from.
PhiValues(order, environment, old, new) ==
    \A i \in 1 .. Len(order) : new[nextValueId + i - 1] = old[environment[order[i]].value]

\* The meanings after a merge block: a phi means what its name did where the path comes from.
LEMMA MergedMeans ==
  ASSUME NEW thenValues \in Environment, NEW elseValues \in Environment,
         NEW order \in SetToSeqs(Differing(thenValues, elseValues)), NEW next \in Nat,
         next = nextValueId,
         NEW environment, environment = thenValues \/ environment = elseValues,
         EnvBelow(environment, next), NEW old, NEW env, EnvMeans(old, environment, env),
         NEW new, SameMeanings(old, new, next), PhiValues(order, environment, old, new)
  PROVE  EnvMeans(new, MergedValues(order, thenValues, elseValues), env)
  <1> DEFINE merged == MergedValues(order, thenValues, elseValues)
  <1>1. ASSUME NEW name \in Names, merged[name] # NoValue
        PROVE  new[merged[name].value] = env[name]
    <2>1. CASE name \in Range(order)
      <3> DEFINE i == CHOOSE i \in DOMAIN order : order[i] = name
      <3>1. i \in DOMAIN order /\ order[i] = name
        BY <2>1 DEF Range
      <3>2. i \in 1 .. Len(order) /\ order[i] \in Differing(thenValues, elseValues)
        BY <3>1, OrderType
      <3>3. merged[name].value = next + i - 1
        BY <2>1 DEF MergedValues
      <3> HIDE DEF i, merged
      <3>4. environment[name] # NoValue
        BY <3>1, <3>2 DEF Differing, Common
      <3> QED
        BY <3>1, <3>2, <3>3, <3>4 DEF EnvMeans, PhiValues
    <2>2. CASE name \notin Range(order)
      <3>1. name \in Common(thenValues, elseValues) /\ merged[name] = thenValues[name]
        BY <1>1, <2>2 DEF MergedValues
      <3>2. thenValues[name].value = elseValues[name].value
        BY <2>2, <3>1, OrderIsComplete DEF Differing
      <3>3. environment[name] # NoValue /\ merged[name].value = environment[name].value
        BY <3>1, <3>2 DEF Common
      <3> QED
        BY <3>3 DEF EnvMeans, EnvBelow, SameMeanings
    <2> QED
      BY <2>1, <2>2
  <1> QED
    BY <1>1 DEF EnvMeans

PhiAt(order, thenEnd, elseEnd, thenValues, elseValues, k) ==
    Phis(order, thenEnd, elseEnd, thenValues, elseValues)[k]

\* The path comes from one of the two blocks, with the environment at its end.
ComesFrom(from, environment, thenEnd, elseEnd, thenValues, elseValues) ==
    \/ from = thenEnd /\ environment = thenValues
    \/ from = elseEnd /\ environment = elseValues

\* A phi evaluates to what its name meant where the path comes from.
LEMMA PhiEvaluates ==
  ASSUME NEW thenEnd, NEW elseEnd, NEW thenValues, NEW elseValues, NEW order, NEW from,
         NEW environment, NEW old, NEW new, NEW k, NEW phi,
         thenEnd # elseEnd, thenValues \in Environment, elseValues \in Environment,
         order \in SetToSeqs(Differing(thenValues, elseValues)),
         EnvBelow(environment, nextValueId),
         ComesFrom(from, environment, thenEnd, elseEnd, thenValues, elseValues),
         SameMeanings(old, new, nextValueId), PhiValues(order, environment, old, new),
         k \in 1 .. Len(order), phi = PhiAt(order, thenEnd, elseEnd, thenValues, elseValues, k)
  PROVE  phi.op = "phi" /\ Evaluates(new, from, phi)
  <1>1. DOMAIN order = 1 .. Len(order) /\ order[k] \in Differing(thenValues, elseValues)
    BY OrderType
  <1> DEFINE name == order[k]
             first == thenValues[name].value
             second == elseValues[name].value
  <1>2. phi = PhiOp(nextValueId + k - 1, thenValues[name].type,
                    <<Incoming(thenEnd, first), Incoming(elseEnd, second)>>)
    BY <1>1 DEF Phis, PhiAt
  <1>3. name \in Names /\ thenValues[name] # NoValue /\ elseValues[name] # NoValue
    BY <1>1 DEF Differing, Common
  <1>4. new[nextValueId + k - 1] = old[environment[name].value]
    BY DEF PhiValues
  <1>5. new[environment[name].value] = old[environment[name].value]
    BY <1>3 DEF EnvBelow, SameMeanings, ComesFrom
  <1> HIDE DEF name
  <1>6. /\ phi.op = "phi" /\ phi.result = nextValueId + k - 1
        /\ DOMAIN phi.incoming = {1, 2}
        /\ phi.incoming[1].predecessor = thenEnd /\ phi.incoming[1].value = first
        /\ phi.incoming[2].predecessor = elseEnd /\ phi.incoming[2].value = second
    BY <1>2 DEF PhiOp, Incoming
  <1>7. ASSUME NEW i \in DOMAIN phi.incoming, phi.incoming[i].predecessor = from
        PROVE  phi.incoming[i].value = environment[name].value
    BY <1>6, <1>7 DEF ComesFrom
  <1> QED
    BY <1>4, <1>5, <1>6, <1>7 DEF Evaluates, Coded

LEMMA SimulateEndIfBoth ==
  ASSUME TypeOK, TypeOK', GraphInvariant, Sound, GenerateEndIfBoth, Continue,
         NEW s, Simulated(module, current, values, operands, ifs, s),
         NEW u, u = Source!Interpret(s, GenNode)
  PROVE  Simulated(module', current', values', operands', ifs', u)
  <1> DEFINE thenEnd == GenIf.thenEnd
             thenValues == GenIf.thenValues
  <1>1. ~ Fail("branchType")
    BY DEF GenerateEndIfBoth, Generating, Fail, Continue
  <1>2. /\ EndIf /\ ifs # <<>> /\ GenIf.inElse /\ thenEnd # NoBlock /\ current # NoBlock
        /\ operands' = operands /\ Len(operands) = 0
    BY <1>1 DEF GenerateEndIfBoth, EndIf, Holding
  <1>3. PICK order \in SetToSeqs(Differing(thenValues, values)) :
           /\ Merge({thenEnd, current}, Phis(order, thenEnd, current, thenValues, values))
           /\ values' = MergedValues(order, thenValues, values)
    BY <1>1 DEF GenerateEndIfBoth
  <1>4. /\ thenEnd \in Nat /\ current \in Nat /\ thenEnd # current
        /\ thenValues \in Environment /\ values \in Environment
        /\ Ends(current, ifs) = {thenEnd, current}
        /\ nextValueId \in Nat
    BY <1>2, EndFacts, StateTypes DEF TypeOK
  <1> DEFINE phis == Phis(order, thenEnd, current, thenValues, values)
  <1>5. phis \in Seq(Operation) /\ Merge(Ends(current, ifs), phis)
    BY <1>3, <1>4, PhisType
  <1>6. /\ Len(phis) = Len(order) /\ Len(order) \in Nat
        /\ \A k \in 1 .. Len(phis) : phis[k].op = "phi"
    BY OrderType DEF Phis, PhiOp
  <1>7. PICK old, w, n : /\ Path(module, old, w, n) /\ ConstantsMean(module, old)
                         /\ \/ Live(module, old, w[n], s, current, values, operands)
                            \/ Suspended(module, old, w[n], s, ifs)
                            \/ Over(module, old, w[n], s)
    BY DEF Simulated
  <1> HIDE DEF phis
  <1>8. /\ IsPoint(module, w[n])
        /\ Continues(module, module') /\ OnlyGrows(module, module', NoBlock)
        /\ current' # NoBlock /\ current' \in 0 .. Len(module'.blocks) - 1
        /\ OperationsOf(module', current') = phis
        /\ \A id \in 0 .. Len(module.blocks) - 1 :
              OperationsOf(module', id) = OperationsOf(module, id)
        /\ \A e \in Ends(current, ifs) : /\ e \in 0 .. Len(module.blocks) - 1
                                         /\ TerminatorOf(module', e) = BranchOp(current')
    BY <1>2, <1>5, <1>7, MergeContinues, LastPoint
  <1>9. ASSUME NEW new, SameMeanings(old, new, nextValueId)
        PROVE  Path(module', new, w, n) /\ ConstantsMean(module', new)
    BY <1>2, <1>5, <1>6, <1>7, <1>9, MergeKeeps
  <1>10. CASE \/ Live(module, old, w[n], s, current, values, operands)
              \/ Suspended(module, old, w[n], s, ifs) /\ s.skip = 1
    <2>1. PICK e, environment : Arrives(old, w[n], s, u, e, environment)
      BY <1>2, <1>8, <1>10, EndIfArrives
    <2>2. /\ Ongoing(u) /\ u.events = s.events /\ u.env = s.env /\ Len(u.stack) = 0
          /\ e \in Ends(current, ifs) /\ Reaches(module, w[n], e, s)
          /\ EnvMeans(old, environment, u.env) /\ EnvBelow(environment, nextValueId)
          /\ \/ e = current /\ environment = values
             \/ e = thenEnd /\ environment = thenValues
      BY <2>1 DEF Arrives
    <2> DEFINE new == [v \in Nat |-> IF v >= nextValueId
                                     THEN old[environment[order[v - nextValueId + 1]].value]
                                     ELSE old[v]]
    <2>3. SameMeanings(old, new, nextValueId)
      BY <1>4 DEF SameMeanings
    <2>4. PhiValues(order, environment, old, new)
      <3> SUFFICES ASSUME NEW i \in 1 .. Len(order)
                   PROVE  new[nextValueId + i - 1] = old[environment[order[i]].value]
        BY DEF PhiValues
      <3>1. /\ nextValueId + i - 1 \in Nat /\ nextValueId + i - 1 >= nextValueId
            /\ (nextValueId + i - 1) - nextValueId + 1 = i
        BY <1>4, <1>6
      <3> QED
        BY <3>1
    <2> HIDE DEF new
    <2>5. Path(module', new, w, n) /\ ConstantsMean(module', new)
      BY <1>9, <2>3
    <2>6. w[n].block = e /\ IdleAfter(module', w[n]) /\ w[n].events = u.events
      BY <1>8, <2>2 DEF Reaches, IdleAfter, Idle
    <2>7. Taken(new, TerminatorOf(module', w[n].block), current')
      BY <1>8, <2>2, <2>6 DEF Taken, BranchOp
    <2>8. PICK v : /\ Path(module', new, v, n + 1)
                   /\ v[n + 1] = Point(current', 0, e, u.events)
      BY <1>8, <2>5, <2>6, <2>7, Enters
    <2>9. \A k \in 1 .. Len(order) : phis[k].op = "phi" /\ Evaluates(new, e, phis[k])
      <3> SUFFICES ASSUME NEW k \in 1 .. Len(order)
                   PROVE  phis[k].op = "phi" /\ Evaluates(new, e, phis[k])
        OBVIOUS
      <3>1. PICK phi : phi = phis[k]
        OBVIOUS
      <3>2. phi = PhiAt(order, thenEnd, current, thenValues, values, k)
        BY <3>1 DEF phis, PhiAt
      <3> HIDE DEF thenEnd, thenValues
      <3>3. phi.op = "phi" /\ Evaluates(new, e, phi)
        <4>1. /\ thenEnd # current /\ thenValues \in Environment /\ values \in Environment
              /\ EnvBelow(environment, nextValueId) /\ k \in 1 .. Len(order)
              /\ ComesFrom(e, environment, thenEnd, current, thenValues, values)
          BY <1>4, <2>2 DEF ComesFrom
        <4> QED
          BY <2>3, <2>4, <3>2, <4>1, PhiEvaluates
      <3> QED
        BY <3>1, <3>3
    <2>10. PICK x, j : /\ Path(module', new, x, j)
                       /\ x[j] = Point(current', Len(order), e, u.events)
      BY ExecutesPhis, <2>9, <2>8, <1>8, <1>6
    <2>11. Reaches(module', x[j], current', u)
      <3>1. /\ x[j].block = current' /\ x[j].count = Len(order) /\ x[j].events = u.events
        BY <2>10 DEF Point
      <3> QED
        BY <1>6, <1>8, <3>1 DEF Reaches, IdleAfter, Idle
    <2>12. EnvMeans(new, values', u.env)
      BY <1>3, <1>4, <2>2, <2>3, <2>4, MergedMeans
    <2>13. StackMeans(new, operands', u.stack)
      BY <1>2, <2>2 DEF StackMeans
    <2>14. Live(module', new, x[j], u, current', values', operands')
      BY <1>8, <2>2, <2>11, <2>12, <2>13 DEF Live
    <2> QED
      BY <2>5, <2>10, <2>14 DEF Simulated
  <1>11. CASE \/ Suspended(module, old, w[n], s, ifs) /\ s.skip # 1
              \/ Over(module, old, w[n], s)
    <2>1. Suspended(module', old, w[n], u, ifs') \/ Over(module', old, w[n], u)
      BY <1>2, <1>8, <1>11, OthersEndIf
    <2>2. SameMeanings(old, old, nextValueId)
      BY DEF SameMeanings
    <2> QED
      BY <1>9, <2>1, <2>2 DEF Simulated
  <1> QED
    BY <1>7, <1>10, <1>11

-----------------------------------------------------------------------------
(* The generator skips the rest of a block *)

\* A state that is not live sees no more of the nodes of the block it is in than their nesting.
LEMMA SkipsBlock ==
  ASSUME prog \in Seq(Node), NEW states, Interpreted(states), NEW i \in 1 .. Len(prog),
         NEW end \in i + 1 .. Len(prog), EndsBlockOf(prog, i, end),
         IsState(states[i]), ~ states[i].over, states[i].skip > 0,
         NEW n \in Nat, i + n <= end
  PROVE  LET s == states[i + n] IN
         /\ IsState(s) /\ ~ s.over /\ s.events = states[i].events /\ s.env = states[i].env
         /\ s.stack = states[i].stack
         /\ s.skip = states[i].skip + Depth(prog, i, i + n) /\ Depth(prog, i, i + n) >= 0
  <1> DEFINE Skips(k) ==
                LET s == states[i + k] IN
                /\ IsState(s) /\ ~ s.over /\ s.events = states[i].events /\ s.env = states[i].env
                /\ s.stack = states[i].stack
                /\ s.skip = states[i].skip + Depth(prog, i, i + k) /\ Depth(prog, i, i + k) >= 0
             S == {k \in Nat : i + k <= end => Skips(k)}
  <1>0. i \in Nat /\ end \in Nat /\ Len(prog) \in Nat /\ states[i].skip \in Nat
    BY LenProperties DEF IsState
  <1>1. 0 \in S
    <2>1. Depth(prog, i, i) = 0 /\ i + 0 = i
      BY <1>0, DepthNext
    <2>2. Skips(0)
      BY <1>0, <2>1
    <2> QED
      BY <2>2
  <1>2. ASSUME NEW k \in Nat, k \in S
        PROVE  k + 1 \in S
    <2> SUFFICES ASSUME i + (k + 1) <= end
                 PROVE  Skips(k + 1)
      OBVIOUS
    <2> DEFINE j == i + k
               s == states[j]
               u == states[j + 1]
    <2>1. /\ i + (k + 1) = j + 1 /\ j \in 1 .. Len(prog) /\ j \in Nat /\ j \in i .. end - 1
          /\ i <= j
      BY <1>0
    <2>2. /\ IsState(s) /\ ~ s.over /\ s.events = states[i].events /\ s.env = states[i].env
          /\ s.stack = states[i].stack
          /\ s.skip = states[i].skip + Depth(prog, i, j) /\ Depth(prog, i, j) >= 0
      BY <1>0, <1>2
    <2>3. /\ Depth(prog, i, j) \in Int
          /\ Depth(prog, i, j + 1) = Depth(prog, i, j)
                + (IF prog[j].kind = "if" THEN 1 ELSE IF prog[j].kind = "endif" THEN -1 ELSE 0)
      BY <1>0, <2>1, DepthNext
    <2>4. prog[j].kind \in {"else", "endif"} => Depth(prog, i, j) # 0
      BY <2>1 DEF EndsBlockOf
    <2>5. u = Source!Interpret(s, prog[j])
      BY <2>1 DEF Interpreted
    <2> HIDE DEF j, s, u
    <2>6. s.skip > 0
      BY <1>0, <2>2, <2>3
    <2>7. /\ IsState(u) /\ u.over = s.over /\ u.events = s.events /\ u.env = s.env
          /\ u.stack = s.stack
          /\ u.skip = SkipAfter(s, prog[j])
      BY <2>2, <2>5, <2>6, InterpretSkipped
    <2>8. prog[j].kind = "else" => s.skip # 1
      BY <1>0, <2>2, <2>3, <2>4
    <2>9. Depth(prog, i, j + 1) >= 0
      BY <2>2, <2>3, <2>4
    <2>10. u.skip = states[i].skip + Depth(prog, i, j + 1)
      BY <1>0, <2>2, <2>3, <2>7, <2>8 DEF SkipAfter
    <2> QED
      BY <2>1, <2>2, <2>7, <2>9, <2>10 DEF u
  <1>3. n \in S
    <2> HIDE DEF S
    <2> QED
      BY <1>1, <1>2, SetInduction
  <1>4. Skips(n)
    BY <1>3
  <1> QED
    BY <1>4

LEMMA StaysOver ==
  ASSUME prog \in Seq(Node), NEW states, Interpreted(states), NEW i \in 1 .. Len(prog) + 1,
         states[i].over, NEW n \in Nat, i + n <= Len(prog) + 1
  PROVE  states[i + n] = states[i]
  <1> DEFINE S == {k \in Nat : i + k <= Len(prog) + 1 => states[i + k] = states[i]}
  <1>0. Len(prog) \in Nat
    BY LenProperties
  <1>1. 0 \in S
    BY <1>0
  <1>2. ASSUME NEW k \in Nat, k \in S
        PROVE  k + 1 \in S
    <2> SUFFICES ASSUME i + (k + 1) <= Len(prog) + 1
                 PROVE  states[i + (k + 1)] = states[i]
      OBVIOUS
    <2>1. i + k \in 1 .. Len(prog) /\ (i + k) + 1 = i + (k + 1) /\ states[i + k] = states[i]
      BY <1>0, <1>2
    <2>2. states[(i + k) + 1] = Source!Interpret(states[i + k], prog[i + k])
      BY <2>1 DEF Interpreted
    <2> QED
      BY <2>1, <2>2, InterpretOver
  <1> HIDE DEF S
  <1>3. n \in S
    BY <1>1, <1>2, SetInduction
  <1> QED
    BY <1>3 DEF S

LEMMA Distance ==
  ASSUME NEW x \in Nat, NEW y \in Nat, x <= y
  PROVE  \E d \in Nat : x + d = y
  <1>1. y - x \in Nat /\ x + (y - x) = y
    OBVIOUS
  <1> QED
    BY <1>1

LEMMA SimulateSkip ==
  ASSUME TypeOK, SkipUnreachable, NEW states, Interpreted(states),
         Simulated(module, current, values, operands, ifs, states[genPos])
  PROVE  Simulated(module', current', values', operands', ifs', states[genPos'])
  <1>1. /\ current = NoBlock /\ module' = module /\ current' = current /\ values' = values
        /\ operands' = operands /\ ifs' = ifs /\ prog \in Seq(Node)
        /\ genPos' \in genPos + 1 .. Len(prog) /\ EndsBlockOf(prog, genPos, genPos')
        /\ genPos \in 1 .. Len(prog) + 1 /\ Len(prog) \in Nat
    BY LenProperties DEF SkipUnreachable, codeVars, flowVars, TypeOK, SemaTypeOK
  <1> DEFINE s == states[genPos]
             u == states[genPos']
  <1>2. PICK d \in Nat : /\ genPos + d = genPos' /\ genPos \in 1 .. Len(prog)
                         /\ genPos' <= Len(prog) + 1
    <2>1. /\ genPos \in Nat /\ genPos' \in Nat /\ genPos <= genPos' /\ genPos' <= Len(prog) + 1
          /\ genPos \in 1 .. Len(prog)
      BY <1>1
    <2> QED
      BY <2>1, Distance
  <1>3. PICK old, w, n : /\ Path(module, old, w, n) /\ ConstantsMean(module, old)
                         /\ \/ Live(module, old, w[n], s, current, values, operands)
                            \/ Suspended(module, old, w[n], s, ifs)
                            \/ Over(module, old, w[n], s)
    BY DEF Simulated
  <1>4. CASE Suspended(module, old, w[n], s, ifs)
    <2>1. PICK k \in 1 .. Len(ifs) : s.skip = Len(ifs) - k + 1
                                     /\ Waits(module, old, w[n], s, ifs[k])
      BY <1>4 DEF Suspended
    <2>2. IsState(s) /\ ~ s.over /\ Len(s.stack) = 0 /\ s.skip > 0
      <3>1. Len(ifs) \in Nat
        BY LenProperties DEF TypeOK
      <3> QED
        BY <1>4, <2>1, <3>1 DEF Suspended
    <2>3. /\ IsState(u) /\ ~ u.over /\ u.events = s.events /\ u.env = s.env
          /\ u.stack = s.stack /\ u.skip = s.skip + Depth(prog, genPos, genPos')
      <3>1. genPos + d <= genPos'
        BY <1>2
      <3> QED
        BY <1>1, <1>2, <2>2, <3>1, SkipsBlock
    <2>4. u.skip = s.skip
      <3>1. Depth(prog, genPos, genPos') = 0 /\ s.skip \in Nat
        BY <1>1, <2>2 DEF EndsBlockOf, IsState
      <3> QED
        BY <2>3, <3>1
    <2>5. Waits(module, old, w[n], u, ifs[k])
      BY <2>1, <2>3 DEF Waits, Reaches
    <2>6. Suspended(module, old, w[n], u, ifs)
      BY <2>1, <2>2, <2>3, <2>4, <2>5 DEF Suspended
    <2> QED
      BY <1>1, <1>3, <2>6 DEF Simulated
  <1>5. CASE Over(module, old, w[n], s)
    <2>1. u = s
      BY <1>1, <1>2, <1>5, StaysOver DEF Over
    <2> QED
      BY <1>1, <1>3, <1>5, <2>1 DEF Simulated
  <1>6. CASE Live(module, old, w[n], s, current, values, operands)
    BY <1>1, <1>6 DEF Live
  <1> QED
    BY <1>3, <1>4, <1>5, <1>6
=============================================================================
