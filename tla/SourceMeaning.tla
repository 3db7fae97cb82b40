--------------------------- MODULE SourceMeaning ---------------------------
(***************************************************************************)
(* What docs/language.md promises a program does: the statements run one   *)
(* after the other, a tensor declaration asks the runtime for the bytes of *)
(* its type, and the first return ends the program with an exit status.    *)
(* What can be observed of it is the sequence of these events.  There is   *)
(* no IR here, no block and no register: the program is interpreted.       *)
(***************************************************************************)
EXTENDS AST, MachineArithmetic, TensorStorage

VARIABLES
    program,
    relation,  \* how any two floats of the program relate
    promised,  \* the events the program means
    observed,  \* the events so far
    refused    \* the compiler has refused the program

Allocation(size) == [event |-> "allocation", size |-> size]
Exit(status) == [event |-> "exit", status |-> status]
\* A division that has no result: the program has no meaning from there on.
Undefined == [event |-> "undefined"]

Unknown == [type |-> "none", value |-> 0]

Start == [env |-> [name \in Names |-> Unknown], stack |-> <<>>, skip |-> 0,
          over |-> FALSE, events |-> <<>>]

Top(state) == Last(state.stack)
Second(state) == state.stack[Len(state.stack) - 1]
PopN(state, n) == SubSeq(state.stack, 1, Len(state.stack) - n)
PushTo(state, n, value) == [state EXCEPT !.stack = Append(PopN(state, n), value)]
EndWith(state, event) == [state EXCEPT !.over = TRUE, !.events = Append(@, event)]

BinaryMeaning(state, op) ==
    LET lhs == Second(state)
        rhs == Top(state)
        compared == IF lhs.type = "i64" THEN IntegerRelation(lhs.value, rhs.value) ELSE relation
    IN  IF op \in Comparison
        THEN PushTo(state, 2, Int1(\/ compared \in Satisfying(op)
                                   \/ compared = "unordered" /\ op = "NotEqual"))
        ELSE IF lhs.type = "f64" THEN PushTo(state, 2, Double)
        ELSE IF DivisionUndefined(op, lhs.value, rhs.value) THEN EndWith(state, Undefined)
        ELSE PushTo(state, 2, Int64(Compute(op, lhs.value, rhs.value)))

\* Within the block that is not taken; skip counts the if statements left open.
Skipped(state, node) ==
    CASE node.kind = "if" -> [state EXCEPT !.skip = @ + 1]
      [] node.kind = "endif" \/ (node.kind = "else" /\ state.skip = 1) ->
            [state EXCEPT !.skip = @ - 1]
      [] OTHER -> state

Interpret(state, node) ==
    IF state.over THEN state
    ELSE IF state.skip > 0 THEN Skipped(state, node)
    ELSE CASE
         node.kind = "identifier" -> PushTo(state, 0, state.env[node.name])
      [] node.kind = "integer" -> PushTo(state, 0, Int64(node.value))
      [] node.kind = "float" -> PushTo(state, 0, Double)
      [] node.kind = "binary" -> BinaryMeaning(state, node.op)
      [] node.kind = "tensor" ->
            [state EXCEPT !.events = Append(@, Allocation(StorageSize(node.type))),
                          !.env[node.name] = [type |-> "tensor", value |-> 0]]
      [] node.kind = "assign" ->
            [state EXCEPT !.env[node.name] = Top(state), !.stack = PopN(state, 1)]
      [] node.kind = "return" -> EndWith(state, Exit(Wrap(Top(state).value, StatusWidth)))
      [] node.kind = "if" ->
            [state EXCEPT !.stack = PopN(state, 1), !.skip = IF Top(state).value = 1 THEN 0 ELSE 1]
      [] node.kind = "else" -> [state EXCEPT !.skip = 1]
      [] OTHER -> state

\* The quantified state makes TLC evaluate it once for all its uses.
InterpretNext(state, node) == CHOOSE next \in {Interpret(s, node) : s \in {state}} : TRUE

Meaning == FoldLeft(InterpretNext, Start, program).events

-----------------------------------------------------------------------------

vars == <<program, relation, promised, observed, refused>>

Init ==
    /\ promised = Meaning
    /\ observed = <<>>
    /\ refused = FALSE

Observe ==
    /\ ~ refused
    /\ Len(observed) < Len(promised)
    /\ observed' = Append(observed, promised[Len(observed) + 1])
    /\ UNCHANGED <<program, relation, promised, refused>>

Refuse ==
    /\ ~ refused
    /\ observed = <<>>
    /\ refused' = TRUE
    /\ UNCHANGED <<program, relation, promised, observed>>

\* The program is refused, or does all it means.
Spec == Init /\ [][Observe \/ Refuse]_vars /\ WF_vars(Observe \/ Refuse)

=============================================================================
