------------------------------- MODULE Trees -------------------------------
(***************************************************************************)
(* The nodes of the AST as sequences in visiting order: one operator for    *)
(* each kind of expression and of statement, made of its parts.            *)
(***************************************************************************)
EXTENDS AST, SequencesExt

Identifier(name) == <<[kind |-> "identifier", name |-> name]>>
Integer(value) == <<[kind |-> "integer", value |-> value]>>
Float(value) == <<[kind |-> "float", value |-> value]>>
Binary(op, lhs, rhs) == lhs \o rhs \o <<[kind |-> "binary", op |-> op]>>
Call(callee, arguments) ==
    LET node(kind) == <<[kind |-> kind, callee |-> callee, arity |-> Len(arguments)]>>
    IN  node("call") \o FlattenSeq(arguments) \o node("endcall")

Tensor(name, type) == <<[kind |-> "tensor", name |-> name, type |-> type]>>
Let(name, value) == value \o <<[kind |-> "assign", name |-> name]>>
Return(value) == value \o <<[kind |-> "return"]>>
If(condition, block, otherwise) ==
    condition \o <<[kind |-> "if"]>> \o block \o <<[kind |-> "else"]>> \o otherwise
        \o <<[kind |-> "endif"]>>

=============================================================================
