------------------------------- MODULE Types -------------------------------
(***************************************************************************)
(* Types and expressions as source/core/ast.c builds them.                 *)
(*                                                                         *)
(* A type has a kind k, a name n where its kind has one, the type          *)
(* arguments args of a generic class, an element type el (a sequence of    *)
(* one) and opt, is_nullable.                                              *)
(*                                                                         *)
(* An expression has a kind e, names n and c, operands k (the receiver     *)
(* first), a type t it mentions, a number v; and what the checker adds:    *)
(* the parameters ps a call resolved to, the type ty, the complaints errs. *)
(***************************************************************************)
EXTENDS Integers, Sequences, SequencesExt

\* what is_nullable holds where type_array and type_param leave it unset
CONSTANT UnsetFlag

Prim(kind) == [k |-> kind, n |-> "", args |-> <<>>, el |-> <<>>, opt |-> FALSE]
Named(kind, name) == [Prim(kind) EXCEPT !.n = name]

UnknownT == Prim("unknown")
VoidT    == Prim("void")
AnyT     == Prim("any")
NullT    == Prim("null")
BoolT    == Prim("bool")
IntT     == Prim("int")
StringT  == Prim("string")
ObjectT(name)   == Named("object", name)
EnumT(name)     == Named("enum", name)
ClassRefT(name) == Named("class_ref", name)
ParamT(name)    == [Named("param", name) EXCEPT !.opt = UnsetFlag]
ArrayT(elem)    == [Prim("array") EXCEPT !.el = <<elem>>, !.opt = UnsetFlag]
GenericT(name, args) == [ObjectT(name) EXCEPT !.args = args]

Nullable(t) == [t EXCEPT !.opt = TRUE]
Base(t)     == [t EXCEPT !.opt = FALSE]
Unknown(t)  == t.k = "unknown"

IntFamily   == {"int", "sbyte", "byte", "short", "ushort", "uint", "long", "ulong", "char"}
FloatFamily == {"float", "double"}
IsIntFamily(t) == t.k \in IntFamily
IsNumeric(t)   == t.k \in (IntFamily \ {"char"}) \cup FloatFamily

\* an object without a class name equals no other
RECURSIVE TypeEquals(_, _)
TypeEquals(a, b) ==
    /\ a.k = b.k
    /\ a.opt = b.opt
    /\ a.k = "array" => a.el # <<>> /\ b.el # <<>> /\ TypeEquals(a.el[1], b.el[1])
    /\ a.k \in {"object", "param", "enum"} => a.n # "" /\ a.n = b.n /\ a.args = b.args

\* substitute_type.  The code keeps every element type it substitutes in one static
\* variable: a type made here is the code's until the next array is substituted.
RECURSIVE Substituted(_, _)
Substituted(t, binding) ==
    LET inner == Substituted(t.el[1], binding) IN
    CASE t.k \in {"param", "object"} /\ t.n \in DOMAIN binding -> binding[t.n]
      [] t.k = "array" /\ t.el # <<>> -> IF <<inner.k, inner.n>> = <<t.el[1].k, t.el[1].n>> THEN t ELSE ArrayT(inner)
      [] OTHER -> t

(***************************************************************************)
(* Expressions                                                             *)
(***************************************************************************)
Node(kind, name, operands) ==
    [e |-> kind, n |-> name, c |-> "", k |-> operands, t |-> VoidT, v |-> 0,
     ps |-> <<>>, ty |-> UnknownT, errs |-> {}]

\* resolve(), error_type() and type_error()
Resolve(y, t)        == [y EXCEPT !.ty = t]
Refuse(y, what)      == [y EXCEPT !.ty = UnknownT, !.errs = @ \cup {what}]
Complain(y, if, what) == IF if THEN [y EXCEPT !.errs = @ \cup {what}] ELSE y

RECURSIVE Complaints(_)
Complaints(y) == y.errs \cup UNION {Complaints(y.k[i]) : i \in DOMAIN y.k}
Accepted(y) == Complaints(y) = {}
=============================================================================
