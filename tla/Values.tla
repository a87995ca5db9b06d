------------------------------- MODULE Values -------------------------------
(***************************************************************************)
(* The values of source/vm/vm.c, which carry no type at run time.  Here    *)
(* t is what the code meant the value to be, v its number (an array's      *)
(* length, an element's index), cls the class of an object.                *)
(***************************************************************************)
EXTENDS Integers

CONSTANT ParentOf

Value(t, v, cls) == [t |-> t, v |-> v, cls |-> cls]
IntVal(n)   == Value("int", n, "")
BoolVal(b)  == Value("int", IF b THEN 1 ELSE 0, "")
FloatVal(n) == Value("float", n, "")
StrVal(n)   == Value("string", n, "")
ArrayVal(n) == Value("array", n, "")
ItemVal(k)  == Value("item", k, "")
Object(k)   == Value("object", 0, k)
Null        == Value("null", 0, "")
\* what an earlier frame left in a slot
Stale       == Value("stale", 0, "")

\* the walk up parent_index
RECURSIVE IsClass(_, _)
IsClass(cls, name) == cls = name \/ (cls \in DOMAIN ParentOf /\ IsClass(ParentOf[cls], name))
=============================================================================
