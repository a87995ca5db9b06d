------------------------------ MODULE Opcodes ------------------------------
(***************************************************************************)
(* Every opcode's effect on the value stack, twice: what xeno_execute does *)
(* (source/vm/vm.c) and what ver_chunk takes it to do                      *)
(* (source/compiler/xbc.c, the switches of pass 3).  The other modules     *)
(* speak of classes of opcodes and take the two to be one; this module     *)
(* says for which opcodes they are.                                        *)
(*                                                                         *)
(* n is the count an opcode carries: arguments or elements.  NEW has a     *)
(* second form, NEW_PLAIN, for a class without a constructor.              *)
(***************************************************************************)
EXTENDS Bytecode

(***************************************************************************)
(* The machine's cases                                                     *)
(***************************************************************************)
Constants  == {"LOAD_CONST_INT", "LOAD_CONST_FLOAT", "LOAD_CONST_BOOL", "LOAD_CONST_STR",
               "LOAD_LOCAL"}
IntArith   == {"ADD_INT", "SUB_INT", "MUL_INT", "DIV_INT", "MOD_INT"}
FloatArith == {"ADD_FLOAT", "SUB_FLOAT", "MUL_FLOAT", "DIV_FLOAT", "MOD_FLOAT"}
Negations  == {"NEGATE_INT", "NEGATE_FLOAT", "NOT_BOOL"}
Logic      == {"AND_BOOL", "OR_BOOL"}
IntOrder   == {"CMP_EQ_INT", "CMP_NEQ_INT", "CMP_LT_INT", "CMP_LTE_INT", "CMP_GT_INT", "CMP_GTE_INT"}
FloatOrder == {"CMP_EQ_FLOAT", "CMP_NEQ_FLOAT", "CMP_LT_FLOAT", "CMP_LTE_FLOAT", "CMP_GT_FLOAT",
               "CMP_GTE_FLOAT"}
Equality   == {"CMP_EQ_BOOL", "CMP_NEQ_BOOL", "CMP_EQ_STR", "CMP_NEQ_STR"}
Generic    == {"CMP_EQ_VAL", "CMP_NEQ_VAL"}
Truncation == {"TRUNC_I8", "TRUNC_U8", "TRUNC_I16", "TRUNC_U16", "TRUNC_I32", "TRUNC_U32",
               "TRUNC_U64", "TRUNC_CHAR", "I2F", "F2I"}
Casts      == {"IS_TYPE", "AS_TYPE"}
Records    == {"FIELD_PROP", "METHOD_PROP", "PARAM_PROP"}
Lookups    == {"TYPE_GET_FIELD", "TYPE_GET_METHOD", "METHOD_PARAM_AT"}
Branches   == {"JUMP_IF_FALSE", "JUMP_IF_TRUE"}
Delegates  == {"EVENT_SUBSCRIBE_BOUND", "EVENT_UNSUBSCRIBE_BOUND"}
\* the machine has no case for these; the compiler never emits them
Members    == {"EVENT_SUBSCRIBE_MEMBER", "EVENT_UNSUBSCRIBE_MEMBER", "EVENT_FIRE_MEMBER"}

\* POPs and PUSHes of a case of xeno_execute that runs to its end; a call's
\* PUSH is the one its callee's return makes
Pushing == Constants \cup {"LOAD_THIS", "LOAD_STATIC", "LOAD_EXCEPTION", "EXCEPTION_IS_TYPE", "PUSH_NULL"}
OneForOne == Negations \cup Truncation \cup Casts \cup Records
             \cup {"TO_STR", "TYPEOF", "TYPE_FIELD", "TYPE_NAMES", "IS_NULL", "NULL_ASSERT",
                   "NEW_ARRAY", "ARRAY_LEN", "GET_FIELD"}
TwoForOne == IntArith \cup FloatArith \cup Logic \cup IntOrder \cup FloatOrder \cup Equality
             \cup Generic \cup Lookups
             \cup {"CONCAT_STR", "ARRAY_GET", "TYPE_HAS_ATTR", "TYPE_IS_ASSIGNABLE", "TYPE_IS_INSTANCE"}
Dropping  == Branches \cup Delegates \cup {"STORE_LOCAL", "STORE_STATIC", "POP", "RETURN", "THROW"}
Neutral   == {"JUMP", "RETURN_VOID", "MATCH_FAIL", "TRY_BEGIN", "TRY_END",
              "EVENT_SUBSCRIBE", "EVENT_UNSUBSCRIBE"}
Calls     == {"CALL", "CALL_STATIC", "CALL_HOST", "NEW", "ARRAY_LIT"}
Dispatch  == {"CALL_METHOD", "CALL_IFACE"}
Voids     == {"CALL_SUPER", "EVENT_FIRE"}

Emitted == Pushing \cup OneForOne \cup TwoForOne \cup Dropping \cup Neutral \cup Calls \cup Dispatch
           \cup Voids \cup {"NEW_PLAIN", "SET_FIELD", "ARRAY_SET", "TYPE_GET_ATTR_ARG"}

Effect(takes, leaves) == [takes |-> takes, leaves |-> leaves]

Machine(o, n) ==
    CASE o \in Pushing   -> Effect(0, 1)
      [] o \in OneForOne -> Effect(1, 1)
      [] o \in TwoForOne -> Effect(2, 1)
      [] o \in Dropping  -> Effect(1, 0)
      [] o \in Neutral   -> Effect(0, 0)
      [] o \in Calls     -> Effect(n, 1)
      [] o \in Dispatch  -> Effect(n + 1, 1)
      [] o \in Voids     -> Effect(n, 0)
      [] o = "SET_FIELD" -> Effect(2, 0)
      [] o = "ARRAY_SET" -> Effect(3, 0)
      [] o = "TYPE_GET_ATTR_ARG" -> Effect(3, 1)
      \* the arguments stay on the stack, under the object
      [] o = "NEW_PLAIN" -> Effect(0, 1)

(***************************************************************************)
(* The verifier's tables                                                   *)
(***************************************************************************)
\* the switch that sets delta, by its larger groups
Grow_TakesNull == Constants \cup {"LOAD_THIS", "LOAD_EXCEPTION", "PUSH_NULL", "LOAD_STATIC", "TYPEOF",
                                  "EXCEPTION_IS_TYPE", "IS_NULL"}
Grow == Constants \cup {"LOAD_THIS", "LOAD_EXCEPTION", "PUSH_NULL", "LOAD_STATIC", "TYPEOF",
                        "EXCEPTION_IS_TYPE"}

Paired == IntArith \cup FloatArith \cup Logic \cup IntOrder \cup FloatOrder \cup Equality \cup Generic
          \cup {"CONCAT_STR", "ARRAY_GET", "TYPE_IS_INSTANCE", "TYPE_IS_ASSIGNABLE", "TYPE_HAS_ATTR"}

Consumers == Branches \cup Delegates \cup (Members \ {"EVENT_FIRE_MEMBER"})
             \cup {"STORE_LOCAL", "STORE_STATIC", "POP", "RETURN", "THROW"}

\* a call, its arguments and its result
CallChange_NoResult(n) == -n
CallChange(n) == 1 - n

\* this, under the arguments
WithReceiver_ArgsOnly(n) == n
WithReceiver(n) == n + 1

Change(o, n) ==
    CASE o \in Grow -> 1
      [] o \in Calls \cup {"NEW_PLAIN"} -> CallChange(n)
      [] o \in Dispatch -> 1 - WithReceiver(n)
      [] o \in Voids -> -n
      [] o = "EVENT_FIRE_MEMBER" -> -WithReceiver(n)
      [] o \in Paired \cup Consumers -> -1
      [] o \in {"SET_FIELD", "TYPE_GET_ATTR_ARG"} -> -2
      [] o = "ARRAY_SET" -> -3
      [] OTHER -> 0

\* the switch that sets pops, and the lower bound delta gives before it
Needs(o, n) ==
    CASE o \in Paired \cup {"SET_FIELD"} -> 2
      [] o \in {"ARRAY_SET", "TYPE_GET_ATTR_ARG"} -> 3
      [] o \in Consumers \cup Negations \cup Truncation \cup Casts \cup Records \cup Lookups
               \cup {"GET_FIELD", "ARRAY_LEN", "TYPE_FIELD", "TYPE_NAMES", "IS_NULL", "TO_STR",
                     "NULL_ASSERT", "NEW_ARRAY"} -> 1
      [] o \in Calls \cup Voids \cup {"NEW_PLAIN"} -> n
      [] o \in Dispatch \cup {"EVENT_FIRE_MEMBER"} -> WithReceiver(n)
      [] OTHER -> IF Change(o, n) < 0 THEN -Change(o, n) ELSE 0

(***************************************************************************)
(* The class of an opcode, as far as control flow goes.                    *)
(***************************************************************************)
Class(o) ==
    CASE o = "JUMP"        -> "jump"
      [] o \in Branches    -> "branch"
      [] o = "RETURN"      -> "ret"
      [] o = "RETURN_VOID" -> "retvoid"
      [] o = "THROW"       -> "throw"
      [] o = "MATCH_FAIL"  -> "fail"
      [] o = "TRY_BEGIN"   -> "try"
      [] o = "TRY_END"     -> "endtry"
      [] OTHER             -> "plain"

\* the instruction as ver_chunk sees it
Seen(o, n, to) == [op |-> Class(o), pops |-> Needs(o, n), pushes |-> Change(o, n) + Needs(o, n),
                   to |-> to, name |-> o, argc |-> n]

(***************************************************************************)
(* Opcodes whose two effects differ                                        *)
(***************************************************************************)
Miscounted == {"TYPEOF", "NEW_PLAIN"} \cup Lookups
=============================================================================
