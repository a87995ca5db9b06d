----------------------------- MODULE ClassLayout -----------------------------
(***************************************************************************)
(* The ClassDefs that the first pass of compile_staged registers           *)
(* (source/compiler/compiler.c): where a class keeps the members it        *)
(* inherits, and where its own.                                            *)
(*                                                                         *)
(* Defs is the module's table of classes.                                  *)
(***************************************************************************)
EXTENDS NamedLists

CONSTANTS MaxFields, MaxMethods, Defs

NoClass == [fields |-> <<>>, methods |-> <<>>, ctor |-> "", parent |-> "", params |-> <<>>]

(***************************************************************************)
(* The parent's members, copied                                            *)
(***************************************************************************)
\* a member whose type is one of the parent's parameters gets the argument's kind
Concrete(type, params, args) ==
    IF type.k = "param" /\ type.n \in DOMAIN Bind(params, args) THEN Bind(params, args)[type.n] ELSE type

CopyFields(parent, args) ==
    [i \in DOMAIN parent.fields |-> [parent.fields[i] EXCEPT !.type = Concrete(@, parent.params, args)]]
CopyMethods_None(parent, args) == <<>>
CopyMethods(parent, args) ==
    [i \in DOMAIN parent.methods |-> [parent.methods[i] EXCEPT !.ret = Concrete(@, parent.params, args)]]

Inherit(defs, class) ==
    IF class.parent \notin DOMAIN defs THEN [NoClass EXCEPT !.params = class.tparams]
    ELSE LET parent == defs[class.parent] IN
         [NoClass EXCEPT !.fields = CopyFields(parent, class.pargs),
                         !.methods = CopyMethods(parent, class.pargs),
                         !.ctor = parent.ctor, !.parent = class.parent, !.params = class.tparams]

(***************************************************************************)
(* The class's own members                                                 *)
(***************************************************************************)
\* one past the slot of the last instance field, as the fields are listed
NextSlot_OwnOnly(fields) == 0
NextSlot(fields) ==
    LET instance == {i \in DOMAIN fields : fields[i].slot >= 0} IN
    IF instance = {} THEN 0 ELSE fields[Max(instance)].slot + 1

\* an own field is appended, whatever was inherited under its name
Slot(fields, f) == IF f.static THEN -1 ELSE NextSlot(fields)
FullOfFields(def) == Len(def.fields) >= MaxFields
AddField(def, f) ==
    IF FullOfFields(def) THEN def
    ELSE [def EXCEPT !.fields = Append(@, [name |-> f.name, type |-> f.type, static |-> f.static,
                                           slot |-> Slot(@, f)])]

\* an own method takes the place of an inherited one
Entry(cls, m) == [name |-> m.name, owner |-> cls, static |-> m.static, ret |-> m.ret]
AddMethod_Appends(cls, def, m) == [def EXCEPT !.methods = Append(@, Entry(cls, m))]
FullOfMethods(def, m) == ~Has(def.methods, m.name) /\ Len(def.methods) >= MaxMethods
AddMethod(cls, def, m) ==
    IF Has(def.methods, m.name) THEN [def EXCEPT !.methods[FirstAt(def.methods, m.name)] = Entry(cls, m)]
    ELSE IF FullOfMethods(def, m) THEN def
    ELSE [def EXCEPT !.methods = Append(@, Entry(cls, m))]

(***************************************************************************)
(* What the code generator looks up, -1 for what there is not              *)
(***************************************************************************)
FieldIndex(cls, name) ==
    IF cls \in DOMAIN Defs /\ Has(Defs[cls].fields, name) THEN FirstAt(Defs[cls].fields, name) - 1 ELSE -1
\* a static field has the slot -1
InstanceSlot(cls, name) ==
    IF FieldIndex(cls, name) < 0 THEN -1 ELSE Get(Defs[cls].fields, name).slot
\* -1: no truncation
FieldKind(cls, name) ==
    IF FieldIndex(cls, name) < 0 THEN "" ELSE Get(Defs[cls].fields, name).type.k
MethodSlot(cls, name) ==
    IF cls \in DOMAIN Defs /\ Has(Defs[cls].methods, name) THEN FirstAt(Defs[cls].methods, name) - 1 ELSE -1
=============================================================================
