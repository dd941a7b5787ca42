---------------------------- MODULE ClassLayout ----------------------------
(***************************************************************************)
(* Method tables and field layout: VMClass::create in src/src/vm/class.rs, *)
(* and the instructions that look methods and fields up by reference in    *)
(* src/src/vm/mod.rs.                                                      *)
(*                                                                         *)
(* Classes are created one below the other: chain[1] is java/lang/Object   *)
(* and the superclass of chain[i] is chain[i-1].  A method stands for its  *)
(* name and descriptor; a field has a name and a width, which stands for   *)
(* its descriptor.  Resolution is cached in OnceLocks, and always to the   *)
(* same value, since classes never change: the caches are left out.        *)
(***************************************************************************)
EXTENDS Naturals, Sequences, FiniteSets, FiniteSetsExt, SequencesExt

CONSTANTS
    Method,      \* names (and descriptors) of methods
    Ctor,        \* <init>()V, the one method of java/lang/Object
    Field,       \* names of fields
    MaxChain,    \* bound: classes below java/lang/Object
    MaxMembers   \* bound: methods and fields in a class file

ASSUME MethodAssumption == Ctor \in Method
ASSUME BoundAssumption == MaxChain \in Nat /\ MaxMembers \in Nat

VARIABLES
    chain,       \* the classes created so far, each below the one before
    last         \* what the last instruction ran or accessed

vars == <<chain, last>>

\* slot_count: 2 for long and double
Width == {1, 2}

MethodInfo == [name : Method, static : BOOLEAN]
FieldInfo == [name : Field, width : Width, static : BOOLEAN]

\* A compiled class file names no method twice and no field twice.
MethodFiles ==
    {s \in BoundedSeq(MethodInfo, MaxMembers) : \A i, j \in DOMAIN s : s[i].name = s[j].name => i = j}
FieldFiles ==
    {s \in BoundedSeq(FieldInfo, MaxMembers) : \A i, j \in DOMAIN s : s[i].name = s[j].name => i = j}

\* VMMethod: idx is its place in its table; owner declares it.
VMMethod == [idx : Nat, name : Method, owner : Nat]

\* VMField: off is FieldData::Normal(off).
VMField == [idx : Nat, name : Field, width : Width, static : BOOLEAN, off : Nat, owner : Nat]

VMClass == [vtable : Seq(VMMethod), statics : Seq(VMMethod), fields : Seq(VMField)]

Nothing == [kind |-> "none"]

JavaLangObject ==
    [vtable |-> <<[idx |-> 0, name |-> Ctor, owner |-> 1]>>, statics |-> <<>>, fields |-> <<>>]

Init ==
    /\ chain = <<JavaLangObject>>
    /\ last = Nothing

-----------------------------------------------------------------------------
(* VMClass::create *)

MethodAt(table, name) == SelectInSeq(table, LAMBDA m : m.name = name)

\* Mutation: methods are numbered as in the class file.
AddMethodRenumbered(owner, class, meth) ==
    LET place == MethodAt(class.vtable, meth.name)
        own == Cardinality({i \in DOMAIN class.vtable : class.vtable[i].owner = owner})
        entry(i) == [idx |-> i, name |-> meth.name, owner |-> owner]
    IN  IF meth.static
        THEN [class EXCEPT !.statics = Append(@, entry(Len(@)))]
        ELSE IF place = 0
        THEN [class EXCEPT !.vtable = Append(@, entry(own))]
        ELSE [class EXCEPT !.vtable[place] = entry(own)]

(* A static method goes to static_vtable; another one replaces the entry   *)
(* that the superclass has for it, or is new.                              *)
AddMethod(owner, class, meth) ==
    LET place == MethodAt(class.vtable, meth.name)
        entry(i) == [idx |-> i, name |-> meth.name, owner |-> owner]
    IN  IF meth.static
        THEN [class EXCEPT !.statics = Append(@, entry(Len(@)))]
        ELSE IF place = 0
        THEN [class EXCEPT !.vtable = Append(@, entry(Len(@)))]
        ELSE [class EXCEPT !.vtable[place] = entry(place - 1)]

\* The instance fields of a table, in order.
Instance(fields) ==
    LET instance[i \in 0..Len(fields)] ==
            IF i = 0 THEN <<>>
            ELSE IF fields[i].static THEN instance[i - 1]
            ELSE Append(instance[i - 1], fields[i])
    IN  instance[Len(fields)]

\* Mutation: the next offset ignores the width of the field before it.
NextOffsetNarrow(fields) ==
    IF Instance(fields) = <<>> THEN 0 ELSE Last(Instance(fields)).off + 1

\* curr_off: after the last instance field.
NextOffset(fields) ==
    IF Instance(fields) = <<>>
    THEN 0
    ELSE Last(Instance(fields)).off + Last(Instance(fields)).width

\* Mutation: idx counts the fields of the file from one.
AddFieldFromOne(owner, class, f, i) ==
    [class EXCEPT !.fields = Append(@,
        [idx |-> i, name |-> f.name, width |-> f.width, static |-> f.static,
         off |-> IF f.static THEN 0 ELSE NextOffset(@), owner |-> owner])]

(* The i-th field of the class file: idx counts from the start of the file *)
(* and not from the start of the table.                                    *)
AddField(owner, class, f, i) ==
    [class EXCEPT !.fields = Append(@,
        [idx |-> i - 1, name |-> f.name, width |-> f.width, static |-> f.static,
         off |-> IF f.static THEN 0 ELSE NextOffset(@), owner |-> owner])]

\* Mutation: a class starts without the instance fields of its superclass.
InheritNoFields(super) == [super EXCEPT !.statics = <<>>, !.fields = <<>>]

\* The superclass's vtable and instance fields, each with its old idx.
Inherit(super) == [super EXCEPT !.statics = <<>>, !.fields = Instance(@)]

WithMethods(owner, super, methods) ==
    LET class[i \in 0..Len(methods)] ==
            IF i = 0 THEN Inherit(super) ELSE AddMethod(owner, class[i - 1], methods[i])
    IN  class[Len(methods)]

WithFields(owner, start, fields) ==
    LET class[i \in 0..Len(fields)] ==
            IF i = 0 THEN start ELSE AddField(owner, class[i - 1], fields[i], i)
    IN  class[Len(fields)]

NewClass(owner, super, methods, fields) ==
    WithFields(owner, WithMethods(owner, super, methods), fields)

(* The compiler's rule: a static method and an instance method of one name *)
(* and descriptor never meet in a class and its superclasses.              *)
Compiles(methods) ==
    \A i \in DOMAIN methods :
        IF methods[i].static
        THEN MethodAt(Last(chain).vtable, methods[i].name) = 0 /\ methods[i].name # Ctor
        ELSE \A c \in DOMAIN chain : MethodAt(chain[c].statics, methods[i].name) = 0

Create(methods, fields) ==
    /\ Len(chain) <= MaxChain
    /\ Len(methods) + Len(fields) <= MaxMembers
    /\ Compiles(methods)
    /\ chain' = Append(chain, NewClass(Len(chain) + 1, Last(chain), methods, fields))
    /\ last' = Nothing

-----------------------------------------------------------------------------
(* Resolution. *)

\* method_by_name: the vtable first, then the static methods.
MethodByName(class, name) ==
    LET all == class.vtable \o class.statics
        place == MethodAt(all, name)
    IN  IF place = 0 THEN Nothing
        ELSE [kind |-> IF place <= Len(class.vtable) THEN "vtable" ELSE "static",
              idx |-> all[place].idx]

\* method_by_id
MethodById(class, id) ==
    IF id.kind = "vtable" THEN class.vtable[id.idx + 1] ELSE class.statics[id.idx + 1]

\* The classes in which get_method_or_resolve may find the method.
MethodHolder(root, name) ==
    {c \in 1..root : MethodByName(chain[c], name) # Nothing}

\* The nearest one that the search from root meets.
ResolveMethod(root, name) == Max(MethodHolder(root, name))

-----------------------------------------------------------------------------
(* Invocations of method `name' by reference to class root. *)

Ran(root, name, receiver, pool, method) ==
    [kind |-> "method", root |-> root, name |-> name, receiver |-> receiver,
     pool |-> pool, owner |-> method.owner, found |-> method.name]

\* InvokeStatic and InvokeSpecial: run with the class the search ended in.
InvokeStatic(root, name) ==
    /\ MethodHolder(root, name) # {}
    /\ LET class == ResolveMethod(root, name)
           method == MethodById(chain[class], MethodByName(chain[class], name))
       IN  last' = Ran(root, name, root, class, method)
    /\ UNCHANGED chain

\* Mutation: the method that was resolved is run, whatever the receiver is.
InvokeVirtualStatically(root, name, receiver) ==
    /\ MethodHolder(root, name) # {}
    /\ LET class == ResolveMethod(root, name)
           method == MethodById(chain[class], MethodByName(chain[class], name))
       IN  /\ MethodByName(chain[class], name).kind = "vtable"
           /\ last' = Ran(root, name, receiver, class, method)
    /\ UNCHANGED chain

(* InvokeVirtual: the method is searched for again, by name, in the class  *)
(* of the receiver, and run with that class.                               *)
InvokeVirtual(root, name, receiver) ==
    /\ MethodHolder(root, name) # {}
    /\ LET class == ResolveMethod(root, name)
           method == MethodById(chain[class], MethodByName(chain[class], name))
           again == MethodAt(chain[receiver].vtable, method.name)
       IN  /\ MethodByName(chain[class], name).kind = "vtable"
           /\ last' = Ran(root, name, receiver, receiver, chain[receiver].vtable[again])
    /\ UNCHANGED chain

-----------------------------------------------------------------------------
(* Accesses to fields: a class refers to field (name, width) of class root. *)

\* field_by_name: the type of the field is not looked at.
FieldByName(class, name) == SelectInSeq(class.fields, LAMBDA f : f.name = name)

FieldByNameAndType(class, name, width) ==
    SelectInSeq(class.fields, LAMBDA f : f.name = name /\ f.width = width)

FieldHolder(root, name) == {c \in 1..root : FieldByName(chain[c], name) # 0}

Accessed(root, name, width, class, idx) ==
    [kind |-> "field", root |-> root, name |-> name, width |-> width,
     got |-> IF idx < Len(chain[class].fields) THEN chain[class].fields[idx + 1] ELSE Nothing]

(* get_field_or_resolve and field_by_idx.  A reference to a field of the   *)
(* class's own is resolved when the class is created, by name and type.    *)
AccessField(here, root, name, width) ==
    LET own == FieldByNameAndType(chain[root], name, width) IN
    /\ IF here = root /\ own # 0
       THEN last' = Accessed(root, name, width, root, chain[root].fields[own].idx)
       ELSE /\ FieldHolder(root, name) # {}
            /\ LET class == Max(FieldHolder(root, name))
                   place == FieldByName(chain[class], name)
               IN  last' = Accessed(root, name, width, class, chain[class].fields[place].idx)
    /\ UNCHANGED chain

(* What the program means by a field of class root: the nearest class that *)
(* declares the name, the one the compiler saw.                            *)
Declaring(root, name) ==
    {c \in 1..root : \E f \in ToSet(chain[c].fields) : f.name = name /\ f.owner = c}

Meant(root, name) ==
    CHOOSE f \in ToSet(chain[Max(Declaring(root, name))].fields) :
        f.name = name /\ f.owner = Max(Declaring(root, name))

(* Class c itself declares the method. *)
Declares(c, name) ==
    \E m \in ToSet(chain[c].vtable \o chain[c].statics) : m.name = name /\ m.owner = c

Next ==
    \/ \E methods \in MethodFiles, fields \in FieldFiles : Create(methods, fields)
    \/ \E root \in DOMAIN chain, name \in Method :
          \/ /\ name = Ctor => Declares(root, Ctor)   \* constructors are not inherited
             /\ InvokeStatic(root, name)
          \/ /\ name # Ctor
             /\ \E receiver \in root..Len(chain) : InvokeVirtual(root, name, receiver)
    \/ \E here, root \in DOMAIN chain, name \in Field :
          /\ Declaring(root, name) # {}
          /\ AccessField(here, root, name, Meant(root, name).width)

Spec == Init /\ [][Next]_vars

-----------------------------------------------------------------------------
(* Properties. *)

(* The id that a search by name returns leads back to a method of that     *)
(* name, in every class, however its table mixes inherited, overriding and *)
(* new methods: method_by_id(..).unwrap() finds what was resolved.         *)
IdsFindMethods ==
    \A c \in DOMAIN chain, name \in Method :
        LET id == MethodByName(chain[c], name) IN
        id # Nothing =>
            /\ id.idx < Len(IF id.kind = "vtable" THEN chain[c].vtable ELSE chain[c].statics)
            /\ MethodById(chain[c], id).name = name

(* An invocation runs the method of that name which the nearest class at   *)
(* or above the receiver (or, without dispatch, the named class) declares, *)
(* although every class has its own copy of the inherited table.  If it is *)
(* the receiver's own class, it runs with its own constant pool; inherited *)
(* code does not.                                                          *)
SelectsNearest ==
    last.kind = "method" =>
        /\ last.found = last.name
        /\ last.owner = Max({c \in 1..last.receiver : Declares(c, last.name)})
        /\ last.owner = last.receiver => last.pool = last.owner

Slots(f) == f.off..f.off + f.width - 1

\* fields_slots: an object has this many slots.
FieldsSlots(fields) ==
    LET slots[i \in 0..Len(fields)] == IF i = 0 THEN 0 ELSE slots[i - 1] + fields[i].width
    IN  slots[Len(fields)]

(* How an object is laid out.  The slots of two instance fields never      *)
(* overlap, across all the classes the fields come from, and the object is *)
(* allocated with enough of them (fields_slots); and code compiled against *)
(* a class finds its fields at the same offset in an object of a subclass. *)
ObjectLayout ==
    \A c \in DOMAIN chain :
        LET fs == Instance(chain[c].fields)
            size == FieldsSlots(chain[c].fields)
        IN  /\ \A i, j \in DOMAIN fs :
                  /\ Slots(fs[i]) \subseteq 0..size - 1
                  /\ i # j => Slots(fs[i]) \cap Slots(fs[j]) = {}
            /\ \A d \in c..Len(chain), f \in ToSet(fs) :
                  \E g \in ToSet(chain[d].fields) :
                      <<g.name, g.owner, g.off, g.width>> = <<f.name, f.owner, f.off, f.width>>

\* The field an instruction names is the one it accesses (class.rs:467 of
\* the parser: the constant "gives the name and descriptor of the field").
RightField ==
    last.kind = "field" => last.got = Meant(last.root, last.name)

(* As far as the code goes, the same: it is the right one as long as no     *)
(* superclass of the named class has instance fields.                      *)
RightFieldAtRoot ==
    (last.kind = "field" /\ \A c \in 1..last.root - 1 : Instance(chain[c].fields) = <<>>)
        => last.got = Meant(last.root, last.name)

-----------------------------------------------------------------------------
(* The inductive invariant. *)

TypeOK == chain \in Seq(VMClass) /\ chain # <<>>

Names(table) == {table[i].name : i \in DOMAIN table}

\* A method has its own place in its table, and a virtual one the only place.
Placed(class) ==
    /\ \A i \in DOMAIN class.vtable : class.vtable[i].idx = i - 1
    /\ \A i, j \in DOMAIN class.vtable : class.vtable[i].name = class.vtable[j].name => i = j
    /\ \A i \in DOMAIN class.statics : class.statics[i].idx = i - 1

MethodsPlaced == \A c \in DOMAIN chain : Placed(chain[c])

\* Static methods belong to the class, and no instance method has their names.
StaticsApart ==
    \A c \in DOMAIN chain :
        /\ \A i \in DOMAIN chain[c].statics : chain[c].statics[i].owner = c
        /\ \A d \in DOMAIN chain : Names(chain[c].statics) \cap Names(chain[d].vtable) = {}

(* A vtable has all that the superclasses' have, and for each the method   *)
(* that the nearest class declares.                                        *)
VTablesExact ==
    \A c \in DOMAIN chain :
        /\ \A b \in 1..c : Names(chain[b].vtable) \subseteq Names(chain[c].vtable)
        /\ \A i \in DOMAIN chain[c].vtable :
              LET m == chain[c].vtable[i] IN
              /\ m.owner \in 1..c
              /\ Declares(m.owner, m.name)
              /\ \A d \in m.owner + 1..c : ~Declares(d, m.name)

\* Instance fields lie one behind the other, with or without static ones.
Packed(fs) ==
    /\ \A k \in DOMAIN Instance(fs) : Instance(fs)[k].off + Instance(fs)[k].width <= NextOffset(fs)
    /\ \A k, l \in DOMAIN Instance(fs) :
          k < l => Instance(fs)[k].off + Instance(fs)[k].width <= Instance(fs)[l].off
    /\ NextOffset(fs) <= FieldsSlots(fs)
    /\ NextOffset(fs) <= FieldsSlots(Instance(fs))

FieldsPacked == \A c \in DOMAIN chain : Packed(chain[c].fields)

FieldsInherited ==
    \A c \in DOMAIN chain : \A b \in 1..c :
        ToSet(Instance(chain[b].fields)) \subseteq ToSet(Instance(chain[c].fields))

\* Where nothing is inherited, a field's idx is its place.
OwnFieldsPlaced ==
    \A c \in DOMAIN chain :
        (c > 1 => Instance(chain[c - 1].fields) = <<>>) =>
            /\ \A i \in DOMAIN chain[c].fields :
                  chain[c].fields[i].idx = i - 1 /\ chain[c].fields[i].owner = c
            /\ \A i, j \in DOMAIN chain[c].fields :
                  chain[c].fields[i].name = chain[c].fields[j].name => i = j

IInv ==
    /\ TypeOK
    /\ MethodsPlaced
    /\ StaticsApart
    /\ VTablesExact
    /\ FieldsPacked
    /\ FieldsInherited
    /\ OwnFieldsPlaced
    /\ SelectsNearest
    /\ RightFieldAtRoot
=============================================================================
