----------------------------- MODULE RuntimePool -----------------------------
(***************************************************************************)
(* The run-time constant pool: VMConstantPool::from_unresolved and the     *)
(* lookups in it (src/src/vm/class.rs, and get_class_or_load_by_ref to     *)
(* get_field_or_resolve in src/src/vm/mod.rs).  The table of the class     *)
(* file is translated entry by entry, in order, and every entry that       *)
(* others refer to is checked on the way; the lookups rely on that and     *)
(* panic where it was not done.  Program completes the specification.      *)
(*                                                                         *)
(* What a lookup asks the class loader for is what it found: the name of a *)
(* class, or a member of one.  ClassLoader and ClassLayout have the rest,  *)
(* and the caches (OnceLock), which always hold the same answer, are left  *)
(* out.                                                                    *)
(***************************************************************************)
EXTENDS ClassFile

VARIABLE entries    \* the entries translated so far, like the table's

\* What the class inherits from java/lang/Object.
ObjectInit == [name |-> <<"<init>">>, descriptor |-> <<"(", ")", "V">>]

-----------------------------------------------------------------------------
(* from_unresolved *)

(* Methodref and Fieldref: a class with a name, and a name and type.       *)
MemberGood(entry) ==
    /\ IsClass(entry.at[1])
    /\ At(entry.at[2]).tag = "NameAndType"
    /\ IsUtf8(At(entry.at[1]).at[1])
    /\ \A i \in 1..2 : IsUtf8(At(entry.at[2]).at[i])

IsArrayName(name) == name # <<>> /\ Head(name) = "["

ArrayGood(name) == ArrayClass(name).element # NoField

\* Mutation: the descriptor is not looked at.
LinksUndescribed(entry) ==
    CASE entry.tag = "NameAndType" -> IsUtf8(entry.at[1])
      [] entry.tag = "Class" ->
             /\ IsUtf8(entry.at[1])
             /\ IsArrayName(Text(entry.at[1])) => ArrayGood(Text(entry.at[1]))
      [] entry.tag \in {"Methodref", "Fieldref"} ->
             IsClass(entry.at[1]) /\ At(entry.at[2]).tag = "NameAndType"
      [] OTHER -> TRUE

\* Mutation: an entry may only refer to entries before it.
LinksBackward(entry) ==
    /\ entry.tag \in {"Methodref", "Fieldref"} => MemberGood(entry)
    /\ \A i \in DOMAIN entry.at : entry.at[i] < Len(entries)

\* The checks: the first that fails is an error for the whole class.
Links(entry) ==
    CASE entry.tag = "NameAndType" -> IsUtf8(entry.at[1]) /\ IsUtf8(entry.at[2])
      [] entry.tag = "Class" ->
             /\ IsUtf8(entry.at[1])
             /\ IsArrayName(Text(entry.at[1])) => ArrayGood(Text(entry.at[1]))
      [] entry.tag \in {"Methodref", "Fieldref"} -> MemberGood(entry)
      [] OTHER -> TRUE

LinkedArray(entry) ==
    LET array == ArrayClass(Text(entry.at[1])) IN
    CASE array.element.kind # "object" ->
             [tag |-> "PrimitiveArray", at |-> <<array.dimensions>>, text |-> <<array.element.char>>]
      [] array.element.kind = "object" /\ array.element.class = thisName ->
             Entry("ResolvedClassArray", <<array.dimensions>>)
      [] OTHER -> Entry("ClassArray", <<entry.at[1], array.dimensions>>)

\* Mutation: only the name is compared, not the descriptor.
MemberByName(members, nameAndType) ==
    SelectInSeq(members, LAMBDA m : m.name = Text(nameAndType.at[1]))

\* The first member of that name and descriptor; 0 if there is none.
Member(members, nameAndType) ==
    SelectInSeq(members, LAMBDA m : m.name = Text(nameAndType.at[1])
                                 /\ m.descriptor = Text(nameAndType.at[2]))

OwnMethods == Append(methods, ObjectInit)    \* own methods override

(* A member of the class itself is found at once, by its place.            *)
LinkedMember(entry, members, resolved) ==
    LET place == Member(members, At(entry.at[2])) IN
    IF Text(At(entry.at[1]).at[1]) = thisName /\ place # 0
    THEN Entry(resolved, <<place>>)
    ELSE entry

Kept == {"Utf8", "NameAndType", "Integer", "Float", "Long", "Double"}

Linked(entry) ==
    CASE entry.tag \in Kept -> entry
      [] entry.tag = "Class" /\ IsArrayName(Text(entry.at[1])) -> LinkedArray(entry)
      [] entry.tag = "Class" /\ ~IsArrayName(Text(entry.at[1])) -> entry
      [] entry.tag = "Methodref" -> LinkedMember(entry, OwnMethods, "ResolvedMethod")
      [] entry.tag = "Fieldref" -> LinkedMember(entry, fields, "ResolvedField")
      [] OTHER -> Unusable    \* String, InterfaceMethodref, InvokeDynamic, ..

LinkEntry ==
    /\ status = "linking"
    /\ Len(entries) < Len(pool)
    /\ LET entry == pool[Len(entries) + 1] IN
       IF Links(entry)
       THEN entries' = Append(entries, Linked(entry)) /\ UNCHANGED status
       ELSE status' = "rejected" /\ UNCHANGED entries
    /\ UNCHANGED <<file, count, input, pool, index, original, classVars>>

Linking ==
    /\ status = "linking"
    /\ Len(entries) = Len(pool)
    /\ status' = "linked"
    /\ UNCHANGED <<file, count, input, pool, index, original, classVars, entries>>

LinkNext == LinkEntry \/ Linking

-----------------------------------------------------------------------------
(* The lookups.  An answer has a meaning, or is an error or a panic.       *)
Answer(meaning) == [is |-> "answer", meaning |-> meaning]
InvalidConstantPoolEntry == [is |-> "error"]
Panic == [is |-> "panic"]

GetEntry(i) == IF i + 1 \in DOMAIN entries THEN entries[i + 1] ELSE Unusable

\* get_class and get_class_or_load_by_ref
GetClass(i) ==
    CASE GetEntry(i).tag # "Class" -> InvalidConstantPoolEntry
      [] GetEntry(i).tag = "Class" /\ GetEntry(GetEntry(i).at[1]).tag # "Utf8" -> Panic
      [] OTHER -> Answer(GetEntry(GetEntry(i).at[1]).text)

(* get_class_or_array_by_ref.  The name of the class of an array is taken  *)
(* from the descriptor once more.                                          *)
GetClassOrArray(i) ==
    LET entry == GetEntry(i) IN
    CASE entry.tag = "PrimitiveArray" ->
             Answer([dimensions |-> entry.at[1], base |-> [primitive |-> entry.text]])
      [] entry.tag = "ClassArray" ->
             LET name == GetEntry(entry.at[1])
                 element == ArrayClass(name.text).element
             IN  IF name.tag # "Utf8" \/ element.kind # "object" THEN Panic
                 ELSE Answer([dimensions |-> entry.at[2], base |-> [class |-> element.class]])
      [] OTHER -> GetClass(i)

(* get_name_and_type, then the class, which is an error for an array.      *)
GetMember(i, unresolved) ==
    LET entry == GetEntry(i)
        nameAndType == GetEntry(entry.at[2])
        class == GetClass(entry.at[1])
        Named(n) == GetEntry(nameAndType.at[n])
    IN  CASE entry.tag # unresolved -> InvalidConstantPoolEntry
          [] entry.tag = unresolved
                 /\ (nameAndType.tag # "NameAndType" \/ \E n \in 1..2 : Named(n).tag # "Utf8") -> Panic
          [] OTHER -> IF class.is # "answer" THEN class
                      ELSE Answer([class |-> class.meaning,
                                   name |-> Named(1).text, descriptor |-> Named(2).text])

Own(member) == Answer([class |-> thisName, name |-> member.name, descriptor |-> member.descriptor])

\* get_method_or_resolve
GetMethod(i) ==
    IF GetEntry(i).tag = "ResolvedMethod" THEN Own(OwnMethods[GetEntry(i).at[1]])
    ELSE GetMember(i, "Methodref")

(* get_field_or_resolve.  The field of another class is looked for by its  *)
(* name alone.                                                             *)
Undescribed(member) == [class |-> member.class, name |-> member.name]

GetField(i) ==
    LET found == IF GetEntry(i).tag = "ResolvedField" THEN Own(fields[GetEntry(i).at[1]])
                 ELSE GetMember(i, "Fieldref")
    IN  IF found.is = "answer" THEN Answer(Undescribed(found.meaning)) ELSE found

\* The constants of ldc, or of ldc2_w.
GetConstant(i, tags) ==
    IF GetEntry(i).tag \in tags THEN Answer(GetEntry(i)) ELSE InvalidConstantPoolEntry

-----------------------------------------------------------------------------
(* What the class file says at an index, read off the file itself.         *)

Blank == Entry("blank", <<>>)

\* The entry that has index i in the class file.
Filed(i) ==
    LET there == {n \in DOMAIN file.stream : IndexOf(file.stream, n) = i} IN
    IF i < file.count /\ there # {} THEN file.stream[CHOOSE n \in there : TRUE] ELSE Blank

FiledText(i) == Filed(i).text

\* An array class is one of the types the compiler wrote down.
FiledArray(i) == CHOOSE type \in ToSet(file.types) : TypeText(type) = FiledText(i)

BaseMeaning(base) ==
    IF Head(base) = "L" THEN [class |-> SubSeq(base, 2, Len(base) - 1)] ELSE [primitive |-> base]

FiledMember(entry) ==
    [class |-> FiledText(Filed(entry.at[1]).at[1]),
     name |-> FiledText(Filed(entry.at[2]).at[1]),
     descriptor |-> FiledText(Filed(entry.at[2]).at[2])]

\* A class has one field of a name.
FiledMeaning(op, i) ==
    LET entry == Filed(i) IN
    CASE op = "class" /\ ~IsArrayName(FiledText(entry.at[1])) -> FiledText(entry.at[1])
      [] op = "class" /\ IsArrayName(FiledText(entry.at[1])) ->
             [dimensions |-> FiledArray(entry.at[1]).dimensions,
              base |-> BaseMeaning(FiledArray(entry.at[1]).base)]
      [] op = "constant" -> entry
      [] op = "method" -> FiledMember(entry)
      [] op = "field" -> Undescribed(FiledMember(entry))

(* A constant refers to constants of the right kinds, anywhere in the      *)
(* table; a bracket begins the name of an array type.                      *)
Refers(tag, at) == Filed(at).tag = tag

WellFormedEntry(entry) ==
    /\ entry # Bad
    /\ entry.tag \in {"Class", "NameAndType"} => \A i \in ToSet(entry.at) : Refers("Utf8", i)
    /\ entry.tag = "Class" /\ IsArrayName(FiledText(entry.at[1]))
           => \E type \in ToSet(file.types) : TypeText(type) = FiledText(entry.at[1])
    /\ entry.tag \in {"Methodref", "Fieldref"} =>
           Refers("Class", entry.at[1]) /\ Refers("NameAndType", entry.at[2])

WellFormedFile ==
    /\ Fills(Len(file.stream), file.stream, file.count)
    /\ \A n \in DOMAIN file.stream : WellFormedEntry(file.stream[n])
    /\ file.body.complete
    /\ \A i \in {file.body.this, file.body.super} :
           Refers("Class", i) /\ ~IsArrayName(FiledText(Filed(i).at[1]))
    /\ \A n \in DOMAIN file.body.methods : \A i \in ToSet(file.body.methods[n].at) : Refers("Utf8", i)
    /\ \A n \in DOMAIN file.body.fields : \A i \in ToSet(file.body.fields[n].at) : Refers("Utf8", i)

-----------------------------------------------------------------------------
(* Properties. *)

(* A class file as a compiler writes it is linked: an entry may refer to   *)
(* others before or behind it, and behind a long or double, and none of   *)
(* the many checks on the way, in the parser and in from_unresolved,       *)
(* stumbles over it.  (The attributes have to be sound.)                   *)
AttributesGood ==
    /\ AllGood(file.body.attributes)
    /\ \A n \in DOMAIN file.body.methods : MethodGood(file.body.methods[n])
    /\ \A n \in DOMAIN file.body.fields : AllGood(file.body.fields[n].attributes)

WellFormedLinks == (status = "rejected" /\ WellFormedFile) => ~AttributesGood
=============================================================================
