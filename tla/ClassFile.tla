----------------------------- MODULE ClassFile -----------------------------
(***************************************************************************)
(* The class file behind its constant pool: the rest of                    *)
(* RawClassFile::decode_from and Class::parse                              *)
(* (src/janadinite-parse/src/class/raw.rs and class.rs), which take        *)
(* attributes, methods and fields one after the other and give up at the   *)
(* first error.  Program completes the specification.                      *)
(*                                                                         *)
(* An attribute has the index of its name, says whether its bytes are      *)
(* those of a Code attribute (`sound') and, for one, the names of the      *)
(* attributes inside, which are no Code attributes again.  A method or     *)
(* field has the indices of its name and descriptor; `bodyless' is         *)
(* ACC_NATIVE or ACC_ABSTRACT.                                             *)
(***************************************************************************)
EXTENDS ConstantPool, Descriptors

ASSUME BodyAssumption ==
    \A f \in Files :
        /\ f.types \in Seq(ToSet(f.types)) /\ \A n \in DOMAIN f.types : IsType(f.types[n])
        /\ f.body.complete =>
              /\ f.body.attributes \in Seq(ToSet(f.body.attributes))
              /\ f.body.methods \in Seq(ToSet(f.body.methods))
              /\ f.body.fields \in Seq(ToSet(f.body.fields))
              /\ \A n \in DOMAIN f.body.methods : DOMAIN f.body.methods[n].at = {1, 2}
              /\ \A n \in DOMAIN f.body.fields : DOMAIN f.body.fields[n].at = {1, 2}

VARIABLES
    thisName,
    superName,
    attributes,  \* how many of the class's own have been parsed
    methods,     \* the methods parsed so far
    fields       \* the fields parsed so far

classVars == <<thisName, superName, attributes, methods, fields>>

CodeName == <<"Code">>

ClassInit ==
    /\ thisName = <<>>
    /\ superName = <<>>
    /\ attributes = 0
    /\ methods = <<>>
    /\ fields = <<>>

-----------------------------------------------------------------------------
(* get_const: what the table has at index i, and whether it has a kind of  *)
(* entry there.                                                            *)
At(i) == IF i + 1 \in DOMAIN pool THEN pool[i + 1] ELSE Unusable
IsUtf8(i) == At(i).tag = "Utf8"
Text(i) == At(i).text
IsClass(i) == At(i).tag = "Class"

Reject == status' = "rejected" /\ UNCHANGED classVars

(* The rest of the raw class file is all there, or the reader fails.  (A   *)
(* class that was written again is not parsed again.)                      *)
ReadBody ==
    /\ status = "decoded"
    /\ original = NoFile
    /\ status' = IF file.body.complete /\ input = <<>> THEN "read" ELSE "rejected"
    /\ UNCHANGED <<file, count, input, pool, index, original, classVars>>

\* this_class and super_class are classes with names.
NamesGood ==
    /\ IsClass(file.body.this) /\ IsUtf8(At(file.body.this).at[1])
    /\ IsClass(file.body.super) /\ IsUtf8(At(file.body.super).at[1])

ParseNames ==
    /\ status = "read"
    /\ IF NamesGood
       THEN /\ thisName' = Text(At(file.body.this).at[1])
            /\ superName' = Text(At(file.body.super).at[1])
            /\ status' = "parsing"
            /\ UNCHANGED <<attributes, methods, fields>>
       ELSE Reject
    /\ UNCHANGED <<file, count, input, pool, index, original>>

(* JVMAttribute::parse, with the attributes inside a Code attribute; of    *)
(* any other only the name is looked at.                                   *)
IsCode(attribute) == Text(attribute.name) = CodeName

AttributeGood(attribute) ==
    /\ IsUtf8(attribute.name)
    /\ IsCode(attribute) =>
          attribute.sound /\ \A i \in DOMAIN attribute.inner : IsUtf8(attribute.inner[i])

AllGood(attrs) == \A i \in DOMAIN attrs : AttributeGood(attrs[i])

ParseAttribute ==
    /\ status = "parsing"
    /\ attributes < Len(file.body.attributes)
    /\ IF AttributeGood(file.body.attributes[attributes + 1])
       THEN /\ attributes' = attributes + 1
            /\ UNCHANGED <<status, thisName, superName, methods, fields>>
       ELSE Reject
    /\ UNCHANGED <<file, count, input, pool, index, original>>

AttributesParsed == status = "parsing" /\ attributes = Len(file.body.attributes)

CodeAttributes(method) == {i \in DOMAIN method.attributes : IsCode(method.attributes[i])}

MethodGood(method) ==
    /\ IsUtf8(method.at[1])
    /\ IsUtf8(method.at[2])
    /\ AllGood(method.attributes)
    /\ Cardinality(CodeAttributes(method)) <= (IF method.bodyless THEN 0 ELSE 1)

\* JVMMethod::parse
ParseMethod ==
    /\ AttributesParsed
    /\ Len(methods) < Len(file.body.methods)
    /\ LET method == file.body.methods[Len(methods) + 1] IN
       IF MethodGood(method)
       THEN /\ methods' = Append(methods,
                   [name |-> Text(method.at[1]), descriptor |-> Text(method.at[2]),
                    argsSize |-> ArgsSize(Text(method.at[2])),
                    code |-> CodeAttributes(method) # {}])
            /\ UNCHANGED <<status, thisName, superName, attributes, fields>>
       ELSE Reject
    /\ UNCHANGED <<file, count, input, pool, index, original>>

MethodsParsed == AttributesParsed /\ Len(methods) = Len(file.body.methods)

FieldGood(field) == IsUtf8(field.at[1]) /\ IsUtf8(field.at[2]) /\ AllGood(field.attributes)

\* JVMField::parse
ParseField ==
    /\ MethodsParsed
    /\ Len(fields) < Len(file.body.fields)
    /\ LET field == file.body.fields[Len(fields) + 1] IN
       IF FieldGood(field)
       THEN /\ fields' = Append(fields,
                   [name |-> Text(field.at[1]), descriptor |-> Text(field.at[2]),
                    slotCount |-> SlotCount(FirstField(Text(field.at[2])))])
            /\ UNCHANGED <<status, thisName, superName, attributes, methods>>
       ELSE Reject
    /\ UNCHANGED <<file, count, input, pool, index, original>>

Parsed ==
    /\ MethodsParsed
    /\ Len(fields) = Len(file.body.fields)
    /\ status' = "linking"
    /\ UNCHANGED <<file, count, input, pool, index, original, classVars>>

ClassNext == ReadBody \/ ParseNames \/ ParseAttribute \/ ParseMethod \/ ParseField \/ Parsed

-----------------------------------------------------------------------------
(* Properties. *)

(* A method takes as many slots off its caller's stack as its arguments    *)
(* have, and a field has as many as its type: whatever names, dimensions   *)
(* and types the descriptor strings together, and whatever letters the     *)
(* class names in it are made of.  (file.types is what the compiler wrote  *)
(* into the descriptors.)                                                  *)
SlotsAsDeclared ==
    /\ \A i \in DOMAIN methods :
          methods[i].descriptor = MethodText(file.types)
              => methods[i].argsSize = MethodSlots(file.types)
    /\ \A i \in DOMAIN fields, n \in DOMAIN file.types :
          fields[i].descriptor = TypeText(file.types[n])
              => fields[i].slotCount = TypeSlots(file.types[n])

-----------------------------------------------------------------------------
(* What has been parsed so far: part of the inductive invariant.  A class  *)
(* is only rejected before it is written again.                            *)
ParsedExact ==
    /\ attributes \in Nat
    /\ methods \in Seq(ToSet(methods)) /\ fields \in Seq(ToSet(fields))
    /\ \A i \in 1..Len(methods) : methods[i].argsSize = ArgsSize(methods[i].descriptor)
    /\ \A i \in 1..Len(fields) : fields[i].slotCount = SlotCount(FirstField(fields[i].descriptor))
    /\ status \in {"read", "parsing", "linking", "linked"} => file.body.complete
    /\ status \in {"parsing", "linking", "linked"} => thisName = Text(At(file.body.this).at[1])
    /\ status = "rejected" => original = NoFile
=============================================================================
