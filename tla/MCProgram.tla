------------------------------ MODULE MCProgram ------------------------------
(***************************************************************************)
(* The class files and method bodies for model checking Program.           *)
(***************************************************************************)
EXTENDS Program

-----------------------------------------------------------------------------
(* Constant pools alone: short streams of narrow and wide constants, with  *)
(* something else at the end or not, and any count.                        *)
IntConstant == Entry("Integer", <<>>)
LongConstant == Entry("Long", <<>>)

NoBody == [complete |-> FALSE]

Streams ==
    LET good == BoundedSeq({IntConstant, LongConstant}, 6)
    IN  good \cup {Append(s, Bad) : s \in good}

PoolFiles ==
    {[count |-> n, stream |-> s, types |-> <<>>, body |-> NoBody, code |-> 1] :
        n \in 0..IndexMod - 1, s \in Streams}

-----------------------------------------------------------------------------
(* Classes: K, below Object, with a method m that has code.                *)
Type(dimensions, base) == [dimensions |-> dimensions, base |-> base]
I == <<"I">>
J == <<"J">>
OfK == <<"L", "K", ";">>
OfObject == <<"L", "O", ";">>

Plain0 == MethodText(<<>>)
Class(i) == Entry("Class", <<i>>)
NameAndType(i, j) == Entry("NameAndType", <<i, j>>)

Frame(descriptor) ==
    <<Class(2), Utf8(<<"K">>), Class(4), Utf8(<<"O">>), Utf8(<<"m">>), Utf8(descriptor), Utf8(CodeName)>>

Attribute(name, sound, inner) == [name |-> name, sound |-> sound, inner |-> inner]
Method(name, descriptor, attrs, bodyless) ==
    [at |-> <<name, descriptor>>, attributes |-> attrs, bodyless |-> bodyless]
CodeOfM == <<Attribute(7, TRUE, <<>>)>>
Field(name, descriptor) == [at |-> <<name, descriptor>>, attributes |-> <<>>]

Body(ms, fs) ==
    [complete |-> TRUE, this |-> 1, super |-> 3, attributes |-> <<>>, methods |-> ms, fields |-> fs]

\* The indices that are used are those of the table, without gaps.
ClassFile(stream, types, body, codes) ==
    [count |-> IndexOf(stream, Len(stream) + 1), stream |-> stream, types |-> types,
     body |-> body, code |-> codes]

M == Method(5, 6, CodeOfM, FALSE)

\* Descriptors: m takes up to three arguments.
ArgTypes == {Type(0, I), Type(0, J), Type(0, <<"L", "J", ";">>), Type(1, J), Type(2, OfObject)}

DescriptorFiles ==
    {ClassFile(Frame(MethodText(types)), types, Body(<<M>>, <<>>), 1) : types \in BoundedSeq(ArgTypes, 3)}

(* Members of K or of Object: overloaded methods m, a field m.  The long   *)
(* lies before or behind the rest.                                         *)
MethodFile(class) ==
    ClassFile(Frame(Plain0) \o <<NameAndType(5, 10), Entry("Methodref", <<class, 8>>),
                                 Utf8(MethodText(<<Type(0, J)>>)), IntConstant>>,
              <<>>, Body(<<M, Method(5, 10, CodeOfM, FALSE)>>, <<>>), 2)

FieldFile(class, type) ==
    ClassFile(Frame(Plain0) \o <<NameAndType(5, 10), Entry("Fieldref", <<class, 8>>), Utf8(TypeText(type))>>,
              <<type>>, Body(<<M>>, <<Field(5, 10)>>), 2)

\* A reference to the constructor that is inherited.
InheritedFile ==
    ClassFile(Frame(Plain0) \o <<NameAndType(10, 6), Entry("Methodref", <<1, 8>>), Utf8(<<"<init>">>)>>,
              <<>>, Body(<<M>>, <<>>), 2)

Raised(entry) == [entry EXCEPT !.at = [i \in DOMAIN @ |-> @[i] + 2]]
LongFile ==
    ClassFile(<<LongConstant>> \o [i \in DOMAIN Frame(Plain0) |-> Raised(Frame(Plain0)[i])] \o <<Entry("Double", <<>>)>>,
              <<>>, [Body(<<Method(7, 8, <<Attribute(9, TRUE, <<>>)>>, FALSE)>>, <<>>)
                        EXCEPT !.this = 3, !.super = 5], 2)

\* Array classes, with a method of one.
ArrayFile(text, types) ==
    ClassFile(Frame(Plain0) \o <<Class(9), Utf8(text), Entry("Methodref", <<8, 11>>), NameAndType(5, 6)>>,
              types, Body(<<M>>, <<>>), 2)

ArrayFiles ==
    {ArrayFile(TypeText(type), <<type>>) :
        type \in {Type(d, base) : d \in 1..2, base \in {I, J, OfK, OfObject}}}
    \cup {ArrayFile(text, <<>>) : text \in {<<"[">>, <<"[", "L", "K">>, <<"[", "V">>, <<"[", "[", "L">>}}

\* Constants that are not supported.
OtherFile ==
    ClassFile(Frame(Plain0) \o <<Entry("String", <<5>>), Entry("InterfaceMethodref", <<1, 10>>), NameAndType(5, 6)>>,
              <<>>, Body(<<M>>, <<>>), 2)

\* Attributes of the class, of m and inside the code of m.
Attributes ==
    {<<>>, CodeOfM, CodeOfM \o CodeOfM, <<Attribute(5, TRUE, <<>>)>>, <<Attribute(1, TRUE, <<>>)>>,
     <<Attribute(7, FALSE, <<>>)>>, <<Attribute(7, TRUE, <<5>>)>>, <<Attribute(7, TRUE, <<1>>)>>,
     <<Attribute(5, FALSE, <<>>), Attribute(7, TRUE, <<>>)>>}

AttributeFiles ==
    {ClassFile(Frame(Plain0), <<>>, Body(<<Method(5, 6, a, b)>>, <<>>), 1) : a \in Attributes, b \in BOOLEAN}
    \cup {ClassFile(Frame(Plain0), <<>>, [Body(<<M>>, <<>>) EXCEPT !.attributes = a], 1) : a \in Attributes}

-----------------------------------------------------------------------------
(* One index of such a file is any other.                                  *)
Indices == 0..IndexMod - 1

Misreferred(f) ==
    UNION {{[f EXCEPT !.stream[n].at[i] = wrong] : i \in DOMAIN f.stream[n].at, wrong \in Indices} :
              n \in DOMAIN f.stream}
    \cup UNION {{[f EXCEPT !.body.this = wrong], [f EXCEPT !.body.super = wrong]} : wrong \in Indices}
    \cup UNION {{[f EXCEPT !.body.methods[n].at[i] = wrong] : i \in 1..2, wrong \in Indices} :
                   n \in DOMAIN f.body.methods}
    \cup UNION {{[f EXCEPT !.body.fields[n].at[i] = wrong] : i \in 1..2, wrong \in Indices} :
                   n \in DOMAIN f.body.fields}

MemberFiles ==
    {MethodFile(c) : c \in {1, 3}} \cup {FieldFile(c, type) : c \in {1, 3}, type \in {Type(0, J), Type(1, I)}}
    \cup {InheritedFile, LongFile, OtherFile}

\* Code that is read in every way is run in one class only.
PlainFile == ClassFile(Frame(Plain0), <<>>, Body(<<M>>, <<>>), 3)

MCFiles ==
    PoolFiles \cup DescriptorFiles \cup ArrayFiles \cup AttributeFiles \cup MemberFiles \cup {PlainFile}
    \cup Misreferred(MethodFile(1)) \cup Misreferred(FieldFile(1, Type(0, J)))
    \cup Misreferred(ArrayFile(TypeText(Type(1, OfObject)), <<Type(1, OfObject)>>))

-----------------------------------------------------------------------------
(* Bodies: a return; one lookup of every kind at every index; and all      *)
(* short sequences of some bytes, with a few longer ones.                  *)
ByteOf(opcode) == CHOOSE b \in 0..Base - 1 : Opcode(b) = opcode
Ret == <<ByteOf("return")>>

Lookups ==
    UNION {{<<ByteOf("ldc"), i>> \o Ret,
            <<ByteOf("multianewarray"), 0, i, 0>> \o Ret,
            <<ByteOf("multianewarray"), 0, i, 2>> \o Ret}
           \cup {<<ByteOf(op), 0, i>> \o Ret : op \in {"ldc2_w", "new", "anewarray", "invoke", "field"}} :
           i \in Indices}

Bytes == {0, 1, 2, 3, 4, 5, 6, 7, 15}

Loops ==
    {<<1, ByteOf("if"), 15, 15>> \o Ret,
     <<2, 2, ByteOf("if"), 0, 7, 1, ByteOf("goto"), 15, 12>> \o Ret,
     <<6, 7, 0, 1, 15, 15, ByteOf("goto"), 15, 10>>,
     <<6, 3, 1, 0, 7, 1, 1, ByteOf("if"), 15, 13>> \o Ret,
     <<6, 7, 0, 1, 15>>, <<7, 1, 15, 2, 6>> \o Ret}

MCCodes == <<{Ret}, Lookups, (BoundedSeq(Bytes, 4) \ {<<>>}) \cup Loops>>
=============================================================================
