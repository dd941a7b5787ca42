---------------------------- MODULE Descriptors ----------------------------
(***************************************************************************)
(* Field and method descriptors: FieldDescriptor and MethodDescriptor of   *)
(* src/janadinite-parse/src/class.rs, and what the run-time constant pool  *)
(* makes of the name of an array class (src/src/vm/class.rs).              *)
(*                                                                         *)
(* A descriptor is a sequence of characters.  Nothing here rejects one     *)
(* that is malformed: the iterators just end early.                        *)
(***************************************************************************)
EXTENDS Naturals, Sequences, SequencesExt

Narrow == {"I", "F", "S", "C", "B", "Z"}
Wide == {"J", "D"}

NoField == [kind |-> "none"]

\* The place of the first character of s in the set, 0 if there is none.
FirstIn(s, chars) == SelectInSeq(s, LAMBDA c : c \in chars)
FirstNotIn(s, chars) == SelectInSeq(s, LAMBDA c : c \notin chars)

(* The first item of FieldDescriptor::from_str.  For an array that is the  *)
(* bracket alone.                                                          *)
FirstField(s) ==
    CASE s = <<>> -> NoField
      [] Head(s) \in Narrow -> [kind |-> "narrow", char |-> Head(s)]
      [] Head(s) \in Wide -> [kind |-> "wide", char |-> Head(s)]
      [] Head(s) = "[" -> [kind |-> "array"]
      [] Head(s) = "L" /\ FirstIn(s, {";"}) # 0 ->
             [kind |-> "object", class |-> SubSeq(s, 2, FirstIn(s, {";"}) - 1)]
      [] OTHER -> NoField

\* slot_count, or unwrap_or_default
SlotCount(field) ==
    CASE field = NoField -> 0
      [] field.kind = "wide" -> 2
      [] OTHER -> 1

(* MethodDescriptor::new splits at every parenthesis; the arguments are    *)
(* the second part.                                                        *)
ArgsText(descriptor) ==
    LET open == FirstIn(descriptor, {"(", ")"})
        behind == SubSeq(descriptor, open + 1, Len(descriptor))
        close == FirstIn(behind, {"(", ")"})
    IN  IF open = 0 THEN <<>>
        ELSE IF close = 0 THEN behind
        ELSE SubSeq(behind, 1, close - 1)

(* Where the first argument in s ends: the dimensions are skipped, then a  *)
(* class name runs up to its semicolon.  0 if `args' yields nothing.       *)
ArgEnd(s) ==
    LET base == FirstNotIn(s, {"["})
        name == SubSeq(s, base, Len(s))
    IN  IF base = 0 THEN 0
        ELSE IF s[base] # "L" THEN base
        ELSE IF FirstIn(name, {";"}) = 0 THEN 0
        ELSE base - 1 + FirstIn(name, {";"})

\* Mutation: the width of an array is that of its elements.
ArgSlotsOfElement(arg) == SlotCount(FirstField(SubSeq(arg, FirstNotIn(arg, {"["}), Len(arg))))

\* The slots of one argument.
ArgSlots(arg) == SlotCount(FirstField(arg))

\* args_size
ArgsSize(descriptor) ==
    LET text == ArgsText(descriptor)
        rest(i) == SubSeq(text, i, Len(text))
        next(s) ==
            LET end == ArgEnd(rest(s.from)) IN
            IF end = 0 THEN s
            ELSE [from |-> s.from + end,
                  size |-> s.size + ArgSlots(SubSeq(text, s.from, s.from + end - 1))]
        args[n \in 0..Len(text)] ==
            IF n = 0 THEN [from |-> 1, size |-> 0] ELSE next(args[n - 1])
    IN  args[Len(text)].size

(* The array class of a name that begins with a bracket: its dimensions    *)
(* and its element, which is no field if the name is invalid.              *)
ArrayClass(name) ==
    LET base == FirstNotIn(name, {"["}) IN
    [dimensions |-> base - 1,
     element |-> IF base = 0 THEN NoField ELSE FirstField(SubSeq(name, base, Len(name)))]

-----------------------------------------------------------------------------
(* What descriptors mean: a type has a number of dimensions and a base,    *)
(* which is written out.                                                   *)
IsType(type) ==
    /\ type.dimensions \in Nat
    /\ type.base \in Seq(ToSet(type.base))
    /\ \/ Len(type.base) = 1 /\ type.base[1] \in Narrow \cup Wide
       \/ /\ Len(type.base) > 1
          /\ type.base[1] = "L" /\ type.base[Len(type.base)] = ";"
          /\ \A i \in 2..Len(type.base) - 1 : type.base[i] \notin {";", "(", ")"}

TypeText(type) == [i \in 1..type.dimensions |-> "["] \o type.base

TypeSlots(type) == IF type.dimensions = 0 /\ Head(type.base) \in Wide THEN 2 ELSE 1

TypesText(types) ==
    LET text[n \in 0..Len(types)] ==
            IF n = 0 THEN <<>> ELSE text[n - 1] \o TypeText(types[n])
    IN  text[Len(types)]

MethodText(types) == <<"(">> \o TypesText(types) \o <<")", "V">>

MethodSlots(types) ==
    LET slots[n \in 0..Len(types)] ==
            IF n = 0 THEN 0 ELSE slots[n - 1] + TypeSlots(types[n])
    IN  slots[Len(types)]
=============================================================================
