-------------------------- MODULE InstructionStream --------------------------
(***************************************************************************)
(* How a method's code is cut into instructions: Instructions::next_op and *)
(* OpCode::custom_decode (src/janadinite-parse/src/class.rs) with the      *)
(* decoder that #[derive(Decode)] generates                                *)
(* (src/macros/src/opcode_decode.rs).                                      *)
(*                                                                         *)
(* An opcode of the model stands for all those with the same operands and  *)
(* the same way on.  Bytes are below Base; two of them are a u16 or, as    *)
(* the offset of a branch, an i16.                                         *)
(***************************************************************************)
EXTENDS Integers, Sequences, SequencesExt

CONSTANT Base    \* 2^8

ASSUME BaseAssumption == Base \in Nat /\ Base > 15 /\ Base % 2 = 0

\* The opcodes, from 0.
Opcodes == <<"return", "plain", "bipush", "local", "if", "goto", "wide", "iinc",
             "ldc", "ldc2_w", "new", "anewarray", "invoke", "field", "multianewarray">>

Opcode(byte) == IF byte < Len(Opcodes) THEN Opcodes[byte + 1] ELSE "unimplemented"

\* The widths of the operands that the generated decoder reads.
Operands(opcode) ==
    CASE opcode \in {"local", "ldc"} -> <<1>>
      [] opcode = "iinc" -> <<1, 1>>
      [] opcode \in {"if", "goto", "ldc2_w", "new", "anewarray", "invoke", "field"} -> <<2>>
      [] opcode = "multianewarray" -> <<2, 1>>
      [] OTHER -> <<>>

WideOperands(opcode) == IF opcode = "local" THEN <<2>> ELSE <<2, 2>>
HasWide == {"local", "iinc"}

-----------------------------------------------------------------------------
\* Operands have one byte or two.
Unsigned(bytes) == IF Len(bytes) = 1 THEN bytes[1] ELSE bytes[1] * Base + bytes[2]

\* An i16 as two's complement.
Signed(n) == IF 2 * n >= Base * Base THEN n - Base * Base ELSE n

Instruction(op, operands, next) == [op |-> op, operands |-> operands, next |-> next]
None == [op |-> "none"]

(* opnd!: an operand of that width is read.  The first that is not all     *)
(* there makes the instruction invalid; pc is not moved past what is left. *)
Read(code, i, width) ==
    IF i.op = "invalid" \/ i.next + width > Len(code)
    THEN Instruction("invalid", <<>>, i.next)
    ELSE Instruction(i.op,
             Append(i.operands, Unsigned(SubSeq(code, i.next + 1, i.next + width))),
             i.next + width)

\* No operands, one or two, from place pc on.
Reads(code, opcode, widths, pc) ==
    LET start == Instruction(opcode, <<>>, pc) IN
    CASE widths = <<>> -> start
      [] Len(widths) = 1 -> Read(code, start, widths[1])
      [] Len(widths) = 2 -> Read(code, Read(code, start, widths[1]), widths[2])

\* The opcode behind the wide prefix is an operand itself.
ReadsWide(code, pc) ==
    LET widened == Opcode(code[pc + 1]) IN
    IF pc + 1 > Len(code) THEN Instruction("invalid", <<>>, pc)
    ELSE IF widened \notin HasWide THEN Instruction("invalid", <<>>, pc + 1)
    ELSE Reads(code, widened, WideOperands(widened), pc + 1)

\* Mutation: custom_decode does not move pc.
ReadsBipushInPlace(code, pc) ==
    IF pc + 1 > Len(code) THEN None ELSE Instruction("bipush", <<code[pc + 1]>>, pc)

(* custom_decode reads the one operand it knows itself: if it is missing   *)
(* there is no instruction, rather than an invalid one.                    *)
ReadsBipush(code, pc) ==
    IF pc + 1 > Len(code) THEN None ELSE Instruction("bipush", <<code[pc + 1]>>, pc + 1)

\* Instructions::next_op at pc
NextOp(code, pc) ==
    LET opcode == Opcode(code[pc + 1]) IN
    IF pc >= Len(code) THEN None
    ELSE CASE opcode = "bipush" -> ReadsBipush(code, pc + 1)
           [] opcode = "wide" -> ReadsWide(code, pc + 1)
           [] opcode = "unimplemented" -> Instruction("invalid", <<>>, pc + 1)
           [] OTHER -> Reads(code, opcode, Operands(opcode), pc + 1)

-----------------------------------------------------------------------------
(* How the Java virtual machine reads code: an instruction has as many     *)
(* bytes as its opcode says.                                               *)
Size(code, pc) ==
    LET opcode == Opcode(code[pc + 1]) IN
    CASE opcode \in {"return", "plain"} -> 1
      [] opcode \in {"bipush", "local", "ldc"} -> 2
      [] opcode \in {"iinc", "if", "goto", "ldc2_w", "new", "anewarray", "invoke", "field"} -> 3
      [] opcode = "multianewarray" -> 4
      [] opcode = "wide" ->
             IF pc + 2 > Len(code) THEN 1
             ELSE CASE Opcode(code[pc + 2]) = "local" -> 4
                    [] Opcode(code[pc + 2]) = "iinc" -> 6
                    [] OTHER -> 1
      [] OTHER -> 1

\* The addresses of the instructions, one behind the other.
Starts(code) ==
    LET start[n \in 0..Len(code)] ==
            IF n = 0 THEN 0
            ELSE IF start[n - 1] >= Len(code) THEN start[n - 1]
            ELSE start[n - 1] + Size(code, start[n - 1])
    IN  {start[n] : n \in 0..Len(code)} \cap 0..Len(code) - 1

Target(code, pc) == pc + Signed(Unsigned(SubSeq(code, pc + 2, pc + 3)))

\* There are addresses, which are u16, for all of it.
WellFormedCode(code) ==
    LET starts == Starts(code)
        is(pc, opcodes) == Opcode(code[pc + 1]) \in opcodes
    IN  /\ starts # {}
        /\ Len(code) <= Base * Base
        /\ \A pc \in starts :
              /\ pc + Size(code, pc) <= Len(code)
              /\ is(pc, {"wide"}) => Size(code, pc) > 1
              /\ ~is(pc, {"unimplemented"})
              /\ is(pc, {"if", "goto"}) => Target(code, pc) \in starts
              /\ is(pc, {"return", "goto"}) \/ pc + Size(code, pc) \in starts
=============================================================================
