------------------------------- MODULE Program -------------------------------
(***************************************************************************)
(* A class from its file to the execution of a method: the constant pool   *)
(* is read, the class parsed and linked, and then run_code                 *)
(* (src/src/vm/mod.rs) takes the instructions of a method one after the    *)
(* other, some of which look up constants.                                 *)
(*                                                                         *)
(* Operand stack and heap are those of ThreadContext and ObjectHeap, and   *)
(* classes are loaded by ClassLoader: here a lookup that finds what it     *)
(* asks for succeeds.                                                      *)
(***************************************************************************)
EXTENDS RuntimePool, InstructionStream

CONSTANT Codes      \* the bodies a method may have: Codes[file.code]

ASSUME CodeAssumption ==
    /\ \A i \in DOMAIN Codes : \A c \in Codes[i] : c \in Seq(0..Base - 1)
    /\ \A f \in Files : f.code \in DOMAIN Codes

VARIABLES
    code,        \* the method's body
    pc,
    lastPc,      \* last_pc: where the instruction that runs began
    run,         \* how the run is going, or how it ended
    used         \* the last lookup: the operation, its address and its answer

runVars == <<code, pc, lastPc, run, used>>
loadVars == <<poolVars, classVars, entries>>
vars == <<loadVars, runVars>>

NoUse == [op |-> "none"]

Init ==
    /\ PoolInit
    /\ ClassInit
    /\ entries = <<>>
    /\ code = <<>>
    /\ pc = 0
    /\ lastPc = 0
    /\ run = "none"
    /\ used = NoUse

-----------------------------------------------------------------------------
(* A method of the linked class that has code is run. *)
RunCode ==
    /\ status = "linked"
    /\ run = "none"
    /\ \E m \in DOMAIN methods : methods[m].code
    /\ code' \in Codes[file.code]
    /\ run' = "running"
    /\ UNCHANGED <<loadVars, pc, lastPc, used>>

Fetched == NextOp(code, pc)
Runs(opcodes) == run = "running" /\ Fetched.op \in opcodes

GoOn(to) == pc' = to /\ lastPc' = to /\ UNCHANGED run
Stop(how) == run' = how /\ UNCHANGED <<pc, lastPc>>

(* Instructions that only work on the stack; and whatever is none, which   *)
(* is reported and passed over.                                            *)
Plain ==
    /\ Runs({"plain", "bipush", "local", "iinc", "invalid"})
    /\ GoOn(Fetched.next)
    /\ UNCHANGED <<loadVars, code, used>>

\* saturating_add_signed
Plus(address, offset) ==
    LET to == address + offset IN
    IF to < 0 THEN 0 ELSE IF to >= Base * Base THEN Base * Base - 1 ELSE to

\* Mutation: the offset counts from the end of the instruction.
BranchFromNext ==
    /\ Runs({"if", "goto"})
    /\ \/ GoOn(Plus(Fetched.next, Signed(Fetched.operands[1])))
       \/ Fetched.op = "if" /\ GoOn(Fetched.next)
    /\ UNCHANGED <<loadVars, code, used>>

\* Goto, If: the offset counts from where the instruction began.
Branch ==
    /\ Runs({"if", "goto"})
    /\ \/ GoOn(Plus(lastPc, Signed(Fetched.operands[1])))
       \/ Fetched.op = "if" /\ GoOn(Fetched.next)
    /\ UNCHANGED <<loadVars, code, used>>

Return ==
    /\ Runs({"return"})
    /\ Stop("returned")
    /\ UNCHANGED <<loadVars, code, used>>

(* There is no next instruction: run_code returns like at a return.        *)
OutOfCode ==
    /\ Runs({"none"})
    /\ Stop("ended")
    /\ UNCHANGED <<loadVars, code, used>>

\* The lookup of an instruction in the constant pool.
LookUp(op, i) ==
    CASE op = "ldc" -> GetConstant(i, {"Integer", "Float"})
      [] op = "ldc2_w" -> GetConstant(i, {"Long", "Double"})
      [] op = "new" -> GetClass(i)
      [] op \in {"anewarray", "multianewarray"} -> GetClassOrArray(i)
      [] op = "invoke" -> GetMethod(i)
      [] op = "field" -> GetField(i)

(* A failing lookup ends the run; so does multianewarray with no           *)
(* dimensions, before it looks anything up.                                *)
UseConstant ==
    /\ Runs({"ldc", "ldc2_w", "new", "anewarray", "multianewarray", "invoke", "field"})
    /\ IF Fetched.op = "multianewarray" /\ Fetched.operands[2] = 0
       THEN Stop("error") /\ UNCHANGED used
       ELSE LET answer == LookUp(Fetched.op, Fetched.operands[1]) IN
            /\ used' = [op |-> Fetched.op, at |-> pc, index |-> Fetched.operands[1], answer |-> answer]
            /\ IF answer.is = "answer" THEN GoOn(Fetched.next) ELSE Stop(answer.is)
    /\ UNCHANGED <<loadVars, code>>

RunNext == Plain \/ Branch \/ Return \/ OutOfCode \/ UseConstant

Next ==
    \/ PoolNext /\ UNCHANGED <<classVars, entries, runVars>>
    \/ ClassNext /\ UNCHANGED <<entries, runVars>>
    \/ LinkNext /\ UNCHANGED runVars
    \/ RunCode
    \/ RunNext

Spec == Init /\ [][Next]_vars

-----------------------------------------------------------------------------
(* Properties. *)

(* Whatever a class file holds: once it is linked no lookup runs into one  *)
(* of the many expects.  Everything an entry refers to, directly or at     *)
(* second hand, was checked before the class was handed out.               *)
NoLookupPanics == run # "panic"

(* Code as a compiler writes it is read in step: every instruction begins  *)
(* where the one before it ends or a branch goes to, its operands are its  *)
(* own, no operand is taken for an instruction, and the end of the code is *)
(* never run into.                                                         *)
InStep ==
    run # "none" /\ WellFormedCode(code) =>
        /\ run # "ended"
        /\ run = "running" =>
              pc \in Starts(code) /\ Fetched.op \notin {"none", "invalid"}
        /\ used # NoUse =>
              /\ used.at \in Starts(code)
              /\ used.op = Opcode(code[used.at + 1])
              /\ used.index = Unsigned(SubSeq(code, used.at + 2,
                                              used.at + (IF used.op = "ldc" THEN 2 ELSE 3)))

\* What an instruction may look up, by the tag of the entry.
Kinds(op) ==
    CASE op = "ldc" -> {"Integer", "Float"}
      [] op = "ldc2_w" -> {"Long", "Double"}
      [] op \in {"new", "anewarray", "multianewarray"} -> {"Class"}
      [] op = "invoke" -> {"Methodref"}
      [] op = "field" -> {"Fieldref"}

MeaningOf(op) ==
    CASE op \in {"ldc", "ldc2_w"} -> "constant"
      [] op \in {"new", "anewarray", "multianewarray"} -> "class"
      [] op = "invoke" -> "method"
      [] op = "field" -> "field"

(* The two ways in which a good constant cannot be used: there are no      *)
(* members of array classes (clone, for one), and arrays of the class      *)
(* itself are left out of get_class_or_array_by_ref.  (And new of an array *)
(* class is not Java.)                                                     *)
Unsupported(op, i) ==
    LET class == IF MeaningOf(op) \in {"method", "field"} THEN Filed(i).at[1] ELSE i IN
    /\ MeaningOf(op) # "constant"
    /\ IsArrayName(FiledText(Filed(class).at[1]))
    /\ \/ op \in {"new", "invoke", "field"}
       \/ LET base == FiledArray(Filed(class).at[1]).base IN
          Head(base) = "L" /\ BaseMeaning(base) = [class |-> thisName]

(* An instruction gets what the class file has at its index: the same      *)
(* constant, class, array type or member, however many entries, checks and *)
(* translations lie between, own members found at link time included.      *)
(* And it gets an answer whenever the file has the right kind there, or    *)
(* else an error.                                                          *)
ConstantsMeanTheSame ==
    LET right == Filed(used.index).tag \in Kinds(used.op)
        answered == used.answer.is = "answer"
    IN  used # NoUse =>
            /\ answered => right
            /\ right /\ WellFormedFile =>
                  /\ answered <=> ~Unsupported(used.op, used.index)
                  /\ answered => used.answer.meaning = FiledMeaning(MeaningOf(used.op), used.index)

-----------------------------------------------------------------------------
(* What a run starts from, and that last_pc is where the instruction that  *)
(* runs began: InStep is inductive together with it.                       *)
RunExact ==
    /\ run = "none" => pc = 0 /\ lastPc = 0 /\ used = NoUse
    /\ run # "none" => code \in Seq(0..Base - 1)
    /\ run = "running" => lastPc = pc

(* The last lookup was at the index of an instruction, a word, and has the *)
(* answer that it would have now.                                          *)
UsedExact ==
    /\ pc \in Nat
    /\ used # NoUse =>
          /\ used.op \in {"ldc", "ldc2_w", "new", "anewarray", "multianewarray", "invoke", "field"}
          /\ used.index \in 0..Base * Base - 1
          /\ used.answer = LookUp(used.op, used.index)

-----------------------------------------------------------------------------
(* The inductive invariant of the lookups. *)

Constants == ToSet(file.stream) \cup {Unusable}

\* The table, the first time it is read.
TableTyped == original = NoFile => /\ input \in Seq(Constants)
                                   /\ pool \in Seq(Constants) \ {<<>>}

(* The entries translated so far are those of the table, each translated   *)
(* by itself, and each was checked.                                        *)
EntriesExact ==
    /\ entries \in Seq(ToSet(entries))
    /\ \A i \in 1..Len(entries) :
          i <= Len(pool) /\ Links(pool[i]) /\ entries[i] = Linked(pool[i])

\* What has happened when; only a class that was not written again is linked.
StagesExact ==
    /\ status \in {"decoding", "decoded", "read", "parsing"} => entries = <<>>
    /\ status \in {"read", "parsing", "linking", "linked"} => original = NoFile
    /\ status = "linked" => Len(entries) = Len(pool)
    /\ run # "none" => status = "linked"

IInv == TableTyped /\ EntriesExact /\ StagesExact /\ NoLookupPanics
=============================================================================
