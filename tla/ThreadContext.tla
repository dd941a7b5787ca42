--------------------------- MODULE ThreadContext ---------------------------
(***************************************************************************)
(* ThreadContext of src/src/vm/mod.rs: the operand stacks of all the       *)
(* frames of a thread lie in one vector, their local variables in another, *)
(* and a frame knows where its parts start.  An instruction that run_code  *)
(* executes is one action.                                                 *)
(*                                                                         *)
(* long and double take two slots.  Whoever compiles a class keeps the     *)
(* operand stack within max_stack and puts the arguments of a call on the  *)
(* stack of the frame that makes it; pop_create_args itself checks the     *)
(* length of the whole vector only.  That is the precondition in Invoke    *)
(* and Dup2: everything else is checked by the code.                       *)
(***************************************************************************)
EXTENDS Naturals, Sequences, SequencesExt

CONSTANTS
    Value,       \* contents of a slot
    Null,        \* JVMSlot::null()
    MaxStack,    \* bound: max_stack of a method
    MaxLocals,   \* bound: max_locals of a method
    MaxDepth     \* bound: frames of a thread

ASSUME NullAssumption == Null \notin Value
ASSUME BoundAssumption == MaxStack \in Nat /\ MaxLocals \in Nat /\ MaxDepth \in Nat

VARIABLES
    stack,
    locals,
    prevFrames,      \* prev_frames
    currentFrame,    \* current_frame
    status           \* "running", "failed" (run_code returned Err) or "ended"

vars == <<stack, locals, prevFrames, currentFrame, status>>

StackFrame == [stackStart : Nat, localsStart : Nat]

Slot == Value \cup {Null}

Frames == Append(prevFrames, currentFrame)

(* Types; and the parts of the frames lie one behind the other in the two  *)
(* vectors, which begin with those of the first frame.                     *)
TypeOK ==
    /\ stack \in Seq(Slot)
    /\ locals \in Seq(Slot)
    /\ prevFrames \in Seq(StackFrame)
    /\ currentFrame \in StackFrame
    /\ status \in {"running", "failed", "ended"}
    /\ Frames[1] = [stackStart |-> 0, localsStart |-> 0]
    /\ \A i, j \in 1..Len(Frames) : i <= j =>
          /\ Frames[i].stackStart <= Frames[j].stackStart
          /\ Frames[i].localsStart <= Frames[j].localsStart
    /\ currentFrame.stackStart \in 0..Len(stack)
    /\ currentFrame.localsStart \in 0..Len(locals)

Nulls(n) == [i \in 1..n |-> Null]

\* ThreadContext::new for `main' or a <clinit>, which take no arguments.
Init ==
    /\ stack = <<>>
    /\ \E maxLocals \in 0..MaxLocals : locals = Nulls(maxLocals)
    /\ prevFrames = <<>>
    /\ currentFrame = [stackStart |-> 0, localsStart |-> 0]
    /\ status = "running"

-----------------------------------------------------------------------------
\* Slots on the stack of the current frame.
Depth == Len(stack) - currentFrame.stackStart

Popped(n) == SubSeq(stack, 1, Len(stack) - n)
TopSlots(n) == SubSeq(stack, Len(stack) - n + 1, Len(stack))

Fail == status' = "failed" /\ UNCHANGED <<stack, locals, prevFrames, currentFrame>>

(* Arithmetic, comparisons, constants, array accesses ..: n slots are      *)
(* popped and the result pushed.  pop_slot and ipop fail with              *)
(* StackUnderflow at the start of the frame.  (A long may have lost one    *)
(* slot by then; nothing looks at a context after a failure.)              *)
Operate(n, result) ==
    IF Depth < n
    THEN Fail
    ELSE /\ Depth - n + Len(result) <= MaxStack
         /\ stack' = Popped(n) \o result
         /\ UNCHANGED <<locals, prevFrames, currentFrame, status>>

\* dup does nothing on an empty stack.
Dup ==
    /\ Depth >= 1 => Depth < MaxStack
    /\ stack' = IF Depth >= 1 THEN stack \o TopSlots(1) ELSE stack
    /\ UNCHANGED <<locals, prevFrames, currentFrame, status>>

Dup2 ==
    /\ Depth \in 2..MaxStack - 2
    /\ stack' = stack \o TopSlots(2)
    /\ UNCHANGED <<locals, prevFrames, currentFrame, status>>

\* Where local variable `at' of the current frame is in `locals'.
Place(at) == currentFrame.localsStart + at

\* iload, lload, ..: InvalidLocal behind the end of the vector.
LoadLocal(at, n) ==
    IF Place(at) + n > Len(locals)
    THEN Fail
    ELSE /\ Depth + n <= MaxStack
         /\ stack' = stack \o SubSeq(locals, Place(at) + 1, Place(at) + n)
         /\ UNCHANGED <<locals, prevFrames, currentFrame, status>>

\* Mutation: the index is not moved to the frame's own variables.
StoreLocalAbsolute(at, n) ==
    IF Depth < n \/ Place(at) + n > Len(locals)
    THEN Fail
    ELSE /\ stack' = Popped(n)
         /\ locals' = [i \in DOMAIN locals |->
                IF i \in at + 1..at + n THEN TopSlots(n)[i - at] ELSE locals[i]]
         /\ UNCHANGED <<prevFrames, currentFrame, status>>

\* vstore
StoreLocal(at, n) ==
    IF Depth < n \/ Place(at) + n > Len(locals)
    THEN Fail
    ELSE /\ stack' = Popped(n)
         /\ locals' = [i \in DOMAIN locals |->
                IF i \in Place(at) + 1..Place(at) + n
                THEN TopSlots(n)[i - Place(at)] ELSE locals[i]]
         /\ UNCHANGED <<prevFrames, currentFrame, status>>

\* Iinc, through iget.
Iinc(at, value) ==
    IF Place(at) >= Len(locals)
    THEN Fail
    ELSE /\ locals' = [locals EXCEPT ![Place(at) + 1] = value]
         /\ UNCHANGED <<stack, prevFrames, currentFrame, status>>

-----------------------------------------------------------------------------
(* Invocations: pop_create_args moves the arguments behind the locals,     *)
(* finish_push_frame makes room for the rest and starts the frame there.   *)

Invoke(args, maxLocals) ==
    /\ args <= Depth
    /\ args <= maxLocals
    /\ Len(prevFrames) + 1 < MaxDepth
    /\ stack' = Popped(args)
    /\ locals' = locals \o TopSlots(args) \o Nulls(maxLocals - args)
    /\ prevFrames' = Append(prevFrames, currentFrame)
    /\ currentFrame' = [stackStart |-> Len(stack'), localsStart |-> Len(locals)]
    /\ UNCHANGED status

\* Mutation: pop_frame leaves the operands of the callee on the stack.
ReturnUntruncated(n) ==
    IF Depth < n
    THEN Fail
    ELSE IF prevFrames = <<>>
    THEN status' = "ended" /\ UNCHANGED <<stack, locals, prevFrames, currentFrame>>
    ELSE /\ locals' = SubSeq(locals, 1, currentFrame.localsStart)
         /\ currentFrame' = Last(prevFrames)
         /\ prevFrames' = Front(prevFrames)
         /\ UNCHANGED <<stack, status>>

(* Return, IReturn, LReturn, ..: the result is popped, run_code returns    *)
(* it, pop_frame discards the frame and push_value pushes the result.      *)
Return(n) ==
    IF Depth < n
    THEN Fail
    ELSE IF prevFrames = <<>>
    THEN status' = "ended" /\ UNCHANGED <<stack, locals, prevFrames, currentFrame>>
    ELSE /\ Len(stack) - Depth - Last(prevFrames).stackStart + n <= MaxStack
         /\ stack' = SubSeq(stack, 1, currentFrame.stackStart) \o TopSlots(n)
         /\ locals' = SubSeq(locals, 1, currentFrame.localsStart)
         /\ currentFrame' = Last(prevFrames)
         /\ prevFrames' = Front(prevFrames)
         /\ UNCHANGED status

Next ==
    /\ status = "running"
    /\ \/ \E n \in 0..2, result \in BoundedSeq(Value, 2) : Operate(n, result)
       \/ Dup
       \/ Dup2
       \/ \E at \in 0..MaxLocals, n \in 1..2 : LoadLocal(at, n) \/ StoreLocal(at, n)
       \/ \E at \in 0..MaxLocals, value \in Value : Iinc(at, value)
       \/ \E args, maxLocals \in 0..MaxLocals : Invoke(args, maxLocals)
       \/ \E n \in 0..2 : Return(n)

Spec == Init /\ [][Next]_vars

-----------------------------------------------------------------------------
(* Properties. *)

\* What belongs to the i-th of the frames that wait.
Caller(i) ==
    [operands  |-> SubSeq(stack, Frames[i].stackStart + 1, Frames[i+1].stackStart),
     variables |-> SubSeq(locals, Frames[i].localsStart + 1, Frames[i+1].localsStart)]

(* Frames are isolated: no instruction of a method reads or changes what   *)
(* belongs to its callers but for the arguments it was given and the       *)
(* result it returns, and it starts with its other variables null.         *)
Isolated == INSTANCE FrameStack WITH
    operands <- TopSlots(Depth),
    variables <- SubSeq(locals, currentFrame.localsStart + 1, Len(locals)),
    callers <- [i \in DOMAIN prevFrames |-> Caller(i)]

ImplementsFrames == Isolated!Spec
=============================================================================
