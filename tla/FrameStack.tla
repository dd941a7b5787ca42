----------------------------- MODULE FrameStack -----------------------------
(***************************************************************************)
(* The frames that the JVM promises to a method: each invocation has an    *)
(* operand stack and local variables of its own.  ThreadContext            *)
(* (src/src/vm/mod.rs) implements them with two shared vectors.            *)
(***************************************************************************)
EXTENDS Naturals, Sequences, SequencesExt

CONSTANTS
    Value,       \* contents of a slot
    Null,        \* JVMSlot::null()
    MaxLocals    \* bound: local variables of a method

VARIABLES
    operands,    \* the operand stack of the current frame, its top last
    variables,   \* the local variables of the current frame
    callers,     \* the frames of the methods that wait for it
    status       \* "running", "failed" or "ended"

vars == <<operands, variables, callers, status>>

Fresh(args, size) == [i \in 1..size |-> IF i <= Len(args) THEN args[i] ELSE Null]

Init ==
    /\ operands = <<>>
    /\ \E size \in 0..MaxLocals : variables = Fresh(<<>>, size)
    /\ callers = <<>>
    /\ status = "running"

Top(n) == SubSeq(operands, Len(operands) - n + 1, Len(operands))
Rest(n) == SubSeq(operands, 1, Len(operands) - n)

Operate(n, pushed) ==
    /\ n <= Len(operands)
    /\ operands' = Rest(n) \o pushed
    /\ UNCHANGED <<variables, callers, status>>

Duplicate(n) ==
    /\ n <= Len(operands)
    /\ operands' = operands \o Top(n)
    /\ UNCHANGED <<variables, callers, status>>

\* n local variables from number `at' on.
Load(at, n) ==
    /\ at + n <= Len(variables)
    /\ operands' = operands \o SubSeq(variables, at + 1, at + n)
    /\ UNCHANGED <<variables, callers, status>>

Store(at, n) ==
    /\ n <= Len(operands)
    /\ at + n <= Len(variables)
    /\ operands' = Rest(n)
    /\ variables' = [i \in DOMAIN variables |->
           IF i \in at + 1..at + n THEN Top(n)[i - at] ELSE variables[i]]
    /\ UNCHANGED <<callers, status>>

Increment(at, value) ==
    /\ at < Len(variables)
    /\ variables' = [variables EXCEPT ![at + 1] = value]
    /\ UNCHANGED <<operands, callers, status>>

\* The arguments leave the caller's stack and are the callee's first variables.
Invoke(args, size) ==
    /\ args <= Len(operands)
    /\ args <= size
    /\ operands' = <<>>
    /\ variables' = Fresh(Top(args), size)
    /\ callers' = Append(callers, [operands |-> Rest(args), variables |-> variables])
    /\ UNCHANGED status

\* The result goes to the caller; the rest of the frame is discarded.
Return(n) ==
    /\ n <= Len(operands)
    /\ callers # <<>>
    /\ operands' = Last(callers).operands \o Top(n)
    /\ variables' = Last(callers).variables
    /\ callers' = Front(callers)
    /\ UNCHANGED status

End ==
    /\ callers = <<>>
    /\ status' = "ended"
    /\ UNCHANGED <<operands, variables, callers>>

Fail ==
    /\ status' = "failed"
    /\ UNCHANGED <<operands, variables, callers>>

Next ==
    /\ status = "running"
    /\ \/ \E n \in 0..2, pushed \in BoundedSeq(Value, 2) : Operate(n, pushed)
       \/ \E n \in 1..2 : Duplicate(n)
       \/ \E at \in 0..MaxLocals, n \in 1..2 : Load(at, n) \/ Store(at, n)
       \/ \E at \in 0..MaxLocals, value \in Value : Increment(at, value)
       \/ \E args, size \in 0..MaxLocals : Invoke(args, size)
       \/ \E n \in 0..2 : Return(n)
       \/ End
       \/ Fail

Spec == Init /\ [][Next]_vars
=============================================================================
