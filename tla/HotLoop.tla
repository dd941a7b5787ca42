------------------------------ MODULE HotLoop ------------------------------
(***************************************************************************)
(* StopTheWorld with the loops of the interpreter (run_code in             *)
(* src/src/vm/mod.rs).  The flag is read by heap::safepoint at the two     *)
(* method invocations and by the allocations, but not where a Goto or an   *)
(* If branches back: a mutator in a loop that neither calls nor allocates  *)
(* keeps executing its body without looking at the flag.                   *)
(***************************************************************************)
EXTENDS StopTheWorld

VARIABLE at   \* "call": before an invocation; "body" and "branch": in a loop

loopVars == <<vars, at>>

LoopInit == Init /\ at = [t \in Thread |-> "call"]

EnterLoop(t) ==
    /\ pc[t] = "running"
    /\ at[t] = "call"
    /\ at' = [at EXCEPT ![t] = "body"]
    /\ UNCHANGED vars

\* The body of the loop runs; it may drop an object.
LoopBody(t) ==
    /\ pc[t] = "running"
    /\ at[t] = "body"
    /\ at' = [at EXCEPT ![t] = "branch"]
    /\ Deallocate(t) \/ UNCHANGED vars

\* OpCode::Goto or a taken If: back to the body, with no safepoint.
BranchBack(t) ==
    /\ pc[t] = "running"
    /\ at[t] = "branch"
    /\ at' = [at EXCEPT ![t] = "body"]
    /\ UNCHANGED vars

LeaveLoop(t) ==
    /\ pc[t] = "running"
    /\ at[t] = "branch"
    /\ at' = [at EXCEPT ![t] = "call"]
    /\ UNCHANGED vars

Interpret(t) ==
    \/ EnterLoop(t)
    \/ LoopBody(t)
    \/ BranchBack(t)
    \/ LeaveLoop(t)
    \/ at[t] = "call" /\ ThreadStep(t) /\ UNCHANGED at

LoopNext ==
    /\ ProcessAlive
    /\ \/ \E t \in Thread : Interpret(t)
       \/ (GCWake \/ GCFinish) /\ UNCHANGED at

(* While the process lives a running mutator goes on executing bytecode,   *)
(* and one that comes to a call again and again with the flag set does see *)
(* it there.  No thread has to register or unregister, and nobody counts   *)
(* on a spurious wakeup.                                                   *)
LoopFairness ==
    /\ \A t \in Thread :
          /\ WF_loopVars(ProcessAlive /\ pc[t] = "running" /\ Interpret(t))
          /\ SF_loopVars(ProcessAlive /\ at[t] = "call" /\ SafepointCheck(t) /\ UNCHANGED at)
          /\ WF_loopVars(ProcessAlive /\ SafepointPark(t) /\ UNCHANGED at)
          /\ WF_loopVars(ProcessAlive /\ pc[t] = "woken" /\ Wake(t) /\ UNCHANGED at)
    /\ WF_loopVars(ProcessAlive /\ gc # "waiting" /\ GCWake /\ UNCHANGED at)
    /\ WF_loopVars(ProcessAlive /\ GCFinish /\ UNCHANGED at)

LoopSpec == LoopInit /\ [][LoopNext]_loopVars /\ LoopFairness

-----------------------------------------------------------------------------
(* How the world can be held up: a request to stop is answered unless some *)
(* mutator from some point on stays in one loop (safepoint runs at every   *)
(* invocation, mod.rs:898 and 923), or a panic has poisoned HEAP, or one   *)
(* has ended a mutator that stays registered, or an allocation waits for   *)
(* the HEAP it holds.                                                      *)
ServedUnlessLooping ==
    \/ []<>~stop
    \/ <>(poisoned \/ \E t \in Thread : pc[t] \in {"panicked", "blocked"})
    \/ \E t \in Thread : <>[](at[t] # "call")
=============================================================================
