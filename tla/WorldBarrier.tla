---------------------------- MODULE WorldBarrier ----------------------------
(***************************************************************************)
(* What the stop-the-world protocol of src/src/vm/heap.rs promises: any    *)
(* running mutator may ask for the world to be stopped, the collector runs *)
(* only once no mutator does, and nobody resumes before it is done.  A     *)
(* panic under the lock ends the protocol for good ("failed").             *)
(***************************************************************************)
CONSTANTS Thread, Main

VARIABLES phase, state

vars == <<phase, state>>

TypeOK ==
    /\ phase \in {"idle", "requested", "collecting", "failed"}
    /\ state \in [Thread -> {"out", "running", "stopped"}]

Init ==
    /\ phase = "idle"
    /\ state = [t \in Thread |-> IF t = Main THEN "running" ELSE "out"]

Move(t, to) == state' = [state EXCEPT ![t] = to]

Join(t) ==
    /\ state[t] = "out"
    /\ \/ phase = "idle" /\ Move(t, "running")
       \/ phase = "requested" /\ Move(t, "stopped")
    /\ UNCHANGED phase

Leave(t) ==
    /\ state[t] = "running"
    /\ phase \in {"idle", "requested"}
    /\ Move(t, "out")
    /\ UNCHANGED phase

Request(t) ==
    /\ state[t] = "running"
    /\ phase = "idle"
    /\ phase' = "requested"
    /\ UNCHANGED state

Stop(t) ==
    /\ state[t] = "running"
    /\ phase = "requested"
    /\ Move(t, "stopped")
    /\ UNCHANGED phase

\* The allocation a thread was stopped in may ask for the next collection.
Resume(t) ==
    /\ state[t] = "stopped"
    /\ phase = "idle"
    /\ Move(t, "running")
    /\ phase' \in {"idle", "requested"}

Collect ==
    /\ phase = "requested"
    /\ \A t \in Thread : state[t] # "running"
    /\ phase' = "collecting"
    /\ UNCHANGED state

Done ==
    /\ phase = "collecting"
    /\ phase' = "idle"
    /\ UNCHANGED state

\* The collector, or a mutator, panics under the lock.
Fail ==
    /\ phase \in {"idle", "requested"}
    /\ phase' = "failed"
    /\ \/ UNCHANGED state
       \/ \E t \in Thread : state[t] # "out" /\ Move(t, "out")

\* Every later use of the heap panics too.
Crash(t) ==
    /\ phase = "failed"
    /\ Move(t, "out")
    /\ UNCHANGED phase

Next ==
    \/ \E t \in Thread :
          \/ Join(t) \/ Leave(t) \/ Request(t) \/ Stop(t) \/ Resume(t) \/ Crash(t)
    \/ Collect
    \/ Done
    \/ Fail

Spec == Init /\ [][Next]_vars

(* No mutator runs during a collection. *)
Exclusion == phase = "collecting" => \A t \in Thread : state[t] # "running"
=============================================================================
