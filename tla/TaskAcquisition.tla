--------------------------- MODULE TaskAcquisition ---------------------------
(***************************************************************************)
(* What the dependency core promises a task about its arbitered data       *)
(* (spec.md 4.2 and 4.5), with no requester list, no arbiter mutex and no  *)
(* per-handle reference count: a submitted task waits, then takes every    *)
(* handle it names in one step, when no task that holds one of them is     *)
(* still running; it runs; it gives them all back.  A task with no data is *)
(* ready as soon as it is submitted (spec.md 8, R2).                       *)
(*                                                                         *)
(* Arbiter.tla is shown to implement this specification: its refinement    *)
(* mapping is ArbiterAbs in Arbiter.tla.                                   *)
(***************************************************************************)
CONSTANTS
    Tasks,      \* the tasks
    Requests    \* the sets of handles a task may name

VARIABLES
    phase,      \* task -> "idle" | "pending" | "ready" | "done"
    needs       \* task -> the handles it named at submission

vars == <<phase, needs>>

\* Handles held by tasks that are ready (taken and not yet given back).
Taken == UNION {needs[u] : u \in {v \in Tasks : phase[v] = "ready"}}

Init ==
    /\ phase = [t \in Tasks |-> "idle"]
    /\ needs = [t \in Tasks |-> {}]

\* The application submits t with the handles r.
Submit(t) ==
    /\ phase[t] = "idle"
    /\ \E r \in Requests :
        /\ needs' = [needs EXCEPT ![t] = r]
        /\ phase' = [phase EXCEPT ![t] = IF r = {} THEN "ready" ELSE "pending"]

\* t takes all its handles at once, none of which a ready task holds.
Acquire(t) ==
    /\ phase[t] = "pending"
    /\ needs[t] \cap Taken = {}
    /\ phase' = [phase EXCEPT ![t] = "ready"]
    /\ UNCHANGED needs

\* t has run and gives its handles back.
Finish(t) ==
    /\ phase[t] = "ready"
    /\ phase' = [phase EXCEPT ![t] = "done"]
    /\ UNCHANGED needs

Next == \E t \in Tasks : Submit(t) \/ Acquire(t) \/ Finish(t)

\* A waiting task whose handles are free again and again is eventually
\* served (spec.md 8, P5); a ready task eventually runs and finishes.
Spec ==
    /\ Init /\ [][Next]_vars
    /\ \A t \in Tasks : SF_vars(Acquire(t)) /\ WF_vars(Finish(t))

=============================================================================
