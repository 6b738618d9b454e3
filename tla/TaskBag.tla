------------------------------- MODULE TaskBag -------------------------------
(***************************************************************************)
(* What a thread pool promises, with no threads, queue or condition        *)
(* variable: a task that is accepted runs once, on at most Limit others'   *)
(* time, and the pool is gone only when all accepted tasks have run.       *)
(***************************************************************************)
EXTENDS Integers, FiniteSets

CONSTANTS Tasks, Limit      \* tasks, and how many run at a time

VARIABLES
    state,                  \* what became of each task
    phase                   \* the pool: "open", "closed" to new tasks, "gone"

bagVars == <<state, phase>>

In(s) == {t \in Tasks : state[t] \in s}

Become(t, s) == state' = [state EXCEPT ![t] = s]

BagInit == state = [t \in Tasks |-> "new"] /\ phase = "open"

Accept(t) ==
    /\ phase = "open" /\ state[t] = "new"
    /\ Become(t, "waiting") /\ UNCHANGED phase

Start(t) ==
    /\ state[t] = "waiting" /\ Cardinality(In({"running"})) < Limit
    /\ Become(t, "running") /\ UNCHANGED phase

Finish(t) ==
    /\ state[t] = "running"
    /\ \E r \in {"ok", "threw"} : Become(t, r)
    /\ UNCHANGED phase

Close == phase = "open" /\ phase' = "closed" /\ UNCHANGED state

Go ==
    /\ phase = "closed" /\ In({"waiting", "running"}) = {}
    /\ phase' = "gone" /\ UNCHANGED state

BagNext ==
    \/ \E t \in Tasks : Accept(t) \/ Start(t) \/ Finish(t)
    \/ Close \/ Go

BagSpec == BagInit /\ [][BagNext]_bagVars
=============================================================================
