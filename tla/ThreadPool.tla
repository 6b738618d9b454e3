----------------------------- MODULE ThreadPool -----------------------------
(***************************************************************************)
(* The thread pool (src/include/ThreadPool.hpp) and the searches that use  *)
(* it in a build with USE_THREADPOOL (src/src/ShardedIndex.cpp, lines 146  *)
(* to 191): a search puts one task per shard into the queue, and takes the *)
(* results in the order of the shards.  When the process exits the         *)
(* destructor of the pool lets the workers empty the queue.                *)
(*                                                                         *)
(* A step is one critical section of the queue's mutex, one notification,  *)
(* one task, or one result taken.  A waiting worker may wake up for no     *)
(* reason, as the condition variables of C++ do.                           *)
(***************************************************************************)
EXTENDS Integers, Sequences, FiniteSets

CONSTANTS
    Workers,        \* threads of the pool
    Searches,       \* searches, each by a thread of its own
    Shards          \* shards that each of them asks

ASSUME WorkersAssumption == IsFiniteSet(Workers) /\ Workers # {}
ASSUME ShardsAssumption == Shards \in Nat \ {0}

VARIABLES
    queue,          \* ThreadPool::tasks
    stop,           \* ThreadPool::stop
    wpc, task,      \* where each worker is, and the task it runs
    spc, shard,     \* where each search is, and at which shard
    result,         \* what the future of each task holds
    exit            \* where the destructor of the pool is

poolVars == <<queue, stop, wpc, task, spc, shard, result, exit>>
workerVars == <<wpc, task>>
searchVars == <<spc, shard>>

Tasks == Searches \X (1 .. Shards)
NoTask == <<>>

Enqueued == {queue[i] : i \in 1 .. Len(queue)}
Running == {task[w] : w \in {v \in Workers : wpc[v] = "run"}}
Blocked == {w \in Workers : wpc[w] = "blocked"}

With(f, p, x) == [f EXCEPT ![p] = x]

\* Workers wake up: each of them takes the mutex and looks again.
Wake(W) == wpc' = [w \in Workers |-> IF w \in W THEN "check" ELSE wpc[w]]

-----------------------------------------------------------------------------
(* Mutants: plausible bugs.  The specification uses none of them.           *)

\* A worker leaves when it sees the flag.
LeaveAtOnce(w) ==
    /\ wpc[w] = "check" /\ stop
    /\ wpc' = With(wpc, w, "left")
    /\ UNCHANGED <<queue, stop, task, searchVars, result, exit>>

\* The result of the first shard is enough.
GetFirst(s) ==
    /\ spc[s] = "get" /\ result[<<s, shard[s]>>] # "none"
    /\ spc' = With(spc, s, "returned") /\ UNCHANGED shard
    /\ UNCHANGED <<queue, stop, workerVars, result, exit>>

\* Nobody is told of a task.
NotifyNobody(s) ==
    /\ spc[s] = "notify"
    /\ IF shard[s] < Shards
       THEN spc' = With(spc, s, "enqueue") /\ shard' = With(shard, s, shard[s] + 1)
       ELSE spc' = With(spc, s, "get") /\ shard' = With(shard, s, 1)
    /\ UNCHANGED <<queue, stop, workerVars, result, exit>>

-----------------------------------------------------------------------------
PoolInit ==
    /\ queue = <<>> /\ stop = FALSE /\ exit = "no"
    /\ wpc = [w \in Workers |-> "check"] /\ task = [w \in Workers |-> NoTask]
    /\ spc = [s \in Searches |-> "idle"] /\ shard = [s \in Searches |-> 1]
    /\ result = [t \in Tasks |-> "none"]

\* parallel_search begins.
Search(s) ==
    /\ exit # "gone" /\ spc[s] = "idle" /\ spc' = With(spc, s, "enqueue")
    /\ UNCHANGED <<queue, stop, workerVars, shard, result, exit>>

\* enqueue, up to the end of its critical section.
Enqueue(s) ==
    /\ spc[s] = "enqueue" /\ ~stop
    /\ queue' = Append(queue, <<s, shard[s]>>) /\ spc' = With(spc, s, "notify")
    /\ UNCHANGED <<stop, workerVars, shard, result, exit>>

\* A stopped pool refuses the task with an exception, which ends the search.  One
\* that is gone does the same: the pool is a static object, whose flag stays.
EnqueueRefused(s) ==
    /\ spc[s] = "enqueue" /\ stop
    /\ spc' = With(spc, s, "refused")
    /\ UNCHANGED <<queue, stop, workerVars, shard, result, exit>>

\* notify_one, outside the mutex; then the next shard, or the results.
Notify(s) ==
    /\ spc[s] = "notify"
    /\ \/ \E w \in Blocked : Wake({w})
       \/ Blocked = {} /\ UNCHANGED wpc
    /\ IF shard[s] < Shards
       THEN spc' = With(spc, s, "enqueue") /\ shard' = With(shard, s, shard[s] + 1)
       ELSE spc' = With(spc, s, "get") /\ shard' = With(shard, s, 1)
    /\ UNCHANGED <<queue, stop, task, result, exit>>

\* future::get waits for the task, and throws what the task threw: the search
\* ends, without the results that are still to come.
Get(s) ==
    /\ spc[s] = "get" /\ result[<<s, shard[s]>>] # "none"
    /\ IF result[<<s, shard[s]>>] = "ok" /\ shard[s] < Shards
       THEN shard' = With(shard, s, shard[s] + 1) /\ UNCHANGED spc
       ELSE spc' = With(spc, s, "returned") /\ UNCHANGED shard
    /\ UNCHANGED <<queue, stop, workerVars, result, exit>>

\* A worker has the mutex and the predicate of the wait is false.
Block(w) ==
    /\ wpc[w] = "check" /\ ~stop /\ queue = <<>>
    /\ wpc' = With(wpc, w, "blocked")
    /\ UNCHANGED <<queue, stop, task, searchVars, result, exit>>

\* The pool is stopped and there is nothing left to do.
Leave(w) ==
    /\ wpc[w] = "check" /\ stop /\ queue = <<>>
    /\ wpc' = With(wpc, w, "left")
    /\ UNCHANGED <<queue, stop, task, searchVars, result, exit>>

Take(w) ==
    /\ wpc[w] = "check" /\ queue # <<>>
    /\ wpc' = With(wpc, w, "run") /\ task' = With(task, w, Head(queue))
    /\ queue' = Tail(queue)
    /\ UNCHANGED <<stop, searchVars, result, exit>>

\* The task returns or throws; either way its future has an answer.
Finish(w) ==
    /\ wpc[w] = "run" /\ wpc' = With(wpc, w, "check")
    /\ \E r \in {"ok", "threw"} : result' = With(result, task[w], r)
    /\ task' = With(task, w, NoTask)
    /\ UNCHANGED <<queue, stop, searchVars, exit>>

WakeForNothing(w) ==
    /\ w \in Blocked /\ Wake({w})
    /\ UNCHANGED <<queue, stop, task, searchVars, result, exit>>

\* The destructor, when the process exits.
Stop ==
    /\ exit = "no" /\ exit' = "notify" /\ stop' = TRUE
    /\ UNCHANGED <<queue, workerVars, searchVars, result>>

NotifyAll ==
    /\ exit = "notify" /\ exit' = "join" /\ Wake(Blocked)
    /\ UNCHANGED <<queue, stop, task, searchVars, result>>

Join ==
    /\ exit = "join" /\ \A w \in Workers : wpc[w] = "left"
    /\ exit' = "gone"
    /\ UNCHANGED <<queue, stop, workerVars, searchVars, result>>

WorkerStep(w) == Block(w) \/ Leave(w) \/ Take(w) \/ Finish(w)
SearchStep(s) == Enqueue(s) \/ EnqueueRefused(s) \/ Notify(s) \/ Get(s)
ExitStep == NotifyAll \/ Join

PoolNext ==
    \/ \E w \in Workers : WorkerStep(w) \/ WakeForNothing(w)
    \/ \E s \in Searches : Search(s) \/ SearchStep(s)
    \/ Stop \/ ExitStep

PoolSpec == PoolInit /\ [][PoolNext]_poolVars

\* Threads are scheduled, a mutex that is free is had in the end, and no task
\* runs for ever.  Nothing is assumed of when searches begin, of the process's
\* exit, or of waking up for nothing.
PoolFairness ==
    /\ \A w \in Workers : WF_poolVars(WorkerStep(w))
    /\ \A s \in Searches : WF_poolVars(SearchStep(s))
    /\ WF_poolVars(ExitStep)
PoolFairSpec == PoolSpec /\ PoolFairness

-----------------------------------------------------------------------------
PoolTypes ==
    /\ queue \in Seq(Tasks) /\ stop \in BOOLEAN
    /\ wpc \in [Workers -> {"check", "blocked", "run", "left"}]
    /\ task \in [Workers -> Tasks \cup {NoTask}]
    /\ spc \in [Searches -> {"idle", "enqueue", "notify", "get", "returned", "refused"}]
    /\ shard \in [Searches -> 1 .. Shards]
    /\ result \in [Tasks -> {"none", "ok", "threw"}]
    /\ exit \in {"no", "notify", "join", "gone"}

\* Every variable keeps its type, a worker has a task exactly while it runs one,
\* and the flag is up exactly from the destructor's first step.
PoolTypeOK ==
    /\ PoolTypes
    /\ \A w \in Workers : wpc[w] = "run" <=> task[w] \in Tasks
    /\ stop <=> exit # "no"

\* The thread of the search has left parallel_search.
CallerGone(s) == spc[s] \in {"returned", "refused"}

\* A task holds a reference to a parameter of parallel_search.  It outlives the
\* call only if an earlier shard's task threw, or the pool was stopped before
\* all were enqueued; a search that ends well leaves no task behind.
OrphanHasCause ==
    \A s \in Searches : \A i \in 1 .. Shards :
        CallerGone(s) /\ <<s, i>> \in Enqueued \cup Running =>
            spc[s] = "refused" \/ \E j \in 1 .. i - 1 : result[<<s, j>>] = "threw"

TaskState ==
    [t \in Tasks |-> IF result[t] # "none" THEN result[t]
                     ELSE IF t \in Running THEN "running"
                     ELSE IF t \in Enqueued THEN "waiting" ELSE "new"]

Phase == IF exit = "no" THEN "open" ELSE IF exit = "gone" THEN "gone" ELSE "closed"

Bag == INSTANCE TaskBag
       WITH Limit <- Cardinality(Workers), state <- TaskState, phase <- Phase

\* Queue, workers, flag and condition variable make a bag of tasks: each accepted
\* task is run once, none after the pool is gone, and the pool does not go before.
ImplementsBag == Bag!BagSpec

\* No search waits for ever for a result, whether or not the process exits; and
\* once it exits the destructor comes to its end.
AllReturn ==
    /\ \A s \in Searches : spc[s] \in {"enqueue", "notify", "get"} ~> CallerGone(s)
    /\ stop ~> exit = "gone"
=============================================================================
