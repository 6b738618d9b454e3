------------------------------ MODULE WriteLock ------------------------------
(***************************************************************************)
(* The lock file that keeps two processes from appending to one shard      *)
(* (src/include/FileLock.hpp, src/src/FileLock.cpp, src/src/BertIndex.cpp  *)
(* lines 676 to 750).  A process that wants to append looks at the pid in  *)
(* the file, waits for the file to go away when the pid is that of another *)
(* living process, and then takes an flock and writes its own pid.  It     *)
(* keeps the lock until its next save.  The destructor of an index removes *)
(* the file.                                                               *)
(*                                                                         *)
(* A step is one system call, or some that no other process can tell       *)
(* apart from one.  Each process has one object for the shard.  A removed  *)
(* file lives on for those who have it open, so files are numbered in the  *)
(* order they are created.                                                 *)
(***************************************************************************)
EXTENDS Integers

CONSTANTS
    Pids,         \* pids
    MaxFiles,     \* bound: files created, MaxCloses + 1 are enough
    MaxCloses,    \* bound: destructors run
    MaxCrashes    \* bound: processes that die

ASSUME PidsAssumption == 0 \notin Pids /\ -1 \notin Pids
ASSUME BoundsAssumption ==
    MaxFiles \in Nat /\ MaxCloses \in Nat /\ MaxCrashes \in Nat

VARIABLES
    at, job,            \* where each process is, and in which call
    fd,                 \* the file its FileLock has open, 0 if none
    locked,             \* FileLock::locked
    advanced,           \* its descriptor's offset is no longer the file's start
    writing,            \* it has appended, or is clearing, and not yet saved
    watched, notified,  \* the file it watches; an attribute event is pending
    path,               \* the file the lock's name refers to, 0 if none
    created,            \* files created so far
    pid,                \* what each file holds: a pid, 0 if empty, or Garbled
    holder,             \* who has the flock on each file, 0 if nobody
    closes, crashes     \* history: destructors and deaths

callVars == <<at, job>>
lockVars == <<fd, locked, advanced, writing>>
waitVars == <<watched, notified>>
nameVars == <<path, created, pid>>
bookVars == <<closes, crashes>>
lockFileVars == <<callVars, lockVars, waitVars, nameVars, holder, bookVars>>

Files == 1 .. MaxFiles

\* A pid behind bytes that are zero, which is not read as a number.
Garbled == -1

\* What a process finds under the lock's name; 0: missing or empty.
PidAtPath == IF path = 0 THEN 0 ELSE pid[path]

Alive(p) == at[p] # "dead"

\* pid_active_other
ActiveOther(p, q) == q \in Pids \ {p} /\ Alive(q)

GoOn(p, label) == at' = [at EXCEPT ![p] = label]
Set(f, p, x) == [f EXCEPT ![p] = x]

-----------------------------------------------------------------------------
(* Mutants: plausible bugs.  The specification uses none of them.           *)

FlockShared(p) ==
    /\ at[p] = "flock" /\ GoOn(p, "write_pid")
    /\ holder' = Set(holder, fd[p], p) /\ locked' = Set(locked, p, TRUE)
    /\ UNCHANGED <<job, fd, advanced, writing, waitVars, nameVars, bookVars>>

ClearPidForgotten(p) ==
    /\ at[p] = "clear_pid"
    /\ GoOn(p, IF job[p] = "close" THEN "remove" ELSE "idle")
    /\ UNCHANGED <<job, lockVars, waitVars, nameVars, holder, bookVars>>

TimedOutRetries(p) ==
    /\ at[p] = "waiting" /\ GoOn(p, "look")
    /\ watched' = Set(watched, p, 0) /\ notified' = Set(notified, p, FALSE)
    /\ UNCHANGED <<job, lockVars, nameVars, holder, bookVars>>

-----------------------------------------------------------------------------
LockInit ==
    /\ at = [p \in Pids |-> "closed"] /\ job = [p \in Pids |-> "none"]
    /\ fd = [p \in Pids |-> 0]
    /\ locked = [p \in Pids |-> FALSE] /\ writing = [p \in Pids |-> FALSE]
    /\ advanced = [p \in Pids |-> FALSE]
    /\ watched = [p \in Pids |-> 0] /\ notified = [p \in Pids |-> FALSE]
    /\ path = 0 /\ created = 0
    /\ pid = [f \in Files |-> 0] /\ holder = [f \in Files |-> 0]
    /\ closes = 0 /\ crashes = 0

\* A call starts.
Call(p, j, label) ==
    /\ at[p] = "idle" /\ GoOn(p, label) /\ job' = Set(job, p, j)
    /\ UNCHANGED <<lockVars, waitVars, nameVars, holder>>

Open(p) ==
    /\ at[p] = "closed" /\ GoOn(p, "idle")
    /\ UNCHANGED <<job, lockVars, waitVars, nameVars, holder, bookVars>>

\* append: wait_lock looks whether the file has any contents.
BeginAppend(p) ==
    /\ Call(p, "append", IF PidAtPath # 0 THEN "read_pid" ELSE "open_lock")
    /\ UNCHANGED bookVars

\* clear: acquire_lock at once.
BeginClear(p) == Call(p, "clear", "open_lock") /\ UNCHANGED bookVars

\* Any call that saves: save ends with release_lock.
BeginSave(p) ==
    /\ locked[p] \/ writing[p]
    /\ Call(p, "save", "unlock") /\ UNCHANGED bookVars

\* The destructor flushes, and with it saves.
BeginClose(p) ==
    /\ closes < MaxCloses /\ closes' = closes + 1
    /\ Call(p, "close", "unlock") /\ UNCHANGED crashes

\* wait_lock reads the pid.  When there is none that it can read, or its own,
\* or that of a dead process, it returns 0 as if it had the lock.
FindsNobody(p) ==
    /\ at[p] = "read_pid" /\ ~ActiveOther(p, PidAtPath)
    /\ GoOn(p, "idle") /\ writing' = Set(writing, p, TRUE)
    /\ UNCHANGED <<job, fd, locked, advanced, waitVars, nameVars, holder, bookVars>>

FindsOther(p) ==
    /\ at[p] = "read_pid" /\ ActiveOther(p, PidAtPath)
    /\ GoOn(p, "look")
    /\ UNCHANGED <<job, lockVars, waitVars, nameVars, holder, bookVars>>

\* wait_for_file_removal_inotify: nothing to wait for, or a watch is set.
LookForPid(p) ==
    /\ at[p] = "look"
    /\ GoOn(p, IF PidAtPath = 0 THEN "open_lock" ELSE "add_watch")
    /\ UNCHANGED <<job, lockVars, waitVars, nameVars, holder, bookVars>>

\* The watch fails when the file is gone: append is refused.
AddWatch(p) ==
    /\ at[p] = "add_watch"
    /\ GoOn(p, IF path = 0 THEN "idle" ELSE "waiting")
    /\ watched' = Set(watched, p, path)
    /\ UNCHANGED <<job, lockVars, notified, nameVars, holder, bookVars>>

\* The wait ends; label is where the caller goes on.
StopWaiting(p, label) ==
    /\ at[p] = "waiting" /\ GoOn(p, label)
    /\ watched' = Set(watched, p, 0) /\ notified' = Set(notified, p, FALSE)
    /\ UNCHANGED <<job, lockVars, nameVars, holder, bookVars>>

\* An attribute event: go on only if there is a file with contents.
AttributeEvent(p) ==
    /\ notified[p] /\ PidAtPath # 0
    /\ StopWaiting(p, "open_lock")

IgnoredEvent(p) ==
    /\ notified[p] /\ PidAtPath = 0
    /\ notified' = Set(notified, p, FALSE)
    /\ UNCHANGED <<callVars, lockVars, watched, nameVars, holder, bookVars>>

\* The deletion event: the file has neither its name nor anyone who has it open.
DeletedEvent(p) ==
    /\ watched[p] # path /\ \A q \in Pids : fd[q] # watched[p]
    /\ StopWaiting(p, "open_lock")

\* 60 seconds without an event: append is refused.
TimedOut(p) == StopWaiting(p, "idle")

\* The FileLock, made on first use, opens or creates the file of that name.
OpenLock(p) ==
    /\ at[p] = "open_lock" /\ GoOn(p, "flock")
    /\ IF fd[p] # 0 THEN UNCHANGED <<fd, nameVars>>
       ELSE /\ IF path # 0 THEN UNCHANGED <<path, created>>
               ELSE /\ created < MaxFiles
                    /\ created' = created + 1 /\ path' = created + 1
            /\ fd' = Set(fd, p, path') /\ UNCHANGED pid
    /\ UNCHANGED <<job, locked, advanced, writing, waitVars, holder, bookVars>>

\* try_lock.
Flock(p) ==
    /\ at[p] = "flock" /\ holder[fd[p]] \in {0, p}
    /\ GoOn(p, "write_pid")
    /\ holder' = Set(holder, fd[p], p) /\ locked' = Set(locked, p, TRUE)
    /\ UNCHANGED <<job, fd, advanced, writing, waitVars, nameVars, bookVars>>

\* acquire_lock throws.
FlockFails(p) ==
    /\ at[p] = "flock" /\ holder[fd[p]] \notin {0, p}
    /\ GoOn(p, "idle")
    /\ UNCHANGED <<job, lockVars, waitVars, nameVars, holder, bookVars>>

\* The pid goes to the descriptor's offset, which truncation leaves where the
\* write before put it.  With the pid written append and clear do their work.
WritePid(p) ==
    /\ at[p] = "write_pid"
    /\ pid' = Set(pid, fd[p], IF advanced[p] THEN Garbled ELSE p)
    /\ advanced' = Set(advanced, p, TRUE) /\ writing' = Set(writing, p, TRUE)
    /\ GoOn(p, IF job[p] = "clear" THEN "unlock" ELSE "idle")
    /\ UNCHANGED <<job, fd, locked, waitVars, path, created, holder, bookVars>>

\* release_lock: the work is done; give the flock back if there is one.
Unlock(p) ==
    /\ at[p] = "unlock"
    /\ GoOn(p, IF locked[p] THEN "clear_pid"
               ELSE IF job[p] = "close" THEN "remove" ELSE "idle")
    /\ holder' = [f \in Files |-> IF locked[p] /\ f = fd[p] THEN 0 ELSE holder[f]]
    /\ locked' = Set(locked, p, FALSE) /\ writing' = Set(writing, p, FALSE)
    /\ UNCHANGED <<job, fd, advanced, waitVars, nameVars, bookVars>>

\* and then empty the file.
ClearPid(p) ==
    /\ at[p] = "clear_pid"
    /\ GoOn(p, IF job[p] = "close" THEN "remove" ELSE "idle")
    /\ pid' = Set(pid, fd[p], 0)
    /\ UNCHANGED <<job, lockVars, waitVars, path, created, holder, bookVars>>

\* remove_lockfile, and the end of the FileLock.
RemoveLockfile(p) ==
    /\ at[p] = "remove" /\ GoOn(p, "closed")
    /\ path' = 0 /\ fd' = Set(fd, p, 0) /\ advanced' = Set(advanced, p, FALSE)
    /\ notified' = [q \in Pids |-> \/ notified[q]
                                   \/ path # 0 /\ watched[q] = path]
    /\ UNCHANGED <<job, locked, writing, watched, created, pid, holder, bookVars>>

\* The kernel closes what the process had open.
Die(p) ==
    /\ Alive(p) /\ crashes < MaxCrashes /\ crashes' = crashes + 1
    /\ GoOn(p, "dead")
    /\ fd' = Set(fd, p, 0) /\ advanced' = Set(advanced, p, FALSE)
    /\ locked' = Set(locked, p, FALSE) /\ writing' = Set(writing, p, FALSE)
    /\ watched' = Set(watched, p, 0) /\ notified' = Set(notified, p, FALSE)
    /\ holder' = [f \in Files |-> IF holder[f] = p THEN 0 ELSE holder[f]]
    /\ UNCHANGED <<job, nameVars, closes>>

\* The steps of a call that has begun, apart from the wait's end.
Step(p) ==
    \/ FindsNobody(p) \/ FindsOther(p) \/ LookForPid(p) \/ AddWatch(p)
    \/ AttributeEvent(p) \/ IgnoredEvent(p) \/ DeletedEvent(p)
    \/ OpenLock(p) \/ Flock(p) \/ FlockFails(p) \/ WritePid(p)
    \/ Unlock(p) \/ ClearPid(p) \/ RemoveLockfile(p)

LockNext ==
    \E p \in Pids :
        \/ Open(p) \/ BeginAppend(p) \/ BeginClear(p) \/ BeginSave(p)
        \/ BeginClose(p) \/ Step(p) \/ TimedOut(p) \/ Die(p)

LockSpec == LockInit /\ [][LockNext]_lockFileVars

\* The system runs every process, and delivers events that stay pending.
Fairness == \A p \in Pids : WF_lockFileVars(Step(p))
FairSpec == LockSpec /\ Fairness

\* Sixty seconds pass as well.
TimedSpec == FairSpec /\ \A p \in Pids : WF_lockFileVars(TimedOut(p))

-----------------------------------------------------------------------------
InCall == {"read_pid", "look", "add_watch", "waiting", "open_lock", "flock",
           "write_pid", "unlock", "clear_pid", "remove"}

LockTypes ==
    /\ at \in [Pids -> InCall \cup {"closed", "idle", "dead"}]
    /\ job \in [Pids -> {"none", "append", "clear", "save", "close"}]
    /\ fd \in [Pids -> Files \cup {0}] /\ path \in Files \cup {0}
    /\ created \in 0 .. MaxFiles
    /\ locked \in [Pids -> BOOLEAN] /\ writing \in [Pids -> BOOLEAN]
    /\ advanced \in [Pids -> BOOLEAN]
    /\ watched \in [Pids -> Files \cup {0}] /\ notified \in [Pids -> BOOLEAN]
    /\ pid \in [Files -> Pids \cup {0, Garbled}]
    /\ holder \in [Files -> Pids \cup {0}]
    /\ closes \in 0 .. MaxCloses /\ crashes \in 0 .. MaxCrashes

\* Where a process is says what it has.
Stage(p) ==
    /\ at[p] \in {"flock", "write_pid", "clear_pid"} => fd[p] # 0
    /\ at[p] = "write_pid" => locked[p]
    /\ locked[p] => fd[p] # 0 /\ at[p] \notin {"clear_pid", "remove", "closed", "dead"}
    /\ locked[p] /\ at[p] # "write_pid" => writing[p]
    /\ at[p] = "waiting" => watched[p] # 0
    /\ at[p] = "remove" => job[p] = "close"
    /\ job[p] = "close" /\ at[p] \in InCall => closes > 0

\* Every variable keeps its type; who is about to use the descriptor has one,
\* who waits has something to watch, who has the lock is writing, and no lock
\* outlives the object.
LockTypeOK == LockTypes /\ \A p \in Pids : Stage(p)

\* The flag and the kernel agree: who believes to have the flock has it, and
\* nobody else has it.
FlagIsFlock ==
    \A p \in Pids : \A f \in Files :
        holder[f] = p <=> locked[p] /\ fd[p] = f

\* As long as no destructor ran, two processes never both have the lock.
\* (One that removes the lock file lets the next lock a new one.)
OneHolder ==
    closes = 0 => \A p, q \in Pids : locked[p] /\ locked[q] => p = q

\* The pid of a living process stands in the lock file only while it has the
\* lock, or is about to empty the file: who waits, waits for a holder.
LivePidHolds ==
    \A p \in Pids :
        Alive(p) /\ PidAtPath = p =>
            fd[p] = path /\ (locked[p] \/ at[p] = "clear_pid")

\* The lock, its flags and the pid in the lock file name one holder.
HolderKnown == FlagIsFlock /\ OneHolder /\ LivePidHolds

\* At most one process has appended and not yet saved.
Exclusive == \A p, q \in Pids : writing[p] /\ writing[q] => p = q

\* Exclusion is lost only by a process that reads no living process's pid and
\* goes on without the lock (its own pid never misleads it), or by one that gets
\* the lock beside a writer that has none, or that has locked another file, one
\* of the two being removed.
ExclusionLost ==
    [][Exclusive /\ ~Exclusive' =>
          \E p \in Pids :
              \/ FindsNobody(p) /\ ~(PidAtPath \in Pids /\ Alive(PidAtPath))
              \/ /\ WritePid(p)
                 /\ \E q \in Pids \ {p} :
                       writing[q] /\ (locked[q] => fd[q] # fd[p])]_lockFileVars

\* Every call comes to an end: no process waits forever for another, if only
\* because the wait for the lock file has a limit.
CallsReturn ==
    \A p \in Pids : at[p] \in InCall ~> at[p] \notin InCall
=============================================================================
