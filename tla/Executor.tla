------------------------------ MODULE Executor ------------------------------
(***************************************************************************)
(* ContainerSandboxExecutor (executor.py): the lock, the cached container  *)
(* id and the tool calls that run in one asyncio loop.  A call is a task;  *)
(* it suspends only at an await, so every action below is the code between *)
(* two awaits.  What the backend answers is a parameter of the action: a   *)
(* module that models a backend conjoins the action with the answer that   *)
(* backend gives.  ExecutorSpec lets the backend answer anything.          *)
(***************************************************************************)
EXTENDS Naturals

CONSTANTS
    Executors,   \* the executor objects of one session in the process
    Tasks,       \* the tool calls that may be in flight
    ExecutorOf,  \* the executor a task calls
    Closers,     \* the executors on which the host also calls close()
    Ids,         \* container ids a backend may return
    None,        \* Python's None
    SetupCount   \* len(setup_commands)

ASSUME ExecutorAssumption ==
    /\ ExecutorOf \in [Tasks -> Executors]
    /\ Closers \subseteq Executors
    /\ None \notin Ids \cup Tasks
    /\ SetupCount \in Nat

VARIABLES
    containerId, \* _container_id of each executor
    lockHolder,  \* the task inside `async with self._lock`, or None
    stage,       \* the await at which a task is suspended
    bound,       \* the container id in a task's frame
    setupsRun    \* setup commands the task has finished

executorVars == <<containerId, lockHolder, stage, bound, setupsRun>>

Critical == {"exists", "find", "create", "setup"}
Stages == Critical \cup {"idle", "lock", "exec"}

ExecutorTypeOK ==
    /\ containerId \in [Executors -> Ids \cup {None}]
    /\ lockHolder \in [Executors -> Tasks \cup {None}]
    /\ stage \in [Tasks -> Stages]
    /\ bound \in [Tasks -> Ids \cup {None}]
    /\ setupsRun \in [Tasks -> 0..SetupCount]

ExecutorInit ==
    /\ containerId = [e \in Executors |-> None]
    /\ lockHolder = [e \in Executors |-> None]
    /\ stage = [t \in Tasks |-> "idle"]
    /\ bound = [t \in Tasks |-> None]
    /\ setupsRun = [t \in Tasks |-> 0]

-----------------------------------------------------------------------------
(* _ensure_container *)

Release(t) == lockHolder' = [lockHolder EXCEPT ![ExecutorOf[t]] = None]

\* The task's frame moves to the await s, with id its container id.
Frame(t, s, id) ==
    /\ stage' = [stage EXCEPT ![t] = s]
    /\ bound' = [bound EXCEPT ![t] = id]

\* _ensure_container returns id, and execute awaits exec_command.
EnsureReturns(t, id) ==
    /\ Release(t)
    /\ Frame(t, "exec", id)

Execute(t) ==
    /\ stage[t] = "idle"
    /\ Frame(t, "lock", None)
    /\ UNCHANGED <<containerId, lockHolder, setupsRun>>

\* Mutant: no lock.
AcquireUnlocked(t) ==
    LET cached == containerId[ExecutorOf[t]]
    IN  /\ stage[t] = "lock"
        /\ lockHolder' = [lockHolder EXCEPT ![ExecutorOf[t]] = t]
        /\ Frame(t, IF cached # None THEN "exists" ELSE "find", cached)
        /\ UNCHANGED <<containerId, setupsRun>>

\* Mutant: no discovery before a container is created.
AcquireUndiscovered(t) ==
    LET cached == containerId[ExecutorOf[t]]
    IN  /\ stage[t] = "lock"
        /\ lockHolder[ExecutorOf[t]] = None
        /\ lockHolder' = [lockHolder EXCEPT ![ExecutorOf[t]] = t]
        /\ Frame(t, IF cached # None THEN "exists" ELSE "create", cached)
        /\ UNCHANGED <<containerId, setupsRun>>

\* The lock is granted; a cached id is checked, else the session is looked up.
Acquire(t) ==
    LET cached == containerId[ExecutorOf[t]]
    IN  /\ stage[t] = "lock"
        /\ lockHolder[ExecutorOf[t]] = None
        /\ lockHolder' = [lockHolder EXCEPT ![ExecutorOf[t]] = t]
        /\ Frame(t, IF cached # None THEN "exists" ELSE "find", cached)
        /\ UNCHANGED <<containerId, setupsRun>>

\* On success the attribute is read again: close() may have reset it.
ExistsReturns(t, running) ==
    /\ stage[t] = "exists"
    /\ IF running
       THEN /\ EnsureReturns(t, containerId[ExecutorOf[t]])
            /\ UNCHANGED containerId
       ELSE /\ containerId' = [containerId EXCEPT ![ExecutorOf[t]] = None]
            /\ Frame(t, "find", None)
            /\ UNCHANGED lockHolder
    /\ UNCHANGED setupsRun

FindReturns(t, found) ==
    /\ stage[t] = "find"
    /\ IF found # None
       THEN /\ containerId' = [containerId EXCEPT ![ExecutorOf[t]] = found]
            /\ EnsureReturns(t, found)
       ELSE /\ Frame(t, "create", None)
            /\ UNCHANGED <<containerId, lockHolder>>
    /\ UNCHANGED setupsRun

\* Mutant: the lock covers the creation and not the setup commands.
CreateReturnsUnlocking(t, id) ==
    /\ stage[t] = "create"
    /\ containerId' = [containerId EXCEPT ![ExecutorOf[t]] = id]
    /\ setupsRun' = [setupsRun EXCEPT ![t] = 0]
    /\ Release(t)
    /\ Frame(t, IF SetupCount = 0 THEN "exec" ELSE "setup", id)

CreateReturns(t, id) ==
    /\ stage[t] = "create"
    /\ containerId' = [containerId EXCEPT ![ExecutorOf[t]] = id]
    /\ setupsRun' = [setupsRun EXCEPT ![t] = 0]
    /\ IF SetupCount = 0
       THEN EnsureReturns(t, id)
       ELSE /\ Frame(t, "setup", id)
            /\ UNCHANGED lockHolder

\* Mutant: the loop counts one too far.
LastSetupLate(t) == setupsRun[t] = SetupCount

\* A setup command ended, with any exit code: a failure is only logged.
LastSetup(t) == setupsRun[t] + 1 = SetupCount

SetupReturns(t) ==
    /\ stage[t] = "setup"
    /\ setupsRun' = [setupsRun EXCEPT ![t] = @ + 1]
    /\ IF LastSetup(t)
       THEN EnsureReturns(t, bound[t])
       ELSE UNCHANGED <<lockHolder, stage, bound>>
    /\ UNCHANGED containerId

\* Mutant: the lock is released on the normal path only.
EnsureRaisesLocked(t) ==
    /\ stage[t] \in {"find", "create", "setup"}
    /\ Frame(t, "idle", None)
    /\ UNCHANGED <<containerId, lockHolder, setupsRun>>

\* The backend raised: execute calls _ensure_container outside its try, so
\* the exception leaves the call.  The lock is released, the cache kept.
EnsureRaises(t) ==
    /\ stage[t] \in {"find", "create", "setup"}
    /\ Release(t)
    /\ Frame(t, "idle", None)
    /\ UNCHANGED <<containerId, setupsRun>>

-----------------------------------------------------------------------------
(* The rest of the class, and the process *)

\* exec_command answers, raises or times out: each becomes a result.
ExecReturns(t) ==
    /\ stage[t] = "exec"
    /\ Frame(t, "idle", None)
    /\ UNCHANGED <<containerId, lockHolder, setupsRun>>

Close(e) ==
    /\ e \in Closers
    /\ containerId' = [containerId EXCEPT ![e] = None]
    /\ UNCHANGED <<lockHolder, stage, bound, setupsRun>>

\* The process dies and starts again: nothing of an executor is persisted.
Restart ==
    /\ containerId' = [e \in Executors |-> None]
    /\ lockHolder' = [e \in Executors |-> None]
    /\ stage' = [t \in Tasks |-> "idle"]
    /\ bound' = [t \in Tasks |-> None]
    /\ setupsRun' = [t \in Tasks |-> 0]

ExecutorStep(t) ==
    \/ Execute(t)
    \/ Acquire(t)
    \/ \E running \in BOOLEAN : ExistsReturns(t, running)
    \/ \E found \in Ids \cup {None} : FindReturns(t, found)
    \/ \E id \in Ids : CreateReturns(t, id)
    \/ SetupReturns(t)
    \/ EnsureRaises(t)
    \/ ExecReturns(t)

ExecutorNext ==
    \/ \E t \in Tasks : ExecutorStep(t)
    \/ \E e \in Executors : Close(e)
    \/ Restart

ExecutorSpec == ExecutorInit /\ [][ExecutorNext]_executorVars

-----------------------------------------------------------------------------
(***************************************************************************)
(* The lock an executor records is held by the one task of it that is      *)
(* between entering and leaving `async with self._lock` (lines 129-168),   *)
(* on every path out of it: return, early return and exception.            *)
(***************************************************************************)
LockInv ==
    \A t \in Tasks :
        stage[t] \in Critical <=> lockHolder[ExecutorOf[t]] = t

(***************************************************************************)
(* A call that gets past _ensure_container has a container id, as its      *)
(* signature and docstring say (lines 127-128), even though the id is read *)
(* again after an await (lines 132-133): nobody else can reset it while    *)
(* the lock is held.  With a close() in between, None would be returned.   *)
(***************************************************************************)
HasContainer(t) == stage[t] = "exec" => bound[t] # None

EnsureReturnsId ==
    \A t \in Tasks : ExecutorOf[t] \notin Closers => HasContainer(t)
=============================================================================
