--------------------------- MODULE DockerSession ---------------------------
(***************************************************************************)
(* One session on DockerSandboxBackend (docker_backend.py): the executor,  *)
(* the Docker daemon's containers for that session, and the thread pool of *)
(* asyncio.to_thread through which every Docker call goes.  A thread       *)
(* cannot be interrupted: a command given up on keeps its thread until it  *)
(* ends.  The daemon and the pool are external and modelled from how       *)
(* docker_backend.py uses them.                                            *)
(***************************************************************************)
EXTENDS Executor, FiniteSets

CONSTANTS
    PoolSize,     \* worker threads of the event loop's default executor
    Deletable,    \* ids on which the host may call delete_container()
    Mortal,       \* ids whose main process may exit
    MayRestart,   \* whether the host process restarts
    MaxAbandoned  \* bound on creations given up on while the daemon works

ASSUME DockerAssumption ==
    /\ IsFiniteSet(Executors)
    /\ IsFiniteSet(Tasks)
    /\ PoolSize \in Nat \ {0}
    /\ Deletable \subseteq Ids
    /\ Mortal \subseteq Ids
    /\ MayRestart \in BOOLEAN
    /\ MaxAbandoned \in Nat

VARIABLES
    container, \* the daemon's view of each container of the session
    working,   \* tasks whose Docker call has a thread
    attached,  \* tasks that hold the container object of exec_command
    stray,     \* threads kept by commands nobody waits for any more
    deleting,  \* where delete_container() of an id has got to
    late,      \* creations the daemon still works on, their caller gone
    abandoned  \* creations ever given up on that way

dockerVars ==
    <<container, working, attached, stray, deleting, late, abandoned>>
vars == <<executorVars, dockerVars>>

Fresh == {id \in Ids : container[id] = "unused"}
Running == {id \in Ids : container[id] = "running"}

TypeOK ==
    /\ ExecutorTypeOK
    /\ container \in [Ids -> {"unused", "running", "exited", "removed"}]
    /\ working \subseteq Tasks
    /\ attached \subseteq Tasks
    /\ stray \in 0..PoolSize
    /\ Cardinality(working) + stray <= PoolSize
    /\ deleting \in [Ids -> {"no", "get", "stop", "remove"}]
    /\ late \in Nat
    /\ abandoned \in Nat

Init ==
    /\ ExecutorInit
    /\ container = [id \in Ids |-> "unused"]
    /\ working = {}
    /\ attached = {}
    /\ stray = 0
    /\ deleting = [id \in Ids |-> "no"]
    /\ late = 0
    /\ abandoned = 0

-----------------------------------------------------------------------------
(* asyncio.to_thread *)

FreeThread == Cardinality(working) + stray < PoolSize
Calling(t) == stage[t] \in Critical \cup {"exec"} /\ t \notin working

\* A worker takes the task's queued call.
StartThread(t) ==
    /\ Calling(t)
    /\ FreeThread
    /\ working' = working \cup {t}
    /\ UNCHANGED <<executorVars, container, attached, stray,
                   deleting, late, abandoned>>

\* The call returns or raises in its thread, which goes back to the pool.
ThreadDone(t) ==
    /\ t \in working
    /\ working' = working \ {t}

-----------------------------------------------------------------------------
(* container_exists, find_container, create_container *)

\* Any exception counts as "not running".
Exists(t) ==
    /\ ThreadDone(t)
    /\ stage[t] = "exists"
    /\ \E running \in {FALSE, container[bound[t]] = "running"} :
           ExistsReturns(t, running)
    /\ UNCHANGED <<container, attached, stray, deleting, late,
                   abandoned>>

\* The first running container with the session's label, if there is one.
Find(t) ==
    /\ ThreadDone(t)
    /\ \E found \in IF Running = {} THEN {None} ELSE Running :
           FindReturns(t, found)
    /\ UNCHANGED <<container, attached, stray, deleting, late,
                   abandoned>>

Create(t) ==
    /\ ThreadDone(t)
    /\ \E id \in Fresh :
           /\ CreateReturns(t, id)
           /\ container' = [container EXCEPT ![id] = "running"]
    /\ UNCHANGED <<attached, stray, deleting, late, abandoned>>

\* find_container or create_container raises, nothing left running.
CallRaises(t) ==
    /\ ThreadDone(t)
    /\ stage[t] \in {"find", "create"}
    /\ EnsureRaises(t)
    /\ UNCHANGED <<container, attached, stray, deleting, late,
                   abandoned>>

\* The client gives up on its request; the daemon does not.
CreateAbandoned(t) ==
    /\ ThreadDone(t)
    /\ stage[t] = "create"
    /\ abandoned < MaxAbandoned
    /\ EnsureRaises(t)
    /\ late' = late + 1
    /\ abandoned' = abandoned + 1
    /\ UNCHANGED <<container, attached, stray, deleting>>

LateCreate(id) ==
    /\ late > 0
    /\ id \in Fresh
    /\ container' = [container EXCEPT ![id] = "running"]
    /\ late' = late - 1
    /\ UNCHANGED <<executorVars, working, attached, stray, deleting,
                   abandoned>>

-----------------------------------------------------------------------------
(* exec_command, for a setup command or for the tool call *)

Known(id) == id \in Ids /\ container[id] \in {"running", "exited"}

\* `containers.get`: not covered by the timeout.
GetHandle(t) ==
    /\ ThreadDone(t)
    /\ stage[t] \in {"setup", "exec"}
    /\ t \notin attached
    /\ Known(bound[t])
    /\ attached' = attached \cup {t}
    /\ UNCHANGED <<executorVars, container, stray, deleting, late,
                   abandoned>>

\* What follows for the executor when exec_command answers.
CommandReturns(t) == SetupReturns(t) \/ ExecReturns(t)

\* What follows when it raises: a setup command's exception leaves execute.
CommandFails(t) ==
    /\ stage[t] \in {"setup", "exec"}
    /\ IF stage[t] = "setup" THEN EnsureRaises(t) ELSE ExecReturns(t)

\* exec_run returns, in a thread that still has its caller.
CommandEnds(t) ==
    /\ ThreadDone(t)
    /\ t \in attached
    /\ attached' = attached \ {t}
    /\ CommandReturns(t)
    /\ UNCHANGED <<container, stray, deleting, late, abandoned>>

\* `containers.get` or exec_run raises: the container is gone or stopped,
\* the daemon answers an error, or the id is None.
CommandRaises(t) ==
    /\ ThreadDone(t)
    /\ attached' = attached \ {t}
    /\ CommandFails(t)
    /\ UNCHANGED <<container, stray, deleting, late, abandoned>>

\* Mutant: a call that was never started is counted as a thread kept.
TimesOutMiscounted(t) ==
    /\ t \in attached
    /\ attached' = attached \ {t}
    /\ working' = working \ {t}
    /\ stray' = stray + 1
    /\ CommandFails(t)
    /\ UNCHANGED <<container, deleting, late, abandoned>>

\* wait_for gives up.  A call still queued is cancelled; a running one
\* keeps its thread and its command keeps running in the container.
CommandTimesOut(t) ==
    /\ t \in attached
    /\ attached' = attached \ {t}
    /\ working' = working \ {t}
    /\ stray' = IF t \in working THEN stray + 1 ELSE stray
    /\ CommandFails(t)
    /\ UNCHANGED <<container, deleting, late, abandoned>>

StrayEnds ==
    /\ stray > 0
    /\ stray' = stray - 1
    /\ UNCHANGED <<executorVars, container, working, attached,
                   deleting, late, abandoned>>

-----------------------------------------------------------------------------
(* delete_container: three calls, any exception ends it and is swallowed *)

DeleteCall(id) ==
    /\ id \in Deletable
    /\ container[id] # "unused"
    /\ deleting[id] = "no"
    /\ deleting' = [deleting EXCEPT ![id] = "get"]
    /\ UNCHANGED <<executorVars, container, working, attached, stray,
                   late, abandoned>>

DeleteGet(id) ==
    /\ FreeThread
    /\ deleting[id] = "get"
    /\ Known(id)
    /\ deleting' = [deleting EXCEPT ![id] = "stop"]
    /\ UNCHANGED <<executorVars, container, working, attached, stray,
                   late, abandoned>>

DeleteStop(id) ==
    /\ FreeThread
    /\ deleting[id] = "stop"
    /\ Known(id)
    /\ container' = [container EXCEPT ![id] = "exited"]
    /\ deleting' = [deleting EXCEPT ![id] = "remove"]
    /\ UNCHANGED <<executorVars, working, attached, stray, late,
                   abandoned>>

DeleteRemove(id) ==
    /\ FreeThread
    /\ deleting[id] = "remove"
    /\ container' = [container EXCEPT ![id] = "removed"]
    /\ deleting' = [deleting EXCEPT ![id] = "no"]
    /\ UNCHANGED <<executorVars, working, attached, stray, late,
                   abandoned>>

DeleteRaises(id) ==
    /\ FreeThread
    /\ deleting[id] # "no"
    /\ deleting' = [deleting EXCEPT ![id] = "no"]
    /\ UNCHANGED <<executorVars, container, working, attached, stray,
                   late, abandoned>>

-----------------------------------------------------------------------------
(* The environment *)

\* The container's main process exits, or the daemon restarts without it.
Die(id) ==
    /\ id \in Mortal
    /\ container[id] = "running"
    /\ container' = [container EXCEPT ![id] = "exited"]
    /\ UNCHANGED <<executorVars, working, attached, stray, deleting,
                   late, abandoned>>

HostCloses(e) == Close(e) /\ UNCHANGED dockerVars

\* The host process dies; requests it had sent to create a container go on.
HostRestarts ==
    LET sent == {t \in working : stage[t] = "create"}
    IN  /\ MayRestart
        /\ Restart
        /\ abandoned + Cardinality(sent) <= MaxAbandoned
        /\ late' = late + Cardinality(sent)
        /\ abandoned' = abandoned + Cardinality(sent)
        /\ working' = {}
        /\ attached' = {}
        /\ stray' = 0
        /\ deleting' = [id \in Ids |-> "no"]
        /\ UNCHANGED container

\* What ends the wait of a task that has a thread, or a timed command.
Answer(t) ==
    \/ Exists(t) \/ Find(t) \/ Create(t) \/ CallRaises(t)
    \/ GetHandle(t) \/ (CommandRaises(t) /\ t \notin attached)
    \/ CommandTimesOut(t)

TaskStep(t) ==
    \/ Execute(t) /\ UNCHANGED dockerVars
    \/ Acquire(t) /\ UNCHANGED dockerVars
    \/ StartThread(t)
    \/ Answer(t)
    \/ CreateAbandoned(t)
    \/ CommandEnds(t)
    \/ CommandRaises(t)

DeleteStep(id) ==
    \/ DeleteCall(id) \/ DeleteGet(id) \/ DeleteStop(id) \/ DeleteRemove(id)
    \/ DeleteRaises(id)

Next ==
    \/ \E t \in Tasks : TaskStep(t)
    \/ \E id \in Ids : DeleteStep(id) \/ LateCreate(id) \/ Die(id)
    \/ \E e \in Executors : HostCloses(e)
    \/ StrayEnds
    \/ HostRestarts

Spec == Init /\ [][Next]_vars

(***************************************************************************)
(* asyncio.Lock and the pool's queue are first come first served, so a     *)
(* task that is granted either again and again gets its turn (SF).  A      *)
(* thread that is serving an untimed call answers (the client library has  *)
(* a read timeout) and wait_for fires (WF).  Nothing makes a command end.  *)
(***************************************************************************)
CallFairness ==
    \A t \in Tasks :
        /\ SF_vars(Acquire(t) /\ UNCHANGED dockerVars)
        /\ SF_vars(StartThread(t))
        /\ WF_vars(Answer(t))

HungSpec == Spec /\ CallFairness
FairSpec == HungSpec /\ WF_vars(StrayEnds)

-----------------------------------------------------------------------------
(***************************************************************************)
(* An executor leaves no second container behind: the containers running   *)
(* for a session never outnumber its executors, plus one for each creation *)
(* that was given up on while the daemon was still working on it.  Each    *)
(* executor looks for a running container before it creates one, under a   *)
(* lock only its own calls take (executor.py:129-149).                     *)
(***************************************************************************)
RunningBounded ==
    Cardinality(Running) <= Cardinality(Executors) + abandoned

(***************************************************************************)
(* While a call runs the setup commands of the container it created, no    *)
(* other call of the same executor runs a command in that container: the   *)
(* lock covers the setup loop (executor.py:129-168).                       *)
(***************************************************************************)
SetupIsExclusive ==
    \A t, u \in Tasks :
        /\ t # u
        /\ ExecutorOf[t] = ExecutorOf[u]
        /\ stage[t] = "setup"
        /\ stage[u] = "exec"
        => bound[t] # bound[u]

(***************************************************************************)
(* A call that was made comes back: executor.py:89, "Default command       *)
(* timeout in seconds", is what bounds it when a command hangs.            *)
(***************************************************************************)
EveryCallReturns == \A t \in Tasks : (stage[t] # "idle") ~> (stage[t] = "idle")
=============================================================================
