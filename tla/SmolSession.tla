---------------------------- MODULE SmolSession ----------------------------
(***************************************************************************)
(* One session on SmolBSDSandboxBackend: the tool calls of one executor    *)
(* (Executor) over the backend and its VMs (SmolBackend), in one process.  *)
(* A container id is the VM's name, which depends on the session alone: a  *)
(* call that has got it runs its command in whatever VM has it by then.    *)
(*                                                                         *)
(* The last step of a backend call and what the executor does with its     *)
(* result are one step, and a task between two backend calls makes the     *)
(* next one before anything else happens: no await separates them.         *)
(***************************************************************************)
EXTENDS SmolBackend

CONSTANTS
    SessionExecutor,  \* the executor all the tasks call
    Name,             \* vm_name(session_id)
    SetupCount        \* len(setup_commands)

ASSUME SmolSessionAssumption ==
    /\ Name \notin Tasks \cup {None}
    /\ SetupCount \in Nat
    /\ \A p, q \in Procs : p = q

VARIABLES
    containerId, lockHolder, stage, bound, setupsRun,  \* of Executor
    prepared  \* VMs in which the last of the setup commands was run or tried

Ex == INSTANCE Executor WITH
          Executors <- {SessionExecutor},
          ExecutorOf <- [t \in Tasks |-> SessionExecutor],
          Ids <- {Name},
          Closers <- {}

executorVars == <<containerId, lockHolder, stage, bound, setupsRun>>
sessionVars == <<vars, executorVars, prepared>>

\* Where a backend call can be suspended that an executor awaits.
Awaits(s) ==
    CASE s = "find" -> {"find"}
      [] s = "create" -> {"lock", "probe", "boot", "wait", "env", "clear", "abort"}
      [] s \in {"setup", "exec"} -> {"exec", "queued", "run", "stuck"}
      [] OTHER -> {}

SessionTypeOK ==
    /\ TypeOK
    /\ Ex!ExecutorTypeOK
    /\ prepared \subseteq Vms
    /\ \A t \in Tasks : pc[t] # "idle" => pc[t] \in Awaits(stage[t])

SessionInit == Init /\ Ex!ExecutorInit /\ prepared = {}

-----------------------------------------------------------------------------

\* The task is inside execute and awaits no backend call: it makes the next.
Between(t) == pc[t] = "idle" /\ stage[t] \notin {"idle", "lock"}
Quiet == \A t \in Tasks : ~ Between(t)

\* What the task waits for has happened: it was handed the channel's lock,
\* or its connection is gone.
Woken(t) ==
    \/ Between(t)
    \/ pc[t] = "exec" /\ ChannelFree(t)
    \/ pc[t] \in {"queued", "run"} /\ vm[conn[t]] = "off"

BackendIdle == UNCHANGED <<vars, prepared>>
ExecutorIdle == UNCHANGED executorVars

Execute(t) == Quiet /\ Ex!Execute(t) /\ BackendIdle
Acquire(t) == Quiet /\ Ex!Acquire(t) /\ BackendIdle

\* container_exists: whether QEMU runs.
Exists(t) == Ex!ExistsReturns(t, RunningPid # None) /\ BackendIdle

\* Without a running VM find_container and exec_command answer at once.
AnswersNotFound(t) ==
    /\ Between(t)
    /\ RunningPid = None
    /\ Ex!FindReturns(t, None) \/ Ex!SetupReturns(t) \/ Ex!ExecReturns(t)
    /\ BackendIdle

CallsBackend(t) ==
    /\ \/ stage[t] = "find" /\ CallFind(t)
       \/ stage[t] = "create" /\ CallCreate(t)
       \/ stage[t] \in {"setup", "exec"} /\ CallExec(t)
    /\ ExecutorIdle
    /\ UNCHANGED prepared

\* The result of a backend call: find_container's ping was answered or not,
\* create_container returns if its last request was and raises if not,
\* exec_command catches everything.
BackendReturns(t) ==
    \/ Ex!FindReturns(t, IF Answers(pidfile) THEN Name ELSE None)
    \/ IF pc[t] \in {"probe", "env"} /\ Answers(pidfile)
       THEN Ex!CreateReturns(t, Name)
       ELSE stage[t] = "create" /\ Ex!EnsureRaises(t)
    \/ Ex!SetupReturns(t)
    \/ Ex!ExecReturns(t)

\* Mutant: exec_command does not await the end of stop().
BackendStepHasty(t) ==
    /\ Quiet
    /\ Turn(t) \/ Progress(t)
    /\ IF pc'[t] \in {"idle", "stuck"} THEN BackendReturns(t) ELSE ExecutorIdle
    /\ prepared' =
           {v \in prepared : vm[v] # "off" \/ vm'[v] = "off"}
           \cup {v \in Vms : /\ v = RunningPid
                             /\ stage[t] \in {"create", "setup"}
                             /\ stage'[t] = "exec"}

\* A step of the backend call a task awaits.
BackendStep(t) ==
    /\ Quiet
    /\ Turn(t) \/ Progress(t)
    /\ IF pc'[t] = "idle" THEN BackendReturns(t) ELSE ExecutorIdle
    /\ prepared' =
           {v \in prepared : vm[v] # "off" \/ vm'[v] = "off"}
           \cup {v \in Vms : /\ v = RunningPid
                             /\ stage[t] \in {"create", "setup"}
                             /\ stage'[t] = "exec"}

\* The event loop has run every task that is woken before the machine,
\* which takes milliseconds at the least, takes its next step.
MachineStep ==
    /\ \A t \in Tasks : ~ Woken(t)
    /\ \E v \in Vms : Machine(v) \/ Hang(v) \/ Die(v)
    /\ ExecutorIdle
    /\ UNCHANGED prepared

HostCrashes(p) == Crash(p) /\ Ex!Restart /\ UNCHANGED prepared

GoesOn(t) ==
    \/ Acquire(t) \/ Exists(t) \/ AnswersNotFound(t)
    \/ CallsBackend(t) \/ BackendStep(t)

SessionNext ==
    \/ \E t \in Tasks : Execute(t) \/ GoesOn(t)
    \/ MachineStep
    \/ \E p \in Procs : HostCrashes(p)

SessionSpec == SessionInit /\ [][SessionNext]_sessionVars

(***************************************************************************)
(* Tasks share the event loop and the locks first come first served, and   *)
(* the VMs do what they are about to: whatever the others do in between,   *)
(* each gets its turn (SF).  Hangs, deaths and crashes are never obliged.  *)
(***************************************************************************)
SessionFairSpec ==
    /\ SessionSpec
    /\ \A t \in Tasks : SF_sessionVars(GoesOn(t))
    /\ \A v \in Vms : SF_sessionVars(MachineStep /\ Machine(v))

-----------------------------------------------------------------------------
(***************************************************************************)
(* A tool's command runs in a VM only after the setup commands have been   *)
(* run in that very VM, as long as no host process has died (executor.py:  *)
(* 90): calls that overlap wait for each other, a VM that died or was      *)
(* stopped is set up again, and a call that got the name of the last VM    *)
(* never runs its command in the new one before that.                      *)
(***************************************************************************)
SetupBeforeUse ==
    crashes = 0 =>
        \A t \in Tasks : stage[t] = "exec" /\ pc[t] = "run" => conn[t] \in prepared

(***************************************************************************)
(* Every tool call returns, through the lock of the executor, the create   *)
(* lock and the turns on the channel, whatever hangs, dies or restarts.    *)
(***************************************************************************)
EveryToolCallReturns == \A t \in Tasks : (stage[t] # "idle") ~> (stage[t] = "idle")
=============================================================================
