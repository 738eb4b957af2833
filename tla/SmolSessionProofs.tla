------------------------- MODULE SmolSessionProofs -------------------------
(***************************************************************************)
(* Proofs about SmolSession, for any number of tool calls, VMs, setup      *)
(* commands and faults.  Its steps are steps of the backend and of the     *)
(* executor, so the types carry over; what keeps commands out of a VM that *)
(* is not set up is the lock of the executor, the turns on the channel and *)
(* the disk's lock together.                                               *)
(***************************************************************************)
EXTENDS SmolSession, SmolBackendProofs

(* The executor's lock is held by the one task that is inside it, and the  *)
(* setup loop is not past its end.                                         *)
OneHolder ==
    \A t \in Tasks : stage[t] \in Ex!Critical <=> lockHolder[SessionExecutor] = t

SetupUnderway ==
    \A t \in Tasks : stage[t] = "setup" => setupsRun[t] < SetupCount

BaseInv == SessionTypeOK /\ OneHolder /\ SetupUnderway

(* Every VM that is up has the disk open, so there is one at most.         *)
DiskTaken == \A v \in Vms : Up(v) => v \in holds

(* The lock of the channel is held by a connected task only; a connection  *)
(* is to a VM that came up, has the environment and, unless it is for a    *)
(* setup command, was set up.                                              *)
Connections ==
    /\ \A p \in Procs : channel[p] # None => pc[channel[p]] \in {"queued", "run"}
    /\ \A t \in Tasks :
           pc[t] \in {"queued", "run"} =>
               /\ conn[t] \in Vms
               /\ vm[conn[t]] # "starting"
               /\ conn[t] \in env
               /\ stage[t] = "exec" => conn[t] \in prepared

(* One VM at most is being started, by a task that waits for it, and not   *)
(* before there is no pidfile.                                             *)
Booting ==
    /\ \A t \in Tasks : pc[t] = "boot" => pidfile = None
    /\ \A v, w \in Vms : vm[v] = "starting" /\ vm[w] = "starting" => v = w
    /\ \A v \in Vms : vm[v] = "starting"
                          => pidfile = None /\ \E t \in Tasks : pc[t] = "wait"

(* The VM of the pidfile has its environment, and was set up, unless the   *)
(* call that boots it goes on; meanwhile no command asks for a connection. *)
Visible ==
    RunningPid # None =>
        /\ \/ RunningPid \in env
           \/ \E t \in Tasks : pc[t] \in {"wait", "env", "abort"}
        /\ \/ RunningPid \in prepared
           \/ /\ \E t \in Tasks : stage[t] \in {"create", "setup"}
              /\ \A t \in Tasks : stage[t] = "exec" => pc[t] \notin {"idle", "exec"}

SafeInv == DiskTaken /\ Connections /\ Booting /\ prepared \subseteq env /\ Visible

SessionInv == BaseInv /\ (crashes = 0 => SafeInv)

-----------------------------------------------------------------------------
(* Two components in one: each step of the session is a step of the         *)
(* backend, and one of the executor, or leaves it alone.                   *)

LEMMA StepOfBackend == [SessionNext]_sessionVars => [Next]_vars
  <1> SUFFICES ASSUME SessionNext PROVE [Next]_vars
    BY DEF sessionVars, vars
  <1>1. ASSUME NEW t \in Tasks, Execute(t) \/ GoesOn(t)
        PROVE  [Next]_vars
    <2>1. CASE Execute(t) \/ Acquire(t) \/ Exists(t) \/ AnswersNotFound(t)
      BY <2>1 DEF Execute, Acquire, Exists, AnswersNotFound, BackendIdle
    <2>2. CASE CallsBackend(t)  BY <2>2 DEF CallsBackend, Next, Call
    <2>3. CASE BackendStep(t)  BY <2>3 DEF BackendStep, Next
    <2> QED  BY <1>1, <2>1, <2>2, <2>3 DEF GoesOn
  <1>2. MachineStep => Next  BY DEF MachineStep, Next
  <1>3. ASSUME NEW p \in Procs, HostCrashes(p) PROVE Next
    BY <1>3 DEF HostCrashes, Next
  <1> QED  BY <1>1, <1>2, <1>3 DEF SessionNext

LEMMA ReturnOfExecutor ==
    ASSUME NEW t \in Tasks, BackendReturns(t)
    PROVE  Ex!ExecutorNext
  <1>1. CASE Ex!FindReturns(t, IF Answers(pidfile) THEN Name ELSE None)
    BY <1>1, Zenon DEF Ex!ExecutorNext, Ex!ExecutorStep
  <1>2. CASE Ex!CreateReturns(t, Name)
    BY <1>2, Zenon DEF Ex!ExecutorNext, Ex!ExecutorStep
  <1>3. CASE Ex!EnsureRaises(t) \/ Ex!SetupReturns(t) \/ Ex!ExecReturns(t)
    BY <1>3, Zenon DEF Ex!ExecutorNext, Ex!ExecutorStep
  <1> QED  BY <1>1, <1>2, <1>3 DEF BackendReturns

LEMMA StepOfExecutor == [SessionNext]_sessionVars => [Ex!ExecutorNext]_executorVars
  <1> SUFFICES ASSUME SessionNext PROVE [Ex!ExecutorNext]_executorVars
    BY DEF sessionVars, executorVars
  <1>1. ASSUME NEW t \in Tasks, Execute(t) \/ GoesOn(t)
        PROVE  [Ex!ExecutorNext]_executorVars
    <2>1. CASE Execute(t) \/ Acquire(t)
      BY <2>1, Zenon DEF Execute, Acquire, Ex!ExecutorNext, Ex!ExecutorStep
    <2>2. CASE Exists(t)
      <3>1. (RunningPid # None) \in BOOLEAN  OBVIOUS
      <3>2. Ex!ExistsReturns(t, RunningPid # None)  BY <2>2 DEF Exists
      <3> QED  BY <3>1, <3>2, Zenon DEF Ex!ExecutorNext, Ex!ExecutorStep
    <2>3. CASE AnswersNotFound(t)
      BY <2>3, Zenon DEF AnswersNotFound, Ex!ExecutorNext, Ex!ExecutorStep
    <2>4. CASE CallsBackend(t)  BY <2>4 DEF CallsBackend, ExecutorIdle
    <2>5. CASE BackendStep(t)
      BY <2>5, ReturnOfExecutor, Zenon DEF BackendStep, ExecutorIdle
    <2> QED  BY <1>1, <2>1, <2>2, <2>3, <2>4, <2>5 DEF GoesOn
  <1>2. MachineStep => UNCHANGED executorVars  BY DEF MachineStep, ExecutorIdle
  <1>3. ASSUME NEW p \in Procs, HostCrashes(p) PROVE Ex!ExecutorNext
    BY <1>3, Zenon DEF HostCrashes, Ex!ExecutorNext
  <1> QED  BY <1>1, <1>2, <1>3, Zenon DEF SessionNext

(* In a session, the backend behaves as SmolBackend allows ...             *)
THEOREM SessionRunsBackend == SessionSpec => Spec
  BY StepOfBackend, PTL DEF SessionSpec, SessionInit, Spec

(* ... and the executor as Executor does before some backend: what they    *)
(* keep for any calls, and any answers, they keep here.                    *)
THEOREM SessionRunsExecutor == SessionSpec => Ex!ExecutorSpec
  <1>1. [SessionNext]_sessionVars => [Ex!ExecutorNext]_(Ex!executorVars)
    BY StepOfExecutor DEF executorVars, Ex!executorVars
  <1> QED  BY <1>1, PTL DEF SessionSpec, SessionInit, Ex!ExecutorSpec

-----------------------------------------------------------------------------
(* What the executor's own code keeps, whatever the backend answers. *)

ExecutorInv == Ex!ExecutorTypeOK /\ OneHolder /\ SetupUnderway

LEMMA InitExecutor == Ex!ExecutorInit => ExecutorInv
  BY SmolAssumption, SmolSessionAssumption
  DEF SmolAssumption, SmolSessionAssumption, Ex!ExecutorInit, ExecutorInv, Ex!ExecutorTypeOK,
      OneHolder, SetupUnderway, Ex!Critical, Ex!Stages

LEMMA ExecutorKeeps == ExecutorInv /\ [Ex!ExecutorNext]_executorVars => ExecutorInv'
  <1> SUFFICES ASSUME ExecutorInv, [Ex!ExecutorNext]_executorVars PROVE ExecutorInv'
    OBVIOUS
  <1> None \notin Tasks /\ SetupCount \in Nat
    BY SmolAssumption, SmolSessionAssumption DEF SmolAssumption, SmolSessionAssumption
  <1> USE DEF ExecutorInv, Ex!ExecutorTypeOK, OneHolder,
          SetupUnderway, Ex!Critical, Ex!Stages, Ex!Frame, Ex!EnsureReturns, Ex!Release
  <1>1. ASSUME NEW t \in Tasks, Ex!ExecutorStep(t)
        PROVE  ExecutorInv'
    <2>1. CASE Ex!Execute(t)  BY <2>1 DEF Ex!Execute
    <2>2. CASE Ex!Acquire(t)  BY <2>2 DEF Ex!Acquire
    <2>3. ASSUME NEW running \in BOOLEAN, Ex!ExistsReturns(t, running)
          PROVE  ExecutorInv'
      BY <2>3 DEF Ex!ExistsReturns
    <2>4. ASSUME NEW found \in {Name} \cup {None}, Ex!FindReturns(t, found)
          PROVE  ExecutorInv'
      BY <2>4 DEF Ex!FindReturns
    <2>5. ASSUME NEW id \in {Name}, Ex!CreateReturns(t, id)
          PROVE  ExecutorInv'
      BY <2>5 DEF Ex!CreateReturns
    <2>6. CASE Ex!SetupReturns(t)  BY <2>6 DEF Ex!SetupReturns, Ex!LastSetup
    <2>7. CASE Ex!EnsureRaises(t)  BY <2>7 DEF Ex!EnsureRaises
    <2>8. CASE Ex!ExecReturns(t)  BY <2>8 DEF Ex!ExecReturns
    <2> QED
      BY <1>1, <2>1, <2>2, <2>3, <2>4, <2>5, <2>6, <2>7, <2>8 DEF Ex!ExecutorStep
  <1>2. CASE Ex!Restart  BY <1>2 DEF Ex!Restart
  <1>3. CASE UNCHANGED executorVars  BY <1>3 DEF executorVars
  <1> QED  BY <1>1, <1>2, <1>3 DEF Ex!ExecutorNext, Ex!Close

-----------------------------------------------------------------------------
(* Types: a task that awaits the backend is where its stage says. *)

CreateAwaits == {"lock", "probe", "boot", "wait", "env", "clear", "abort"}
CommandAwaits == {"exec", "queued", "run", "stuck"}

LEMMA AwaitsOf ==
    /\ Awaits("find") = {"find"}
    /\ Awaits("create") = CreateAwaits
    /\ Awaits("setup") = CommandAwaits
    /\ Awaits("exec") = CommandAwaits
    /\ Awaits("idle") = {} /\ Awaits("lock") = {} /\ Awaits("exists") = {}
  BY DEF Awaits, CreateAwaits, CommandAwaits

LEMMA StageOf ==
    ASSUME SessionTypeOK, NEW t \in Tasks
    PROVE  /\ pc[t] = "find" => stage[t] = "find"
           /\ pc[t] \in CreateAwaits => stage[t] = "create"
           /\ pc[t] \in CommandAwaits => stage[t] \in {"setup", "exec"}
           /\ pc[t] \in {"idle", "find"} \cup CreateAwaits \cup CommandAwaits
  <1>1. stage[t] \in {"exists", "find", "create", "setup", "idle", "lock", "exec"}
    BY DEF SessionTypeOK, Ex!ExecutorTypeOK, Ex!Stages, Ex!Critical
  <1>2. pc[t] # "idle" => pc[t] \in Awaits(stage[t])  BY DEF SessionTypeOK
  <1> QED  BY <1>1, <1>2, AwaitsOf DEF CreateAwaits, CommandAwaits

LEMMA StopGoes ==
    ASSUME TypeOK, NEW t \in Tasks, NEW why \in {"clear", "abort", "stuck"}, Stop(t, why)
    PROVE  \E s \in {why, IF why = "clear" THEN "boot" ELSE "idle"} :
               pc' = [pc EXCEPT ![t] = s]
  <1>1. CASE RunningPid = None
    <2>1. AfterStop(t, why) /\ why \in Reasons  BY <1>1 DEF Stop, Reasons
    <2> QED  BY <2>1, AfterStopTypes
  <1>2. CASE RunningPid # None  BY <1>2 DEF Stop, Goto
  <1> QED  BY <1>1, <1>2

LEMMA TaskGoes ==
    ASSUME SessionTypeOK, NEW t \in Tasks, Turn(t) \/ Progress(t)
    PROVE  \E s \in Awaits(stage[t]) \cup {"idle"} : pc' = [pc EXCEPT ![t] = s]
  <1>1. TypeOK  BY DEF SessionTypeOK
  <1>2. CASE \/ CreateEnters(t) \/ ProbeAnswered(t) \/ Ready(t) \/ SetEnv(t)
             \/ Spawn(t) \/ SpawnRaises(t)
    <2>1. pc[t] \in CreateAwaits
      BY <1>2 DEF CreateEnters, ProbeAnswered, Ready, SetEnv, Spawn, SpawnRaises,
                  CreateAwaits
    <2>2. \E s \in {"idle", "probe", "boot", "env", "wait"} : pc' = [pc EXCEPT ![t] = s]
      BY <1>2 DEF CreateEnters, ProbeAnswered, Ready, SetEnv, Spawn, SpawnRaises, Goto
    <2> QED  BY <2>1, <2>2, StageOf, AwaitsOf DEF CreateAwaits
  <1>3. CASE ProbeFails(t) \/ SetEnvFails(t) \/ NotReady(t)
    <2>1. pc[t] \in CreateAwaits
      BY <1>3 DEF ProbeFails, SetEnvFails, NotReady, CreateAwaits
    <2>2. PICK why \in {"clear", "abort"} : Stop(t, why)
      BY <1>3 DEF ProbeFails, SetEnvFails, NotReady
    <2>3. \E s \in {"clear", "abort", "boot", "idle"} : pc' = [pc EXCEPT ![t] = s]
      BY <1>1, <2>2, StopGoes
    <2> QED  BY <2>1, <2>3, StageOf, AwaitsOf DEF CreateAwaits
  <1>4. CASE \/ FindReturns(t) \/ Connect(t) \/ RunBegins(t) \/ RunAnswered(t)
             \/ RunLost(t)
    <2>1. CASE FindReturns(t)  BY <2>1 DEF FindReturns, Goto
    <2>2. CASE ~ FindReturns(t)
      <3>1. pc[t] \in CommandAwaits
        BY <1>4, <2>2 DEF Connect, RunBegins, RunAnswered, RunLost, CommandAwaits
      <3>2. \E s \in {"idle", "queued", "run"} : pc' = [pc EXCEPT ![t] = s]
        BY <1>4, <2>2 DEF Connect, RunBegins, RunAnswered, RunLost, Goto
      <3> QED  BY <3>1, <3>2, StageOf, AwaitsOf DEF CommandAwaits
    <2> QED  BY <2>1, <2>2
  <1>5. CASE RunTimesOut(t)
    <2>1. pc[t] \in CommandAwaits /\ Stop(t, "stuck")
      BY <1>5 DEF RunTimesOut, CommandAwaits
    <2>2. \E s \in {"stuck", "idle"} : pc' = [pc EXCEPT ![t] = s]
      BY <1>1, <2>1, StopGoes
    <2> QED  BY <2>1, <2>2, StageOf, AwaitsOf DEF CommandAwaits
  <1>6. CASE StopPoll(t) \/ StopKill(t)
    <2>1. pc[t] \in Reasons /\ AfterStop(t, pc[t])  BY <1>6 DEF StopPoll, StopKill
    <2>2. pc[t] # "remove"  BY StageOf DEF CreateAwaits, CommandAwaits
    <2>3. pc' = [pc EXCEPT ![t] = IF pc[t] = "clear" THEN "boot" ELSE "idle"]
      BY <1>1, <2>1, <2>2, AfterStopTypes DEF Reasons
    <2> QED  BY <2>1, <2>2, <2>3, StageOf, AwaitsOf DEF CreateAwaits, CommandAwaits, Reasons
  <1>7. ~ Rmtree(t)  BY StageOf DEF Rmtree, CreateAwaits, CommandAwaits
  <1> QED  BY <1>2, <1>3, <1>4, <1>5, <1>6, <1>7 DEF Turn, Progress

\* How the result of a backend call moves the task on.
Returns(t, s) ==
    \/ stage[t] = "find" /\ s = "exec" /\ Answers(pidfile)
    \/ stage[t] = "find" /\ s = "create"
    \/ stage[t] = "create" /\ s \in {"setup", "exec"}
           /\ pc[t] \in {"probe", "env"} /\ Answers(pidfile)
    \/ stage[t] = "create" /\ s = "idle"
           /\ ~ (pc[t] \in {"probe", "env"} /\ Answers(pidfile))
    \/ stage[t] = "setup" /\ s \in {"setup", "exec"}
    \/ stage[t] = "exec" /\ s = "idle"

LEMMA ReturnGoes ==
    ASSUME BaseInv, NEW t \in Tasks, BackendReturns(t)
    PROVE  \E s : Returns(t, s) /\ stage' = [stage EXCEPT ![t] = s]
  <1> stage = [stage EXCEPT ![t] = stage[t]]
    BY DEF BaseInv, SessionTypeOK, Ex!ExecutorTypeOK
  <1> Name # None  BY SmolSessionAssumption DEF SmolSessionAssumption
  <1> USE DEF Ex!EnsureReturns, Ex!Frame, Returns
  <1>1. CASE Ex!FindReturns(t, IF Answers(pidfile) THEN Name ELSE None)
    BY <1>1 DEF Ex!FindReturns
  <1>2. CASE pc[t] \in {"probe", "env"} /\ Answers(pidfile) /\ Ex!CreateReturns(t, Name)
    BY <1>2 DEF Ex!CreateReturns
  <1>3. CASE /\ ~ (pc[t] \in {"probe", "env"} /\ Answers(pidfile))
             /\ stage[t] = "create" /\ Ex!EnsureRaises(t)
    BY <1>3 DEF Ex!EnsureRaises
  <1>4. CASE Ex!SetupReturns(t)  BY <1>4 DEF Ex!SetupReturns
  <1>5. CASE Ex!ExecReturns(t)  BY <1>5 DEF Ex!ExecReturns
  <1> QED  BY <1>1, <1>2, <1>3, <1>4, <1>5, Zenon DEF BackendReturns

\* A step of a task between two calls of the backend.
LEMMA BetweenGoes ==
    ASSUME BaseInv, NEW t \in Tasks,
           Execute(t) \/ Acquire(t) \/ Exists(t) \/ AnswersNotFound(t)
    PROVE  /\ pc[t] = "idle" /\ BackendIdle
           /\ \E s : /\ stage' = [stage EXCEPT ![t] = s]
                     /\ \/ stage[t] = "idle" /\ s = "lock"
                        \/ stage[t] = "lock" /\ s \in {"exists", "find"}
                        \/ stage[t] = "exists" /\ RunningPid # None /\ s = "exec"
                        \/ stage[t] = "exists" /\ s = "find"
                        \/ stage[t] = "find" /\ RunningPid = None /\ s = "create"
                        \/ stage[t] = "setup" /\ RunningPid = None /\ s \in {"setup", "exec"}
                        \/ stage[t] = "exec" /\ RunningPid = None /\ s = "idle"
  <1> stage = [stage EXCEPT ![t] = stage[t]]
    BY DEF BaseInv, SessionTypeOK, Ex!ExecutorTypeOK
  <1>1. stage[t] \in {"idle", "lock", "exists"} => pc[t] = "idle"
    BY StageOf DEF BaseInv, CreateAwaits, CommandAwaits
  <1> USE DEF Ex!EnsureReturns, Ex!Frame
  <1>2. CASE Execute(t)  BY <1>1, <1>2 DEF Execute, Ex!Execute
  <1>3. CASE Acquire(t)
    BY <1>1, <1>3 DEF Acquire, Ex!Acquire
  <1>4. CASE Exists(t)  BY <1>1, <1>4 DEF Exists, Ex!ExistsReturns
  <1>5. CASE AnswersNotFound(t)
    <2>1. pc[t] = "idle" /\ RunningPid = None /\ BackendIdle
      BY <1>5 DEF AnswersNotFound, Between
    <2>2. CASE Ex!FindReturns(t, None)  BY <2>1, <2>2 DEF Ex!FindReturns
    <2>3. CASE Ex!SetupReturns(t)  BY <2>1, <2>3 DEF Ex!SetupReturns
    <2>4. CASE Ex!ExecReturns(t)  BY <2>1, <2>4 DEF Ex!ExecReturns
    <2> QED  BY <1>5, <2>2, <2>3, <2>4 DEF AnswersNotFound
  <1> QED  BY <1>2, <1>3, <1>4, <1>5

LEMMA CallGoes ==
    ASSUME SessionTypeOK, NEW t \in Tasks, CallsBackend(t)
    PROVE  /\ pc[t] = "idle"
           /\ \E s \in Awaits(stage[t]) \cap {"find", "lock", "exec"} :
                  pc' = [pc EXCEPT ![t] = s]
           /\ stage[t] \in {"setup", "exec"} => RunningPid # None
           /\ UNCHANGED <<machine, locks, stopVars, conn, external, executorVars, prepared>>
  <1> USE DEF CallsBackend, ExecutorIdle, Goto
  <1>1. CASE stage[t] = "find" /\ CallFind(t)  BY <1>1, AwaitsOf DEF CallFind
  <1>2. CASE stage[t] = "create" /\ CallCreate(t)
    BY <1>2, AwaitsOf DEF CallCreate, CreateAwaits
  <1>3. CASE stage[t] \in {"setup", "exec"} /\ CallExec(t)
    BY <1>3, AwaitsOf DEF CallExec, CommandAwaits
  <1> QED  BY <1>1, <1>2, <1>3

LEMMA MachineLeavesCalls ==
    MachineStep => UNCHANGED <<locks, pc, stopVars, conn, disk, termed, env, crashes,
                               executorVars, prepared>>
  BY DEF MachineStep, ExecutorIdle, Machine, QemuUp, GuestUp, TermExit, GoneEnds, Hang,
         Die, locks, external, machine, stopVars

\* All tasks run in the process that dies.
LEMMA CrashEndsAll ==
    ASSUME NEW p \in Procs, HostCrashes(p)
    PROVE  /\ pc' = [t \in Tasks |-> "idle"] /\ stage' = [t \in Tasks |-> "idle"]
           /\ prepared' = prepared /\ crashes' = crashes + 1
  <1>1. \A t \in Tasks : ProcOf[t] = p
    BY SmolAssumption, SmolSessionAssumption DEF SmolAssumption, SmolSessionAssumption
  <1> QED  BY <1>1 DEF HostCrashes, Crash, Ex!Restart

LEMMA InitBase == SessionInit => BaseInv
  <1> SUFFICES ASSUME SessionInit PROVE BaseInv  OBVIOUS
  <1>1. TypeOK /\ ExecutorInv  BY InitTypes, InitExecutor DEF SessionInit
  <1>2. prepared \subseteq Vms /\ \A t \in Tasks : pc[t] = "idle"
    BY DEF SessionInit, Init
  <1> QED  BY <1>1, <1>2 DEF BaseInv, SessionTypeOK, ExecutorInv

LEMMA StepBase == BaseInv /\ [SessionNext]_sessionVars => BaseInv'
  <1> SUFFICES ASSUME BaseInv, [SessionNext]_sessionVars PROVE BaseInv'  OBVIOUS
  <1>1. TypeOK' /\ ExecutorInv'
    BY StepTypes, StepOfBackend, StepOfExecutor, ExecutorKeeps
    DEF BaseInv, SessionTypeOK, ExecutorInv
  <1> SUFFICES /\ prepared' \subseteq Vms
               /\ \A u \in Tasks : pc'[u] # "idle" => pc'[u] \in Awaits(stage'[u])
    BY <1>1 DEF BaseInv, SessionTypeOK, ExecutorInv
  <1>2. /\ pc \in [Tasks -> {"idle", "lock", "probe", "boot", "wait", "env", "find",
                             "exec", "queued", "run", "rmtree"} \cup Reasons]
        /\ stage \in [Tasks -> Ex!Stages] /\ prepared \subseteq Vms
        /\ \A u \in Tasks : pc[u] # "idle" => pc[u] \in Awaits(stage[u])
    BY DEF BaseInv, SessionTypeOK, TypeOK, Ex!ExecutorTypeOK
  <1>3. ASSUME NEW t \in Tasks,
               Execute(t) \/ Acquire(t) \/ Exists(t) \/ AnswersNotFound(t)
        PROVE  /\ prepared' \subseteq Vms
               /\ \A u \in Tasks : pc'[u] # "idle" => pc'[u] \in Awaits(stage'[u])
    BY <1>2, <1>3, BetweenGoes DEF BackendIdle, vars
  <1>4. ASSUME NEW t \in Tasks, CallsBackend(t)
        PROVE  /\ prepared' \subseteq Vms
               /\ \A u \in Tasks : pc'[u] # "idle" => pc'[u] \in Awaits(stage'[u])
    <2>1. SessionTypeOK  BY DEF BaseInv
    <2>2. PICK s \in Awaits(stage[t]) : pc' = [pc EXCEPT ![t] = s]
      BY <2>1, <1>4, CallGoes
    <2>3. UNCHANGED <<executorVars, prepared>>  BY <2>1, <1>4, CallGoes
    <2> QED  BY <1>2, <2>2, <2>3 DEF executorVars
  <1>5. ASSUME NEW t \in Tasks, BackendStep(t)
        PROVE  /\ prepared' \subseteq Vms
               /\ \A u \in Tasks : pc'[u] # "idle" => pc'[u] \in Awaits(stage'[u])
    <2>1. prepared' \subseteq Vms  BY <1>2, <1>5 DEF BackendStep
    <2>2. PICK s \in Awaits(stage[t]) \cup {"idle"} : pc' = [pc EXCEPT ![t] = s]
      BY <1>5, TaskGoes DEF BackendStep, BaseInv
    <2>3. CASE pc'[t] = "idle"
      <3>1. \E r : stage' = [stage EXCEPT ![t] = r]
        BY <1>5, <2>3, ReturnGoes DEF BackendStep
      <3> QED  BY <1>2, <2>1, <2>2, <2>3, <3>1
    <2>4. CASE pc'[t] # "idle"
      <3>1. stage' = stage  BY <1>5, <2>4 DEF BackendStep, ExecutorIdle, executorVars
      <3> QED  BY <1>2, <2>1, <2>2, <2>4, <3>1
    <2> QED  BY <2>3, <2>4
  <1>6. CASE MachineStep
    BY <1>2, <1>6, MachineLeavesCalls DEF executorVars
  <1>7. ASSUME NEW p \in Procs, HostCrashes(p)
        PROVE  /\ prepared' \subseteq Vms
               /\ \A u \in Tasks : pc'[u] # "idle" => pc'[u] \in Awaits(stage'[u])
    BY <1>2, <1>7, CrashEndsAll
  <1>8. CASE UNCHANGED sessionVars
    BY <1>2, <1>8 DEF sessionVars, vars, executorVars
  <1> QED
    BY <1>3, <1>4, <1>5, <1>6, <1>7, <1>8 DEF SessionNext, GoesOn

(* The session's variables keep their types, and a task that awaits the    *)
(* backend does so where its stage in the executor says: whatever overlaps *)
(* and whatever hangs, dies or starts again.                               *)
THEOREM SessionTypes == SessionSpec => []SessionTypeOK
  <1>1. BaseInv => SessionTypeOK  BY DEF BaseInv
  <1> QED  BY <1>1, InitBase, StepBase, PTL DEF SessionSpec

-----------------------------------------------------------------------------
(* Safety, while no process has died. *)

\* The executor's lock, which is held over everything but the command.
LEMMA Alone ==
    ASSUME BaseInv, NEW t \in Tasks, NEW u \in Tasks,
           stage[t] \in {"exists", "find", "create", "setup"},
           stage[u] \in {"exists", "find", "create", "setup"}
    PROVE  t = u
  BY DEF BaseInv, OneHolder, Ex!Critical

\* So nobody else boots a VM either.
LEMMA AloneBooting ==
    ASSUME BaseInv, NEW t \in Tasks, NEW u \in Tasks,
           stage[t] \in {"exists", "find", "create", "setup"},
           pc[u] \in CreateAwaits
    PROVE  t = u
  BY Alone, StageOf DEF BaseInv

LEMMA BackendGoes ==
    ASSUME BaseInv, NEW t \in Tasks, BackendStep(t)
    PROVE  \E s, r : /\ pc' = [pc EXCEPT ![t] = s] /\ pc'[t] = s
                     /\ stage' = [stage EXCEPT ![t] = r] /\ stage'[t] = r
                     /\ IF s = "idle" THEN Returns(t, r) ELSE r = stage[t]
                     /\ s \in Awaits(stage[t]) \cup {"idle"}
  <1>1. TypeOK /\ stage \in [Tasks -> Ex!Stages]
    BY DEF BaseInv, SessionTypeOK, Ex!ExecutorTypeOK
  <1>2. PICK s \in Awaits(stage[t]) \cup {"idle"} : pc' = [pc EXCEPT ![t] = s]
    BY TaskGoes DEF BackendStep, BaseInv
  <1>3. pc'[t] = s  BY <1>1, <1>2 DEF TypeOK
  <1>4. CASE s = "idle"
    <2>1. PICK r : Returns(t, r) /\ stage' = [stage EXCEPT ![t] = r]
      BY <1>3, <1>4, ReturnGoes DEF BackendStep
    <2> QED  BY <1>1, <1>2, <1>3, <1>4, <2>1
  <1>5. CASE s # "idle"
    <2>1. stage' = stage  BY <1>3, <1>5 DEF BackendStep, ExecutorIdle, executorVars
    <2> QED  BY <1>1, <1>2, <1>3, <1>5, <2>1
  <1> QED  BY <1>4, <1>5

\* Where a task is that makes a step of its backend call.
LEMMA WhoSteps ==
    ASSUME BaseInv, NEW t \in Tasks, BackendStep(t)
    PROVE  /\ pc[t] # "idle"
           /\ pc[t] = "env" => SetEnv(t) \/ SetEnvFails(t)
           /\ stage[t] = "setup" => pc[t] \in CommandAwaits
  <1>1. pc[t] # "idle" /\ (pc[t] = "env" => SetEnv(t) \/ SetEnvFails(t))
    BY DEF BackendStep, Turn, Progress, CreateEnters, ProbeAnswered, ProbeFails, Ready,
           SetEnv, SetEnvFails, FindReturns, Connect, StopPoll, StopKill, Spawn,
           SpawnRaises, NotReady, RunBegins, RunAnswered, RunLost, RunTimesOut, Rmtree,
           Reasons
  <1>2. stage[t] = "setup" => pc[t] \in CommandAwaits
    BY <1>1, AwaitsOf DEF BaseInv, SessionTypeOK
  <1> QED  BY <1>1, <1>2

\* A VM counts as prepared once a call that created it goes on to its own
\* command, and it has its environment by then.
LEMMA PreparedKnown ==
    ASSUME BaseInv, SafeInv, NEW t \in Tasks, BackendStep(t),
           \A v \in Vms : vm[v] = "off" => vm'[v] = "off", env \subseteq env'
    PROVE  /\ prepared \subseteq prepared' /\ prepared' \subseteq env'
           /\ stage[t] \in {"create", "setup"} /\ stage'[t] = "exec" /\ RunningPid # None
                  => RunningPid \in prepared'
  <1>1. TypeOK /\ prepared \subseteq Vms /\ prepared \subseteq env
    BY DEF BaseInv, SessionTypeOK, SafeInv
  <1>2. RunningPid # None => RunningPid \in Vms  BY <1>1 DEF TypeOK, RunningPid
  <1>3. prepared' = prepared \cup {v \in Vms : /\ v = RunningPid
                                               /\ stage[t] \in {"create", "setup"}
                                               /\ stage'[t] = "exec"}
    BY <1>1 DEF BackendStep
  <1>4. ASSUME RunningPid \in Vms, stage[t] \in {"create", "setup"}, stage'[t] = "exec"
        PROVE  RunningPid \in env'
    <2>1. RunningPid # None  BY <1>4, SmolAssumption DEF SmolAssumption
    <2>2. Returns(t, "exec")
      <3>1. PICK s, r : /\ stage'[t] = r
                        /\ IF s = "idle" THEN Returns(t, r) ELSE r = stage[t]
        BY BackendGoes
      <3> QED  BY <1>4, <3>1
    <2>3. CASE pc[t] = "env"
      <3>1. Answers(pidfile)  BY <1>4, <2>2, <2>3, WhoSteps DEF Returns, CommandAwaits
      <3>2. SetEnv(t)  BY <2>3, <3>1, WhoSteps DEF SetEnvFails
      <3> QED  BY <2>1, <3>2 DEF SetEnv, RunningPid
    <2>4. CASE pc[t] # "env"
      <3>1. pc[t] \notin {"wait", "env", "abort"}
        BY <1>4, <2>2, <2>4, WhoSteps DEF Returns, CommandAwaits
      <3>2. \A u \in Tasks : pc[u] \notin {"wait", "env", "abort"}
        BY <1>4, <3>1, AloneBooting DEF CreateAwaits
      <3> QED  BY <2>1, <3>2 DEF SafeInv, Visible
    <2> QED  BY <2>3, <2>4
  <1> QED  BY <1>1, <1>2, <1>3, <1>4

\* A task's step after which nothing is in the pidfile.
LEMMA SafeStopped ==
    ASSUME BaseInv, BaseInv', SafeInv, NEW t \in Tasks, BackendStep(t),
           pidfile' = None, env' = env, pc'[t] \notin {"queued", "run", "wait"},
           pc[t] # "wait" \/ \A v \in Vms : vm[v] # "starting",
           \A v \in Vms : /\ vm'[v] \in {vm[v], "off"}
                          /\ Up(v) /\ vm'[v] = vm[v] => (v \in holds => v \in holds'),
           \A u \in Tasks : u # t => conn'[u] = conn[u],
           \A p \in Procs : channel'[p] \in {channel[p], None} /\ channel'[p] # t
    PROVE  SafeInv'
  <1>1. PICK s, r : /\ pc' = [pc EXCEPT ![t] = s] /\ stage' = [stage EXCEPT ![t] = r]
    BY BackendGoes
  <1>2. TypeOK /\ stage \in [Tasks -> Ex!Stages]
    BY DEF BaseInv, SessionTypeOK, Ex!ExecutorTypeOK
  <1>3. \A u \in Tasks : u # t => pc'[u] = pc[u] /\ stage'[u] = stage[u]
    BY <1>1, <1>2 DEF TypeOK
  <1>4. prepared \subseteq prepared' /\ prepared' \subseteq env'
    BY PreparedKnown
  <1>5. DiskTaken'
    BY DEF SafeInv, DiskTaken, Up
  <1>6. Connections'
    BY <1>2, <1>3, <1>4 DEF SafeInv, Connections, TypeOK
  <1>7. Booting'
    BY <1>2, <1>3 DEF SafeInv, Booting, TypeOK
  <1>8. Visible'  BY DEF Visible, RunningPid
  <1> QED  BY <1>4, <1>5, <1>6, <1>7, <1>8 DEF SafeInv

\* A task's step that leaves the VMs and the pidfile alone.
LEMMA SafeStays ==
    ASSUME BaseInv, BaseInv', SafeInv, NEW t \in Tasks, BackendStep(t),
           vm' = vm, holds' = holds, pidfile' = pidfile, env \subseteq env',
           \A u \in Tasks : u # t => conn'[u] = conn[u],
           \A p \in Procs : \/ channel'[p] \in {channel[p], None} /\ channel'[p] # t
                            \/ channel'[p] = t /\ pc'[t] \in {"queued", "run"},
           pc'[t] \in {"queued", "run"} =>
               /\ conn'[t] \in Vms /\ vm[conn'[t]] # "starting" /\ conn'[t] \in env
               /\ stage'[t] = "exec" => conn'[t] \in prepared,
           pc'[t] # "boot",
           pc[t] # "wait" \/ \A v \in Vms : vm[v] # "starting",
           RunningPid # None =>
               /\ \/ RunningPid \in env' \/ pc'[t] \in {"wait", "env", "abort"}
                  \/ pc[t] \notin {"wait", "env", "abort"}
               /\ \/ RunningPid \in prepared'
                  \/ /\ \/ stage'[t] \in {"create", "setup"}
                        \/ stage[t] \notin {"create", "setup"}
                     /\ ~ (stage'[t] = "exec" /\ pc'[t] \in {"idle", "exec"})
    PROVE  SafeInv'
  <1>1. PICK s, r : /\ pc' = [pc EXCEPT ![t] = s] /\ stage' = [stage EXCEPT ![t] = r]
    BY BackendGoes
  <1>2. TypeOK /\ stage \in [Tasks -> Ex!Stages]
    BY DEF BaseInv, SessionTypeOK, Ex!ExecutorTypeOK
  <1>3. \A u \in Tasks : u # t => pc'[u] = pc[u] /\ stage'[u] = stage[u]
    BY <1>1, <1>2 DEF TypeOK
  <1>4. prepared \subseteq prepared' /\ prepared' \subseteq env'
    BY PreparedKnown
  <1>5. DiskTaken'
    BY DEF SafeInv, DiskTaken, Up
  <1>6. Connections'
    BY <1>2, <1>3, <1>4 DEF SafeInv, Connections, TypeOK
  <1>7. Booting'
    BY <1>2, <1>3 DEF SafeInv, Booting, TypeOK
  <1>8. RunningPid' = RunningPid  BY DEF RunningPid, Up
  <1>9. ASSUME RunningPid # None
        PROVE  RunningPid \in env' \/ \E u \in Tasks : pc'[u] \in {"wait", "env", "abort"}
    BY <1>3, <1>9 DEF SafeInv, Visible
  <1>10. ASSUME RunningPid # None, RunningPid \notin prepared'
         PROVE  /\ \E u \in Tasks : stage'[u] \in {"create", "setup"}
                /\ \A u \in Tasks : stage'[u] = "exec" => pc'[u] \notin {"idle", "exec"}
    BY <1>3, <1>4, <1>10 DEF SafeInv, Visible
  <1>11. Visible'  BY <1>8, <1>9, <1>10 DEF Visible
  <1> QED  BY <1>4, <1>5, <1>6, <1>7, <1>11 DEF SafeInv

\* A step of a task whose backend call goes nowhere near a VM.
LEMMA SafeMoves ==
    ASSUME BaseInv, BaseInv', SafeInv, NEW t \in Tasks, BackendStep(t),
           UNCHANGED <<vm, holds, pidfile, env, conn, channel>>,
           pc[t] \notin {"queued", "run", "wait", "env", "abort"},
           pc'[t] \notin {"boot", "queued", "run"},
           RunningPid # None =>
               \/ RunningPid \in prepared'
               \/ /\ \/ stage'[t] \in {"create", "setup"}
                     \/ stage[t] \notin {"create", "setup"}
                  /\ ~ (stage'[t] = "exec" /\ pc'[t] \in {"idle", "exec"})
    PROVE  SafeInv'
  <1>1. \A p \in Procs : channel[p] # t
    BY SmolAssumption DEF SmolAssumption, SafeInv, Connections
  <1> QED  BY <1>1, SafeStays

\* stop() is called.
LEMMA SafeStop ==
    ASSUME BaseInv, BaseInv', SafeInv, NEW t \in Tasks, BackendStep(t),
           NEW why \in {"clear", "abort", "stuck"}, Stop(t, why),
           UNCHANGED <<vm, env, holds>>,
           \A u \in Tasks : u # t => conn'[u] = conn[u],
           \A p \in Procs : channel'[p] \in {channel[p], None} /\ channel'[p] # t,
           pc[t] = "wait" /\ RunningPid = None => \A v \in Vms : vm[v] # "starting",
           why = "abort" \/ pc[t] \notin {"wait", "env", "abort"}
    PROVE  SafeInv'
  <1>1. TypeOK  BY DEF BaseInv, SessionTypeOK
  <1>2. CASE RunningPid = None
    <2>1. AfterStop(t, why) /\ why \in Reasons  BY <1>2 DEF Stop, Reasons
    <2>2. pidfile' = None /\ pc'[t] \in {"boot", "rmtree", "idle"}
      BY <1>1, <2>1, AfterStopTypes
    <2> QED  BY <1>2, <2>2, SafeStopped
  <1>3. CASE RunningPid # None
    <2>1. pc'[t] = why /\ pidfile' = pidfile  BY <1>1, <1>3 DEF Stop, Goto, TypeOK
    <2>2. \A v \in Vms : vm[v] # "starting"
      BY <1>3 DEF SafeInv, Booting, RunningPid
    <2>3. stage'[t] = stage[t]
      BY <2>1 DEF BackendStep, ExecutorIdle, executorVars
    <2> QED  BY <2>1, <2>2, <2>3, SafeStays
  <1> QED  BY <1>2, <1>3

LEMMA SafeCreate ==
    ASSUME BaseInv, BaseInv', SafeInv, NEW t \in Tasks, BackendStep(t),
           \/ CreateEnters(t) \/ ProbeAnswered(t) \/ ProbeFails(t) \/ SpawnRaises(t)
           \/ Ready(t) \/ NotReady(t) \/ SetEnv(t) \/ SetEnvFails(t)
    PROVE  SafeInv'
  <1> USE DEF machine, locks, external, stopVars
  <1>1. TypeOK  BY DEF BaseInv, SessionTypeOK
  <1>2. pc[t] \in CreateAwaits \ {"clear", "abort"} /\ stage[t] = "create"
    <2>1. pc[t] \in CreateAwaits \ {"clear", "abort"}
      BY DEF CreateEnters, ProbeAnswered, ProbeFails, SpawnRaises, Ready, NotReady, SetEnv,
             SetEnvFails, CreateAwaits
    <2> QED  BY <2>1, StageOf DEF BaseInv
  <1>3. PICK s, r : /\ pc' = [pc EXCEPT ![t] = s] /\ pc'[t] = s
                    /\ stage' = [stage EXCEPT ![t] = r] /\ stage'[t] = r
                    /\ IF s = "idle" THEN Returns(t, r) ELSE r = stage[t]
    BY BackendGoes
  <1>4. \A p \in Procs : channel[p] # t
    BY <1>2, SmolAssumption DEF SmolAssumption, SafeInv, Connections, CreateAwaits
  <1>5. pc[t] # "wait" => \A v \in Vms : vm[v] # "starting"
    BY <1>2, AloneBooting DEF SafeInv, Booting, CreateAwaits
  <1>6. CASE CreateEnters(t)
    <2>1. CASE RunningPid # None
      <3>1. Goto(t, "probe") /\ UNCHANGED <<vm, holds, pidfile, env, conn, channel>>
        BY <1>6, <2>1 DEF CreateEnters
      <3>2. pc'[t] = "probe" /\ stage'[t] = "create"
        BY <1>1, <1>2, <1>3, <3>1 DEF Goto, TypeOK
      <3>3. pc[t] = "lock"  BY <1>6 DEF CreateEnters
      <3> QED  BY <3>1, <3>2, <3>3, SafeMoves
    <2>2. CASE RunningPid = None
      <3>1. /\ Goto(t, "boot") /\ pidfile' = None /\ pc[t] = "lock"
            /\ UNCHANGED <<vm, holds, env, conn, channel>>
        BY <1>6, <2>2 DEF CreateEnters
      <3>2. pc'[t] = "boot"  BY <1>1, <3>1 DEF Goto, TypeOK
      <3> QED  BY <1>4, <3>1, <3>2, SafeStopped
    <2> QED  BY <2>1, <2>2
  <1>7. CASE ProbeAnswered(t) \/ SetEnv(t)
    <2>1. /\ pc[t] \in {"probe", "env"} /\ Answers(pidfile) /\ Goto(t, "idle")
          /\ UNCHANGED <<vm, holds, pidfile, conn, channel>> /\ env \subseteq env'
          /\ pc[t] = "env" => env' = env \cup {pidfile}
      BY <1>7 DEF ProbeAnswered, SetEnv
    <2>2. pc'[t] = "idle" /\ stage'[t] \in {"setup", "exec"}
      BY <1>1, <1>2, <1>3, <2>1 DEF Goto, TypeOK, Returns
    <2>3. RunningPid # None => stage'[t] = "setup" \/ RunningPid \in prepared'
      BY <1>2, <2>1, <2>2, PreparedKnown
    <2>4. RunningPid # None => RunningPid = pidfile  BY DEF RunningPid
    <2> QED  BY <1>4, <1>5, <2>1, <2>2, <2>3, <2>4, SafeStays
  <1>8. CASE ProbeFails(t) \/ NotReady(t) \/ SetEnvFails(t)
    <2>1. /\ UNCHANGED <<vm, env, holds, conn, channel>>
          /\ pc[t] = "wait" /\ RunningPid = None => \A v \in Vms : vm[v] # "starting"
          /\ \E why \in {"clear", "abort"} :
                 Stop(t, why) /\ (why = "abort" \/ pc[t] = "probe")
      BY <1>8 DEF ProbeFails, NotReady, SetEnvFails
    <2> QED  BY <1>4, <2>1, SafeStop
  <1>9. CASE SpawnRaises(t)
    <2>1. /\ pc[t] = "boot" /\ Goto(t, "idle")
          /\ UNCHANGED <<vm, holds, pidfile, env, conn, channel>>
      BY <1>9 DEF SpawnRaises
    <2>2. pidfile' = None  BY <2>1 DEF SafeInv, Booting
    <2>3. pc'[t] = "idle"  BY <1>1, <2>1 DEF Goto, TypeOK
    <2> QED  BY <1>4, <2>1, <2>2, <2>3, SafeStopped
  <1>10. CASE Ready(t)
    <2>1. /\ Answers(pidfile) /\ Goto(t, "env")
          /\ UNCHANGED <<vm, holds, pidfile, env, conn, channel>>
      BY <1>10 DEF Ready
    <2>2. pc'[t] = "env" /\ stage'[t] = "create"
      BY <1>1, <1>2, <1>3, <2>1 DEF Goto, TypeOK
    <2>3. \A v \in Vms : vm[v] # "starting"
      BY <2>1 DEF SafeInv, Booting, Answers
    <2> QED  BY <1>4, <2>1, <2>2, <2>3, SafeStays
  <1> QED  BY <1>6, <1>7, <1>8, <1>9, <1>10

LEMMA SafeSpawn ==
    ASSUME BaseInv, BaseInv', SafeInv, NEW t \in Tasks, BackendStep(t), Spawn(t)
    PROVE  SafeInv'
  <1>1. /\ TypeOK /\ stage \in [Tasks -> Ex!Stages]
        /\ prepared \subseteq Vms /\ prepared \subseteq env
    BY DEF BaseInv, SessionTypeOK, Ex!ExecutorTypeOK, SafeInv
  <1>2. PICK v \in Vms : /\ vm[v] = "off" /\ \A u \in Tasks : conn[u] # v
                         /\ vm' = [vm EXCEPT ![v] = "starting"] /\ env' = env \ {v}
    BY DEF Spawn
  <1>3. /\ pc[t] = "boot" /\ Goto(t, "wait")
        /\ UNCHANGED <<pidfile, channel, conn, holds>>
    BY DEF Spawn, locks
  <1>4. pc'[t] = "wait" /\ stage' = stage /\ \A u \in Tasks : u # t => pc'[u] = pc[u]
    BY <1>1, <1>3 DEF Goto, TypeOK, BackendStep, ExecutorIdle, executorVars
  <1>5. stage[t] = "create"  BY <1>3, StageOf DEF BaseInv, CreateAwaits
  <1>6. pidfile = None  BY <1>3 DEF SafeInv, Booting
  <1>7. \A w \in Vms : vm[w] # "starting"
    BY <1>3, <1>5, AloneBooting DEF SafeInv, Booting, CreateAwaits
  <1>8. prepared' = prepared \ {v}
    BY <1>1, <1>2, <1>4, <1>5 DEF BackendStep, TypeOK
  <1>9. DiskTaken'  BY <1>1, <1>2, <1>3 DEF SafeInv, DiskTaken, Up, TypeOK
  <1>10. Connections'
    BY <1>1, <1>2, <1>3, <1>4, <1>8 DEF SafeInv, Connections, TypeOK
  <1>11. Booting'  BY <1>1, <1>2, <1>3, <1>4, <1>6, <1>7 DEF Booting, TypeOK, SafeInv
  <1>12. Visible'  BY <1>3, <1>6 DEF Visible, RunningPid
  <1> QED  BY <1>1, <1>2, <1>8, <1>9, <1>10, <1>11, <1>12 DEF SafeInv

LEMMA SafeFind ==
    ASSUME BaseInv, BaseInv', SafeInv, NEW t \in Tasks, BackendStep(t), FindReturns(t)
    PROVE  SafeInv'
  <1> USE DEF machine, locks, external
  <1>1. TypeOK  BY DEF BaseInv, SessionTypeOK
  <1>2. /\ pc[t] = "find" /\ Goto(t, "idle")
        /\ UNCHANGED <<vm, holds, pidfile, env, conn, channel>>
    BY DEF FindReturns
  <1>3. stage[t] = "find" /\ pc'[t] = "idle"
    BY <1>1, <1>2, StageOf DEF BaseInv, Goto, TypeOK
  <1>4. \A u \in Tasks : stage[u] \notin {"create", "setup"}
    BY <1>3, Alone
  <1>5. RunningPid # None => RunningPid \in prepared
    BY <1>4 DEF SafeInv, Visible
  <1>6. prepared \subseteq prepared'  BY <1>2, PreparedKnown
  <1> QED  BY <1>2, <1>3, <1>5, <1>6, SafeMoves

LEMMA SafeCommand ==
    ASSUME BaseInv, BaseInv', SafeInv, NEW t \in Tasks, BackendStep(t),
           \/ Connect(t) \/ RunBegins(t) \/ RunAnswered(t) \/ RunLost(t)
           \/ RunTimesOut(t)
    PROVE  SafeInv'
  <1> USE DEF machine, locks, external, stopVars
  <1>1. TypeOK  BY DEF BaseInv, SessionTypeOK
  <1>2. pc[t] \in {"exec", "queued", "run"} /\ stage[t] \in {"setup", "exec"}
    <2>1. pc[t] \in {"exec", "queued", "run"}
      BY DEF Connect, RunBegins, RunAnswered, RunLost, RunTimesOut
    <2> QED  BY <2>1, StageOf DEF BaseInv, CommandAwaits
  <1>3. PICK s, r : /\ pc' = [pc EXCEPT ![t] = s] /\ pc'[t] = s
                    /\ stage' = [stage EXCEPT ![t] = r] /\ stage'[t] = r
                    /\ IF s = "idle" THEN Returns(t, r) ELSE r = stage[t]
    BY BackendGoes
  <1>4. \A u \in Tasks : u # t => conn'[u] = conn[u]
    BY <1>1 DEF Connect, RunBegins, RunAnswered, RunLost, RunTimesOut, Disconnect, TypeOK
  <1>5. ASSUME RunningPid # None
        PROVE  \/ RunningPid \in prepared
               \/ stage[t] = "setup"
               \/ pc[t] # "exec"
    BY <1>2, <1>5 DEF SafeInv, Visible
  <1>6. CASE Connect(t) /\ RunningPid # None
    <2>1. /\ conn' = [conn EXCEPT ![t] = RunningPid]
          /\ channel' = [channel EXCEPT ![ProcOf[t]] = t]
          /\ Goto(t, "queued") /\ pc[t] = "exec"
          /\ UNCHANGED <<vm, holds, pidfile, env>>
      BY <1>6 DEF Connect
    <2>2. pc'[t] = "queued" /\ stage'[t] = stage[t]
      BY <1>1, <1>3, <2>1 DEF Goto, TypeOK
    <2>3. /\ RunningPid \in Vms /\ vm[RunningPid] # "starting"
          /\ conn'[t] = RunningPid
      BY <1>1, <1>6, <2>1 DEF RunningPid, Up, TypeOK
    <2>4. stage[t] = "exec" => RunningPid \in prepared
      BY <1>5, <1>6, <2>1
    <2>5. RunningPid \in env
      <3>1. CASE stage[t] = "exec"  BY <2>4, <3>1 DEF SafeInv
      <3>2. CASE stage[t] = "setup"
        <4>1. \A u \in Tasks : pc[u] \notin {"wait", "env", "abort"}
          BY <1>2, <3>2, AloneBooting DEF CreateAwaits
        <4> QED  BY <1>6, <4>1 DEF SafeInv, Visible
      <3> QED  BY <1>2, <3>1, <3>2
    <2>6. \A p \in Procs : /\ channel'[p] \in {channel[p], t}
                           /\ channel[p] # t
      BY <1>1, <2>1, SmolAssumption DEF SmolAssumption, TypeOK, SafeInv, Connections
    <2> QED  BY <1>4, <1>5, <2>1, <2>2, <2>3, <2>4, <2>5, <2>6, SafeStays
  <1>7. CASE Connect(t) /\ RunningPid = None
    <2>1. /\ Goto(t, "idle") /\ pc[t] = "exec"
          /\ UNCHANGED <<vm, holds, pidfile, env, conn, channel>>
      BY <1>7 DEF Connect
    <2>2. pc'[t] = "idle"  BY <1>1, <2>1 DEF Goto, TypeOK
    <2> QED  BY <1>7, <2>1, <2>2, SafeMoves
  <1>8. CASE RunBegins(t)
    <2>1. /\ Goto(t, "run") /\ pc[t] = "queued"
          /\ UNCHANGED <<vm, holds, pidfile, env, conn, channel>>
      BY <1>8 DEF RunBegins
    <2>2. pc'[t] = "run" /\ stage'[t] = stage[t]
      BY <1>1, <1>3, <2>1 DEF Goto, TypeOK
    <2>3. /\ conn[t] \in Vms /\ vm[conn[t]] # "starting" /\ conn[t] \in env
          /\ stage[t] = "exec" => conn[t] \in prepared
      BY <2>1 DEF SafeInv, Connections
    <2> QED  BY <1>2, <1>4, <2>1, <2>2, <2>3, SafeStays
  <1>9. CASE RunAnswered(t) \/ RunLost(t)
    <2>1. /\ Goto(t, "idle") /\ pc[t] \in {"queued", "run"} /\ Disconnect(t)
          /\ UNCHANGED <<vm, holds, pidfile, env>>
      BY <1>9 DEF RunAnswered, RunLost
    <2>2. pc'[t] = "idle" /\ Returns(t, stage'[t])
      BY <1>1, <1>3, <2>1 DEF Goto, TypeOK
    <2>3. \/ stage'[t] = "setup"
          \/ stage'[t] = "idle" /\ stage[t] = "exec"
          \/ stage'[t] = "exec" /\ stage[t] = "setup"
      BY <1>2, <2>2 DEF Returns
    <2>4. RunningPid # None /\ stage'[t] = "exec" => RunningPid \in prepared'
      BY <2>1, <2>3, PreparedKnown
    <2>5. \A p \in Procs : channel'[p] \in {channel[p], None} /\ channel'[p] # t
      BY <2>1, SmolAssumption DEF SmolAssumption, Disconnect
    <2> QED  BY <1>4, <2>1, <2>2, <2>3, <2>4, <2>5, SafeStays
  <1>10. CASE RunTimesOut(t)
    <2>1. /\ pc[t] \in {"queued", "run"} /\ Disconnect(t) /\ Stop(t, "stuck")
          /\ UNCHANGED <<vm, env, holds>>
      BY <1>10 DEF RunTimesOut
    <2>2. \A p \in Procs : channel'[p] \in {channel[p], None} /\ channel'[p] # t
      BY <2>1, SmolAssumption DEF SmolAssumption, Disconnect
    <2> QED  BY <1>4, <2>1, <2>2, SafeStop
  <1> QED  BY <1>6, <1>7, <1>8, <1>9, <1>10

LEMMA SafeStopEnds ==
    ASSUME BaseInv, BaseInv', SafeInv, NEW t \in Tasks, BackendStep(t),
           StopPoll(t) \/ StopKill(t)
    PROVE  SafeInv'
  <1>1. TypeOK  BY DEF BaseInv, SessionTypeOK
  <1>2. pc[t] \in Reasons /\ AfterStop(t, pc[t])  BY DEF StopPoll, StopKill
  <1>3. pidfile' = None /\ pc'[t] \in {"boot", "rmtree", "idle"}
    BY <1>1, <1>2, AfterStopTypes
  <1>4. \A v \in Vms : /\ vm'[v] \in {vm[v], "off"}
                       /\ Up(v) /\ vm'[v] = vm[v] => (v \in holds => v \in holds')
    BY <1>1 DEF StopPoll, StopKill, TypeOK, external, Up
  <1>5. UNCHANGED <<env, conn, channel>>  BY DEF StopPoll, StopKill
  <1>6. \A p \in Procs : channel[p] # t
    BY <1>2, SmolAssumption DEF SmolAssumption, SafeInv, Connections, Reasons
  <1> QED  BY <1>2, <1>3, <1>4, <1>5, <1>6, SafeStopped DEF Reasons

LEMMA SafeBackendStep ==
    ASSUME BaseInv, BaseInv', SafeInv, NEW t \in Tasks, BackendStep(t)
    PROVE  SafeInv'
  <1>1. ~ Rmtree(t)
    BY StageOf DEF BaseInv, Rmtree, CreateAwaits, CommandAwaits
  <1>2. Turn(t) \/ Progress(t)  BY DEF BackendStep
  <1> QED
    BY <1>1, <1>2, SafeCreate, SafeSpawn, SafeFind, SafeCommand, SafeStopEnds
    DEF Turn, Progress

\* A step of a task between two calls of the backend.
LEMMA SafeBetween ==
    ASSUME BaseInv, BaseInv', SafeInv, NEW t \in Tasks,
           Execute(t) \/ Acquire(t) \/ Exists(t) \/ AnswersNotFound(t)
    PROVE  SafeInv'
  <1>1. pc[t] = "idle" /\ UNCHANGED <<vars, prepared>>
    BY BetweenGoes DEF BackendIdle
  <1>2. PICK s : /\ stage' = [stage EXCEPT ![t] = s]
                 /\ \/ stage[t] = "idle" /\ s = "lock"
                    \/ stage[t] = "lock" /\ s \in {"exists", "find"}
                    \/ stage[t] = "exists" /\ s \in {"exec", "find"}
                    \/ RunningPid = None
    BY BetweenGoes
  <1>3. /\ stage'[t] = s /\ \A u \in Tasks : u # t => stage'[u] = stage[u]
    BY <1>2 DEF BaseInv, SessionTypeOK, Ex!ExecutorTypeOK
  <1>4. DiskTaken' /\ Booting' /\ prepared' \subseteq env'
    BY <1>1 DEF vars, machine, external, SafeInv, DiskTaken, Booting, Up
  <1>5. Connections'
    BY <1>1, <1>3 DEF vars, machine, locks, SafeInv, Connections
  <1>6. RunningPid' = RunningPid  BY <1>1 DEF vars, machine, RunningPid, Up
  <1>7. ASSUME RunningPid # None, RunningPid \notin prepared
        PROVE  /\ \E u \in Tasks : stage'[u] \in {"create", "setup"}
               /\ \A u \in Tasks : stage'[u] = "exec" => pc[u] \notin {"idle", "exec"}
    <2>1. PICK u \in Tasks : stage[u] \in {"create", "setup"}
      BY <1>7 DEF SafeInv, Visible
    <2>2. stage[t] # "exists"  BY <2>1, Alone
    <2>3. u # t /\ stage'[u] = stage[u]  BY <1>2, <1>3, <1>7, <2>1, <2>2
    <2>4. stage'[t] # "exec"  BY <1>2, <1>3, <1>7, <2>2
    <2> QED  BY <1>3, <1>7, <2>1, <2>3, <2>4 DEF SafeInv, Visible
  <1>8. Visible'
    BY <1>1, <1>6, <1>7 DEF vars, machine, SafeInv, Visible
  <1> QED  BY <1>4, <1>5, <1>8 DEF SafeInv

\* A task calls the backend: it asks for a connection only if there is a VM
\* that is set up, or that it is to set up.
LEMMA SafeCalls ==
    ASSUME BaseInv, SafeInv, NEW t \in Tasks, CallsBackend(t)
    PROVE  SafeInv'
  <1>1. /\ pc[t] = "idle" /\ TypeOK
        /\ UNCHANGED <<vm, pidfile, env, channel, conn, holds, stage, prepared>>
    BY CallGoes DEF BaseInv, SessionTypeOK, machine, locks, external, executorVars
  <1>2. PICK s \in {"find", "lock", "exec"} : pc' = [pc EXCEPT ![t] = s]
    BY CallGoes DEF BaseInv
  <1>3. pc'[t] = s /\ \A u \in Tasks : u # t => pc'[u] = pc[u]
    BY <1>1, <1>2 DEF TypeOK
  <1>4. DiskTaken' /\ prepared' \subseteq env'
    BY <1>1 DEF SafeInv, DiskTaken, Up
  <1>5. Connections'
    BY <1>1, <1>3 DEF SafeInv, Connections, TypeOK
  <1>6. Booting'
    BY <1>1, <1>3 DEF SafeInv, Booting
  <1>7. RunningPid' = RunningPid  BY <1>1 DEF RunningPid, Up
  <1>8. Visible'
    BY <1>1, <1>3, <1>7 DEF SafeInv, Visible
  <1> QED  BY <1>4, <1>5, <1>6, <1>8 DEF SafeInv

\* A new VM comes up: every command that waited for a connection has got
\* one, to a VM that is gone by now, or was told that there is none.
LEMMA SafeUp ==
    ASSUME BaseInv, SafeInv, MachineStep, NEW v \in Vms, QemuUp(v)
    PROVE  SafeInv'
  <1>1. TypeOK  BY DEF BaseInv, SessionTypeOK
  <1>2. UNCHANGED <<pc, conn, channel, env, stage, prepared>>
    BY MachineLeavesCalls DEF locks, executorVars, QemuUp
  <1>3. vm[v] = "starting" /\ pidfile = None /\ RunningPid = None
    BY DEF QemuUp, SafeInv, Booting, RunningPid
  <1>4. PICK t \in Tasks : pc[t] = "wait" /\ stage[t] = "create"
    BY <1>3, StageOf DEF SafeInv, Booting, BaseInv, CreateAwaits
  <1>5. \A w \in Vms : w # v => vm[w] # "starting"
    BY <1>3 DEF SafeInv, Booting
  <1>6. /\ vm'[v] \in {"booting", "off"}
        /\ \A w \in Vms : w # v => vm'[w] = vm[w]
    BY <1>1 DEF QemuUp, TypeOK
  <1>7. Connections'
    BY <1>2, <1>6 DEF SafeInv, Connections
  <1>8. prepared' \subseteq env'  BY <1>2 DEF SafeInv
  <1>9. CASE disk /\ RunningPid = None /\ \A w \in holds : ~ Up(w)
    <2>1. vm'[v] = "booting" /\ pidfile' = v /\ holds' = holds \cup {v}
      BY <1>1, <1>9 DEF QemuUp, TypeOK
    <2>2. \A w \in Vms : Up(w) => w \in holds  BY DEF SafeInv, DiskTaken
    <2>3. DiskTaken'  BY <1>6, <2>1, <2>2 DEF DiskTaken, Up
    <2>4. \A u \in Tasks : pc[u] # "boot"
      BY <1>4, AloneBooting DEF CreateAwaits
    <2>5. Booting'  BY <1>2, <1>5, <1>6, <2>1, <2>4 DEF Booting
    <2>6. ASSUME NEW u \in Tasks, stage[u] = "exec"
          PROVE  pc[u] \notin {"idle", "exec"}
      <3>1. ~ Woken(u)  BY DEF MachineStep
      <3>2. pc[u] # "idle"  BY <2>6, <3>1 DEF Woken, Between
      <3>3. ASSUME pc[u] = "exec" PROVE FALSE
        <4>1. channel[ProcOf[u]] # None  BY <3>1, <3>3 DEF Woken, ChannelFree
        <4>2. PICK c \in Tasks : pc[c] \in {"queued", "run"}
          BY <1>1, <4>1, SmolAssumption DEF SmolAssumption, TypeOK, SafeInv, Connections
        <4>3. conn[c] \in Vms /\ vm[conn[c]] # "starting"
          BY <4>2 DEF SafeInv, Connections
        <4>4. vm[conn[c]] # "off"  BY <4>2 DEF MachineStep, Woken
        <4>5. Up(conn[c])  BY <1>1, <4>3, <4>4 DEF Up, TypeOK
        <4> QED  BY <1>9, <2>2, <4>3, <4>5
      <3> QED  BY <3>2, <3>3
    <2>7. Visible'
      <3>1. \A u \in Tasks : stage'[u] = "exec" => pc'[u] \notin {"idle", "exec"}
        BY <1>2, <2>6
      <3>2. pc'[t] = "wait" /\ stage'[t] = "create"  BY <1>2, <1>4
      <3> QED  BY <3>1, <3>2 DEF Visible
    <2> QED  BY <1>7, <1>8, <2>3, <2>5, <2>7 DEF SafeInv
  <1>10. CASE ~ (disk /\ RunningPid = None /\ \A w \in holds : ~ Up(w))
    <2>1. vm'[v] = "off" /\ pidfile' = pidfile /\ holds' = holds
      BY <1>1, <1>10 DEF QemuUp, TypeOK
    <2>2. DiskTaken'  BY <1>6, <2>1 DEF SafeInv, DiskTaken, Up
    <2>3. Booting'  BY <1>2, <1>5, <1>6, <2>1 DEF SafeInv, Booting
    <2>4. Visible'  BY <1>3, <2>1 DEF Visible, RunningPid
    <2> QED  BY <1>7, <1>8, <2>2, <2>3, <2>4 DEF SafeInv
  <1> QED  BY <1>9, <1>10

LEMMA SafeMachine ==
    ASSUME BaseInv, SafeInv, MachineStep
    PROVE  SafeInv'
  <1>1. TypeOK  BY DEF BaseInv, SessionTypeOK
  <1>2. UNCHANGED <<pc, channel, env, stage, prepared>>
    BY MachineLeavesCalls DEF locks, executorVars
  <1>3. PICK v \in Vms : Machine(v) \/ Hang(v) \/ Die(v)  BY DEF MachineStep
  <1>4. CASE QemuUp(v)  BY <1>4, SafeUp
  <1>5. CASE GuestUp(v) \/ Hang(v) \/ TermExit(v) \/ Die(v) \/ GoneEnds(v)
    <2>1. conn' = conn
      BY <1>5 DEF GuestUp, Hang, TermExit, Die, GoneEnds
    <2>2. \A w \in Vms : w # v => vm'[w] = vm[w] /\ (w \in holds => w \in holds')
      BY <1>1, <1>5 DEF GuestUp, Hang, TermExit, Die, GoneEnds, TypeOK, machine, external
    <2>3. /\ vm'[v] = "starting" => vm[v] = "starting"
          /\ Up(v)' => Up(v) /\ (v \in holds => v \in holds')
          /\ pidfile' = pidfile \/ pidfile' = None
          /\ pidfile' # pidfile => vm[v] # "starting"
      BY <1>1, <1>5
      DEF GuestUp, Hang, TermExit, Die, GoneEnds, TypeOK, machine, external, Up
    <2>4. \A w \in Vms : /\ vm'[w] = "starting" => vm[w] = "starting"
                         /\ Up(w)' => Up(w) /\ (w \in holds => w \in holds')
      BY <2>2, <2>3 DEF Up
    <2>5. RunningPid' \in {RunningPid, None}
      BY <1>1, <2>3, <2>4 DEF RunningPid, TypeOK
    <2>6. DiskTaken'  BY <2>4 DEF SafeInv, DiskTaken
    <2>7. Connections'  BY <1>2, <2>1, <2>4 DEF SafeInv, Connections
    <2>8. Booting'  BY <1>2, <2>3, <2>4 DEF SafeInv, Booting
    <2>9. Visible'  BY <1>2, <2>5 DEF SafeInv, Visible
    <2> QED  BY <1>2, <2>6, <2>7, <2>8, <2>9 DEF SafeInv
  <1> QED  BY <1>3, <1>4, <1>5 DEF Machine

-----------------------------------------------------------------------------

LEMMA InitSession == SessionInit => SessionInv
  <1> SUFFICES ASSUME SessionInit PROVE SessionInv  OBVIOUS
  <1>1. SafeInv
    BY DEF SessionInit, Init, SafeInv, DiskTaken, Connections, Booting, Visible, Up,
           RunningPid
  <1> QED  BY <1>1, InitBase DEF SessionInv

LEMMA StepSession == SessionInv /\ [SessionNext]_sessionVars => SessionInv'
  <1> SUFFICES ASSUME SessionInv, [SessionNext]_sessionVars PROVE SessionInv'  OBVIOUS
  <1>1. BaseInv /\ BaseInv'  BY StepBase DEF SessionInv
  <1>2. SUFFICES ASSUME crashes' = 0 PROVE SafeInv'  BY <1>1 DEF SessionInv
  <1>3. ASSUME NEW p \in Procs, HostCrashes(p) PROVE FALSE
    BY <1>1, <1>2, <1>3, CrashEndsAll, SmolAssumption
    DEF SmolAssumption, BaseInv, SessionTypeOK, TypeOK
  <1>4. ASSUME crashes = 0 PROVE SafeInv'
    <2>1. SafeInv  BY <1>4 DEF SessionInv
    <2>2. CASE UNCHANGED sessionVars
      BY <2>1, <2>2
      DEF sessionVars, vars, machine, locks, external, executorVars, SafeInv, DiskTaken,
          Connections, Booting, Visible, RunningPid, Up
    <2> QED
      BY <1>1, <1>3, <2>1, <2>2, SafeBetween, SafeCalls, SafeBackendStep, SafeMachine
      DEF SessionNext, GoesOn
  <1>5. crashes' = 0 => crashes = 0
    <2> USE DEF external
    <2>1. ASSUME NEW t \in Tasks, Execute(t) \/ GoesOn(t)
          PROVE  crashes' = crashes
      <3>1. CASE Turn(t) \/ Progress(t)
        BY <3>1 DEF Turn, CreateEnters, ProbeAnswered, ProbeFails, Ready, SetEnv,
                    SetEnvFails, FindReturns, Connect, Progress, StopPoll, StopKill,
                    Spawn, SpawnRaises, NotReady, RunBegins, RunAnswered, RunLost,
                    RunTimesOut, Rmtree
      <3>2. CASE CallsBackend(t)
        BY <1>1, <3>2, CallGoes DEF BaseInv
      <3>3. CASE Execute(t) \/ Acquire(t) \/ Exists(t) \/ AnswersNotFound(t)
        BY <1>1, <3>3, BetweenGoes DEF BackendIdle, vars
      <3> QED  BY <2>1, <3>1, <3>2, <3>3 DEF GoesOn, BackendStep
    <2> QED
      BY <1>3, <2>1, MachineLeavesCalls DEF SessionNext, sessionVars, vars
  <1> QED  BY <1>2, <1>4, <1>5

(* SessionInv is inductive, with as many calls, VMs, setup commands and    *)
(* faults as there may be.                                                 *)
THEOREM SessionInvariant == SessionSpec => []SessionInv
  BY InitSession, StepSession, PTL DEF SessionSpec

(* However many tool calls overlap, a command runs only in a VM in which   *)
(* the setup commands were run (executor.py:90), and whatever VM had the   *)
(* session's name when the call began: it connects once the new VM is set  *)
(* up, or is told that there is none.                                      *)
THEOREM SetupComesFirst == SessionSpec => []SetupBeforeUse
  <1>1. SessionInv => SetupBeforeUse
    BY DEF SessionInv, SafeInv, Connections, SetupBeforeUse
  <1> QED  BY <1>1, SessionInvariant, PTL

(* And only in a VM that has the session's environment                     *)
(* (docs/backends.md:123), though the calls of a session overlap.          *)
THEOREM SessionHasEnvironment == SessionSpec => []EnvReachesUncrashed
  <1>1. SessionInv => EnvReachesUncrashed
    BY DEF SessionInv, SafeInv, Connections, EnvReachesUncrashed, EnvReaches
  <1> QED  BY <1>1, SessionInvariant, PTL
=============================================================================
