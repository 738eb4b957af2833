------------------------- MODULE SmolBackendProofs -------------------------
(***************************************************************************)
(* Proofs about SmolBackend, for any number of VMs and faults: what calls  *)
(* made one after the other keep, and what any calls of one process keep   *)
(* that overlap.                                                           *)
(***************************************************************************)
EXTENDS SmolBackend, TLAPS

\* The calls of the session are made one after the other.
OneAtATime == \A t, u \in Tasks : t = u

(* No process has died, and calls are made one after the other: at most    *)
(* one QEMU exists, one that is up is the pidfile's, and the one stop()    *)
(* waits for is the one it signalled.                                      *)
OneVm ==
    /\ \A v, w \in Vms : vm[v] # "off" /\ vm[w] # "off" => v = w
    /\ \A v \in Vms : vm[v] = "starting" => \E t \in Tasks : pc[t] = "wait"
    /\ NoOrphan
    /\ \A t \in Tasks : pc[t] = "boot" => \A v \in Vms : vm[v] = "off"
    /\ \A t \in Tasks : pc[t] \in Reasons /\ RunningPid # None => target[t] = RunningPid

(* Only the call that boots a VM meets it without its environment.         *)
EnvStored ==
    /\ \A v \in Vms : Up(v) => \/ v \in env
                               \/ \E t \in Tasks : pc[t] \in {"wait", "env", "abort"}
    /\ \A t \in Tasks : pc[t] \in {"queued", "run"} => conn[t] \in env

LoneInv == TypeOK /\ (crashes = 0 => OneVm /\ EnvStored)

-----------------------------------------------------------------------------

\* The calls of the session are those of one process, and none deletes.
OneProcess == \A t, u \in Tasks : ProcOf[t] = ProcOf[u]
NoDeletion == \A t \in Tasks : "delete" \notin OpsOf[t]

(* No process has died and no guest hung: who has a connection has the     *)
(* channel, and a VM is busy with the command of who runs one on it.       *)
TakeTurns ==
    /\ \A v \in Vms : vm[v] # "hung" /\ busy[v] # Gone
    /\ \A t \in Tasks : pc[t] \in {"queued", "run"}
                         => channel[ProcOf[t]] = t /\ conn[t] \in Vms
    /\ \A v \in Vms : busy[v] \in Tasks /\ vm[v] # "off"
                         => pc[busy[v]] = "run" /\ conn[busy[v]] = v
    /\ \A t \in Tasks : pc[t] # "remove"

TurnsInv == TypeOK /\ (hangs = 0 /\ crashes = 0 => TakeTurns)

-----------------------------------------------------------------------------
(* Types, whatever overlaps and crashes *)

LEMMA InitTypes == Init => TypeOK
  <1> SUFFICES ASSUME Init PROVE TypeOK  OBVIOUS
  <1> USE SmolAssumption DEF SmolAssumption, Init
  <1>1. /\ hangs \in 0..MaxHangs /\ deaths \in 0..MaxDeaths
        /\ crashes \in 0..MaxCrashes
    OBVIOUS
  <1>2. /\ createLock \in [Procs -> Tasks \cup {None}]
        /\ channel \in [Procs -> Tasks \cup {None}]
        /\ target \in [Tasks -> Vms \cup {None}]
        /\ conn \in [Tasks -> Vms \cup {None}]
        /\ earlier \in [Tasks -> SUBSET Tasks]
        /\ busy \in [Vms -> Tasks \cup {None, Gone}]
    OBVIOUS
  <1> QED  BY <1>1, <1>2 DEF TypeOK

\* What stop() does, when it is called and when it ends.
LEMMA AfterStopTypes ==
    ASSUME TypeOK, NEW t \in Tasks, NEW why \in Reasons, AfterStop(t, why)
    PROVE  /\ pidfile' = None /\ disk' \in BOOLEAN
           /\ target' \in [Tasks -> Vms \cup {None}]
           /\ earlier' \in [Tasks -> SUBSET Tasks]
           /\ createLock' \in [Procs -> Tasks \cup {None}]
           /\ pc' = [pc EXCEPT ![t] = CASE why = "clear" -> "boot"
                                        [] why = "remove" -> "rmtree"
                                        [] OTHER -> "idle"]
           /\ pc'[t] \in {"boot", "rmtree", "idle"}
  BY SmolAssumption
  DEF SmolAssumption, TypeOK, AfterStop, Goto, ReleaseCreate, Reasons

LEMMA StopTypes ==
    ASSUME TypeOK, NEW t \in Tasks, NEW why \in Reasons, Stop(t, why)
    PROVE  /\ termed' \subseteq Vms /\ pidfile' \in Vms \cup {None}
           /\ disk' \in BOOLEAN
           /\ target' \in [Tasks -> Vms \cup {None}]
           /\ earlier' \in [Tasks -> SUBSET Tasks]
           /\ createLock' \in [Procs -> Tasks \cup {None}]
           /\ \E s \in {"boot", "rmtree", "idle", why} : pc' = [pc EXCEPT ![t] = s]
  <1>1. CASE RunningPid = None
    <2>1. AfterStop(t, why) /\ UNCHANGED termed  BY <1>1 DEF Stop
    <2> QED  BY <2>1, AfterStopTypes DEF TypeOK, Reasons
  <1>2. CASE RunningPid # None
    <2>1. RunningPid \in Vms  BY <1>2 DEF RunningPid, TypeOK
    <2> QED  BY <1>2, <2>1 DEF Stop, TypeOK, Goto
  <1> QED  BY <1>1, <1>2

LEMMA StepTypes == TypeOK /\ [Next]_vars => TypeOK'
  <1> SUFFICES ASSUME TypeOK, [Next]_vars PROVE TypeOK'  OBVIOUS
  <1> USE SmolAssumption DEF SmolAssumption, TypeOK, machine, locks, external, stopVars
  <1>1. ASSUME NEW t \in Tasks, Call(t)
        PROVE  TypeOK'
    <2>1. CASE CallCreate(t)  BY <2>1 DEF CallCreate, Goto
    <2>2. CASE CallFind(t)  BY <2>2 DEF CallFind, Goto
    <2>3. CASE CallExec(t)  BY <2>3 DEF CallExec, Goto
    <2>4. CASE CallDelete(t)
      <3>1. Stop(t, "remove") /\ "remove" \in Reasons  BY <2>4 DEF CallDelete, Reasons
      <3>2. channel' \in [Procs -> Tasks \cup {None}]  BY <2>4 DEF CallDelete
      <3>3. UNCHANGED <<vm, env, conn, holds, busy, hangs, deaths, crashes>>
        BY <2>4 DEF CallDelete
      <3>4. PICK s \in {"boot", "rmtree", "idle", "remove"} : pc' = [pc EXCEPT ![t] = s]
        BY <3>1, StopTypes
      <3>5. /\ termed' \subseteq Vms /\ pidfile' \in Vms \cup {None}
            /\ disk' \in BOOLEAN
            /\ target' \in [Tasks -> Vms \cup {None}]
            /\ earlier' \in [Tasks -> SUBSET Tasks]
            /\ createLock' \in [Procs -> Tasks \cup {None}]
        BY <3>1, StopTypes
      <3>6. pc' \in [Tasks -> {"idle", "lock", "probe", "boot", "wait", "env", "find",
                               "exec", "queued", "run", "rmtree"} \cup Reasons]
        BY <3>4 DEF Reasons
      <3> QED  BY <3>2, <3>3, <3>5, <3>6
    <2> QED  BY <1>1, <2>1, <2>2, <2>3, <2>4 DEF Call
  <1>2. ASSUME NEW t \in Tasks, Turn(t)
        PROVE  TypeOK'
    <2>1. CASE CreateEnters(t)
      <3>1. createLock' \in [Procs -> Tasks \cup {None}]
            /\ pidfile' \in Vms \cup {None} /\ disk' \in BOOLEAN
        BY <2>1 DEF CreateEnters
      <3>2. \E s \in {"probe", "boot"} : pc' = [pc EXCEPT ![t] = s]
        BY <2>1 DEF CreateEnters, Goto
      <3>3. UNCHANGED <<vm, termed, env, channel, target, earlier, conn, holds, busy,
                        hangs, deaths, crashes>>
        BY <2>1 DEF CreateEnters
      <3> QED  BY <3>1, <3>2, <3>3
    <2>2. CASE ProbeAnswered(t)  BY <2>2 DEF ProbeAnswered, Goto, ReleaseCreate
    <2>3. CASE ProbeFails(t)
      <3>1. Stop(t, "clear") /\ "clear" \in Reasons  BY <2>3 DEF ProbeFails, Reasons
      <3> QED  BY <2>3, <3>1, StopTypes DEF ProbeFails, Reasons
    <2>4. CASE Ready(t)  BY <2>4 DEF Ready, Goto
    <2>5. CASE SetEnv(t)  BY <2>5 DEF SetEnv, Goto, ReleaseCreate, Answers
    <2>6. CASE SetEnvFails(t)
      <3>1. Stop(t, "abort") /\ "abort" \in Reasons  BY <2>6 DEF SetEnvFails, Reasons
      <3> QED  BY <2>6, <3>1, StopTypes DEF SetEnvFails, Reasons
    <2>7. CASE FindReturns(t)  BY <2>7 DEF FindReturns, Goto
    <2>8. CASE Connect(t)  BY <2>8 DEF Connect, Goto, RunningPid
    <2> QED
      BY <1>2, <2>1, <2>2, <2>3, <2>4, <2>5, <2>6, <2>7, <2>8 DEF Turn
  <1>3. ASSUME NEW t \in Tasks, Progress(t)
        PROVE  TypeOK'
    <2>1. CASE StopPoll(t)
      <3>1. pc[t] \in Reasons /\ AfterStop(t, pc[t])  BY <2>1 DEF StopPoll
      <3> QED  BY <2>1, <3>1, AfterStopTypes DEF StopPoll
    <2>2. CASE StopKill(t)
      <3>1. pc[t] \in Reasons /\ AfterStop(t, pc[t])  BY <2>2 DEF StopKill
      <3>2. /\ vm' \in [Vms -> {"off", "starting", "booting", "serving", "hung"}]
            /\ holds' \subseteq Vms
            /\ UNCHANGED <<termed, env, busy, channel, conn, hangs, deaths, crashes>>
        BY <2>2 DEF StopKill
      <3> QED  BY <3>1, <3>2, AfterStopTypes
    <2>3. CASE Spawn(t)
      <3>1. PICK v \in Vms : /\ vm' = [vm EXCEPT ![v] = "starting"]
                             /\ termed' = termed \ {v} /\ env' = env \ {v}
                             /\ busy' = [busy EXCEPT ![v] = None]
        BY <2>3 DEF Spawn
      <3>2. /\ vm' \in [Vms -> {"off", "starting", "booting", "serving", "hung"}]
            /\ busy' \in [Vms -> Tasks \cup {None, Gone}]
        BY <3>1
      <3>3. /\ pc' = [pc EXCEPT ![t] = "wait"]
            /\ UNCHANGED <<pidfile, disk, createLock, channel, target, earlier, conn,
                           holds, hangs, deaths, crashes>>
        BY <2>3 DEF Spawn, Goto
      <3> QED  BY <3>1, <3>2, <3>3
    <2>4. CASE SpawnRaises(t)  BY <2>4 DEF SpawnRaises, Goto, ReleaseCreate
    <2>5. CASE NotReady(t)
      <3>1. Stop(t, "abort") /\ "abort" \in Reasons  BY <2>5 DEF NotReady, Reasons
      <3> QED  BY <2>5, <3>1, StopTypes DEF NotReady, Reasons
    <2>6. CASE RunBegins(t)  BY <2>6 DEF RunBegins, Goto
    <2>7. CASE RunAnswered(t)  BY <2>7 DEF RunAnswered, Goto, Disconnect
    <2>8. CASE RunLost(t)  BY <2>8 DEF RunLost, Goto, Disconnect
    <2>9. CASE RunTimesOut(t)
      <3>1. Stop(t, "stuck") /\ "stuck" \in Reasons  BY <2>9 DEF RunTimesOut, Reasons
      <3>2. /\ conn' \in [Tasks -> Vms \cup {None}]
            /\ channel' \in [Procs -> Tasks \cup {None}]
            /\ busy' \in [Vms -> Tasks \cup {None, Gone}]
        BY <2>9 DEF RunTimesOut, Disconnect
      <3> QED  BY <2>9, <3>1, <3>2, StopTypes DEF RunTimesOut, Reasons
    <2>10. CASE Rmtree(t)  BY <2>10 DEF Rmtree, Goto
    <2> QED
      BY <1>3, <2>1, <2>2, <2>3, <2>4, <2>5, <2>6, <2>7, <2>8, <2>9, <2>10 DEF Progress
  <1>4. ASSUME NEW v \in Vms, Machine(v) \/ Hang(v) \/ Die(v)
        PROVE  TypeOK'
    <2>1. CASE QemuUp(v)  BY <2>1 DEF QemuUp
    <2>2. CASE GuestUp(v)  BY <2>2 DEF GuestUp
    <2>3. CASE TermExit(v)  BY <2>3 DEF TermExit
    <2>4. CASE GoneEnds(v)  BY <2>4 DEF GoneEnds
    <2>5. CASE Hang(v)  BY <2>5 DEF Hang
    <2>6. CASE Die(v)  BY <2>6 DEF Die
    <2> QED  BY <1>4, <2>1, <2>2, <2>3, <2>4, <2>5, <2>6 DEF Machine
  <1>5. ASSUME NEW p \in Procs, Crash(p)
        PROVE  TypeOK'
    BY <1>5 DEF Crash
  <1>6. CASE UNCHANGED vars  BY <1>6 DEF vars
  <1> QED  BY <1>1, <1>2, <1>3, <1>4, <1>5, <1>6 DEF Next

(* The variables keep their types, whatever calls overlap, in however many *)
(* processes, and whatever hangs, dies or starts again.                    *)
THEOREM BackendTypes == Spec => []TypeOK
  BY InitTypes, StepTypes, PTL DEF Spec

-----------------------------------------------------------------------------
(* Calls made one after the other, whatever hangs and dies *)

\* The state the proof is about: one task, no process has died.
Lone == OneAtATime /\ TypeOK /\ OneVm /\ EnvStored

LEMMA InitLone == Init => LoneInv
  <1> SUFFICES ASSUME Init PROVE LoneInv  OBVIOUS
  <1>1. TypeOK  BY InitTypes
  <1>2. OneVm /\ EnvStored
    BY SmolAssumption DEF SmolAssumption, Init, OneVm, EnvStored, NoOrphan, Up, Reasons
  <1> QED  BY <1>1, <1>2 DEF LoneInv

\* A VM that is up is the pidfile's, so without one there is none.
LEMMA NoneRunning ==
    ASSUME Lone, RunningPid = None, NEW t \in Tasks,
           pc[t] # "wait" \/ \A v \in Vms : vm[v] # "starting"
    PROVE  \A v \in Vms : vm[v] = "off"
  <1>1. \A v \in Vms : vm[v] # "starting"  BY DEF Lone, OneAtATime, OneVm
  <1>2. \A v \in Vms : ~ Up(v)
    BY SmolAssumption DEF SmolAssumption, RunningPid, Lone, OneVm, NoOrphan
  <1> QED  BY <1>1, <1>2 DEF Up, Lone, TypeOK

\* Once there is no VM, what the task does next is all that matters.
LEMMA AllOff ==
    ASSUME OneAtATime, \A v \in Vms : vm'[v] = "off",
           pidfile' \in Vms \cup {None},
           \A t \in Tasks : pc'[t] \in {"queued", "run"} => conn'[t] \in env'
    PROVE  OneVm' /\ EnvStored'
  BY DEF OneVm, EnvStored, NoOrphan, RunningPid, Up

\* stop() is called where no VM is being started, and by whoever boots a VM
\* or in a VM that has the environment.
LEMMA StopLone ==
    ASSUME Lone, NEW t \in Tasks, NEW why \in Reasons, Stop(t, why), vm' = vm, env' = env,
           \A v \in Vms : vm[v] # "starting",
           why = "abort" \/ pc[t] \notin {"wait", "env", "abort"}
    PROVE  OneVm' /\ EnvStored'
  <1>1. CASE RunningPid = None
    <2>1. \A v \in Vms : vm'[v] = "off"  BY <1>1, NoneRunning
    <2>2. AfterStop(t, why) /\ TypeOK  BY <1>1 DEF Stop, Lone
    <2>3. pidfile' = None /\ pc'[t] \in {"boot", "rmtree", "idle"}
      BY <2>2, AfterStopTypes
    <2> QED  BY <2>1, <2>3, AllOff DEF Lone, OneAtATime
  <1>2. CASE RunningPid # None
    <2>1. /\ pidfile' = pidfile /\ target'[t] = RunningPid /\ pc'[t] = why
      BY <1>2 DEF Stop, Goto, Lone, TypeOK
    <2>2. RunningPid' = RunningPid /\ \A v \in Vms : Up(v)' <=> Up(v)
      BY <2>1 DEF RunningPid, Up
    <2>3. OneVm'
      BY <2>1, <2>2 DEF Lone, OneAtATime, OneVm, NoOrphan, Reasons
    <2>4. \A u \in Tasks : pc'[u] \notin {"queued", "run"}
      BY <2>1 DEF Lone, OneAtATime, Reasons
    <2>5. ASSUME NEW v \in Vms, Up(v)
          PROVE  v \in env \/ pc'[t] = "abort"
      BY <2>1, <2>5 DEF Lone, OneAtATime, EnvStored
    <2> QED  BY <2>2, <2>3, <2>4, <2>5 DEF EnvStored
  <1> QED  BY <1>1, <1>2

\* A step of the task that leaves the VMs alone.
LEMMA MoveLone ==
    ASSUME Lone, NEW t \in Tasks, NEW s, pc' = [pc EXCEPT ![t] = s],
           vm' = vm, pidfile' = pidfile, env' = env, target' = target,
           \A v \in Vms : vm[v] # "starting",
           s \notin Reasons, s # "boot",
           s \in {"wait", "env", "abort"} \/ \A v \in Vms : Up(v) => v \in env,
           s \in {"queued", "run"} => conn'[t] \in env
    PROVE  OneVm' /\ EnvStored'
  <1>1. pc'[t] = s  BY DEF Lone, TypeOK
  <1>2. RunningPid' = RunningPid /\ \A v \in Vms : Up(v)' <=> Up(v)
    BY DEF RunningPid, Up
  <1>3. OneVm'  BY <1>1, <1>2 DEF Lone, OneAtATime, OneVm, NoOrphan
  <1>4. EnvStored'  BY <1>1, <1>2 DEF Lone, OneAtATime, EnvStored
  <1> QED  BY <1>3, <1>4

LEMMA StepLone ==
    ASSUME OneAtATime, LoneInv, [Next]_vars
    PROVE  LoneInv'
  <1> SUFFICES ASSUME crashes' = 0 PROVE OneVm' /\ EnvStored'
    BY StepTypes DEF LoneInv
  <1> USE DEF machine, locks, external, stopVars
  <1>1. CASE \E p \in Procs : Crash(p)
    BY <1>1, SmolAssumption DEF Crash, LoneInv, TypeOK, SmolAssumption
  <1>2. CASE ~ \E p \in Procs : Crash(p)
    <2>1. crashes = 0
      BY <1>2 DEF Next, vars, Call, CallCreate, CallFind, CallExec, CallDelete, Turn,
                  CreateEnters, ProbeAnswered, ProbeFails, Ready, SetEnv, SetEnvFails,
                  FindReturns, Connect, Progress, StopPoll, StopKill, Spawn,
                  SpawnRaises, NotReady, RunBegins, RunAnswered, RunLost,
                  RunTimesOut, Rmtree, Machine, QemuUp, GuestUp, TermExit, GoneEnds,
                  Hang, Die
    <2>2. Lone  BY <2>1 DEF LoneInv, Lone
    <2>3. ASSUME NEW t \in Tasks, pc[t] # "wait"
          PROVE  \A v \in Vms : vm[v] # "starting"
      BY <2>2, <2>3 DEF Lone, OneAtATime, OneVm
    <2>4. ASSUME NEW t \in Tasks, pc[t] \notin {"wait", "env", "abort"}
          PROVE  \A v \in Vms : Up(v) => v \in env
      BY <2>2, <2>4 DEF Lone, OneAtATime, EnvStored
    <2>5. ASSUME NEW t \in Tasks, Call(t)
          PROVE  OneVm' /\ EnvStored'
      <3>1. pc[t] = "idle"  BY <2>5 DEF Call, CallCreate, CallFind, CallExec, CallDelete
      <3>2. \A v \in Vms : vm[v] # "starting" /\ (Up(v) => v \in env)
        BY <3>1, <2>3, <2>4
      <3>3. CASE CallDelete(t)
        <4>1. Stop(t, "remove") /\ "remove" \in Reasons /\ vm' = vm /\ env' = env
          BY <3>3 DEF CallDelete, Reasons
        <4> QED  BY <2>2, <3>1, <3>2, <4>1, StopLone
      <3>4. CASE CallCreate(t) \/ CallFind(t) \/ CallExec(t)
        <4>1. PICK s \in {"lock", "find", "exec"} : Goto(t, s)
          BY <3>4 DEF CallCreate, CallFind, CallExec
        <4>2. UNCHANGED <<vm, pidfile, env, target>>
          BY <3>4 DEF CallCreate, CallFind, CallExec
        <4> QED  BY <2>2, <3>2, <4>1, <4>2, MoveLone DEF Goto, Reasons
      <3> QED  BY <2>5, <3>3, <3>4 DEF Call
    <2>6. ASSUME NEW t \in Tasks, Turn(t)
          PROVE  OneVm' /\ EnvStored'
      <3>1. CASE CreateEnters(t)
        <4>1. pc[t] = "lock"  BY <3>1 DEF CreateEnters
        <4>2. CASE RunningPid # None
          <5>1. Goto(t, "probe") /\ UNCHANGED <<vm, pidfile, env, target>>
            BY <3>1, <4>2 DEF CreateEnters
          <5> QED  BY <2>2, <2>3, <2>4, <4>1, <5>1, MoveLone DEF Goto, Reasons
        <4>3. CASE RunningPid = None
          <5>1. Goto(t, "boot") /\ pidfile' = None /\ vm' = vm
            BY <3>1, <4>3 DEF CreateEnters
          <5>2. \A v \in Vms : vm'[v] = "off"  BY <2>2, <4>1, <4>3, <5>1, NoneRunning
          <5>3. \A u \in Tasks : pc'[u] = "boot"
            BY <2>2, <5>1 DEF Lone, OneAtATime, TypeOK, Goto
          <5> QED  BY <2>2, <5>1, <5>2, <5>3, AllOff
        <4> QED  BY <4>2, <4>3
      <3>2. CASE ProbeAnswered(t) \/ FindReturns(t)
        <4>1. /\ pc[t] \in {"probe", "find"} /\ Goto(t, "idle")
              /\ UNCHANGED <<vm, pidfile, env, target>>
          BY <3>2 DEF ProbeAnswered, FindReturns
        <4> QED  BY <2>2, <2>3, <2>4, <4>1, MoveLone DEF Goto, Reasons
      <3>3. CASE ProbeFails(t)
        <4>1. /\ pc[t] = "probe" /\ Stop(t, "clear") /\ "clear" \in Reasons
              /\ vm' = vm /\ env' = env
          BY <3>3 DEF ProbeFails, Reasons
        <4> QED  BY <2>2, <2>3, <4>1, StopLone
      <3>4. CASE Ready(t)
        <4>1. /\ Answers(pidfile) /\ Goto(t, "env")
              /\ UNCHANGED <<vm, pidfile, env, target>>
          BY <3>4 DEF Ready
        <4>2. \A v \in Vms : vm[v] # "starting"
          BY <2>2, <4>1 DEF Lone, OneVm, Answers, TypeOK
        <4> QED  BY <2>2, <4>1, <4>2, MoveLone DEF Goto, Reasons
      <3>5. CASE SetEnv(t)
        <4>1. /\ pc[t] = "env" /\ Goto(t, "idle") /\ env' = env \cup {pidfile}
              /\ UNCHANGED <<vm, pidfile, target>>
          BY <3>5 DEF SetEnv
        <4>2. RunningPid' = RunningPid /\ \A v \in Vms : Up(v)' <=> Up(v)
          BY <4>1 DEF RunningPid, Up
        <4>3. \A v \in Vms : vm[v] # "starting"  BY <2>3, <4>1
        <4>4. \A u \in Tasks : pc'[u] = "idle"
          BY <2>2, <4>1 DEF Goto, Lone, OneAtATime, TypeOK
        <4>5. OneVm'
          BY <2>2, <4>1, <4>2, <4>3, <4>4 DEF Lone, OneVm, NoOrphan, Reasons
        <4>6. EnvStored'
          BY <2>2, <4>1, <4>2, <4>4 DEF Lone, OneVm, NoOrphan, EnvStored
        <4> QED  BY <4>5, <4>6
      <3>6. CASE SetEnvFails(t)
        <4>1. /\ pc[t] = "env" /\ Stop(t, "abort") /\ "abort" \in Reasons
              /\ vm' = vm /\ env' = env
          BY <3>6 DEF SetEnvFails, Reasons
        <4> QED  BY <2>2, <2>3, <4>1, StopLone
      <3>7. CASE Connect(t)
        <4>1. pc[t] = "exec" /\ UNCHANGED <<vm, pidfile, env, target>>
          BY <3>7 DEF Connect
        <4>2. CASE RunningPid # None
          <5>1. Goto(t, "queued") /\ conn' = [conn EXCEPT ![t] = RunningPid]
            BY <3>7, <4>2 DEF Connect
          <5>2. RunningPid \in env
            BY <2>2, <2>4, <4>1, <4>2 DEF RunningPid, Lone, TypeOK
          <5> QED
            BY <2>2, <2>3, <2>4, <4>1, <5>1, <5>2, MoveLone DEF Goto, Reasons, Lone, TypeOK
        <4>3. CASE RunningPid = None
          <5>1. Goto(t, "idle")  BY <3>7, <4>3 DEF Connect
          <5> QED  BY <2>2, <2>3, <2>4, <4>1, <5>1, MoveLone DEF Goto, Reasons
        <4> QED  BY <4>2, <4>3
      <3> QED  BY <2>6, <3>1, <3>2, <3>3, <3>4, <3>5, <3>6, <3>7 DEF Turn
    <2>7. ASSUME NEW t \in Tasks, Progress(t)
          PROVE  OneVm' /\ EnvStored'
      <3>1. CASE StopPoll(t) \/ StopKill(t)
        <4>1. pc[t] \in Reasons /\ AfterStop(t, pc[t])  BY <3>1 DEF StopPoll, StopKill
        <4>2. pidfile' = None /\ pc'[t] \in {"boot", "rmtree", "idle"}
          BY <2>2, <4>1, AfterStopTypes DEF Lone
        <4>3. \A v \in Vms : vm'[v] = "off"
          <5>1. CASE StopPoll(t)
            BY <2>2, <4>1, <5>1, NoneRunning DEF StopPoll, Reasons
          <5>2. CASE StopKill(t)
            <6>1. RunningPid # None /\ vm' = [vm EXCEPT ![target[t]] = "off"]
              BY <5>2 DEF StopKill
            <6>2. target[t] = RunningPid  BY <2>2, <4>1, <6>1 DEF Lone, OneVm
            <6>3. RunningPid \in Vms /\ vm[RunningPid] # "off"
              BY <2>2, <6>1 DEF RunningPid, Lone, TypeOK, Up
            <6> QED  BY <2>2, <6>1, <6>2, <6>3 DEF Lone, OneVm, TypeOK
          <5> QED  BY <3>1, <5>1, <5>2
        <4> QED  BY <2>2, <4>2, <4>3, AllOff DEF Lone, OneAtATime
      <3>2. CASE Spawn(t)
        <4>1. PICK v \in Vms : vm' = [vm EXCEPT ![v] = "starting"]  BY <3>2 DEF Spawn
        <4>2. \A w \in Vms : vm[w] = "off"  BY <2>2, <3>2 DEF Spawn, Lone, OneVm
        <4>3. vm'[v] = "starting" /\ \A w \in Vms : w # v => vm'[w] = "off"
          BY <2>2, <4>1, <4>2 DEF Lone, TypeOK
        <4>4. \A u \in Tasks : pc'[u] = "wait"
          BY <2>2, <3>2 DEF Spawn, Goto, Lone, OneAtATime, TypeOK
        <4> QED  BY <4>3, <4>4, <3>2 DEF OneVm, NoOrphan, EnvStored, Up, Reasons
      <3>3. CASE SpawnRaises(t) \/ Rmtree(t)
        <4>1. /\ pc[t] \in {"boot", "rmtree"} /\ Goto(t, "idle")
              /\ UNCHANGED <<vm, pidfile, env, target>>
          BY <3>3 DEF SpawnRaises, Rmtree
        <4> QED  BY <2>2, <2>3, <2>4, <4>1, MoveLone DEF Goto, Reasons
      <3>4. CASE NotReady(t)
        <4>1. /\ Stop(t, "abort") /\ "abort" \in Reasons /\ vm' = vm /\ env' = env
          BY <3>4 DEF NotReady, Reasons
        <4>2. \A v \in Vms : vm[v] # "starting"
          <5>1. CASE RunningPid = None  BY <3>4, <5>1 DEF NotReady
          <5>2. CASE RunningPid # None
            <6>1. RunningPid \in Vms /\ Up(RunningPid)
              BY <2>2, <5>2 DEF RunningPid, Lone, TypeOK
            <6> QED  BY <2>2, <6>1 DEF Up, Lone, OneVm
          <5> QED  BY <5>1, <5>2
        <4> QED  BY <2>2, <4>1, <4>2, StopLone
      <3>5. CASE RunBegins(t)
        <4>1. /\ pc[t] = "queued" /\ Goto(t, "run")
              /\ UNCHANGED <<vm, pidfile, env, target, conn>>
          BY <3>5 DEF RunBegins
        <4>2. conn[t] \in env  BY <2>2, <4>1 DEF Lone, EnvStored
        <4> QED  BY <2>2, <2>3, <2>4, <4>1, <4>2, MoveLone DEF Goto, Reasons
      <3>6. CASE RunAnswered(t) \/ RunLost(t)
        <4>1. /\ pc[t] \in {"queued", "run"} /\ Goto(t, "idle")
              /\ UNCHANGED <<vm, pidfile, env, target>>
          BY <3>6 DEF RunAnswered, RunLost
        <4> QED  BY <2>2, <2>3, <2>4, <4>1, MoveLone DEF Goto, Reasons
      <3>7. CASE RunTimesOut(t)
        <4>1. /\ pc[t] \in {"queued", "run"} /\ Stop(t, "stuck")
              /\ "stuck" \in Reasons /\ vm' = vm /\ env' = env
          BY <3>7 DEF RunTimesOut, Reasons
        <4> QED  BY <2>2, <2>3, <4>1, StopLone
      <3> QED  BY <2>7, <3>1, <3>2, <3>3, <3>4, <3>5, <3>6, <3>7 DEF Progress
    <2>8. ASSUME NEW v \in Vms, Machine(v) \/ Hang(v) \/ Die(v)
          PROVE  OneVm' /\ EnvStored'
      <3>1. CASE QemuUp(v)
        <4>1. vm[v] = "starting" /\ UNCHANGED <<pc, env, conn>>  BY <3>1 DEF QemuUp
        <4>2. /\ vm'[v] \in {"booting", "off"}
              /\ vm'[v] = "booting" => pidfile' = v
              /\ \A w \in Vms : w # v => vm'[w] = vm[w]
          BY <2>2, <3>1 DEF QemuUp, Lone, TypeOK
        <4>3. \A w \in Vms : w # v => vm'[w] = "off"
          BY <2>2, <4>1, <4>2 DEF Lone, OneVm, TypeOK
        <4>4. \A t \in Tasks : pc[t] = "wait"
          BY <2>2, <4>1 DEF Lone, OneVm, OneAtATime
        <4>5. OneVm'
          BY <4>1, <4>2, <4>3, <4>4 DEF OneVm, NoOrphan, Up, Reasons
        <4>6. \E t \in Tasks : pc[t] = "wait"  BY <2>2, <4>1 DEF Lone, OneVm
        <4>7. EnvStored'  BY <4>1, <4>2, <4>4, <4>6 DEF EnvStored
        <4> QED  BY <4>5, <4>7
      <3>2. CASE GuestUp(v) \/ Hang(v)
        <4>1. /\ Up(v) /\ \E s \in {"serving", "hung"} : vm' = [vm EXCEPT ![v] = s]
              /\ UNCHANGED <<pidfile, env, pc, target, conn>>
          BY <3>2 DEF GuestUp, Hang, Up
        <4>2. /\ Up(v)' /\ vm'[v] # "starting"
              /\ \A w \in Vms : w # v => vm'[w] = vm[w]
          BY <2>2, <4>1 DEF Lone, TypeOK, Up
        <4>3. /\ \A w \in Vms : Up(w)' <=> Up(w)
              /\ \A w \in Vms : vm'[w] = "off" <=> vm[w] = "off"
          BY <4>1, <4>2 DEF Up
        <4>4. RunningPid' = RunningPid
          BY <2>2, <4>1, <4>3 DEF RunningPid, Lone, TypeOK
        <4>5. OneVm'
          BY <2>2, <4>1, <4>2, <4>3, <4>4 DEF Lone, OneVm, NoOrphan
        <4>6. EnvStored'  BY <2>2, <4>1, <4>3 DEF Lone, EnvStored
        <4> QED  BY <4>5, <4>6
      <3>3. CASE TermExit(v) \/ Die(v)
        <4>1. /\ vm[v] # "off" /\ vm' = [vm EXCEPT ![v] = "off"]
              /\ pidfile' \in {None, pidfile} /\ UNCHANGED <<env, pc, conn>>
          BY <3>3 DEF TermExit, Die, Up
        <4>2. \A w \in Vms : vm'[w] = "off"
          BY <2>2, <4>1 DEF Lone, OneVm, TypeOK
        <4>3. pidfile' \in Vms \cup {None}  BY <2>2, <4>1 DEF Lone, TypeOK
        <4> QED  BY <2>2, <4>1, <4>2, <4>3, AllOff DEF Lone, EnvStored
      <3>4. CASE GoneEnds(v)
        <4>1. UNCHANGED <<vm, pidfile, env, pc, target, conn>>  BY <3>4 DEF GoneEnds
        <4> QED  BY <2>2, <4>1 DEF Lone, OneVm, EnvStored, NoOrphan, RunningPid, Up
      <3> QED  BY <2>8, <3>1, <3>2, <3>3, <3>4 DEF Machine
    <2>9. CASE UNCHANGED vars
      BY <2>2, <2>9 DEF vars, Lone, OneVm, EnvStored, NoOrphan, RunningPid, Up
    <2> QED  BY <1>2, <2>5, <2>6, <2>7, <2>8, <2>9 DEF Next
  <1> QED  BY <1>1, <1>2

(* Calls made one after the other keep the inductive invariant, with as    *)
(* many VMs, hangs and deaths as there may be.                             *)
THEOREM LoneInvariant ==
    ASSUME OneAtATime
    PROVE  Spec => []LoneInv
  BY InitLone, StepLone, PTL DEF Spec

(* Calls made one after the other leave no VM behind that nobody can find: *)
(* stop() has waited for the one it signalled, or killed it, before it     *)
(* unlinks its files (_smolbsd_vm.py:221-256).                             *)
THEOREM NothingIsOrphaned ==
    ASSUME OneAtATime
    PROVE  Spec => []NoOrphanUncrashed
  <1>1. LoneInv => NoOrphanUncrashed  BY DEF LoneInv, OneVm, NoOrphanUncrashed
  <1> QED  BY <1>1, LoneInvariant, PTL

(* And their commands run in guests that have the session's environment:   *)
(* a VM whose environment was not stored is stopped before the call that   *)
(* booted it returns (smolbsd_backend.py:150-216).                         *)
THEOREM EnvironmentReaches ==
    ASSUME OneAtATime
    PROVE  Spec => []EnvReachesUncrashed
  <1>1. LoneInv => EnvReachesUncrashed
    BY DEF LoneInv, EnvStored, EnvReachesUncrashed, EnvReaches
  <1> QED  BY <1>1, LoneInvariant, PTL

-----------------------------------------------------------------------------
(* Calls of one process that overlap, none of which deletes *)

LEMMA InitTurns == Init => TurnsInv
  <1> SUFFICES ASSUME Init PROVE TurnsInv  OBVIOUS
  <1>1. TypeOK  BY InitTypes
  <1>2. TakeTurns  BY SmolAssumption DEF SmolAssumption, Init, TakeTurns
  <1> QED  BY <1>1, <1>2 DEF TurnsInv

\* Who may talk to a VM that serves finds its runner free.
LEMMA FreeToAnswer ==
    ASSUME OneProcess, TypeOK, TakeTurns,
           NEW t \in Tasks, ChannelFree(t), NEW v \in Vms, vm[v] = "serving"
    PROVE  Answers(v)
  <1>1. SUFFICES ASSUME busy[v] \in Tasks PROVE FALSE
    BY SmolAssumption DEF SmolAssumption, Answers, TakeTurns, TypeOK
  <1>2. channel[ProcOf[busy[v]]] = busy[v]  BY <1>1 DEF TakeTurns
  <1>3. channel[ProcOf[busy[v]]] = None  BY <1>1 DEF OneProcess, ChannelFree
  <1> QED  BY <1>1, <1>2, <1>3, SmolAssumption DEF SmolAssumption

\* And nobody waits for the runner in vain.
LEMMA NobodyTimesOut ==
    ASSUME OneProcess, TypeOK, TakeTurns, NEW t \in Tasks
    PROVE  ~ RunTimesOut(t)
  <1> SUFFICES ASSUME RunTimesOut(t) PROVE FALSE  OBVIOUS
  <1> DEFINE v == conn[t]
  <1>1. /\ pc[t] \in {"queued", "run"} /\ v \in Vms
        /\ vm[v] = "hung" \/ (vm[v] = "serving" /\ busy[v] \notin {t, None})
    BY DEF RunTimesOut, TakeTurns
  <1>2. busy[v] \in Tasks /\ busy[v] # t /\ vm[v] = "serving"
    BY <1>1 DEF TakeTurns, TypeOK
  <1>3. channel[ProcOf[busy[v]]] = busy[v]  BY <1>1, <1>2 DEF TakeTurns
  <1>4. channel[ProcOf[t]] = t  BY <1>1 DEF TakeTurns
  <1> QED  BY <1>2, <1>3, <1>4 DEF OneProcess

\* A step of a call that is not connected, or no longer.
LEMMA MoveTurns ==
    ASSUME TypeOK, TakeTurns, NEW t \in Tasks, pc[t] \notin {"queued", "run"},
           NEW s, s \notin {"queued", "run", "remove"}, pc' = [pc EXCEPT ![t] = s],
           UNCHANGED <<vm, busy, conn, channel>>
    PROVE  TakeTurns'
  BY DEF TypeOK, TakeTurns

LEMMA StopTurns ==
    ASSUME TypeOK, TakeTurns, NEW t \in Tasks, pc[t] \notin {"queued", "run"},
           NEW why \in Reasons, why # "remove", Stop(t, why),
           UNCHANGED <<vm, busy, conn, channel>>
    PROVE  TakeTurns'
  <1>1. PICK s \in {"boot", "rmtree", "idle", why} : pc' = [pc EXCEPT ![t] = s]
    BY StopTypes
  <1> QED  BY <1>1, MoveTurns DEF Reasons

\* VMs come and go under the calls, but serve none of them anew.
LEMMA MachineTurns ==
    ASSUME TypeOK, TakeTurns, UNCHANGED <<busy, conn, channel, pc>>,
           \A v \in Vms : vm'[v] # "hung" /\ (vm[v] = "off" => vm'[v] = "off")
    PROVE  TakeTurns'
  BY DEF TakeTurns

LEMMA StepTurns ==
    ASSUME OneProcess, NoDeletion, TurnsInv, [Next]_vars
    PROVE  TurnsInv'
  <1> SUFFICES ASSUME hangs' = 0, crashes' = 0 PROVE TakeTurns'
    BY StepTypes DEF TurnsInv
  <1> USE DEF machine, locks, external, stopVars
  <1>1. TypeOK  BY DEF TurnsInv
  <1>2. CASE (\E p \in Procs : Crash(p)) \/ \E v \in Vms : Hang(v)
    BY <1>1, <1>2, SmolAssumption DEF Crash, Hang, TypeOK, SmolAssumption
  <1>3. CASE ~ ((\E p \in Procs : Crash(p)) \/ \E v \in Vms : Hang(v))
    <2>1. hangs = 0 /\ crashes = 0
      BY <1>3 DEF Next, vars, Call, CallCreate, CallFind, CallExec, CallDelete, Turn,
                  CreateEnters, ProbeAnswered, ProbeFails, Ready, SetEnv, SetEnvFails,
                  FindReturns, Connect, Progress, StopPoll, StopKill, Spawn,
                  SpawnRaises, NotReady, RunBegins, RunAnswered, RunLost,
                  RunTimesOut, Rmtree, Machine, QemuUp, GuestUp, TermExit, GoneEnds,
                  Die
    <2>2. TakeTurns  BY <2>1 DEF TurnsInv
    <2>3. ASSUME NEW t \in Tasks, Call(t)
          PROVE  TakeTurns'
      <3>1. ~ CallDelete(t)  BY DEF CallDelete, NoDeletion
      <3>2. PICK s \in {"lock", "find", "exec"} : Goto(t, s)
        BY <2>3, <3>1 DEF Call, CallCreate, CallFind, CallExec
      <3>3. pc[t] = "idle" /\ UNCHANGED <<vm, busy, conn, channel>>
        BY <2>3, <3>1 DEF Call, CallCreate, CallFind, CallExec
      <3> QED  BY <1>1, <2>2, <3>2, <3>3, MoveTurns DEF Goto
    <2>4. ASSUME NEW t \in Tasks, Turn(t)
          PROVE  TakeTurns'
      <3>1. CASE \/ CreateEnters(t) \/ ProbeAnswered(t) \/ Ready(t) \/ SetEnv(t)
                 \/ FindReturns(t)
        <4>1. PICK s \in {"probe", "boot", "idle", "env"} : Goto(t, s)
          BY <3>1 DEF CreateEnters, ProbeAnswered, Ready, SetEnv, FindReturns
        <4>2. /\ pc[t] \in {"lock", "probe", "wait", "env", "find"}
              /\ UNCHANGED <<vm, busy, conn, channel>>
          BY <3>1 DEF CreateEnters, ProbeAnswered, Ready, SetEnv, FindReturns
        <4> QED  BY <1>1, <2>2, <4>1, <4>2, MoveTurns DEF Goto
      <3>2. CASE ProbeFails(t) \/ SetEnvFails(t)
        <4>1. PICK why \in {"clear", "abort"} : Stop(t, why)
          BY <3>2 DEF ProbeFails, SetEnvFails
        <4>2. pc[t] \in {"probe", "env"} /\ UNCHANGED <<vm, busy, conn, channel>>
          BY <3>2 DEF ProbeFails, SetEnvFails
        <4> QED  BY <1>1, <2>2, <4>1, <4>2, StopTurns DEF Reasons
      <3>3. CASE Connect(t)
        <4>1. /\ pc[t] = "exec" /\ channel[ProcOf[t]] = None
              /\ UNCHANGED <<vm, busy>>
          BY <3>3 DEF Connect, ChannelFree
        <4>2. CASE RunningPid # None
          <5>1. /\ conn' = [conn EXCEPT ![t] = RunningPid]
                /\ channel' = [channel EXCEPT ![ProcOf[t]] = t]
                /\ Goto(t, "queued")
            BY <3>3, <4>2 DEF Connect
          <5>2. RunningPid \in Vms  BY <1>1, <4>2 DEF RunningPid, TypeOK
          <5>3. \A u \in Tasks : pc[u] \notin {"queued", "run"}
            BY <2>2, <4>1, SmolAssumption DEF TakeTurns, OneProcess, SmolAssumption
          <5>4. ProcOf[t] \in Procs  BY SmolAssumption DEF SmolAssumption
          <5> QED
            BY <1>1, <2>2, <4>1, <5>1, <5>2, <5>3, <5>4 DEF TypeOK, TakeTurns, Goto
        <4>3. CASE RunningPid = None
          BY <1>1, <2>2, <3>3, <4>1, <4>3, MoveTurns DEF Connect, Goto
        <4> QED  BY <4>2, <4>3
      <3> QED  BY <2>4, <3>1, <3>2, <3>3 DEF Turn
    <2>5. ASSUME NEW t \in Tasks, Progress(t)
          PROVE  TakeTurns'
      <3>1. CASE StopPoll(t) \/ StopKill(t)
        <4>1. /\ pc[t] \in Reasons /\ AfterStop(t, pc[t])
              /\ UNCHANGED <<busy, conn, channel>>
          BY <3>1 DEF StopPoll, StopKill
        <4>2. PICK s \in {"boot", "rmtree", "idle"} : pc' = [pc EXCEPT ![t] = s]
          BY <1>1, <4>1, AfterStopTypes DEF TypeOK
        <4>3. \A v \in Vms : vm'[v] \in {vm[v], "off"}
          BY <1>1, <3>1 DEF StopPoll, StopKill, TypeOK
        <4> QED  BY <1>1, <2>2, <4>1, <4>2, <4>3 DEF TypeOK, TakeTurns, Reasons
      <3>2. CASE Spawn(t)
        <4>1. PICK v \in Vms : /\ vm' = [vm EXCEPT ![v] = "starting"]
                               /\ busy' = [busy EXCEPT ![v] = None]
          BY <3>2 DEF Spawn
        <4>2. pc[t] = "boot" /\ Goto(t, "wait") /\ UNCHANGED <<conn, channel>>
          BY <3>2 DEF Spawn
        <4>3. None \notin Tasks \cup Vms /\ Gone # None
          BY SmolAssumption DEF SmolAssumption
        <4> QED  BY <1>1, <2>2, <4>1, <4>2, <4>3 DEF TypeOK, TakeTurns, Goto
      <3>3. CASE SpawnRaises(t) \/ Rmtree(t)
        BY <1>1, <2>2, <3>3, MoveTurns DEF SpawnRaises, Rmtree, Goto
      <3>4. CASE NotReady(t)
        <4>1. /\ pc[t] = "wait" /\ Stop(t, "abort")
              /\ UNCHANGED <<vm, busy, conn, channel>>
          BY <3>4 DEF NotReady
        <4> QED  BY <1>1, <2>2, <4>1, StopTurns DEF Reasons
      <3>5. CASE RunBegins(t)
        <4>1. /\ pc[t] = "queued" /\ busy' = [busy EXCEPT ![conn[t]] = t]
              /\ Goto(t, "run") /\ UNCHANGED <<vm, conn, channel>>
          BY <3>5 DEF RunBegins
        <4>2. conn[t] \in Vms /\ busy[conn[t]] = None
          BY <2>2, <3>5, <4>1 DEF TakeTurns, RunBegins, Answers
        <4>3. Gone \notin Tasks  BY SmolAssumption DEF SmolAssumption
        <4> QED  BY <1>1, <2>2, <4>1, <4>2, <4>3 DEF TypeOK, TakeTurns, Goto
      <3>6. CASE RunAnswered(t) \/ RunLost(t)
        <4>1. /\ pc[t] \in {"queued", "run"} /\ Goto(t, "idle") /\ vm' = vm
              /\ conn' = [conn EXCEPT ![t] = None]
              /\ channel' = [p \in Procs |-> IF channel[p] = t THEN None ELSE channel[p]]
          BY <3>6 DEF RunAnswered, RunLost, Disconnect
        <4>2. \A u \in Tasks : u # t => pc[u] \notin {"queued", "run"}
          BY <2>2, <4>1 DEF TakeTurns, OneProcess
        <4>3. \A v \in Vms : /\ busy'[v] \in {busy[v], None}
                             /\ vm[v] # "off" => busy'[v] # t
          BY <1>1, <2>2, <3>6, SmolAssumption
          DEF RunAnswered, RunLost, TypeOK, TakeTurns, SmolAssumption
        <4>4. None \notin Tasks /\ Gone # None
          BY SmolAssumption DEF SmolAssumption
        <4> QED
          BY <1>1, <2>2, <4>1, <4>2, <4>3, <4>4 DEF TypeOK, TakeTurns, Goto
      <3>7. CASE RunTimesOut(t)  BY <1>1, <2>2, <3>7, NobodyTimesOut
      <3> QED  BY <2>5, <3>1, <3>2, <3>3, <3>4, <3>5, <3>6, <3>7 DEF Progress
    <2>6. ASSUME NEW v \in Vms, Machine(v) \/ Die(v)
          PROVE  TakeTurns'
      <3>1. ~ GoneEnds(v)  BY <2>2 DEF TakeTurns, GoneEnds
      <3>2. CASE QemuUp(v)
        BY <1>1, <2>2, <3>2, MachineTurns DEF QemuUp, TypeOK, TakeTurns
      <3>3. CASE GuestUp(v)
        BY <1>1, <2>2, <3>3, MachineTurns DEF GuestUp, TypeOK, TakeTurns
      <3>4. CASE TermExit(v) \/ Die(v)
        BY <1>1, <2>2, <3>4, MachineTurns DEF TermExit, Die, TypeOK, TakeTurns
      <3> QED  BY <2>6, <3>1, <3>2, <3>3, <3>4 DEF Machine
    <2>7. CASE UNCHANGED vars  BY <2>2, <2>7 DEF vars, TakeTurns
    <2> QED  BY <1>3, <2>3, <2>4, <2>5, <2>6, <2>7 DEF Next
  <1> QED  BY <1>2, <1>3

\* A step that tells a VM to exit is one of those that call stop().
LEMMA WhoStops ==
    ASSUME TypeOK, [Next]_vars, NEW v \in Vms, v \in termed' \ termed
    PROVE  /\ v = RunningPid
           /\ \E t \in Tasks : \/ ProbeFails(t) \/ NotReady(t) \/ SetEnvFails(t)
                               \/ RunTimesOut(t) \/ CallDelete(t)
  <1> USE DEF machine, locks, external, stopVars
  <1>1. PICK t \in Tasks : \/ ProbeFails(t) \/ NotReady(t) \/ SetEnvFails(t)
                           \/ RunTimesOut(t) \/ CallDelete(t)
    BY DEF Next, vars, Call, CallCreate, CallFind, CallExec, Turn, CreateEnters,
           ProbeAnswered, Ready, SetEnv, FindReturns, Connect, Progress, StopPoll,
           StopKill, Spawn, SpawnRaises, RunBegins, RunAnswered, RunLost, Rmtree,
           Machine, QemuUp, GuestUp, TermExit, GoneEnds, Hang, Die, Crash
  <1>2. PICK why \in Reasons : Stop(t, why)
    BY <1>1 DEF ProbeFails, NotReady, SetEnvFails, RunTimesOut, CallDelete, Reasons
  <1>3. v = RunningPid  BY <1>2 DEF Stop
  <1> QED  BY <1>1, <1>3

LEMMA SparesTheHealthy ==
    ASSUME OneProcess, NoDeletion, TurnsInv, [Next]_vars, hangs = 0, crashes = 0
    PROVE  OnlyDeleteStops
  <1> SUFFICES ASSUME NEW v \in Vms, vm[v] = "serving", v \in termed' \ termed
               PROVE  FALSE
    BY DEF OnlyDeleteStops
  <1>1. TypeOK /\ TakeTurns  BY DEF TurnsInv
  <1>2. PICK t \in Tasks : \/ ProbeFails(t) \/ NotReady(t) \/ SetEnvFails(t)
                           \/ RunTimesOut(t) \/ CallDelete(t)
    BY <1>1, WhoStops
  <1>3. v = RunningPid /\ v = pidfile /\ v # None
    BY <1>1, WhoStops, SmolAssumption DEF RunningPid, SmolAssumption
  <1>4. ~ CallDelete(t) /\ ~ RunTimesOut(t)
    BY <1>1, NobodyTimesOut DEF CallDelete, NoDeletion
  <1>5. ChannelFree(t) /\ ~ Answers(v)
    BY <1>2, <1>3, <1>4 DEF ProbeFails, NotReady, SetEnvFails
  <1> QED  BY <1>1, <1>5, FreeToAnswer

(* However many calls of one process overlap, as long as none deletes,     *)
(* their pings and commands take turns: no VM that serves is told to exit  *)
(* while no guest has hung and no process has died                         *)
(* (_smolbsd_runner.py:75-80).                                             *)
THEOREM TurnsSpareTheVm ==
    ASSUME OneProcess, NoDeletion
    PROVE  Spec => HealthySurvivesUnhung
  <1>1. TurnsInv /\ [Next]_vars
           => [hangs = 0 /\ crashes = 0 => OnlyDeleteStops]_vars
    BY SparesTheHealthy
  <1>2. Spec => []TurnsInv  BY InitTurns, StepTurns, PTL DEF Spec
  <1> QED  BY <1>1, <1>2, PTL DEF Spec, HealthySurvivesUnhung
=============================================================================
