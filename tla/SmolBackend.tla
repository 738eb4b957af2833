---------------------------- MODULE SmolBackend ----------------------------
(***************************************************************************)
(* SmolBSDSandboxBackend (smolbsd_backend.py) and the VM lifecycle it      *)
(* drives (_smolbsd_vm.py, _smolbsd_runner.py), for one session.  Several  *)
(* processes may run a backend on the same state directory; each has its   *)
(* own create lock and channel.  A task is one call of the backend; each   *)
(* action is the code between two awaits.                                  *)
(*                                                                         *)
(* QEMU, the guest and the file system are external.  `pidfile` stands for *)
(* the files of VmPaths.leftovers(): the pidfile and the sockets, which    *)
(* QEMU creates together and stop() unlinks together.                      *)
(***************************************************************************)
EXTENDS Naturals

CONSTANTS
    Procs,      \* processes with a backend for the session
    Tasks,      \* backend calls that may be in flight
    ProcOf,     \* the process a task runs in
    Vms,        \* QEMU processes, reused once nothing refers to them
    None,       \* Python's None
    Gone,       \* the client of a command whose host side went away
    OpsOf,      \* the operations a task may call
    MaxHangs,   \* bound on guests that stop answering
    MaxDeaths,  \* bound on QEMU processes that die by themselves
    MaxCrashes  \* bound on host processes that die and start again

ASSUME SmolAssumption ==
    /\ ProcOf \in [Tasks -> Procs]
    /\ None \notin Tasks \cup Vms
    /\ Gone \notin Tasks \cup {None}
    /\ OpsOf \in [Tasks -> SUBSET {"create", "find", "exec", "delete"}]
    /\ MaxHangs \in Nat /\ MaxDeaths \in Nat /\ MaxCrashes \in Nat

VARIABLES
    vm,         \* what each QEMU process is doing
    termed,     \* QEMU processes that were sent SIGTERM
    pidfile,    \* the VM the pidfile and sockets belong to, or None
    disk,       \* whether the session's directory and workspace disk exist
    holds,      \* QEMU processes that have that disk open
    env,        \* VMs whose guest has the session environment
    busy,       \* whose command a VM's runner is executing
    createLock, \* each process's _create_locks[name]
    channel,    \* the task that holds the lock of each process's channel
    pc,         \* the await at which a task is suspended
    target,     \* the pid stop() read when it began
    earlier,    \* the tasks in stop() whose deadline is before a task's own
    conn,       \* the VM a task's EXEC is connected to
    hangs, deaths, crashes  \* how many faults there have been

machine == <<vm, termed, pidfile, disk, env>>
locks == <<createLock, channel>>
external == <<holds, busy, hangs, deaths, crashes>>
stopVars == <<target, earlier>>
vars == <<machine, locks, pc, stopVars, conn, external>>

Up(v) == vm[v] \in {"booting", "serving", "hung"}

\* stop() is called to clear the way for a boot, to abort one, because a
\* runner is stuck, or by delete_container.
Reasons == {"clear", "abort", "stuck", "remove"}

TypeOK ==
    /\ vm \in [Vms -> {"off", "starting", "booting", "serving", "hung"}]
    /\ termed \subseteq Vms
    /\ pidfile \in Vms \cup {None}
    /\ disk \in BOOLEAN
    /\ holds \subseteq Vms
    /\ env \subseteq Vms
    /\ busy \in [Vms -> Tasks \cup {None, Gone}]
    /\ createLock \in [Procs -> Tasks \cup {None}]
    /\ channel \in [Procs -> Tasks \cup {None}]
    /\ pc \in [Tasks -> {"idle", "lock", "probe", "boot", "wait", "env", "find",
                         "exec", "queued", "run", "rmtree"} \cup Reasons]
    /\ target \in [Tasks -> Vms \cup {None}]
    /\ earlier \in [Tasks -> SUBSET Tasks]
    /\ conn \in [Tasks -> Vms \cup {None}]
    /\ hangs \in 0..MaxHangs
    /\ deaths \in 0..MaxDeaths
    /\ crashes \in 0..MaxCrashes

Init ==
    /\ vm = [v \in Vms |-> "off"]
    /\ termed = {}
    /\ pidfile = None
    /\ disk = FALSE
    /\ holds = {}
    /\ env = {}
    /\ busy = [v \in Vms |-> None]
    /\ createLock = [p \in Procs |-> None]
    /\ channel = [p \in Procs |-> None]
    /\ pc = [t \in Tasks |-> "idle"]
    /\ target = [t \in Tasks |-> None]
    /\ earlier = [t \in Tasks |-> {}]
    /\ conn = [t \in Tasks |-> None]
    /\ hangs = 0 /\ deaths = 0 /\ crashes = 0

-----------------------------------------------------------------------------
(* _smolbsd_vm.py and RunnerChannel *)

\* The VM of the pidfile, if it is alive; None while QEMU is still starting.
RunningPid == IF pidfile # None /\ Up(pidfile) THEN pidfile ELSE None

Goto(t, s) == pc' = [pc EXCEPT ![t] = s]

ReleaseCreate(t) == createLock' = [createLock EXCEPT ![ProcOf[t]] = None]

ChannelFree(t) == channel[ProcOf[t]] = None

\* The runner answers a short request: it is up and executes nothing.  One
\* that executes a command makes the request wait, or time out.
Answers(v) == v # None /\ vm[v] = "serving" /\ busy[v] = None

\* What follows stop(), up to the next await: leftovers are unlinked, then
\* a boot makes the directory and disk, an aborted boot raises, a stuck
\* runner's command returns 124, a deletion goes on to rmtree.
AfterStop(t, why) ==
    /\ pidfile' = None
    /\ target' = [target EXCEPT ![t] = None]
    /\ earlier' = [u \in Tasks |-> IF u = t THEN {} ELSE earlier[u] \ {t}]
    /\ Goto(t, CASE why = "clear" -> "boot"
                 [] why = "remove" -> "rmtree"
                 [] OTHER -> "idle")
    /\ disk' = (disk \/ why = "clear")
    /\ IF why = "abort" THEN ReleaseCreate(t) ELSE UNCHANGED createLock

\* stop() up to its first await, or to its end if there is nothing to stop.
Stop(t, why) ==
    IF RunningPid = None
    THEN AfterStop(t, why) /\ UNCHANGED termed
    ELSE /\ termed' = termed \cup {RunningPid}
         /\ target' = [target EXCEPT ![t] = RunningPid]
         /\ earlier' = [earlier EXCEPT ![t] = {u \in Tasks : pc[u] \in Reasons}]
         /\ Goto(t, why)
         /\ UNCHANGED <<pidfile, disk, createLock>>

\* The poll of stop() finds no running VM.
StopPoll(t) ==
    /\ pc[t] \in Reasons
    /\ RunningPid = None
    /\ AfterStop(t, pc[t])
    /\ UNCHANGED <<vm, termed, env, channel, conn, external>>

\* Mutant: the VM is given up on, not killed.
StopSpares(t) ==
    /\ pc[t] \in Reasons
    /\ earlier[t] = {}
    /\ RunningPid # None
    /\ AfterStop(t, pc[t])
    /\ UNCHANGED <<vm, termed, env, channel, conn, external>>

\* The poll still finds one after the grace period, the same for every
\* stop(), be it the VM that was signalled or not: the one that was
\* signalled is killed.
StopKill(t) ==
    /\ pc[t] \in Reasons
    /\ earlier[t] = {}
    /\ RunningPid # None
    /\ vm' = [vm EXCEPT ![target[t]] = "off"]
    /\ holds' = holds \ {target[t]}
    /\ AfterStop(t, pc[t])
    /\ UNCHANGED <<termed, env, busy, channel, conn, hangs, deaths, crashes>>

-----------------------------------------------------------------------------
(* create_container *)

CallCreate(t) ==
    /\ pc[t] = "idle"
    /\ "create" \in OpsOf[t]
    /\ Goto(t, "lock")
    /\ UNCHANGED <<machine, locks, stopVars, conn, external>>

\* The lock is granted: a running VM is pinged, else _boot begins.
CreateEnters(t) ==
    /\ pc[t] = "lock"
    /\ createLock[ProcOf[t]] = None
    /\ createLock' = [createLock EXCEPT ![ProcOf[t]] = t]
    /\ \/ /\ RunningPid # None
          /\ Goto(t, "probe")
          /\ UNCHANGED <<pidfile, disk>>
       \/ /\ RunningPid = None
          /\ pidfile' = None
          /\ disk' = TRUE
          /\ Goto(t, "boot")
    /\ UNCHANGED <<vm, termed, env, channel, stopVars, conn, external>>

ProbeAnswered(t) ==
    /\ pc[t] = "probe"
    /\ ChannelFree(t)
    /\ Answers(pidfile)
    /\ Goto(t, "idle")
    /\ ReleaseCreate(t)
    /\ UNCHANGED <<machine, channel, stopVars, conn, external>>

\* Mutant: the ping does not take turns with the command on the channel.
ProbeFailsUnlocked(t) ==
    /\ pc[t] = "probe"
    /\ ~ Answers(pidfile)
    /\ Stop(t, "clear")
    /\ UNCHANGED <<vm, env, channel, conn, external>>

\* The ping fails or times out: _boot starts by stopping what runs.
ProbeFails(t) ==
    /\ pc[t] = "probe"
    /\ ChannelFree(t)
    /\ ~ Answers(pidfile)
    /\ Stop(t, "clear")
    /\ UNCHANGED <<vm, env, channel, conn, external>>

\* write_conf, write_state and start: the VM is spawned.
Spawn(t) ==
    /\ pc[t] = "boot"
    /\ disk
    /\ \E v \in Vms :
           /\ vm[v] = "off"
           /\ pidfile # v
           /\ \A u \in Tasks : target[u] # v /\ conn[u] # v
           /\ vm' = [vm EXCEPT ![v] = "starting"]
           /\ termed' = termed \ {v}
           /\ env' = env \ {v}
           /\ busy' = [busy EXCEPT ![v] = None]
    /\ Goto(t, "wait")
    /\ UNCHANGED <<pidfile, disk, locks, stopVars, conn, holds, hangs,
                   deaths, crashes>>

\* The directory was removed meanwhile: write_conf raises.
SpawnRaises(t) ==
    /\ pc[t] = "boot"
    /\ ~ disk
    /\ Goto(t, "idle")
    /\ ReleaseCreate(t)
    /\ UNCHANGED <<machine, channel, stopVars, conn, external>>

\* Mutant: the call returns as soon as the runner answers.
ReadyReturns(t) ==
    /\ pc[t] = "wait"
    /\ ChannelFree(t)
    /\ Answers(pidfile)
    /\ Goto(t, "idle")
    /\ ReleaseCreate(t)
    /\ UNCHANGED <<machine, channel, stopVars, conn, external>>

\* _wait_ready: the runner answers a ping.
Ready(t) ==
    /\ pc[t] = "wait"
    /\ ChannelFree(t)
    /\ Answers(pidfile)
    /\ Goto(t, "env")
    /\ UNCHANGED <<machine, locks, stopVars, conn, external>>

\* _wait_ready gives up: no QEMU is running or about to be, or the runner
\* stayed silent.
NotReady(t) ==
    /\ pc[t] = "wait"
    /\ IF RunningPid = None
       THEN \A v \in Vms : vm[v] # "starting"
       ELSE /\ ChannelFree(t)
            /\ vm[RunningPid] # "booting"
            /\ ~ Answers(RunningPid)
    /\ Stop(t, "abort")
    /\ UNCHANGED <<vm, env, channel, conn, external>>

\* Mutant: the environment counts as stored without an answer.
SetEnvBlind(t) ==
    /\ pc[t] = "env"
    /\ ChannelFree(t)
    /\ env' = env \cup {RunningPid}
    /\ Goto(t, "idle")
    /\ ReleaseCreate(t)
    /\ UNCHANGED <<vm, termed, pidfile, disk, channel, stopVars, conn,
                   external>>

SetEnv(t) ==
    /\ pc[t] = "env"
    /\ ChannelFree(t)
    /\ Answers(pidfile)
    /\ env' = env \cup {pidfile}
    /\ Goto(t, "idle")
    /\ ReleaseCreate(t)
    /\ UNCHANGED <<vm, termed, pidfile, disk, channel, stopVars, conn,
                   external>>

SetEnvFails(t) ==
    /\ pc[t] = "env"
    /\ ChannelFree(t)
    /\ ~ Answers(pidfile)
    /\ Stop(t, "abort")
    /\ UNCHANGED <<vm, env, channel, conn, external>>

-----------------------------------------------------------------------------
(* find_container: without a running VM it returns None at once *)

CallFind(t) ==
    /\ pc[t] = "idle"
    /\ "find" \in OpsOf[t]
    /\ RunningPid # None
    /\ Goto(t, "find")
    /\ UNCHANGED <<machine, locks, stopVars, conn, external>>

\* The ping is answered or not; either way the call returns.
FindReturns(t) ==
    /\ pc[t] = "find"
    /\ ChannelFree(t)
    /\ Goto(t, "idle")
    /\ UNCHANGED <<machine, locks, stopVars, conn, external>>

-----------------------------------------------------------------------------
(* exec_command: without a running VM it returns "not found" at once *)

CallExec(t) ==
    /\ pc[t] = "idle"
    /\ "exec" \in OpsOf[t]
    /\ RunningPid # None
    /\ Goto(t, "exec")
    /\ UNCHANGED <<machine, locks, stopVars, conn, external>>

\* The channel's lock is granted and the connection made, or refused.
Connect(t) ==
    /\ pc[t] = "exec"
    /\ ChannelFree(t)
    /\ IF RunningPid # None
       THEN /\ conn' = [conn EXCEPT ![t] = RunningPid]
            /\ channel' = [channel EXCEPT ![ProcOf[t]] = t]
            /\ Goto(t, "queued")
       ELSE /\ Goto(t, "idle")
            /\ UNCHANGED <<conn, channel>>
    /\ UNCHANGED <<machine, createLock, stopVars, external>>

\* The exchange ends: the connection is closed and the lock released,
\* unless delete_container has replaced the channel.
Disconnect(t) ==
    /\ conn' = [conn EXCEPT ![t] = None]
    /\ channel' = [p \in Procs |-> IF channel[p] = t THEN None ELSE channel[p]]

\* The runner takes the command up.
RunBegins(t) ==
    /\ pc[t] = "queued"
    /\ Answers(conn[t])
    /\ busy' = [busy EXCEPT ![conn[t]] = t]
    /\ Goto(t, "run")
    /\ UNCHANGED <<machine, locks, stopVars, conn, holds, hangs, deaths,
                   crashes>>

\* The runner answers, having killed the command if it ran out of time.
RunAnswered(t) ==
    /\ pc[t] = "run"
    /\ vm[conn[t]] = "serving"
    /\ busy' = [busy EXCEPT ![conn[t]] = None]
    /\ Disconnect(t)
    /\ Goto(t, "idle")
    /\ UNCHANGED <<machine, createLock, stopVars, holds, hangs, deaths,
                   crashes>>

\* Mutant: the channel's lock is not released when the exchange fails.
RunLostHeld(t) ==
    /\ pc[t] \in {"queued", "run"}
    /\ vm[conn[t]] = "off"
    /\ conn' = [conn EXCEPT ![t] = None]
    /\ Goto(t, "idle")
    /\ UNCHANGED <<machine, locks, stopVars, external>>

\* The VM died: the connection is closed under the request.
RunLost(t) ==
    /\ pc[t] \in {"queued", "run"}
    /\ vm[conn[t]] = "off"
    /\ Disconnect(t)
    /\ Goto(t, "idle")
    /\ UNCHANGED <<machine, createLock, stopVars, external>>

\* No answer within the timeout and the grace: the VM hangs, or its runner
\* was busy with somebody else's command.  The VM is stopped.
RunTimesOut(t) ==
    LET v == conn[t]
    IN  /\ pc[t] \in {"queued", "run"}
        /\ vm[v] = "hung" \/ (vm[v] = "serving" /\ busy[v] \notin {t, None})
        /\ Disconnect(t)
        /\ Stop(t, "stuck")
        /\ busy' = [busy EXCEPT ![v] = IF @ = t THEN Gone ELSE @]
        /\ UNCHANGED <<vm, env, holds, hangs, deaths, crashes>>

-----------------------------------------------------------------------------
(* delete_container *)

CallDelete(t) ==
    /\ pc[t] = "idle"
    /\ "delete" \in OpsOf[t]
    /\ channel' = [channel EXCEPT ![ProcOf[t]] = None]
    /\ Stop(t, "remove")
    /\ UNCHANGED <<vm, env, conn, external>>

\* rmtree: a VM that still has the disk open keeps an unlinked file.
Rmtree(t) ==
    /\ pc[t] = "rmtree"
    /\ disk' = FALSE
    /\ holds' = {}
    /\ Goto(t, "idle")
    /\ UNCHANGED <<vm, termed, pidfile, env, locks, stopVars, conn, busy,
                   hangs, deaths, crashes>>

-----------------------------------------------------------------------------
(* QEMU, the guest and the host, external *)

\* QEMU starts if it can open and lock the disk, and the pidfile.
QemuUp(v) ==
    /\ vm[v] = "starting"
    /\ IF disk /\ RunningPid = None /\ \A w \in holds : ~ Up(w)
       THEN /\ vm' = [vm EXCEPT ![v] = "booting"]
            /\ pidfile' = v
            /\ holds' = holds \cup {v}
       ELSE /\ vm' = [vm EXCEPT ![v] = "off"]
            /\ UNCHANGED <<pidfile, holds>>
    /\ UNCHANGED <<termed, disk, env, locks, pc, stopVars, conn, busy, hangs,
                   deaths, crashes>>

GuestUp(v) ==
    /\ vm[v] = "booting"
    /\ vm' = [vm EXCEPT ![v] = "serving"]
    /\ UNCHANGED <<termed, pidfile, disk, env, locks, pc, stopVars, conn,
                   external>>

Hang(v) ==
    /\ vm[v] \in {"booting", "serving"}
    /\ hangs < MaxHangs
    /\ hangs' = hangs + 1
    /\ vm' = [vm EXCEPT ![v] = "hung"]
    /\ UNCHANGED <<termed, pidfile, disk, env, locks, pc, stopVars, conn,
                   holds, busy, deaths, crashes>>

\* QEMU dies by itself and leaves its files behind.
Die(v) ==
    /\ vm[v] # "off"
    /\ deaths < MaxDeaths
    /\ deaths' = deaths + 1
    /\ vm' = [vm EXCEPT ![v] = "off"]
    /\ holds' = holds \ {v}
    /\ UNCHANGED <<termed, pidfile, disk, env, locks, pc, stopVars, conn,
                   busy, hangs, crashes>>

\* QEMU exits on SIGTERM and removes its pidfile.
TermExit(v) ==
    /\ v \in termed
    /\ Up(v)
    /\ vm' = [vm EXCEPT ![v] = "off"]
    /\ holds' = holds \ {v}
    /\ pidfile' = IF pidfile = v THEN None ELSE pidfile
    /\ UNCHANGED <<termed, disk, env, locks, pc, stopVars, conn, busy, hangs,
                   deaths, crashes>>

\* A command whose client went away ends in the guest.
GoneEnds(v) ==
    /\ vm[v] = "serving"
    /\ busy[v] = Gone
    /\ busy' = [busy EXCEPT ![v] = None]
    /\ UNCHANGED <<machine, locks, pc, stopVars, conn, holds, hangs, deaths,
                   crashes>>

\* A host process dies and starts again; the VM is detached and survives.
Crash(p) ==
    LET Lost(t) == t \in Tasks /\ ProcOf[t] = p
    IN  /\ crashes < MaxCrashes
        /\ crashes' = crashes + 1
        /\ createLock' = [createLock EXCEPT ![p] = None]
        /\ channel' = [channel EXCEPT ![p] = None]
        /\ pc' = [t \in Tasks |-> IF Lost(t) THEN "idle" ELSE pc[t]]
        /\ target' = [t \in Tasks |-> IF Lost(t) THEN None ELSE target[t]]
        /\ earlier' = [t \in Tasks |-> IF Lost(t) THEN {}
                                       ELSE {u \in earlier[t] : ~ Lost(u)}]
        /\ conn' = [t \in Tasks |-> IF Lost(t) THEN None ELSE conn[t]]
        /\ busy' = [v \in Vms |-> IF Lost(busy[v]) THEN Gone ELSE busy[v]]
        /\ UNCHANGED <<machine, holds, hangs, deaths>>

-----------------------------------------------------------------------------

\* The steps of a call once it was made, apart from waiting for a lock.
Progress(t) ==
    \/ StopPoll(t) \/ StopKill(t)
    \/ Spawn(t) \/ SpawnRaises(t) \/ NotReady(t)
    \/ RunBegins(t) \/ RunAnswered(t) \/ RunLost(t) \/ RunTimesOut(t)
    \/ Rmtree(t)

\* The steps that take the create lock, or a turn on the channel.
Turn(t) ==
    \/ CreateEnters(t)
    \/ ProbeAnswered(t) \/ ProbeFails(t)
    \/ Ready(t) \/ SetEnv(t) \/ SetEnvFails(t)
    \/ FindReturns(t) \/ Connect(t)

Call(t) == CallCreate(t) \/ CallFind(t) \/ CallExec(t) \/ CallDelete(t)

Machine(v) == QemuUp(v) \/ GuestUp(v) \/ TermExit(v) \/ GoneEnds(v)

Next ==
    \/ \E t \in Tasks : Call(t) \/ Turn(t) \/ Progress(t)
    \/ \E v \in Vms : Machine(v) \/ Hang(v) \/ Die(v)
    \/ \E p \in Procs : Crash(p)

Spec == Init /\ [][Next]_vars

(***************************************************************************)
(* The event loop resumes a task whose await is over (WF); asyncio locks   *)
(* are first come first served (SF on what takes one).  QEMU starts or     *)
(* exits, the guest boots, and the runner ends every command, whose        *)
(* timeout it enforces (WF); hangs and deaths are never obliged.           *)
(***************************************************************************)
FairSpec ==
    /\ Spec
    /\ \A t \in Tasks : WF_vars(Progress(t)) /\ SF_vars(Turn(t))
    /\ \A v \in Vms : WF_vars(Machine(v))

-----------------------------------------------------------------------------
(***************************************************************************)
(* A QEMU process that is up is the one the pidfile names.  Otherwise      *)
(* running_pid() cannot see it: no later call talks to it or stops it, and *)
(* it keeps the session's disk locked (_smolbsd_vm.py:221-256).            *)
(***************************************************************************)
NoOrphan == \A v \in Vms : Up(v) => pidfile = v

(***************************************************************************)
(* A VM that serves is only ever told to exit by delete_container ("The VM *)
(* keeps running until delete_container", smolbsd_backend.py:133-134), as  *)
(* long as no guest has hung and no host process has died: the pings and   *)
(* commands of one process take turns, so a VM that only looks dead        *)
(* because it is busy is never stopped (_smolbsd_runner.py:75-80).         *)
(***************************************************************************)
OnlyDeleteStops ==
    \A v \in Vms :
        vm[v] = "serving" /\ v \in termed' \ termed
            => \E t \in Tasks : pc'[t] = "remove"

HealthySurvivesUnhung == [][hangs = 0 /\ crashes = 0 => OnlyDeleteStops]_vars

(***************************************************************************)
(* A command runs in a guest that has the session environment: "The        *)
(* environment given at creation reaches every command"                    *)
(* (docs/backends.md:123).                                                 *)
(***************************************************************************)
EnvReaches == \A t \in Tasks : pc[t] = "run" => conn[t] \in env

(***************************************************************************)
(* Both, as long as no host process has died: whatever hangs or dies in    *)
(* the VMs, calls made one after the other leave no VM behind that nobody  *)
(* can find, and none that is used without its environment.                *)
(***************************************************************************)
NoOrphanUncrashed == crashes = 0 => NoOrphan
EnvReachesUncrashed == crashes = 0 => EnvReaches

(***************************************************************************)
(* Whatever hangs or dies, every call of the backend returns.              *)
(***************************************************************************)
EveryCallReturns == \A t \in Tasks : (pc[t] # "idle") ~> (pc[t] = "idle")
=============================================================================
