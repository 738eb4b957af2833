# roomkit-sandbox in TLA+

roomkit-sandbox runs the tool calls of an AI agent in a container, a pod or a
microVM per session. This directory models the parts of it where the order of
events matters: the executor that shares one container among overlapping
calls, the three backends, each with the daemon, cluster or VM it drives, the
guest of a VM (its runner and its workspace disk), and the commands that change
a file. TLC checks the models on small instances, TLAPS proves theorems about them for
every instance. Line numbers refer to `src/roomkit_sandbox/` unless a path is
given.

## The system

| Component | State | Operations | What makes it hard |
|---|---|---|---|
| `ContainerSandboxExecutor` (executor.py) | `_container_id`, an `asyncio.Lock` | `execute` (through `_ensure_container`), `close` | calls of one event loop overlap at every await; several executors, in one process or in many, may serve a session; nothing is persisted |
| Docker backend (docker_backend.py) | the SDK client; the daemon's containers | `create_container`, `exec_command`, `container_exists`, `find_container`, `delete_container`, `list_containers` | every request runs in a thread of a bounded pool; a time-out abandons the thread and not the command; a creation can outlive its caller |
| Kubernetes backend (k8s_backend.py) | `_session_pods`; the cluster's pods | the same | the pod's name is fixed by the session, so a name is reused; pods start late, fail for good, and stay Running while they are deleted; API errors are read as answers |
| smolBSD backend (smolbsd_backend.py) | `_channels`, `_create_locks`; on disk: state directory, workspace disk, pidfile, sockets | the same | QEMU is detached and outlives the process; several processes share one state directory; VMs hang, die, start late |
| VM lifecycle (_smolbsd_vm.py) | the files and processes above | `start`, `running_pid`, `stop`, config and state files | `stop` polls and acts on whatever VM the pidfile names at the time |
| Runner channel (_smolbsd_runner.py) | an `asyncio.Lock` per VM and process | `ping`, `set_env`, `execute` | one request at a time; waiting for the lock is not part of the request's time-out |
| Guest runner (smolbsd/runner.sh) | the environment file, a work directory per command | `PING`, `ENV`, `EXEC` | a watchdog races the end of the command it watches |
| Guest workspace (smolbsd/workspace.sh) | the workspace disk | mount, or format and mount, at boot | a crash in the middle of formatting |
| Command builders (commands.py) | none | one builder per tool | `edit` and `write` change files that other calls read |

How they interact: the agent calls `execute`; under the executor's lock the
cached container is checked, or the session's container looked up, or one is
created and set up; outside the lock the command is sent to it. A backend is
asked by name or label, never by a handle, so that what it answers can be stale
when it is used. The host (the application) may also call `close()` and
`delete_container()` at any time, and may be restarted.

What makes each of them correct:

- executor: at most one of its calls looks up, creates or sets up at a time; a
  call past that point has a container; a container is set up once, before it
  is used; every call comes back.
- Docker: no containers are left behind beyond those that a race or a lost
  reply explains; time-outs bound every call.
- Kubernetes: one pod, set up once; a failed pod does not end the session.
- smolBSD: one QEMU per session and it can always be found; only a deletion
  stops a healthy VM; every command has the session's environment; every call
  comes back whatever the VM does.
- runner: a request is answered with what became of it, and carried out at most
  once; a timed-out command is dead when that is said; nothing of one command
  reaches the next.
- workspace: what an answered command wrote stays; nothing but a blank disk is
  formatted; a session whose VM died gets another one on its disk.
- command builders: a change to a file happens as a whole or not at all.

## The modules

| Module | Models | Extends |
|---|---|---|
| `Executor` | executor.py over a backend that may answer anything | |
| `ExecutorProofs` | theorems about `Executor` | `Executor`, `TLAPS` |
| `DockerSession` | one session on Docker: the executors, the daemon, the thread pool | `Executor` |
| `DockerSessionProofs` | theorems about `DockerSession` | `DockerSession`, `ExecutorProofs` |
| `K8sSession` | one session on Kubernetes: the executors, a backend object each, the pod | `Executor` |
| `K8sSessionProofs` | theorems about `K8sSession` | `K8sSession`, `ExecutorProofs` |
| `SmolBackend` | the smolBSD backend for one session: its processes, QEMU, the guest's runner, the files | |
| `SmolBackendProofs` | theorems about `SmolBackend` | `SmolBackend`, `TLAPS` |
| `SmolSession` | one session on smolBSD: the tool calls of one executor over that backend | `SmolBackend`, an instance of `Executor` |
| `SmolSessionProofs` | theorems about `SmolSession` | `SmolSession`, `SmolBackendProofs` |
| `RunnerExec` | `do_exec` and `killtree` of runner.sh: a command's processes, its watchdog, the runner | |
| `Requests` | what a request to the runner promises (abstract) | |
| `Runner` | the protocol: `RunnerChannel`, QEMU's socket, the port, the loop of runner.sh | `RunnerExec`, refines `Requests` |
| `RunnerProofs` | theorems about `RunnerExec` and `Runner` | `Runner`, `TLAPS` |
| `Workspace` | the workspace disk: `ensure_disk`, workspace.sh, `sync`, deletion | |
| `WorkspaceProofs` | theorems about `Workspace` | `Workspace`, `TLAPS` |
| `FileTools` | the commands of `sandbox_write`, `sandbox_edit`, `sandbox_delete`, `sandbox_read` on one file | |
| `FileToolsProofs` | theorems about `FileTools` | `FileTools`, `TLAPS` |
| `MCDockerSession`, `MCK8sSession`, `MCSmolBackend`, `MCSmolSession`, `MCRunner`, `MCFileTools` | instances for TLC | |

### Executor

A tool call is a task. It suspends only at an await, so an action is the code
between two awaits, and `stage[t]` says at which await the task is suspended:
the lock, `container_exists`, `find_container`, `create_container`,
`exec_command` of a setup command or of the tool call. `bound[t]` is the
container id in the task's frame. What the backend answers is a parameter of
the action: `ExistsReturns(t, running)`, `FindReturns(t, found)`,
`CreateReturns(t, id)`. `ExecutorSpec` lets the backend answer anything;
`DockerSession` and `K8sSession` conjoin these actions with what their backend
does. Any backend call may raise: before the command that exception leaves
`execute` (`EnsureRaises`), in the command it becomes a result
(`ExecReturns`). The exit code of a setup command is only logged, so it is not
in the model.

### DockerSession

A request to the daemon is made by a thread: `StartThread` is the pool taking
the queued call, and each answer (`Exists`, `Find`, `Create`, `GetHandle`,
`CommandEnds`, ...) gives the thread back. `exec_command` is two requests, and
only the second is under `wait_for`: `GetHandle`, then `CommandEnds` or
`CommandTimesOut`, which leaves a running thread behind (`stray`).
`CreateAbandoned` and `LateCreate` are a creation whose client gave up while
the daemon went on. `delete_container` is three requests, any of which may fail
and end it.

### K8sSession

One API call is one action. `phase` is the pod's, with Running split into
`unready` and `running`, which `_wait_for_pod_ready` tells apart and
`container_exists` and `find_container` do not. `find_container` is two calls
when the session is in the backend's cache (`FindCached`, then `FindListed`).
`Created` is also the `AlreadyExists` answer. The wait is a loop of reads, one
action per way it ends. `Misread` is an API error that `container_exists` or
`find_container` turns into "no": it is counted and bounded, since it is what
some properties depend on. The thread pool is left out here: it is the one of
`DockerSession`, and so is what a stuck thread does. Names of different
sessions are taken to be different.

### SmolBackend

A task is one call of the backend (`pc[t]` is its await), made by one of the
processes of `Procs`; each has its own create lock and channel. `vm[v]` is a
QEMU process: `starting` (spawned, no pidfile yet), `booting`, `serving`,
`hung` or `off`. Simplifications, each the behaviour the code relies on:

- `pidfile` stands for the pidfile and the sockets, which QEMU creates together
  and `stop()` unlinks together; `RunningPid` is `running_pid()`.
- QEMU starts only if it can lock the pidfile and the workspace disk (a raw
  drive attached with `snapshot=off`), else it exits: `QemuUp`.
- QEMU writes its pidfile, or dies, within the five seconds of line 276 of
  smolbsd_backend.py, as its comment says.
- the grace periods of `stop()` are equally long, so they end in the order in
  which the stops began (`earlier`).
- a ping is one step: it is answered if the guest serves and executes nothing,
  else it fails, as the two seconds of `_PING_TIMEOUT` are shorter than a
  command may take.
- the session has an environment (otherwise the `ENV` request is not sent).
- `find_container` and `exec_command` return at once if no VM runs: no step.
- a QEMU process of the model is used again once nothing refers to it (`Vms` is
  finite).

### SmolSession

`SmolBackend` with the executor on top: the tasks call `execute`, and the stage
of `Executor` (`Ex`) tells which call of the backend they await. The last step
of a backend call and what the executor does with its result are one step
(`BackendStep`), and a task between two calls makes the next at once (`Quiet`),
since no await separates them. `MachineStep` adds that the event loop has run
whatever is woken before QEMU or the guest gets further: both take
milliseconds. A container id is the VM's name, so a call holds no VM, only the
name; `prepared` is the set of VMs whose creator is past the last setup command.
`exec_command` of this backend never raises, hence `SetupReturns` is the only
way on from a setup command. The session's executor is in one process
(`SmolSessionAssumption`). `delete_container` and `close()` are left
to `SmolBackend` and `DockerSession`.

### RunnerExec

The shells are processes like those of the command, since their races are the
point: the watchdog is a subshell that waits for its child, `sleep`
(`waitsFor`). `killtree` is split where the system calls are: `ReadChildren`
(`pgrep`), then `Kill`, which appends the children found to the `agenda`. A
command is external: it forks, waits or not, ends or not. `fled` collects the
processes that cannot be found by their parents. `Answered` prints the result
and forgets what is left of the command; a pid is not reused while something
refers to it (`Referred`). A command begins with `mktemp`, so that `marked`
belongs to one command only.

### Runner and Requests

`Requests` is the promise: a request is made, carried out at most once, and
returns its own outcome, or is given up. `Runner` is how it is kept. A request
takes the lock of its process (`Open`), is queued by QEMU, which serves one
client (`backlog`, `client`), and waits for a line with its id and its answer's
first word (`HostReads`). A request that timed out has closed its connection,
but its line may be delivered all the same and its answer goes to the next
client. Before the port is raw it echoes what it gets or loses it (`Deliver`);
after EOF it is opened again (`Eof`). A process that dies may have written half
a line, which swallows the line behind it (`torn`). `EXEC` runs the command of
`RunnerExec`, in which the runner's steps, the watchdog and the kill interleave
with the host's. The ids are `secrets.token_hex(6)` and are taken to be unique.

### Workspace

`content` is what a disk holds, in the order it is made: absent, empty (the
file without its size), blank, partition table, labelled wedge, file system.
`guest` is the line workspace.sh or the runner is at. Any step of the boot may
fail (`MountFails`, `FormatFails`), and the VM may be killed at any step: what
commands wrote and the guest had not written out (`cached`) is lost. The raw
writes of `gpt` and `newfs` are taken to reach the image at once, and the
journal of the file system (`-o log`) to keep it mountable.

### FileTools

One action per command of the shell line, or per file the shell opens before
it. A file is an inode under a name, as calls go on writing to what they have
opened: `name` is the two names `path` and `path.tmp`. The texts are sequences
of characters, because the properties are about what awk, `tail` and `head` do
with them: `Records` is the lines awk joins and `MatchesOnce` whether its loop
counts one match, all that the script asks of the count. `IsEditOf` and
`IsRangeOf` say independently what one replacement and a range of lines are. A
text is written in one step.

## What is checked

| Run | Instance | Shows |
|---|---|---|
| `docker_safety` | 2 executors, 3 calls (2 on the first), 3 ids, 2 threads, deaths, restarts, `close()` of the second executor | `RunningBounded`, `SetupIsExclusive`, `LockInv`, `EnsureReturnsId`, `TypeOK` |
| `docker_live` | 1 executor, 2 calls, 1 thread, deletions, deaths, restarts, a lost creation reply | `EveryCallReturns`, `RunningBounded` |
| `k8s_session` | 1 executor, 2 calls, 2 pods, deletions, pod failures, restarts, 1 misread error | `SetupOnceUnlessMisread`, `SetupIsExclusive`, `EveryCallReturns`, `TypeOK` |
| `smol_one` | 1 call at a time of every operation, 2 hangs, 2 deaths, 1 restart | `NoOrphanUncrashed`, `EnvReachesUncrashed`, `EveryCallReturns`, `TypeOK` |
| `smol_two` | 2 overlapping calls of one process, deletions, 1 hang | `HealthySurvivesUnhung`, `EveryCallReturns` |
| `smol_session` | 2 overlapping tool calls of one executor, 2 VMs, 1 setup command, 1 hang, 1 death, 1 restart | `SetupBeforeUse`, `EnvReachesUncrashed`, `EveryToolCallReturns`, `SessionTypeOK` |
| `runner_exec` | a command with up to 3 more processes, again and again | `NoNextLine`, `KilledMeansTimedOut`, `TreeIsGone`, `NoStrayWatchdog`, `RunnerComesBack`, `ExecTypeOK` |
| `runner` | 2 commands of one process and an `ENV` of another, 1 EOF or death of a process | `KeepsPromise` (`Runner` implements `Requests`), `TypeOK` |
| `workspace` | 2 disks, 2 writes, 3 kills, 2 failing steps, 1 deletion | `FinishedSurvives`, `NoDataFormatted`, `ServesUnlessHalfMade`, `TypeOK` |
| `files` | 2 edits, a write, a deletion, a read, all texts of length 0 to 4 | `EditsAreAtomic`, `OkMeansDone`, `ReadsTheRange`, `FileTypeOK` |

Two more runs state what a docstring says and find it false; each is a finding
of `PROJECT.json`, with the lines:

| Run | The statement | What TLC finds |
|---|---|---|
| `docker_hung` | a call is bounded by its time-out | a command that outlives its time-out keeps its thread; with no thread left, `container_exists`, `find_container` and `containers.get` of later calls wait for ever |
| `smol_orphan` | a VM runs until it is deleted, and the next one boots on its disk | `stop()` of a stuck VM is not under the create lock: it unlinks the pidfile of the VM that another call just booted |

### Observed while modelling

Other behaviour a reader of the code may not expect. The models contain it, and
the properties say in their statements what they exclude because of it:

- Docker, Kubernetes: the container id is cached before the setup commands run
  (executor.py:149). If one raises, the remaining ones never run and the next
  call uses the container. On smolBSD `exec_command` never raises, and
  `SetupBeforeUse` holds.
- Kubernetes: a second executor of the session that comes while the first
  one's pod still starts is told the name exists, waits for that pod and sets
  it up again (k8s_backend.py:238). `SetupOnceUnlessMisread` is about one
  executor.
- Kubernetes: a failed pod keeps its name, so every later call raises until
  somebody deletes it (k8s_backend.py:264).
- smolBSD: after a restart of the host, or from another process, the ping of a
  guest that runs a command goes unanswered and the healthy VM is stopped
  (smolbsd_backend.py:237). `HealthySurvivesUnhung` excludes restarts.
- smolBSD: a restart between the boot and the `ENV` request leaves a VM without
  the session's environment, which is found and used (smolbsd_backend.py:261).
  `EnvReachesUncrashed` excludes restarts.
- smolBSD: `smol_two` is about two overlapping calls, and so is what it shows
  with deletions. With four, two of them deletions, TLC finds
  `HealthySurvivesUnhung` violated without any hang or death: the `stop()` of
  one deletion unlinks the pidfile of the next VM (the cause of `smol_orphan`),
  the other deletion replaces the channel, so that two commands are connected to
  a VM nobody can find, and the one that waits times out and stops the VM that
  took its place.
- workspace: if the making of the disk is cut short after the file is created,
  or between `gpt create` and the end of `newfs`, no later boot mounts or
  formats it, and the session has no VM until it is deleted
  (`HalfMade`; docs/backends.md:118-119 says the next command boots a new one).
- runner: a process forked between `pgrep` and `kill`, or left behind by a
  parent that had ended, survives the time-out of its command (`fled`).
- edits: edits of one file that overlap share `path.tmp` and may lose or mix
  their changes (`clash`); an edit ends the file with a newline even if it had
  none; occurrences that overlap each other count once.
- reads: `limit` 0 counts as no limit.

**Bounds.** Two calls of one executor are what mutual exclusion is about, and a
second executor what the races between processes are about: the third call adds
a second contender beside the race. `Ids` has one id more than
`RunningBounded` allows in the instances where nothing is abandoned, so the
bound can be exceeded. One or two setup commands are a first, a middle and a
last. In `SmolBackend` three QEMU processes are a VM that is being stopped, its
successor, and an orphan; without deletions and second processes
(`SmolSession`) two are enough, one going and one coming. `MaxAbandoned`,
`MaxPods`, `MaxErrors`, `MaxHangs`, `MaxDeaths`, `MaxCrashes`, `MaxFaults`,
`MaxKills` and `MaxDeletes` bound how often the environment misbehaves, each in
the guard of its action. Three processes besides the command (`MaxForks`) are a
child, a grandchild and one that is forked while they are killed. In `runner`
the command has no children: what its processes do is checked in `runner_exec`,
and the protocol sees only when it ends. Three requests are one in the guest,
one behind it and a third to which a late answer can go. Three kills in
`workspace` are one before the disk is made, one in the middle, and one after a
command. Texts of four characters hold an old string of two twice, overlapping
or not, and up to five lines. Tasks and ids are symmetric where nothing
distinguishes them, in safety runs only.

**Fairness.** `asyncio.Lock` and the queue of the thread pool are first come
first served, so a task that waits for either is given strong fairness on
getting it; tasks whose await is over are resumed (weak fairness). A request to
the Docker daemon or the API server answers or raises, `wait_for` fires, the
wait for a pod has its minute. In SmolBackend, QEMU comes up or exits, exits on
SIGTERM unless the deadline comes first, and the runner ends every command since
it enforces the time-out itself. Nothing obliges a command in a container to
end (`HungSpec`), except in `docker_live`, whose `FairSpec` adds just that:
the difference between the two is the finding `docker_hung`. Hangs, deaths,
failures, kills and restarts are never obliged. `SessionFairSpec` has strong
fairness on each task and each VM: the steps of the others disable them again
and again (`Quiet`), and both the loop and the locks are first come first
served. `ExecFairSpec` obliges the shells of the guest and `sleep`, never the
command, but a command starts at most `MaxForks` processes: one that forks
faster than `killtree` kills, for ever, is outside what `RunnerComesBack` says.
`FairSpec` of
`Workspace` is an agent that keeps calling, and a boot that goes on.

Deadlock is checked in every run except `runner` and `files`, whose requests and
calls are finitely many and may all be done.

## What is proved

`ExecutorProofs`, from `ExecutorAssumption` (the constants are sets of the right
kind and `None` is not an id or a task), for any number of executors and calls:

- `LockIsExact`: `ExecutorSpec => []LockInv`.
- `EnsureReturnsAnId`: `ExecutorSpec => []EnsureReturnsId`.
- `ExecutorTypes`: type correctness.

All three follow from one inductive invariant, `ExecutorInv`. `LockInv` is
inductive with the types, but `EnsureReturnsId` is not: `ExistsReturns` reads
the cached id a second time, and nothing in `EnsureReturnsId` says that it is
still there. `CheckedIsCached` adds that: while a call awaits
`container_exists` the id it checks is the cached one, if the host does not
close that executor. `SetupUnderway` adds that a call in its setup loop has an
id and has not finished.

`DockerSessionProofs`, from `DockerAssumption` also (executors and tasks are
finite):

- `DockerImplementsExecutor`: `Spec => ExecutorSpec`. Every step of the session
  on Docker is a step of the executor over some backend or leaves the executor
  alone, so what holds of the executor holds here.
- `ContainersBounded`: `Spec => []RunningBounded`. The strengthening is
  `CreationCount`: running containers, executors that are creating, and
  creations still pending at the daemon are together no more than the executors
  plus the creations ever abandoned. It needs the exactness of the lock (an
  executor has one creator) and that `create` is entered only after a search
  that saw nothing running.
- `SetupExclusive`: `Spec => []SetupIsExclusive`. It needs `IdsAreKnown`, that
  no task and no cache holds an id the daemon has not used yet: a new container
  is then not the one another call is about to use.
- `DockerTypes`: type correctness, in which the one real conjunct is that the
  calls being served and the abandoned threads never exceed the pool.

`K8sSessionProofs`, from `K8sAssumption` also (the pod's name is the only id):

- `K8sImplementsExecutor`: `Spec => ExecutorSpec`, with API errors taken for
  answers and pods taken over.
- `K8sSetupExclusive`: `Spec => []SetupIsExclusive`. The strengthening,
  `KeptOut`, adds that while a call runs a command in the first pod, another
  call of its executor is creating only if the pod failed or is gone: it can
  then not become ready, and a new one would be the second.
- `K8sSetupOnce`: `Spec => []SetupOnceUnlessMisread` when there is one
  executor, as in `k8s_session`; with a second one it is false (see the
  observations). The strengthening, `SetupFirst`, adds that no call is creating while
  a pod that was set up may still become ready.
- `K8sTypes`: type correctness.

The last three rest on `PodHistory`, which says what a phase tells of the pod's
past: a pending pod was never set up, and the first pod is not pending once a
command was sent to it.

`WorkspaceProofs`, from `WorkspaceAssumption` (the session's disk is one of the
disks, the bounds are numbers), for any disks, commands and number of faults:

- `AnsweredSurvives`: `Spec => []FinishedSurvives`.
- `DataIsNotFormatted`: `Spec => NoDataFormatted`.
- `WorkspaceTypes`: type correctness.

All follow from `DiskInv`. `FinishedSurvives` says nothing of a command that was
synced and is not answered yet, and the action property nothing of which disk
was chosen: `DataStage` follows the data of a command through the runner's
steps, `DiskStage` says what the disk holds at each step of the boot and that
no disk but the session's is ever chosen.

`RunnerProofs`, first about `RunnerExec`, from `RunnerExecAssumption` (a command
starts finitely many processes, the shells are others than its), for any
processes that fork, wait, end and are left behind in any order:

- `ParentFirst`: `ExecSpec => []NoNextLine`.
- `KillsAreTimeouts`, `TimeoutTakesTheTree`, `WatchdogEndsWithItsCommand`:
  `ExecSpec` implies `[]KilledMeansTimedOut`, `[]TreeIsGone`, `[]NoStrayWatchdog`.
- `ExecTypes`: type correctness.

All follow from `ExecInv`. `NoNextLine` needs the shape of the process tree
(`TreeShape`: who is waited for is a child of the waiter) and of the two agendas
(`AgendaShape`: who is about to be killed has no living parent, and what was
listed has at most the one that is killed next). `TreeIsGone` needs `InReach`:
once the time-out is marked, every process of the command has a living parent, or
is on the watchdog's agenda, or has fled. `Stages` says what holds at each line
of `do_exec`.

Then about `Runner`, from `RunnerAssumption` also (`None` is neither a request
nor an outcome), for any requests, processes, EOFs and deaths:

- `RunnerRunsExec`: `Spec => ExecSpec`, so all of the above holds under the
  protocol.
- `ProtocolKeepsPromise`: `Spec => KeepsPromise`, the refinement of `Requests`.
  Making a request is `Make`, `TimesOut` gives one up, `HostReads` returns one,
  gives it up or stutters, `AnswerAtOnce` and `EndExec` carry one out, a death
  gives up all of its process, and every other step stutters.
- `RunnerTypes`: type correctness.

The refinement needs `OncePlaced`, that a request on its way is in one place,
once, and has no outcome (so it is not carried out again), and `TrueToTheRun`,
that each line in the host's buffer which is taken for an answer tells the
outcome of the request it names (so a late answer of another request is never
returned).

`SmolBackendProofs`, from `SmolAssumption` (`None` and `Gone` are neither tasks
nor VMs, the bounds are numbers), for any VMs, calls, hangs, deaths:

- `BackendTypes`: `Spec => []TypeOK`, whatever overlaps.
- `NothingIsOrphaned`, `EnvironmentReaches`: if calls are made one at a time,
  `Spec => []NoOrphanUncrashed` and `Spec => []EnvReachesUncrashed`, as in
  `smol_one`. The strengthening is `LoneInv`: at most one QEMU lives, nothing is
  starting but what a call waits for, the one `stop()` waits for is the one the
  pidfile names, and only the call that boots a VM meets it without its
  environment. With overlapping calls the first is false: that is `smol_orphan`.
- `TurnsSpareTheVm`: if all calls are of one process and none deletes,
  `Spec => HealthySurvivesUnhung`, for any number of overlapping calls. The
  strengthening is `TurnsInv`: who has a connection holds the channel, and a VM
  is busy only with the command of the one that is connected to it, so a probe
  never meets a busy VM. Deletions have to be excluded beyond two calls (see the
  observations).

`SmolSessionProofs`, from `SmolSessionAssumption` also (the VM's name is neither a
task nor `None`, and there is one process), for any number of overlapping tool
calls, VMs, setup commands, hangs and deaths:

- `SessionRunsBackend`: `SessionSpec => Spec`; `SessionRunsExecutor`:
  `SessionSpec => Ex!ExecutorSpec`. A step of the session is a step of each or
  leaves it alone, so `LockInv` and `EnsureReturnsId` hold on smolBSD as well.
- `SetupComesFirst`: `SessionSpec => []SetupBeforeUse`.
- `SessionHasEnvironment`: `SessionSpec => []EnvReachesUncrashed`, here for
  overlapping calls.
- `SessionTypes`: type correctness, with the await of a task fixed by the stage
  its executor is at.

The strengthening is `SessionInv`. A command may meet another VM than the one its
call was given, since a container id is only the name. What excludes a VM that
is not set up: the executor's lock, under which one call at a time boots and
sets up (`OneHolder`, `SetupUnderway`); the channel, which a call holds for as
long as it is connected (`Connections`); the disk, which a VM has locked while it
is up, so that no other boots beside it (`DiskTaken`, `Booting`); and that a call
whose VM went is woken before the next VM gets anywhere.

`FileToolsProofs`, from `FileToolsAssumption` (texts are sequences of characters,
the newline is one of these, `None` is not a text), for any calls, arguments and
texts:

- `EditsAreWhole`: `Spec => EditsAreAtomic`; `SuccessIsTrue`:
  `Spec => OkMeansDone`. The strengthening is `OneChanger`: without a clash one
  call is in progress at most, it writes where its name still is, and what it
  edits is what the file holds. It needs `Stages`, that a call that has not begun
  has made no inode and that the file and its `.tmp` file are never one inode,
  which hold even when calls clash.
- `ReadIsTheRange`: `Spec => []ReadsTheRange`.
- `FileTypes`: type correctness.

They rest on three lemmas about the operators: `IndexFindsTheFirst`,
`OneMatchIsReplaced` (where awk counts one match, what it prints is the edit of
`IsEditOf`), and `OutputIsTheRange` (`tail` and `head` print the lines of
`IsRangeOf`). Where an argument goes through a text from its beginning, as in
"the n-th line ends somewhere", it takes the least place at which it would fail
(`Least`).

Only model-checked:

- liveness (`EveryCallReturns`, `EveryToolCallReturns`, `RunnerComesBack`,
  `ServesUnlessHalfMade`), which is beyond the prover;
- `HealthySurvivesUnhung` for two overlapping calls of which one may delete.

Not even model-checked is awk's loop as a loop: the model has its outcome
(`MatchesOnce`), since what a recursive definition computes for every text needs
an induction the prover does not have.

## What is not modelled, and what comes next

Not modelled: `list_containers` and the state file it reads, the construction of
SDK clients, image builds, the network mode, names (how session ids become
names and labels: sessions are taken to have different ones), the coding of
requests, the text of configuration and environment, output limits, exit codes
other than 124, and the builders that only pass their arguments on (`ls`,
`grep`, `find`, `git`, `diff`, `bash`, and everything `rtk` does). They change no
state, or their correctness is a matter of one expression.

In order:

1. `SmolBackend`: for which calls the pidfile names every VM that is up when
   calls of one process overlap, and a proof of it. `smol_orphan` needs a
   deletion or a hang.
2. `DockerSession` and `K8sSession`: what a session with several executors in
   different processes keeps of the setup, as theorems.
3. The other builders of `commands.py` as far as they change files: deletion of
   a directory, and `write` seen by a reader in between.
