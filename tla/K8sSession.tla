----------------------------- MODULE K8sSession -----------------------------
(***************************************************************************)
(* One session on KubernetesSandboxBackend (k8s_backend.py): the executor, *)
(* a backend object per executor, and the session's pod.  The pod's name   *)
(* derives from the session, so the cluster has at most one at a time and  *)
(* a later pod takes the name of an earlier one.  Each action is one API   *)
(* call as it answers.  The API server and kubelet are external, modelled  *)
(* from how k8s_backend.py uses them.                                      *)
(***************************************************************************)
EXTENDS Executor

CONSTANTS
    Pod,        \* the pod's name
    Deleters,   \* executors on whose backend the host calls delete_container
    MayRestart, \* whether the host process restarts
    MaxPods,    \* bound on the pods created
    MaxErrors   \* bound on API errors that are taken for "no such pod"

ASSUME K8sAssumption ==
    /\ Ids = {Pod}
    /\ Deleters \subseteq Executors
    /\ MayRestart \in BOOLEAN
    /\ MaxPods \in Nat
    /\ MaxErrors \in Nat

VARIABLES
    phase,       \* of the pod; "unready" is Running, its container not ready
    terminating, \* whether the pod has a deletion timestamp
    cached,      \* executors whose backend has the session in _session_pods
    listing,     \* tasks whose find_container is past its cache
    waiting,     \* tasks in _wait_for_pod_ready
    deleting,    \* executors whose backend awaits a deletion
    prepared,    \* whether every setup command has run in this pod
    setups,      \* how often the setup was begun in this pod, 2 for more
    pods,        \* pods ever created
    errors       \* API errors so far taken for "no such pod"

podVars == <<phase, terminating, prepared, setups, pods>>
callVars == <<cached, listing, waiting>>
vars == <<executorVars, podVars, callVars, deleting, errors>>

Phases == {"absent", "pending", "unready", "running", "failed"}

TypeOK ==
    /\ ExecutorTypeOK
    /\ phase \in Phases
    /\ terminating \in BOOLEAN
    /\ cached \subseteq Executors
    /\ listing \subseteq {t \in Tasks : stage[t] = "find"}
    /\ waiting \subseteq {t \in Tasks : stage[t] = "create"}
    /\ deleting \subseteq Deleters
    /\ prepared \in BOOLEAN
    /\ setups \in 0..2
    /\ pods \in 0..MaxPods
    /\ errors \in 0..MaxErrors

Init ==
    /\ ExecutorInit
    /\ phase = "absent"
    /\ terminating = FALSE
    /\ cached = {}
    /\ listing = {}
    /\ waiting = {}
    /\ deleting = {}
    /\ prepared = FALSE
    /\ setups = 0
    /\ pods = 0
    /\ errors = 0

PhaseRunning == phase \in {"unready", "running"}

\* An API error that the code takes for an answer.
Misread ==
    /\ errors < MaxErrors
    /\ errors' = errors + 1

\* find_container skips its cache if the session is not in it.
EntersFind(t) ==
    listing' = IF stage'[t] = "find" /\ ExecutorOf[t] \notin cached
               THEN listing \cup {t}
               ELSE listing

-----------------------------------------------------------------------------
(* The executor up to find_container, and container_exists *)

Enter(t) ==
    /\ Acquire(t)
    /\ EntersFind(t)
    /\ UNCHANGED <<podVars, cached, waiting, deleting, errors>>

Exists(t) ==
    /\ \/ ExistsReturns(t, PhaseRunning) /\ UNCHANGED errors
       \/ ExistsReturns(t, FALSE) /\ Misread
    /\ EntersFind(t)
    /\ UNCHANGED <<podVars, cached, waiting, deleting>>

-----------------------------------------------------------------------------
(* find_container *)

\* The pod of the cache is checked first, by container_exists.
FindCached(t) ==
    /\ stage[t] = "find"
    /\ t \notin listing
    /\ \/ /\ PhaseRunning
          /\ FindReturns(t, Pod)
          /\ UNCHANGED <<listing, errors>>
       \/ /\ \/ ~ PhaseRunning /\ UNCHANGED errors
             \/ Misread
          /\ listing' = listing \cup {t}
          /\ UNCHANGED executorVars
    /\ UNCHANGED <<podVars, cached, waiting, deleting>>

\* Then the pods with the session's label; an error is logged and None.
FindListed(t) ==
    /\ t \in listing
    /\ listing' = listing \ {t}
    /\ \/ /\ PhaseRunning
          /\ FindReturns(t, Pod)
          /\ cached' = cached \cup {ExecutorOf[t]}
          /\ UNCHANGED errors
       \/ /\ \/ ~ PhaseRunning /\ UNCHANGED errors
             \/ Misread
          /\ FindReturns(t, None)
          /\ UNCHANGED cached
    /\ UNCHANGED <<podVars, waiting, deleting>>

-----------------------------------------------------------------------------
(* create_container *)

\* The API server accepts a pod under a name that is free.
NewPod ==
    /\ phase = "absent"
    /\ pods < MaxPods
    /\ phase' = "pending"
    /\ prepared' = FALSE
    /\ setups' = 0
    /\ pods' = pods + 1
    /\ UNCHANGED terminating

Creating(t) == stage[t] = "create" /\ t \notin waiting

\* The pod is created, or the name is taken and that pod is reused, be it
\* failed or on its way out.
Created(t) ==
    /\ Creating(t)
    /\ \/ NewPod
       \/ phase # "absent" /\ UNCHANGED podVars
    /\ waiting' = waiting \cup {t}
    /\ UNCHANGED <<executorVars, cached, listing, deleting, errors>>

\* Any other error is raised; the API server may have created the pod.
CreateRaises(t) ==
    /\ Creating(t)
    /\ EnsureRaises(t)
    /\ NewPod \/ UNCHANGED podVars
    /\ UNCHANGED <<callVars, deleting, errors>>

\* Mutant: a failed pod is not told from one that is still starting.
ReadyOrFailed(t) == phase \in {"running", "failed"}

\* What _wait_for_pod_ready waits for.
Ready(t) == phase = "running"

\* _wait_for_pod_ready returns, and the executor begins the setup.
WaitReturns(t) ==
    /\ t \in waiting
    /\ Ready(t)
    /\ CreateReturns(t, Pod)
    /\ waiting' = waiting \ {t}
    /\ cached' = cached \cup {ExecutorOf[t]}
    /\ setups' = IF setups = 2 THEN 2 ELSE setups + 1
    /\ prepared' = (prepared \/ SetupCount = 0)
    /\ UNCHANGED <<phase, terminating, pods, listing, deleting, errors>>

\* Mutant: the deadline is checked only while the pod can be read.
WaitTimesOutIfPresent(t) ==
    /\ t \in waiting
    /\ phase \notin {"running", "absent"}
    /\ EnsureRaises(t)
    /\ waiting' = waiting \ {t}
    /\ UNCHANGED <<podVars, cached, listing, deleting, errors>>

\* A minute passed, and the last read did not find the pod ready.
WaitTimesOut(t) ==
    /\ t \in waiting
    /\ phase # "running"
    /\ EnsureRaises(t)
    /\ waiting' = waiting \ {t}
    /\ UNCHANGED <<podVars, cached, listing, deleting, errors>>

\* The pod has failed, or reading it raised something but "not found".
WaitRaises(t) ==
    /\ t \in waiting
    /\ EnsureRaises(t)
    /\ waiting' = waiting \ {t}
    /\ UNCHANGED <<podVars, cached, listing, deleting, errors>>

-----------------------------------------------------------------------------
(* exec_command *)

\* A setup command or the tool call ends in the pod.
CommandEnds(t) ==
    /\ PhaseRunning
    /\ \/ /\ SetupReturns(t)
          /\ prepared' = (prepared \/ LastSetup(t))
       \/ ExecReturns(t) /\ UNCHANGED prepared
    /\ UNCHANGED <<phase, terminating, setups, pods, callVars, deleting, errors>>

\* It times out, or there is no such pod any more, or the API fails.
CommandFails(t) ==
    /\ \/ stage[t] = "setup" /\ EnsureRaises(t)
       \/ ExecReturns(t)
    /\ UNCHANGED <<podVars, callVars, deleting, errors>>

-----------------------------------------------------------------------------
(* delete_container *)

DeleteCall(e) ==
    /\ e \in Deleters \ deleting
    /\ deleting' = deleting \cup {e}
    /\ UNCHANGED <<executorVars, podVars, callVars, errors>>

\* The pod gets a grace period, during which its phase stays Running.
DeleteAccepted(e) ==
    /\ e \in deleting
    /\ phase # "absent"
    /\ terminating' = TRUE
    /\ deleting' = deleting \ {e}
    /\ cached' = cached \ {e}
    /\ UNCHANGED <<executorVars, phase, prepared, setups, pods, listing, waiting,
                   errors>>

\* Any exception is logged; the cache is kept.
DeleteRaises(e) ==
    /\ e \in deleting
    /\ deleting' = deleting \ {e}
    /\ UNCHANGED <<executorVars, podVars, callVars, errors>>

-----------------------------------------------------------------------------
(* The cluster and the host *)

PodAdvances ==
    /\ \/ phase = "pending" /\ phase' = "unready"
       \/ phase = "unready" /\ phase' = "running"
    /\ UNCHANGED <<executorVars, terminating, prepared, setups, pods, callVars,
                   deleting, errors>>

\* Its container exits or the pod is evicted: restart_policy is Never.
PodFails ==
    /\ phase \in {"pending", "unready", "running"}
    /\ phase' = "failed"
    /\ UNCHANGED <<executorVars, terminating, prepared, setups, pods, callVars,
                   deleting, errors>>

PodGone ==
    /\ terminating
    /\ phase' = "absent"
    /\ terminating' = FALSE
    /\ UNCHANGED <<executorVars, prepared, setups, pods, callVars, deleting, errors>>

HostCloses(e) == Close(e) /\ UNCHANGED <<podVars, callVars, deleting, errors>>

\* The host process dies; a creation it had requested may still be served.
HostRestarts ==
    /\ MayRestart
    /\ Restart
    /\ cached' = {}
    /\ listing' = {}
    /\ waiting' = {}
    /\ deleting' = {}
    /\ \/ UNCHANGED podVars
       \/ NewPod /\ \E t \in Tasks : Creating(t)
    /\ UNCHANGED errors

Answer(t) ==
    \/ Exists(t) \/ FindCached(t) \/ FindListed(t)
    \/ Created(t) \/ CreateRaises(t)
    \/ WaitReturns(t) \/ WaitTimesOut(t)
    \/ CommandFails(t)

Call(t) == Execute(t) /\ UNCHANGED <<podVars, callVars, deleting, errors>>

TaskStep(t) == Call(t) \/ Enter(t) \/ Answer(t) \/ WaitRaises(t) \/ CommandEnds(t)

DeleteStep(e) == DeleteCall(e) \/ DeleteAccepted(e) \/ DeleteRaises(e)

Next ==
    \/ \E t \in Tasks : TaskStep(t)
    \/ \E e \in Executors : DeleteStep(e) \/ HostCloses(e)
    \/ PodAdvances \/ PodFails \/ PodGone
    \/ HostRestarts

Spec == Init /\ [][Next]_vars

(***************************************************************************)
(* asyncio.Lock is first come first served (SF).  An API call answers or   *)
(* raises, the wait for the pod has a deadline and a command a timeout     *)
(* (WF).  Nothing obliges a pod to start, or a command to end.             *)
(***************************************************************************)
FairSpec ==
    /\ Spec
    /\ \A t \in Tasks : SF_vars(Enter(t)) /\ WF_vars(Answer(t))

-----------------------------------------------------------------------------
(***************************************************************************)
(* The setup commands run once in a pod: "Shell commands to run on first   *)
(* container creation" (executor.py:90).                                   *)
(***************************************************************************)
SetupOnce == setups <= 1

(***************************************************************************)
(* It is so for a session that one executor serves at a time, as long as   *)
(* no API error was taken for "no such pod".  A pod a call waited for in   *)
(* vain is set up by whoever finds it still starting, one whose setup was  *)
(* interrupted is not set up again, and a creation whose reply was lost    *)
(* leaves a pod that is (executor.py:136-149, k8s_backend.py:237-243).     *)
(***************************************************************************)
SetupOnceUnlessMisread == errors = 0 => SetupOnce

(***************************************************************************)
(* No call runs a command in the pod while another call of its executor    *)
(* sets it up (executor.py:129-168), as long as it is the session's first  *)
(* pod: a later one has the same name, under which a command meant for the *)
(* earlier one reaches it (k8s_backend.py:62-65).                          *)
(***************************************************************************)
SetupIsExclusive ==
    pods <= 1 /\ errors = 0 =>
        \A t, u \in Tasks :
            ExecutorOf[t] = ExecutorOf[u] /\ stage[t] = "setup" => stage[u] # "exec"

(***************************************************************************)
(* Every call returns, whatever becomes of the pod: the wait for it has a  *)
(* deadline even when it cannot be read (k8s_backend.py:266-271).          *)
(***************************************************************************)
EveryCallReturns == \A t \in Tasks : (stage[t] # "idle") ~> (stage[t] = "idle")
=============================================================================
