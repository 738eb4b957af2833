-------------------------- MODULE K8sSessionProofs --------------------------
(***************************************************************************)
(* Proofs about K8sSession.  Its executor is an Executor, so what          *)
(* ExecutorProofs shows carries over; what the lock protects then follows  *)
(* from what the phases of a pod say about its past.                       *)
(***************************************************************************)
EXTENDS K8sSession, ExecutorProofs

LEMMA TaskStepRefines ==
    ASSUME NEW t \in Tasks, TaskStep(t)
    PROVE  ExecutorStep(t) \/ UNCHANGED executorVars
<1>1. CASE Call(t) \/ Enter(t)
  BY <1>1, Zenon DEF Call, Enter, ExecutorStep
<1>2. CASE Exists(t)
  <2>1. ExistsReturns(t, PhaseRunning) \/ ExistsReturns(t, FALSE)
    BY <1>2, Zenon DEF Exists
  <2>2. PhaseRunning \in BOOLEAN
    BY DEF PhaseRunning
  <2>3. QED
    BY <2>1, <2>2, Zenon DEF ExecutorStep
<1>3. CASE FindCached(t) \/ FindListed(t)
  <2>1. \/ \E found \in {Pod, None} : FindReturns(t, found)
        \/ UNCHANGED executorVars
    BY <1>3, Zenon DEF FindCached, FindListed
  <2>2. {Pod, None} \subseteq Ids \cup {None}
    BY K8sAssumption
  <2>3. QED
    BY <2>1, <2>2, Zenon DEF ExecutorStep
<1>4. CASE Created(t)
  BY <1>4, Zenon DEF Created
<1>5. CASE CreateRaises(t) \/ WaitTimesOut(t) \/ WaitRaises(t)
  BY <1>5, Zenon DEF CreateRaises, WaitTimesOut, WaitRaises, ExecutorStep
<1>6. CASE WaitReturns(t)
  <2>1. Pod \in Ids
    BY K8sAssumption
  <2>2. QED
    BY <1>6, <2>1, Zenon DEF WaitReturns, ExecutorStep
<1>7. CASE CommandEnds(t) \/ CommandFails(t)
  BY <1>7, Zenon DEF CommandEnds, CommandFails, ExecutorStep
<1>8. QED
  BY <1>1, <1>2, <1>3, <1>4, <1>5, <1>6, <1>7, Zenon DEF TaskStep, Answer

(* What the cluster and delete_container do, the executor does not see. *)
ClusterStep ==
    \/ \E e \in Executors : DeleteStep(e)
    \/ PodAdvances \/ PodFails \/ PodGone

LEMMA ClusterStepRefines == ClusterStep => UNCHANGED executorVars
BY Zenon DEF ClusterStep, DeleteStep, DeleteCall, DeleteAccepted, DeleteRaises,
   PodAdvances, PodFails, PodGone

LEMMA NextCases ==
    ASSUME [Next]_vars
    PROVE  \/ \E t \in Tasks : TaskStep(t)
           \/ ClusterStep
           \/ \E e \in Executors : HostCloses(e)
           \/ HostRestarts
           \/ UNCHANGED vars
BY Zenon DEF Next, ClusterStep

LEMMA NextRefines == [Next]_vars => [ExecutorNext]_executorVars
<1>1. ASSUME NEW t \in Tasks, TaskStep(t)
      PROVE  ExecutorNext \/ UNCHANGED executorVars
  BY <1>1, TaskStepRefines, Zenon DEF ExecutorNext
<1>2. ASSUME NEW e \in Executors, HostCloses(e)
      PROVE  ExecutorNext
  BY <1>2, Zenon DEF HostCloses, ExecutorNext
<1>3. HostRestarts => ExecutorNext
  BY Zenon DEF HostRestarts, ExecutorNext
<1>4. UNCHANGED vars => UNCHANGED executorVars
  BY Zenon DEF vars
<1>5. QED
  BY <1>1, <1>2, <1>3, <1>4, NextCases, ClusterStepRefines, Zenon

(***************************************************************************)
(* On Kubernetes, ContainerSandboxExecutor behaves as Executor specifies:  *)
(* the answers of k8s_backend.py, among them an API error taken for "no    *)
(* such pod" and a pod taken over, are answers a backend may give.         *)
(***************************************************************************)
THEOREM K8sImplementsExecutor == Spec => ExecutorSpec
<1>1. Init => ExecutorInit
  BY DEF Init
<1>2. QED
  BY <1>1, NextRefines, PTL DEF Spec, ExecutorSpec

LEMMA ExecutorInvHolds == Spec => []ExecutorInv
BY K8sImplementsExecutor, ExecutorInvariant, PTL

-----------------------------------------------------------------------------
PodTypes ==
    /\ phase \in Phases
    /\ terminating \in BOOLEAN
    /\ prepared \in BOOLEAN
    /\ setups \in 0..2
    /\ pods \in 0..MaxPods

LEMMA NewPodTypes ==
    ASSUME TypeOK, NewPod \/ UNCHANGED podVars
    PROVE  PodTypes'
<1>1. CASE NewPod
  <2>1. pods \in 0..MaxPods /\ pods < MaxPods /\ pods' = pods + 1
    BY <1>1 DEF TypeOK, NewPod
  <2>2. pods' \in 0..MaxPods
    BY <2>1, K8sAssumption
  <2>3. prepared' \in BOOLEAN /\ terminating' \in BOOLEAN
    BY <1>1, Zenon DEF NewPod, TypeOK
  <2>4. phase' \in Phases /\ setups' \in 0..2
    BY <1>1 DEF NewPod, Phases
  <2>5. QED
    BY <2>2, <2>3, <2>4, Zenon DEF PodTypes
<1>2. CASE UNCHANGED podVars
  BY <1>2 DEF podVars, TypeOK, PodTypes
<1>3. QED
  BY <1>1, <1>2

LEMMA TaskStepTypes ==
    ASSUME TypeOK, ExecutorInv, ExecutorTypeOK', NEW t \in Tasks, TaskStep(t)
    PROVE  TypeOK'
<1> USE K8sAssumption, ExecutorAssumption DEF TypeOK
<1>1. CASE Call(t)
  BY <1>1 DEF Call, Execute, Frame, podVars, callVars, ExecutorTypeOK
<1>2. CASE Enter(t)
  BY <1>2 DEF Enter, EntersFind, Acquire, Frame, podVars, ExecutorTypeOK
<1>3. CASE Exists(t)
  BY <1>3 DEF Exists, EntersFind, ExistsReturns, EnsureReturns, Frame, Misread,
     podVars, ExecutorTypeOK
<1>4. CASE FindCached(t)
  BY <1>4 DEF FindCached, FindReturns, EnsureReturns, Frame, Misread, podVars,
     executorVars, ExecutorTypeOK
<1>5. CASE FindListed(t)
  BY <1>5 DEF FindListed, FindReturns, EnsureReturns, Frame, Misread, podVars,
     ExecutorTypeOK
<1>6. CASE Created(t)
  <2>1. PodTypes'
    BY <1>6, NewPodTypes DEF Created
  <2>2. QED
    BY <1>6, <2>1 DEF Created, Creating, PodTypes, executorVars
<1>7. CASE CreateRaises(t)
  <2>1. PodTypes'
    BY <1>7, NewPodTypes DEF CreateRaises
  <2>2. QED
    BY <1>7, <2>1 DEF CreateRaises, Creating, EnsureRaises, Frame, PodTypes, callVars,
       ExecutorTypeOK
<1>8. CASE WaitReturns(t)
  BY <1>8 DEF WaitReturns, CreateReturns, EnsureReturns, Frame, ExecutorTypeOK
<1>9. CASE WaitTimesOut(t) \/ WaitRaises(t)
  BY <1>9 DEF WaitTimesOut, WaitRaises, EnsureRaises, Frame, podVars, ExecutorTypeOK
<1>10. CASE CommandEnds(t)
  <2>1. prepared' \in BOOLEAN
    BY <1>10, Zenon DEF CommandEnds
  <2>2. QED
    BY <1>10, <2>1 DEF CommandEnds, SetupReturns, EnsureReturns, ExecReturns, Frame,
       callVars, ExecutorTypeOK
<1>11. CASE CommandFails(t)
  BY <1>11 DEF CommandFails, EnsureRaises, ExecReturns, Frame, podVars, callVars,
     ExecutorTypeOK
<1>12. QED
  BY <1>1, <1>2, <1>3, <1>4, <1>5, <1>6, <1>7, <1>8, <1>9, <1>10, <1>11, Zenon
  DEF TaskStep, Answer

LEMMA OtherStepTypes ==
    ASSUME TypeOK, ExecutorTypeOK',
           \/ ClusterStep
           \/ \E e \in Executors : HostCloses(e)
           \/ HostRestarts
           \/ UNCHANGED vars
    PROVE  TypeOK'
<1> USE K8sAssumption DEF TypeOK
<1>1. ASSUME NEW e \in Executors, DeleteStep(e)
      PROVE  TypeOK'
  BY <1>1 DEF DeleteStep, DeleteCall, DeleteAccepted, DeleteRaises, podVars,
     callVars, executorVars
<1>2. CASE PodAdvances \/ PodFails \/ PodGone
  BY <1>2 DEF PodAdvances, PodFails, PodGone, Phases, callVars, executorVars
<1>3. ASSUME NEW e \in Executors, HostCloses(e)
      PROVE  TypeOK'
  BY <1>3 DEF HostCloses, Close, podVars, callVars
<1>4. CASE HostRestarts
  <2>1. PodTypes'
    BY <1>4, NewPodTypes DEF HostRestarts
  <2>2. QED
    BY <1>4, <2>1 DEF HostRestarts, PodTypes
<1>5. CASE UNCHANGED vars
  BY <1>5 DEF vars, podVars, callVars, executorVars
<1>6. QED
  BY <1>1, <1>2, <1>3, <1>4, <1>5 DEF ClusterStep

(***************************************************************************)
(* The types of the session's state; in particular a call is past the      *)
(* backend's cache only inside find_container, and waits for the pod only  *)
(* inside create_container.                                                *)
(***************************************************************************)
THEOREM K8sTypes == Spec => []TypeOK
<1>1. Init => TypeOK
  <2>1. Init => ExecutorTypeOK
    BY InitEstablishes DEF Init, ExecutorInv
  <2>2. Init => terminating \in BOOLEAN /\ prepared \in BOOLEAN
    BY Zenon DEF Init
  <2>3. QED
    BY <2>1, <2>2, K8sAssumption DEF Init, TypeOK, Phases
<1>2. TypeOK /\ ExecutorInv /\ ExecutorInv' /\ [Next]_vars => TypeOK'
  BY NextCases, TaskStepTypes, OtherStepTypes, Zenon DEF ExecutorInv
<1>3. QED
  BY <1>1, <1>2, ExecutorInvHolds, PTL DEF Spec

-----------------------------------------------------------------------------
(***************************************************************************)
(* What a call's step may change.  It enters the creation only when it saw *)
(* the pod not running or an error was taken for that, and it gets to run  *)
(* a command only when it saw the pod running.                             *)
(***************************************************************************)
NotRunning == {"absent", "failed"}

Enters(t) ==
    /\ stage'[t] = "create" =>
           \/ stage[t] = "create"
           \/ phase' = phase /\ setups' = setups /\ (PhaseRunning => errors' # 0)
    /\ stage'[t] = "setup" =>
           \/ stage[t] = "setup"
           \/ stage[t] = "create" /\ phase = "running" /\ phase' = phase
    /\ stage'[t] = "exec" =>
           \/ stage[t] = "exec"
           \/ stage[t] \in Critical /\ PhaseRunning /\ phase' = phase

LEMMA TaskStages ==
    ASSUME TypeOK, ExecutorInv, NEW w \in Tasks, TaskStep(w)
    PROVE  /\ Enters(w)
           /\ \A t \in Tasks \ {w} : stage'[t] = stage[t]
<1> USE K8sAssumption, ExecutorAssumption
    DEF TypeOK, ExecutorTypeOK, Enters, Critical, Frame
<1>1. CASE Call(w) \/ Enter(w)
  BY <1>1 DEF Call, Enter, Execute, Acquire
<1>2. CASE Exists(w)
  <2>1. /\ UNCHANGED podVars
        /\ \/ PhaseRunning /\ ExistsReturns(w, TRUE)
           \/ ExistsReturns(w, FALSE)
    BY <1>2 DEF Exists, ExistsReturns
  <2>2. QED
    BY <2>1 DEF ExistsReturns, EnsureReturns, podVars
<1>3. CASE FindCached(w)
  BY <1>3 DEF FindCached, FindReturns, EnsureReturns, executorVars, podVars
<1>4. CASE FindListed(w)
  BY <1>4 DEF FindListed, FindReturns, EnsureReturns, Misread, podVars
<1>5. CASE Created(w)
  BY <1>5 DEF Created, executorVars
<1>6. CASE CreateRaises(w) \/ WaitTimesOut(w) \/ WaitRaises(w)
  BY <1>6 DEF CreateRaises, WaitTimesOut, WaitRaises, EnsureRaises
<1>7. CASE WaitReturns(w)
  BY <1>7 DEF WaitReturns, Ready, CreateReturns, EnsureReturns, PhaseRunning
<1>8. CASE CommandEnds(w)
  BY <1>8 DEF CommandEnds, SetupReturns, EnsureReturns, ExecReturns
<1>9. CASE CommandFails(w)
  BY <1>9 DEF CommandFails, EnsureRaises, ExecReturns
<1>10. QED
  BY <1>1, <1>2, <1>3, <1>4, <1>5, <1>6, <1>7, <1>8, <1>9, Zenon
  DEF TaskStep, Answer

PodUnchanged == phase' = phase /\ setups' = setups /\ pods' = pods

LEMMA TaskPods ==
    ASSUME NEW w \in Tasks, TaskStep(w)
    PROVE  PodUnchanged \/ NewPod \/ WaitReturns(w)
BY Zenon DEF TaskStep, Answer, Call, Enter, Exists, FindCached, FindListed, Created,
   CreateRaises, WaitTimesOut, WaitRaises, CommandEnds, CommandFails, podVars,
   PodUnchanged

(* Neither count is ever reset, not even by a restart of the host. *)
LEMMA CountsGrow ==
    ASSUME TypeOK, [Next]_vars
    PROVE  pods' \in Nat /\ pods' >= pods /\ (errors' = 0 => errors = 0)
<1>1. pods \in Nat /\ errors \in Nat
  BY DEF TypeOK
<1>2. NewPod => pods' \in Nat /\ pods' >= pods
  BY <1>1 DEF NewPod
<1>3. Misread => errors' # 0
  BY <1>1 DEF Misread
<1>4. ASSUME NEW w \in Tasks, TaskStep(w)
      PROVE  pods' \in Nat /\ pods' >= pods /\ (errors' = 0 => errors = 0)
  <2>1. pods' \in Nat /\ pods' >= pods
    BY <1>1, <1>2, <1>4, TaskPods DEF PodUnchanged, WaitReturns
  <2>2. errors' = errors \/ Misread
    BY <1>4, Zenon DEF TaskStep, Answer, Call, Enter, Exists, FindCached, FindListed,
       Created, CreateRaises, WaitReturns, WaitTimesOut, WaitRaises, CommandEnds,
       CommandFails
  <2>3. QED
    BY <1>3, <2>1, <2>2
<1>5. CASE ClusterStep
  BY <1>1, <1>5 DEF ClusterStep, DeleteStep, DeleteCall, DeleteAccepted, DeleteRaises,
     PodAdvances, PodFails, PodGone, podVars
<1>6. ASSUME NEW e \in Executors, HostCloses(e)
      PROVE  pods' \in Nat /\ pods' >= pods /\ (errors' = 0 => errors = 0)
  BY <1>1, <1>6 DEF HostCloses, podVars
<1>7. CASE HostRestarts \/ UNCHANGED vars
  BY <1>1, <1>2, <1>7 DEF HostRestarts, vars, podVars
<1>8. QED
  BY <1>4, <1>5, <1>6, <1>7, NextCases

LEMMA OneInside ==
    ASSUME ExecutorInv, NEW t \in Tasks, NEW u \in Tasks,
           ExecutorOf[t] = ExecutorOf[u],
           stage[t] \in Critical, stage[u] \in Critical
    PROVE  t = u
BY DEF ExecutorInv, LockInv

-----------------------------------------------------------------------------
(***************************************************************************)
(* What the phase says about the past: a pod that is still pending was     *)
(* never set up, and the first pod, once a command was sent to it, is not  *)
(* pending any more.                                                       *)
(***************************************************************************)
PodHistory ==
    /\ pods = 0 => phase = "absent"
    /\ phase = "pending" => setups = 0
    /\ \A t \in Tasks : stage[t] \in {"setup", "exec"} =>
           /\ pods # 0
           /\ pods <= 1 => phase # "pending"

LEMMA HistoryStep ==
    ASSUME TypeOK, ExecutorInv, PodHistory, [Next]_vars
    PROVE  PodHistory'
<1>0. pods \in Nat /\ phase \in Phases
  BY DEF TypeOK
<1> USE <1>0 DEF PodHistory
<1>1. ASSUME NewPod, \A t \in Tasks : stage'[t] \in {"setup", "exec"} => stage'[t] = stage[t]
      PROVE  PodHistory'
  BY <1>1 DEF NewPod
<1>2. ASSUME NEW w \in Tasks, TaskStep(w)
      PROVE  PodHistory'
  <2>1. CASE NewPod
    <3>1. \A t \in Tasks : stage'[t] \in {"setup", "exec"} => stage'[t] = stage[t]
      BY <1>2, <2>1, TaskStages DEF Enters, NewPod
    <3>2. QED
      BY <1>1, <2>1, <3>1
  <2>2. CASE PodUnchanged
    BY <1>2, <2>2, TaskStages DEF PodUnchanged, Enters, PhaseRunning
  <2>3. CASE WaitReturns(w)
    <3>1. phase' = "running" /\ phase = "running" /\ pods' = pods
      BY <2>3 DEF WaitReturns, Ready
    <3>2. QED
      BY <3>1
  <2>4. QED
    BY <1>2, <2>1, <2>2, <2>3, TaskPods
<1>3. CASE ClusterStep
  <2>1. stage' = stage
    BY <1>3, ClusterStepRefines DEF executorVars
  <2>2. QED
    BY <1>3, <2>1 DEF ClusterStep, DeleteStep, DeleteCall, DeleteAccepted,
       DeleteRaises, PodAdvances, PodFails, PodGone, podVars
<1>4. ASSUME NEW e \in Executors, HostCloses(e)
      PROVE  PodHistory'
  BY <1>4 DEF HostCloses, Close, podVars
<1>5. CASE HostRestarts
  BY <1>5 DEF HostRestarts, Restart, NewPod, podVars
<1>6. CASE UNCHANGED vars
  BY <1>6 DEF vars, podVars, executorVars
<1>7. QED
  BY <1>2, <1>3, <1>4, <1>5, <1>6, NextCases

(***************************************************************************)
(* While a call of the executor runs a command in the first pod, another   *)
(* gets to the creation only after that pod failed or went away, and so    *)
(* never to its setup.                                                     *)
(***************************************************************************)
KeptOut ==
    pods <= 1 /\ errors = 0 =>
        \A t, u \in Tasks :
            ExecutorOf[t] = ExecutorOf[u] /\ stage[u] = "exec" =>
                /\ stage[t] # "setup"
                /\ stage[t] = "create" => phase \in NotRunning

LEMMA KeptOutStep ==
    ASSUME TypeOK, ExecutorInv, PodHistory, KeptOut, [Next]_vars
    PROVE  KeptOut'
<1> SUFFICES ASSUME pods' <= 1, errors' = 0,
                    NEW t \in Tasks, NEW u \in Tasks,
                    ExecutorOf[t] = ExecutorOf[u], stage'[u] = "exec"
             PROVE  /\ stage'[t] # "setup"
                    /\ stage'[t] = "create" => phase' \in NotRunning
  BY DEF KeptOut
<1>1. pods \in Nat /\ phase \in Phases /\ pods' \in Nat /\ pods' >= pods
      /\ errors = 0
  BY CountsGrow DEF TypeOK
<1>2. pods <= 1
  BY <1>1
<1>3. CASE stage' = stage /\ phase' = phase
  BY <1>1, <1>2, <1>3 DEF KeptOut
<1>4. ASSUME NEW w \in Tasks, TaskStep(w)
      PROVE  /\ stage'[t] # "setup"
             /\ stage'[t] = "create" => phase' \in NotRunning
  <2>1. CASE stage[u] = "exec"
    <3>1. stage[t] = "create" => phase \in NotRunning /\ ~ NewPod
      BY <1>1, <1>2, <2>1 DEF KeptOut, PodHistory, NewPod
    <3>2. phase # "pending" /\ stage[t] # "setup"
      BY <1>1, <1>2, <2>1 DEF KeptOut, PodHistory
    <3>3. phase' = phase \/ NewPod
      BY <1>4, TaskPods DEF PodUnchanged, WaitReturns
    <3>4. stage'[t] = stage[t] \/ Enters(t)
      BY <1>4, TaskStages
    <3>5. QED
      BY <1>1, <3>1, <3>2, <3>3, <3>4 DEF Enters, PhaseRunning, NotRunning, Phases
  <2>2. CASE stage[u] # "exec"
    <3>1. u = w /\ stage[u] \in Critical
      BY <1>4, <2>2, TaskStages DEF Enters
    <3>2. CASE t = u
      BY <3>2
    <3>3. CASE t # u
      <4>1. stage'[t] = stage[t]
        BY <1>4, <3>1, <3>3, TaskStages
      <4>2. stage[t] \notin Critical
        BY <3>1, <3>3, OneInside
      <4>3. QED
        BY <4>1, <4>2 DEF Critical
    <3>4. QED
      BY <3>2, <3>3
  <2>3. QED
    BY <2>1, <2>2
<1>5. CASE ClusterStep
  <2>1. stage' = stage
    BY <1>5, ClusterStepRefines DEF executorVars
  <2>2. phase \in NotRunning => phase' \in NotRunning
    BY <1>5 DEF ClusterStep, DeleteStep, DeleteCall, DeleteAccepted, DeleteRaises,
       PodAdvances, PodFails, PodGone, podVars, NotRunning
  <2>3. QED
    BY <1>1, <1>2, <2>1, <2>2 DEF KeptOut
<1>6. ASSUME NEW e \in Executors, HostCloses(e)
      PROVE  stage' = stage /\ phase' = phase
  BY <1>6 DEF HostCloses, Close, podVars
<1>7. CASE HostRestarts
  BY <1>7 DEF HostRestarts, Restart
<1>8. CASE UNCHANGED vars
  BY <1>3, <1>8 DEF vars, podVars, executorVars
<1>9. QED
  BY <1>3, <1>4, <1>5, <1>6, <1>7, <1>8, NextCases

(***************************************************************************)
(* No call runs a command in the session's first pod while another call of *)
(* its executor sets it up (executor.py:129-168), as long as no API error  *)
(* was taken for "no such pod".                                            *)
(***************************************************************************)
THEOREM K8sSetupExclusive == Spec => []SetupIsExclusive
<1>1. Init => PodHistory /\ KeptOut
  BY DEF Init, ExecutorInit, PodHistory, KeptOut
<1>2. TypeOK /\ ExecutorInv /\ PodHistory /\ KeptOut /\ [Next]_vars
      => PodHistory' /\ KeptOut'
  BY HistoryStep, KeptOutStep
<1>3. KeptOut => SetupIsExclusive
  BY DEF KeptOut, SetupIsExclusive
<1>4. QED
  BY <1>1, <1>2, <1>3, K8sTypes, ExecutorInvHolds, PTL DEF Spec

-----------------------------------------------------------------------------
(***************************************************************************)
(* A pod is set up at most once, and no call is about to set up again one  *)
(* that may still become ready.                                            *)
(***************************************************************************)
SetupFirst ==
    errors = 0 =>
        /\ setups <= 1
        /\ \A t \in Tasks :
               stage[t] = "create" => setups = 0 \/ phase \in NotRunning

LEMMA SetupFirstStep ==
    ASSUME \A e, f \in Executors : e = f,
           TypeOK, ExecutorInv, PodHistory, SetupFirst, [Next]_vars
    PROVE  SetupFirst'
<1> SUFFICES ASSUME errors' = 0
             PROVE  /\ setups' <= 1
                    /\ \A t \in Tasks : stage'[t] = "create" =>
                           setups' = 0 \/ phase' \in NotRunning
  BY DEF SetupFirst
<1>1. errors = 0 /\ setups \in 0..2 /\ phase \in Phases
  BY CountsGrow DEF TypeOK
<1>2. CASE NewPod
  BY <1>2 DEF NewPod
<1>3. ASSUME NEW w \in Tasks, TaskStep(w)
      PROVE  /\ setups' <= 1
             /\ \A t \in Tasks : stage'[t] = "create" =>
                    setups' = 0 \/ phase' \in NotRunning
  <2>1. CASE PodUnchanged
    <3>1. \A t \in Tasks : stage'[t] = stage[t] \/ Enters(t)
      BY <1>3, TaskStages
    <3>2. QED
      BY <1>1, <2>1, <3>1
      DEF PodUnchanged, SetupFirst, Enters, PhaseRunning, PodHistory, NotRunning, Phases
  <2>2. CASE WaitReturns(w)
    <3>1. /\ phase = "running"
          /\ stage[w] = "create"
          /\ stage'[w] # "create"
          /\ setups' = IF setups = 2 THEN 2 ELSE setups + 1
      BY <2>2 DEF WaitReturns, Ready, CreateReturns, EnsureReturns, Frame, TypeOK,
         ExecutorTypeOK
    <3>2. setups = 0
      BY <1>1, <3>1 DEF SetupFirst, NotRunning
    <3>3. ASSUME NEW t \in Tasks, stage'[t] = "create"
          PROVE  FALSE
      <4>1. t # w /\ stage[t] = "create"
        BY <1>3, <3>1, <3>3, TaskStages DEF Enters
      <4>2. ExecutorOf[t] = ExecutorOf[w]
        BY ExecutorAssumption
      <4>3. QED
        BY <3>1, <4>1, <4>2, OneInside DEF Critical
    <3>4. QED
      BY <3>1, <3>2, <3>3
  <2>3. QED
    BY <1>2, <1>3, <2>1, <2>2, TaskPods
<1>4. CASE ClusterStep
  <2>1. stage' = stage
    BY <1>4, ClusterStepRefines DEF executorVars
  <2>2. /\ setups' = setups
        /\ \/ phase \in NotRunning => phase' \in NotRunning
           \/ phase = "pending"
    BY <1>4 DEF ClusterStep, DeleteStep, DeleteCall, DeleteAccepted, DeleteRaises,
       PodAdvances, PodFails, PodGone, podVars, NotRunning
  <2>3. QED
    BY <1>1, <2>1, <2>2 DEF SetupFirst, PodHistory
<1>5. ASSUME NEW e \in Executors, HostCloses(e)
      PROVE  stage' = stage /\ phase' = phase /\ setups' = setups
  BY <1>5 DEF HostCloses, Close, podVars
<1>6. CASE HostRestarts
  BY <1>1, <1>2, <1>6 DEF HostRestarts, Restart, SetupFirst, podVars
<1>7. CASE UNCHANGED vars
  BY <1>1, <1>7 DEF SetupFirst, vars, podVars, executorVars
<1>8. QED
  BY <1>1, <1>3, <1>4, <1>5, <1>6, <1>7, NextCases DEF SetupFirst

(***************************************************************************)
(* "Shell commands to run on first container creation" (executor.py:90)    *)
(* run at most once in a pod, across failed waits, lost replies and        *)
(* restarts of the host, when one executor serves the session and no API   *)
(* error was taken for "no such pod".                                      *)
(***************************************************************************)
THEOREM K8sSetupOnce ==
    ASSUME \A e, f \in Executors : e = f
    PROVE  Spec => []SetupOnceUnlessMisread
<1>1. Init => PodHistory /\ SetupFirst
  BY DEF Init, ExecutorInit, PodHistory, SetupFirst
<1>2. TypeOK /\ ExecutorInv /\ PodHistory /\ SetupFirst /\ [Next]_vars
      => PodHistory' /\ SetupFirst'
  BY HistoryStep, SetupFirstStep
<1>3. SetupFirst => SetupOnceUnlessMisread
  BY DEF SetupFirst, SetupOnceUnlessMisread, SetupOnce
<1>4. QED
  BY <1>1, <1>2, <1>3, K8sTypes, ExecutorInvHolds, PTL DEF Spec
=============================================================================
