------------------------ MODULE DockerSessionProofs ------------------------
(***************************************************************************)
(* Proofs about DockerSession.  Its executor is an Executor, so what       *)
(* ExecutorProofs shows carries over; with the lock exact, the number of   *)
(* running containers and the exclusivity of the setup loop follow.        *)
(***************************************************************************)
EXTENDS DockerSession, ExecutorProofs, FiniteSetTheorems

(***************************************************************************)
(* A step of a call on Docker is a step of the executor before some        *)
(* backend, or leaves the executor alone (a thread starts, a handle is     *)
(* obtained).                                                              *)
(***************************************************************************)
LEMMA TaskStepRefines ==
    ASSUME NEW t \in Tasks, TaskStep(t)
    PROVE  ExecutorStep(t) \/ UNCHANGED executorVars
<1>1. CASE Exists(t)
  <2>1. PICK running \in {FALSE, container[bound[t]] = "running"} :
            ExistsReturns(t, running)
    BY <1>1, Zenon DEF Exists
  <2>2. running \in BOOLEAN
    BY <2>1, Zenon
  <2>3. QED
    BY <2>1, <2>2, Zenon DEF ExecutorStep
<1>2. CASE Find(t)
  <2>1. PICK found \in Ids \cup {None} : FindReturns(t, found)
    BY <1>2, Zenon DEF Find, Running
  <2>2. QED
    BY <2>1, Zenon DEF ExecutorStep
<1>3. CASE Create(t)
  <2>1. PICK id \in Ids : CreateReturns(t, id)
    BY <1>3, Zenon DEF Create, Fresh
  <2>2. QED
    BY <2>1, Zenon DEF ExecutorStep
<1>4. CASE CallRaises(t) \/ CreateAbandoned(t)
  BY <1>4, Zenon DEF CallRaises, CreateAbandoned, ExecutorStep
<1>5. CASE CommandEnds(t)
  BY <1>5, Zenon DEF CommandEnds, CommandReturns, ExecutorStep
<1>6. CASE CommandRaises(t) \/ CommandTimesOut(t)
  BY <1>6, Zenon DEF CommandRaises, CommandTimesOut, CommandFails, ExecutorStep
<1>7. CASE StartThread(t) \/ GetHandle(t)
  BY <1>7, Zenon DEF StartThread, GetHandle
<1>8. CASE Execute(t) \/ Acquire(t)
  BY <1>8, Zenon DEF ExecutorStep
<1>9. QED
  BY <1>1, <1>2, <1>3, <1>4, <1>5, <1>6, <1>7, <1>8, Zenon DEF TaskStep, Answer

LEMMA NextRefines == [Next]_vars => [ExecutorNext]_executorVars
<1>1. ASSUME NEW t \in Tasks, TaskStep(t)
      PROVE  ExecutorNext \/ UNCHANGED executorVars
  BY <1>1, TaskStepRefines, Zenon DEF ExecutorNext
<1>2. ASSUME NEW id \in Ids, DeleteStep(id) \/ LateCreate(id) \/ Die(id)
      PROVE  UNCHANGED executorVars
  BY <1>2, Zenon DEF DeleteStep, DeleteCall, DeleteGet, DeleteStop, DeleteRemove,
     DeleteRaises, LateCreate, Die
<1>3. ASSUME NEW e \in Executors, HostCloses(e)
      PROVE  ExecutorNext
  BY <1>3, Zenon DEF HostCloses, ExecutorNext
<1>4. StrayEnds => UNCHANGED executorVars
  BY Zenon DEF StrayEnds
<1>5. HostRestarts => ExecutorNext
  BY Zenon DEF HostRestarts, ExecutorNext
<1>6. UNCHANGED vars => UNCHANGED executorVars
  BY Zenon DEF vars
<1>7. QED
  BY <1>1, <1>2, <1>3, <1>4, <1>5, <1>6, Zenon DEF Next

(***************************************************************************)
(* On Docker, ContainerSandboxExecutor behaves as Executor specifies: the  *)
(* answers of docker_backend.py are answers a backend may give.            *)
(***************************************************************************)
THEOREM DockerImplementsExecutor == Spec => ExecutorSpec
<1>1. Init => ExecutorInit
  BY DEF Init
<1>2. QED
  BY <1>1, NextRefines, PTL DEF Spec, ExecutorSpec

LEMMA ExecutorInvHolds == Spec => []ExecutorInv
BY DockerImplementsExecutor, ExecutorInvariant, PTL

-----------------------------------------------------------------------------
(* The thread pool never has more calls than threads. *)
LEMMA WorkingIsFinite ==
    ASSUME TypeOK, NEW t
    PROVE  /\ IsFiniteSet(working)
           /\ Cardinality(working) \in Nat
           /\ Cardinality(working \cup {t}) <= Cardinality(working) + 1
           /\ Cardinality(working \ {t}) =
                  IF t \in working THEN Cardinality(working) - 1
                                   ELSE Cardinality(working)
<1>1. IsFiniteSet(working)
  BY DockerAssumption, FS_Subset DEF TypeOK
<1>2. QED
  BY <1>1, FS_CardinalityType, FS_AddElement, FS_RemoveElement

LEMMA TaskStepTypes ==
    ASSUME TypeOK, ExecutorInv, ExecutorTypeOK', NEW t \in Tasks, TaskStep(t)
    PROVE  TypeOK'
<1>0. /\ IsFiniteSet(working)
      /\ Cardinality(working) \in Nat
      /\ Cardinality(working \cup {t}) <= Cardinality(working) + 1
      /\ Cardinality(working \ {t}) =
             IF t \in working THEN Cardinality(working) - 1
                              ELSE Cardinality(working)
  BY WorkingIsFinite
<1> USE DockerAssumption, <1>0 DEF TypeOK
<1>1. CASE StartThread(t)
  <2>1. /\ working' = working \cup {t}
        /\ Cardinality(working) + stray < PoolSize
        /\ stray' = stray
    BY <1>1 DEF StartThread, FreeThread
  <2>2. /\ Cardinality(working \cup {t}) \in Nat
        /\ Cardinality(working \cup {t}) <= Cardinality(working) + 1
    BY FS_AddElement, FS_CardinalityType
  <2>3. Cardinality(working') + stray' <= PoolSize
    BY <2>1, <2>2
  <2>4. QED
    BY <1>1, <2>3 DEF StartThread
<1>2. CASE Exists(t)
  BY <1>2 DEF Exists, ThreadDone
<1>3. CASE Find(t)
  BY <1>3 DEF Find, ThreadDone
<1>4. CASE Create(t)
  BY <1>4 DEF Create, ThreadDone, Fresh
<1>5. CASE CallRaises(t)
  BY <1>5 DEF CallRaises, ThreadDone
<1>6. CASE CreateAbandoned(t)
  BY <1>6 DEF CreateAbandoned, ThreadDone
<1>7. CASE GetHandle(t)
  BY <1>7 DEF GetHandle, ThreadDone
<1>8. CASE CommandEnds(t)
  BY <1>8 DEF CommandEnds, ThreadDone
<1>9. CASE CommandRaises(t)
  BY <1>9 DEF CommandRaises, CommandFails, ThreadDone
<1>10. CASE CommandTimesOut(t)
  <2>1. /\ working' = working \ {t}
        /\ stray' = IF t \in working THEN stray + 1 ELSE stray
    BY <1>10 DEF CommandTimesOut
  <2>2. Cardinality(working \ {t}) \in Nat
    BY FS_RemoveElement, FS_CardinalityType
  <2>3. /\ stray' \in Nat
        /\ Cardinality(working') \in Nat
        /\ Cardinality(working') + stray' = Cardinality(working) + stray
    BY <2>1, <2>2
  <2>4. QED
    BY <1>10, <2>1, <2>3 DEF CommandTimesOut, CommandFails
<1>11. CASE UNCHANGED dockerVars
  BY <1>11 DEF dockerVars
<1>12. QED
  BY <1>1, <1>2, <1>3, <1>4, <1>5, <1>6, <1>7, <1>8, <1>9, <1>10, <1>11
  DEF TaskStep, Answer

LEMMA OtherStepTypes ==
    ASSUME TypeOK, ExecutorTypeOK',
           \/ \E id \in Ids : DeleteStep(id) \/ LateCreate(id) \/ Die(id)
           \/ \E e \in Executors : HostCloses(e)
           \/ StrayEnds
           \/ HostRestarts
    PROVE  TypeOK'
<1>0. IsFiniteSet(working) /\ Cardinality(working) \in Nat
  BY WorkingIsFinite
<1> USE DockerAssumption, <1>0 DEF TypeOK
<1>1. ASSUME NEW id \in Ids, DeleteStep(id)
      PROVE  TypeOK'
  BY <1>1 DEF DeleteStep, DeleteCall, DeleteGet, DeleteStop, DeleteRemove,
     DeleteRaises
<1>2. ASSUME NEW id \in Ids, LateCreate(id)
      PROVE  TypeOK'
  BY <1>2 DEF LateCreate
<1>3. ASSUME NEW id \in Ids, Die(id)
      PROVE  TypeOK'
  BY <1>3 DEF Die
<1>4. ASSUME NEW e \in Executors, HostCloses(e)
      PROVE  TypeOK'
  BY <1>4 DEF HostCloses, dockerVars
<1>5. CASE StrayEnds
  <2>1. stray > 0 /\ stray' = stray - 1 /\ working' = working
    BY <1>5 DEF StrayEnds
  <2>2. stray' \in 0..PoolSize /\ Cardinality(working') + stray' <= PoolSize
    BY <2>1
  <2>3. QED
    BY <1>5, <2>2 DEF StrayEnds
<1>6. CASE HostRestarts
  <2> DEFINE sent == {t \in working : stage[t] = "create"}
  <2>1. Cardinality(sent) \in Nat
    BY FS_Subset, FS_CardinalityType
  <2>2. /\ late' = late + Cardinality(sent)
        /\ abandoned' = abandoned + Cardinality(sent)
    BY <1>6 DEF HostRestarts
  <2>3. late' \in Nat /\ abandoned' \in Nat
    BY <2>1, <2>2
  <2>4. Cardinality(working') + stray' <= PoolSize
    BY <1>6, FS_EmptySet DEF HostRestarts
  <2>5. QED
    BY <1>6, <2>3, <2>4 DEF HostRestarts
<1>7. QED
  BY <1>1, <1>2, <1>3, <1>4, <1>5, <1>6

(***************************************************************************)
(* The types of the session's state; in particular the calls being served  *)
(* and the threads kept by abandoned commands never exceed the pool.       *)
(***************************************************************************)
THEOREM DockerTypes == Spec => []TypeOK
<1>1. Init => TypeOK
  BY DockerAssumption, InitEstablishes, FS_EmptySet
  DEF Init, TypeOK, ExecutorInv
<1>2. TypeOK /\ ExecutorInv /\ ExecutorInv' /\ [Next]_vars => TypeOK'
  <2>1. CASE UNCHANGED vars
    BY <2>1 DEF vars, executorVars, dockerVars, TypeOK, ExecutorTypeOK
  <2>2. CASE Next
    BY <2>2, TaskStepTypes, OtherStepTypes, Zenon DEF Next, ExecutorInv
  <2>3. QED
    BY <2>1, <2>2
<1>3. QED
  BY <1>1, <1>2, ExecutorInvHolds, PTL DEF Spec

-----------------------------------------------------------------------------
(***************************************************************************)
(* Why the running containers are bounded.  An executor about to create    *)
(* one counts as much as a container: it enters that stage only when it    *)
(* saw none running, and leaves it when its container runs, when it fails, *)
(* or when it hands its place to a late creation.                          *)
(***************************************************************************)
CreatingExecutors ==
    {e \in Executors : \E t \in Tasks : ExecutorOf[t] = e /\ stage[t] = "create"}

CreationCount ==
    /\ IsFiniteSet(Running)
    /\ late <= abandoned
    /\ Cardinality(Running) + Cardinality(CreatingExecutors) + late
           <= Cardinality(Executors) + abandoned

LEMMA CountTypes ==
    ASSUME CreationCount
    PROVE  /\ Cardinality(Running) \in Nat
           /\ IsFiniteSet(CreatingExecutors)
           /\ Cardinality(CreatingExecutors) \in Nat
           /\ Cardinality(Executors) \in Nat
<1>1. IsFiniteSet(CreatingExecutors)
  BY DockerAssumption, FS_Subset DEF CreatingExecutors
<1>2. QED
  BY <1>1, DockerAssumption, FS_CardinalityType DEF CreationCount

(* Nothing new is running or being created. *)
LEMMA FewerPreserves ==
    ASSUME TypeOK, CreationCount,
           Running' \subseteq Running,
           CreatingExecutors' \subseteq CreatingExecutors,
           NEW n \in Nat, late' = late + n, abandoned' = abandoned + n
    PROVE  CreationCount'
<1>1. /\ IsFiniteSet(Running')
      /\ Cardinality(Running') \in Nat
      /\ Cardinality(Running') <= Cardinality(Running)
  BY FS_Subset, FS_CardinalityType DEF CreationCount
<1>2. /\ Cardinality(CreatingExecutors') \in Nat
      /\ Cardinality(CreatingExecutors') <= Cardinality(CreatingExecutors)
  BY CountTypes, FS_Subset, FS_CardinalityType
<1>3. late \in Nat /\ abandoned \in Nat
  BY DEF TypeOK
<1>4. QED
  BY <1>1, <1>2, <1>3, CountTypes DEF CreationCount

(* One more container runs, in the place of a creation that was counted. *)
LEMMA OneMorePreserves ==
    ASSUME TypeOK, CreationCount, NEW id \in Ids,
           Running' = Running \cup {id},
           abandoned' = abandoned,
           \/ /\ late' = late
              /\ \E e \in CreatingExecutors :
                     CreatingExecutors' \subseteq CreatingExecutors \ {e}
           \/ /\ late > 0
              /\ late' = late - 1
              /\ CreatingExecutors' = CreatingExecutors
    PROVE  CreationCount'
<1>1. /\ IsFiniteSet(Running')
      /\ Cardinality(Running') \in Nat
      /\ Cardinality(Running') <= Cardinality(Running) + 1
  <2>1. IsFiniteSet(Running) /\ Cardinality(Running) \in Nat
    BY CountTypes DEF CreationCount
  <2>2. /\ IsFiniteSet(Running \cup {id})
        /\ Cardinality(Running \cup {id}) <= Cardinality(Running) + 1
    BY <2>1, FS_AddElement
  <2>3. QED
    BY <2>2, FS_CardinalityType
<1>2. late \in Nat /\ abandoned \in Nat
  BY DEF TypeOK
<1>3. CASE late' = late
  <2>1. PICK e \in CreatingExecutors :
            CreatingExecutors' \subseteq CreatingExecutors \ {e}
    BY <1>2, <1>3
  <2>2. /\ IsFiniteSet(CreatingExecutors \ {e})
        /\ Cardinality(CreatingExecutors \ {e}) = Cardinality(CreatingExecutors) - 1
    BY <2>1, CountTypes, FS_RemoveElement
  <2>3. /\ Cardinality(CreatingExecutors') \in Nat
        /\ Cardinality(CreatingExecutors') <= Cardinality(CreatingExecutors) - 1
    BY <2>1, <2>2, FS_Subset, FS_CardinalityType
  <2>4. QED
    BY <1>1, <1>2, <1>3, <2>3, CountTypes DEF CreationCount
<1>4. CASE late' # late
  BY <1>1, <1>2, <1>4, CountTypes DEF CreationCount
<1>5. QED
  BY <1>3, <1>4

(* Only a search that found nothing brings an executor to the creation. *)
LEMMA NoNewCreator ==
    ASSUME ExecutorTypeOK, NEW t \in Tasks,
           \/ Execute(t) \/ Acquire(t) \/ SetupReturns(t)
           \/ EnsureRaises(t) \/ ExecReturns(t)
           \/ \E running \in BOOLEAN : ExistsReturns(t, running)
           \/ \E found \in Ids : FindReturns(t, found)
           \/ UNCHANGED executorVars
    PROVE  CreatingExecutors' \subseteq CreatingExecutors
<1>1. \A u \in Tasks : stage'[u] = "create" => stage[u] = "create"
  BY ExecutorAssumption
  DEF Execute, Acquire, SetupReturns, EnsureRaises, ExecReturns, ExistsReturns,
      FindReturns, EnsureReturns, Frame, executorVars, ExecutorTypeOK
<1>2. QED
  BY <1>1 DEF CreatingExecutors

LEMMA TaskStepCounts ==
    ASSUME TypeOK, ExecutorInv, CreationCount, NEW t \in Tasks, TaskStep(t)
    PROVE  CreationCount'
<1> DEFINE Same == /\ Running' \subseteq Running
                   /\ late' = late + 0
                   /\ abandoned' = abandoned + 0
<1>0. late \in Nat /\ abandoned \in Nat /\ ExecutorTypeOK
  BY DEF TypeOK
<1>1. ASSUME Same, CreatingExecutors' \subseteq CreatingExecutors
      PROVE  CreationCount'
  BY <1>1, FewerPreserves
<1> HIDE DEF Same
<1>2. CASE StartThread(t) \/ GetHandle(t)
  <2>1. Same
    BY <1>0, <1>2 DEF Same, StartThread, GetHandle, Running
  <2>2. CreatingExecutors' \subseteq CreatingExecutors
    BY <1>0, <1>2, NoNewCreator DEF StartThread, GetHandle
  <2>3. QED
    BY <1>1, <2>1, <2>2
<1>3. CASE Exists(t)
  <2>1. Same
    BY <1>0, <1>3 DEF Same, Exists, Running
  <2>2. \E running \in BOOLEAN : ExistsReturns(t, running)
    BY <1>3, Zenon DEF Exists
  <2>3. QED
    BY <1>0, <1>1, <2>1, <2>2, NoNewCreator
<1>4. CASE Find(t)
  <2>1. Same
    BY <1>0, <1>4 DEF Same, Find, Running
  <2>2. CASE Running = {}
    <3>1. Running' = {} /\ late' = late /\ abandoned' = abandoned
      BY <1>4, <2>2 DEF Find, Running
    <3>2. /\ CreatingExecutors' \subseteq Executors
          /\ IsFiniteSet(Executors)
      BY DockerAssumption DEF CreatingExecutors
    <3>3. /\ Cardinality(CreatingExecutors') \in Nat
          /\ Cardinality(Executors) \in Nat
          /\ Cardinality(CreatingExecutors') <= Cardinality(Executors)
      BY <3>2, FS_Subset, FS_CardinalityType
    <3>4. IsFiniteSet(Running') /\ Cardinality(Running') = 0
      BY <3>1, FS_EmptySet
    <3>5. QED
      BY <1>0, <3>1, <3>3, <3>4 DEF CreationCount
  <2>3. CASE Running # {}
    <3>1. \E found \in Ids : FindReturns(t, found)
      BY <1>4, <2>3, Zenon DEF Find, Running
    <3>2. QED
      BY <1>0, <1>1, <2>1, <3>1, NoNewCreator
  <2>4. QED
    BY <2>2, <2>3
<1>5. CASE Create(t)
  <2>1. PICK id \in Fresh : /\ CreateReturns(t, id)
                            /\ container' = [container EXCEPT ![id] = "running"]
    BY <1>5, Zenon DEF Create
  <2>2. id \in Ids /\ Running' = Running \cup {id}
    BY <2>1 DEF Fresh, Running, TypeOK
  <2>3. \A u \in Tasks : /\ stage'[u] = "create" => stage[u] = "create"
                         /\ stage'[u] = "create" => ExecutorOf[u] # ExecutorOf[t]
    BY <1>0, <2>1, ExecutorAssumption
    DEF CreateReturns, EnsureReturns, Frame, ExecutorTypeOK, ExecutorInv, LockInv,
        Critical
  <2>4. /\ ExecutorOf[t] \in CreatingExecutors
        /\ CreatingExecutors' \subseteq CreatingExecutors \ {ExecutorOf[t]}
    BY <2>1, <2>3, ExecutorAssumption DEF CreatingExecutors, CreateReturns
  <2>5. late' = late /\ abandoned' = abandoned
    BY <1>5 DEF Create
  <2>6. QED
    BY <2>2, <2>4, <2>5, OneMorePreserves
<1>6. CASE CallRaises(t)
  <2>1. Same
    BY <1>0, <1>6 DEF Same, CallRaises, Running
  <2>2. QED
    BY <1>0, <1>1, <1>6, <2>1, NoNewCreator DEF CallRaises
<1>7. CASE CreateAbandoned(t)
  <2>1. Running' \subseteq Running /\ late' = late + 1 /\ abandoned' = abandoned + 1
    BY <1>7 DEF CreateAbandoned, Running
  <2>2. CreatingExecutors' \subseteq CreatingExecutors
    BY <1>0, <1>7, NoNewCreator DEF CreateAbandoned
  <2>3. QED
    BY <2>1, <2>2, FewerPreserves
<1>8. CASE CommandEnds(t) \/ CommandRaises(t) \/ CommandTimesOut(t)
  <2>1. Same
    BY <1>0, <1>8 DEF Same, CommandEnds, CommandRaises, CommandTimesOut, Running
  <2>2. SetupReturns(t) \/ EnsureRaises(t) \/ ExecReturns(t)
    BY <1>8, Zenon DEF CommandEnds, CommandRaises, CommandTimesOut, CommandReturns,
       CommandFails
  <2>3. QED
    BY <1>0, <1>1, <2>1, <2>2, NoNewCreator
<1>9. CASE (Execute(t) \/ Acquire(t)) /\ UNCHANGED dockerVars
  <2>1. Same
    BY <1>0, <1>9 DEF Same, dockerVars, Running
  <2>2. QED
    BY <1>0, <1>1, <1>9, <2>1, NoNewCreator
<1>10. QED
  BY <1>2, <1>3, <1>4, <1>5, <1>6, <1>7, <1>8, <1>9 DEF TaskStep, Answer

(* A restart forgets the creations it interrupts; the daemon goes on. *)
LEMMA RestartCounts ==
    ASSUME TypeOK, CreationCount, HostRestarts
    PROVE  CreationCount'
<1> DEFINE sent == {t \in working : stage[t] = "create"}
<1>1. Cardinality(sent) \in Nat
  <2>1. IsFiniteSet(sent)
    BY WorkingIsFinite, FS_Subset
  <2>2. QED
    BY <2>1, FS_CardinalityType
<1>2. /\ late' = late + Cardinality(sent)
      /\ abandoned' = abandoned + Cardinality(sent)
      /\ Running' \subseteq Running
  BY DEF HostRestarts, Running
<1>3. CreatingExecutors' \subseteq CreatingExecutors
  BY DEF HostRestarts, Restart, CreatingExecutors
<1> HIDE DEF sent
<1>4. QED
  BY <1>1, <1>2, <1>3, FewerPreserves

LEMMA OtherStepCounts ==
    ASSUME TypeOK, CreationCount,
           \/ \E id \in Ids : DeleteStep(id) \/ LateCreate(id) \/ Die(id)
           \/ \E e \in Executors : HostCloses(e)
           \/ StrayEnds
           \/ UNCHANGED vars
    PROVE  CreationCount'
<1>0. late \in Nat /\ abandoned \in Nat
  BY DEF TypeOK
<1>1. ASSUME Running' \subseteq Running, stage' = stage,
             late' = late, abandoned' = abandoned
      PROVE  CreationCount'
  <2>1. CreatingExecutors' \subseteq CreatingExecutors
    BY <1>1 DEF CreatingExecutors
  <2>2. late' = late + 0 /\ abandoned' = abandoned + 0
    BY <1>0, <1>1
  <2>3. QED
    BY <1>1, <2>1, <2>2, FewerPreserves
<1>2. ASSUME NEW id \in Ids, DeleteStep(id) \/ Die(id)
      PROVE  CreationCount'
  <2>1. /\ stage' = stage /\ late' = late /\ abandoned' = abandoned
        /\ \/ container' = container
           \/ container' = [container EXCEPT ![id] = "exited"]
           \/ container' = [container EXCEPT ![id] = "removed"]
    BY <1>2, Zenon DEF DeleteStep, DeleteCall, DeleteGet, DeleteStop, DeleteRemove,
       DeleteRaises, Die, executorVars
  <2>2. Running' \subseteq Running
    BY <2>1 DEF Running, TypeOK
  <2>3. QED
    BY <1>1, <2>1, <2>2
<1>3. ASSUME NEW id \in Ids, LateCreate(id)
      PROVE  CreationCount'
  <2>1. Running' = Running \cup {id}
    BY <1>3 DEF LateCreate, Fresh, Running, TypeOK
  <2>2. CreatingExecutors' = CreatingExecutors
    BY <1>3 DEF LateCreate, executorVars, CreatingExecutors
  <2>3. QED
    BY <1>3, <2>1, <2>2, OneMorePreserves DEF LateCreate
<1>4. ASSUME NEW e \in Executors, HostCloses(e)
      PROVE  CreationCount'
  BY <1>1, <1>4 DEF HostCloses, Close, dockerVars, Running
<1>5. CASE StrayEnds \/ UNCHANGED vars
  BY <1>1, <1>5 DEF StrayEnds, vars, executorVars, dockerVars, Running
<1>6. QED
  BY <1>2, <1>3, <1>4, <1>5

THEOREM CreationsCounted == Spec => []CreationCount
<1>1. Init => CreationCount
  <2>1. ASSUME Init
        PROVE  Running = {} /\ CreatingExecutors = {} /\ late = 0 /\ abandoned = 0
    BY <2>1, ExecutorAssumption DEF Init, ExecutorInit, Running, CreatingExecutors
  <2>2. Cardinality(Executors) \in Nat
    BY DockerAssumption, FS_CardinalityType
  <2>3. QED
    BY <2>1, <2>2, FS_EmptySet DEF CreationCount
<1>2. TypeOK /\ ExecutorInv /\ CreationCount /\ [Next]_vars => CreationCount'
  BY TaskStepCounts, OtherStepCounts, RestartCounts, Zenon DEF Next
<1>3. QED
  BY <1>1, <1>2, DockerTypes, ExecutorInvHolds, PTL DEF Spec

(***************************************************************************)
(* However many calls are in flight, whatever dies, and whenever the host  *)
(* restarts, an executor never leaves more than one container running      *)
(* (executor.py:129-149).                                                  *)
(***************************************************************************)
THEOREM ContainersBounded == Spec => []RunningBounded
<1>1. TypeOK /\ CreationCount => RunningBounded
  <2>1. ASSUME TypeOK, CreationCount
        PROVE  RunningBounded
    BY <2>1, CountTypes DEF TypeOK, CreationCount, RunningBounded
  <2>2. QED
    BY <2>1
<1>2. QED
  BY <1>1, DockerTypes, CreationsCounted, PTL

-----------------------------------------------------------------------------
(***************************************************************************)
(* Why nobody uses a container whose setup is under way.  Ids a call or an *)
(* executor holds were handed out by the daemon, so the id of a creation   *)
(* is nobody's; and while the creator keeps the lock, no other call of its *)
(* executor can pick it up.                                                *)
(***************************************************************************)
IdsAreKnown ==
    /\ \A t \in Tasks : bound[t] \notin Fresh
    /\ \A e \in Executors : containerId[e] \notin Fresh

(* The daemon never forgets that an id was used. *)
LEMMA NoIdRefreshed ==
    ASSUME TypeOK, [Next]_vars
    PROVE  Fresh' \subseteq Fresh
<1>1. ASSUME NEW t \in Tasks, TaskStep(t)
      PROVE  Fresh' \subseteq Fresh
  <2>1. \/ container' = container
        \/ \E id \in Ids : container' = [container EXCEPT ![id] = "running"]
    BY <1>1, Zenon DEF TaskStep, Answer, StartThread, Exists, Find, Create, CallRaises,
       CreateAbandoned, GetHandle, CommandEnds, CommandRaises, CommandTimesOut,
       dockerVars, Fresh
  <2>2. QED
    BY <2>1 DEF Fresh, TypeOK
<1>2. ASSUME NEW id \in Ids, DeleteStep(id) \/ LateCreate(id) \/ Die(id)
      PROVE  Fresh' \subseteq Fresh
  <2>1. \/ container' = container
        \/ \E s \in {"running", "exited", "removed"} :
               container' = [container EXCEPT ![id] = s]
    BY <1>2, Zenon DEF DeleteStep, DeleteCall, DeleteGet, DeleteStop, DeleteRemove,
       DeleteRaises, LateCreate, Die
  <2>2. QED
    BY <2>1 DEF Fresh, TypeOK
<1>3. CASE StrayEnds \/ HostRestarts \/ UNCHANGED vars
  BY <1>3 DEF StrayEnds, HostRestarts, vars, dockerVars, Fresh
<1>4. ASSUME NEW e \in Executors, HostCloses(e)
      PROVE  Fresh' \subseteq Fresh
  BY <1>4 DEF HostCloses, dockerVars, Fresh
<1>5. QED
  BY <1>1, <1>2, <1>3, <1>4 DEF Next

(* The ids a step of the executor leaves behind: old ones, or the answer. *)
LEMMA KnownIdsStep ==
    ASSUME TypeOK, ExecutorInv, IdsAreKnown, [Next]_vars
    PROVE  IdsAreKnown'
<1> USE ExecutorAssumption
<1>0. Fresh' \subseteq Fresh /\ None \notin Fresh
  BY NoIdRefreshed DEF Fresh
<1>1. ASSUME NEW t \in Tasks, \/ Execute(t) \/ Acquire(t) \/ SetupReturns(t)
                              \/ EnsureRaises(t) \/ ExecReturns(t)
      PROVE  IdsAreKnown'
  BY <1>0, <1>1 DEF IdsAreKnown, Execute, Acquire, SetupReturns, EnsureRaises,
     ExecReturns, EnsureReturns, Frame, TypeOK, ExecutorTypeOK
<1>2. ASSUME NEW t \in Tasks, NEW running \in BOOLEAN, ExistsReturns(t, running)
      PROVE  IdsAreKnown'
  BY <1>0, <1>2 DEF IdsAreKnown, ExistsReturns, EnsureReturns, Frame, TypeOK,
     ExecutorTypeOK
<1>3. ASSUME NEW t \in Tasks, Find(t)
      PROVE  IdsAreKnown'
  <2>1. PICK found : /\ found \in Running \cup {None}
                     /\ FindReturns(t, found)
    BY <1>3, Zenon DEF Find
  <2>2. found \notin Fresh
    BY <2>1, <1>0 DEF Fresh, Running
  <2>3. QED
    BY <1>0, <2>1, <2>2 DEF IdsAreKnown, FindReturns, EnsureReturns, Frame, TypeOK,
       ExecutorTypeOK
<1>4. ASSUME NEW t \in Tasks, Create(t)
      PROVE  IdsAreKnown'
  <2>1. PICK id \in Fresh : /\ CreateReturns(t, id)
                            /\ container' = [container EXCEPT ![id] = "running"]
    BY <1>4, Zenon DEF Create
  <2>2. id \notin Fresh'
    BY <2>1 DEF Fresh, TypeOK
  <2>3. QED
    BY <1>0, <2>1, <2>2 DEF IdsAreKnown, CreateReturns, EnsureReturns, Frame, TypeOK,
       ExecutorTypeOK
<1>5. CASE UNCHANGED executorVars
  BY <1>0, <1>5 DEF IdsAreKnown, executorVars
<1>6. ASSUME NEW e \in Executors, HostCloses(e)
      PROVE  IdsAreKnown'
  BY <1>0, <1>6 DEF IdsAreKnown, HostCloses, Close, TypeOK, ExecutorTypeOK
<1>7. CASE HostRestarts
  BY <1>0, <1>7 DEF IdsAreKnown, HostRestarts, Restart
<1>8. ASSUME NEW t \in Tasks, TaskStep(t)
      PROVE  IdsAreKnown'
  <2>1. CASE Exists(t)
    BY <1>2, <2>1, Zenon DEF Exists
  <2>2. CASE CallRaises(t) \/ CreateAbandoned(t)
    BY <1>1, <2>2, Zenon DEF CallRaises, CreateAbandoned
  <2>3. CASE CommandEnds(t) \/ CommandRaises(t) \/ CommandTimesOut(t)
    BY <1>1, <2>3, Zenon DEF CommandEnds, CommandRaises, CommandTimesOut,
       CommandReturns, CommandFails
  <2>4. CASE StartThread(t) \/ GetHandle(t)
    BY <1>5, <2>4, Zenon DEF StartThread, GetHandle
  <2>5. QED
    BY <1>1, <1>3, <1>4, <1>8, <2>1, <2>2, <2>3, <2>4, Zenon DEF TaskStep, Answer
<1>9. ASSUME NEW id \in Ids, DeleteStep(id) \/ LateCreate(id) \/ Die(id)
      PROVE  IdsAreKnown'
  BY <1>5, <1>9, Zenon DEF DeleteStep, DeleteCall, DeleteGet, DeleteStop,
     DeleteRemove, DeleteRaises, LateCreate, Die
<1>10. CASE StrayEnds \/ UNCHANGED vars
  BY <1>5, <1>10, Zenon DEF StrayEnds, vars
<1>11. QED
  BY <1>6, <1>7, <1>8, <1>9, <1>10, Zenon DEF Next

(* Inside the executor, only a creation can end with two tasks on one id. *)
LEMMA SetupStaysApart ==
    ASSUME ExecutorInv, SetupIsExclusive,
           NEW w \in Tasks, ExecutorStep(w),
           NEW t \in Tasks, NEW u \in Tasks, t # u,
           ExecutorOf[t] = ExecutorOf[u],
           stage'[t] = "setup", stage'[u] = "exec",
           ~ (w = t /\ stage[t] = "create")
    PROVE  bound'[t] # bound'[u]
<1> USE ExecutorAssumption
<1>1. stage[t] = "setup" /\ bound'[t] = bound[t]
  BY DEF ExecutorStep, Execute, Acquire, ExistsReturns, FindReturns, CreateReturns,
     SetupReturns, EnsureRaises, ExecReturns, EnsureReturns, Frame, ExecutorInv,
     ExecutorTypeOK
<1>2. stage[u] \notin Critical
  BY <1>1 DEF ExecutorInv, LockInv, Critical
<1>3. stage[u] = "exec" /\ bound'[u] = bound[u]
  BY <1>2 DEF ExecutorStep, Execute, Acquire, ExistsReturns, FindReturns,
     CreateReturns, SetupReturns, EnsureRaises, ExecReturns, EnsureReturns, Frame,
     ExecutorInv, ExecutorTypeOK, Critical
<1>4. QED
  BY <1>1, <1>3 DEF SetupIsExclusive

LEMMA SetupStepExclusive ==
    ASSUME TypeOK, ExecutorInv, IdsAreKnown, SetupIsExclusive, [Next]_vars
    PROVE  SetupIsExclusive'
<1> SUFFICES ASSUME NEW t \in Tasks, NEW u \in Tasks, t # u,
                    ExecutorOf[t] = ExecutorOf[u],
                    stage'[t] = "setup", stage'[u] = "exec"
             PROVE  bound'[t] # bound'[u]
  BY DEF SetupIsExclusive
<1>1. CASE stage' = stage /\ bound' = bound
  BY <1>1 DEF SetupIsExclusive
<1>2. ASSUME NEW w \in Tasks, TaskStep(w)
      PROVE  bound'[t] # bound'[u]
  <2>1. CASE w = t /\ stage[t] = "create"
    <3>1. Create(t)
      BY <1>2, <2>1, ExecutorAssumption
      DEF TaskStep, Answer, Execute, Acquire, StartThread, Exists, Find, CallRaises,
          CreateAbandoned, GetHandle, CommandEnds, CommandReturns, CommandRaises,
          CommandTimesOut, CommandFails, SetupReturns, ExecReturns, EnsureRaises,
          FindReturns, Frame, TypeOK, ExecutorTypeOK, executorVars
    <3>2. PICK id \in Fresh : CreateReturns(t, id)
      BY <3>1, Zenon DEF Create
    <3>3. bound'[t] = id /\ bound'[u] = bound[u]
      BY <3>2 DEF CreateReturns, EnsureReturns, Frame, TypeOK, ExecutorTypeOK
    <3>4. QED
      BY <3>2, <3>3 DEF IdsAreKnown
  <2>2. CASE ~ (w = t /\ stage[t] = "create") /\ ExecutorStep(w)
    BY <2>2, SetupStaysApart
  <2>3. QED
    BY <1>1, <1>2, <2>1, <2>2, TaskStepRefines DEF executorVars
<1>3. CASE HostRestarts
  BY <1>3 DEF HostRestarts, Restart
<1>4. CASE \/ \E id \in Ids : DeleteStep(id) \/ LateCreate(id) \/ Die(id)
           \/ \E e \in Executors : HostCloses(e)
           \/ StrayEnds
           \/ UNCHANGED vars
  <2>1. stage' = stage /\ bound' = bound
    BY <1>4, Zenon DEF DeleteStep, DeleteCall, DeleteGet, DeleteStop, DeleteRemove,
       DeleteRaises, LateCreate, Die, HostCloses, Close, StrayEnds, vars, executorVars
  <2>2. QED
    BY <1>1, <2>1
<1>5. QED
  BY <1>2, <1>3, <1>4, Zenon DEF Next

(***************************************************************************)
(* While a call runs the setup commands of a container, no other call of   *)
(* that executor runs in it (executor.py:129-168).                         *)
(***************************************************************************)
THEOREM SetupExclusive == Spec => []SetupIsExclusive
<1>1. Init => IdsAreKnown /\ SetupIsExclusive
  BY ExecutorAssumption
  DEF Init, ExecutorInit, IdsAreKnown, SetupIsExclusive, Fresh
<1>2. /\ TypeOK /\ ExecutorInv /\ IdsAreKnown /\ SetupIsExclusive
      /\ [Next]_vars
      => IdsAreKnown' /\ SetupIsExclusive'
  BY KnownIdsStep, SetupStepExclusive
<1>3. QED
  BY <1>1, <1>2, DockerTypes, ExecutorInvHolds, PTL DEF Spec
=============================================================================
