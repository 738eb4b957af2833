--------------------------- MODULE ExecutorProofs ---------------------------
(***************************************************************************)
(* Proofs about Executor, for any backend: whatever it answers or raises.  *)
(***************************************************************************)
EXTENDS Executor, TLAPS

(***************************************************************************)
(* What makes LockInv and EnsureReturnsId inductive: the id a task checks  *)
(* is still the cached one, unless close() is called, because only the     *)
(* holder of the lock writes it; and the setup loop is not past its end.   *)
(***************************************************************************)
CheckedIsCached ==
    \A t \in Tasks :
        /\ stage[t] = "exists" => bound[t] # None
        /\ (stage[t] = "exists" /\ ExecutorOf[t] \notin Closers)
               => containerId[ExecutorOf[t]] = bound[t]

SetupUnderway ==
    \A t \in Tasks :
        stage[t] = "setup" => bound[t] # None /\ setupsRun[t] < SetupCount

ExecutorInv ==
    /\ ExecutorTypeOK
    /\ LockInv
    /\ EnsureReturnsId
    /\ CheckedIsCached
    /\ SetupUnderway

-----------------------------------------------------------------------------
(* The invariant holds at the start, and no step of a task breaks it. *)
LEMMA InitEstablishes == ExecutorInit => ExecutorInv
BY ExecutorAssumption
DEF ExecutorInit, ExecutorInv, ExecutorTypeOK, LockInv, EnsureReturnsId,
    HasContainer, CheckedIsCached, SetupUnderway, Critical, Stages

(* A call that starts waits for the lock. *)
LEMMA ExecutePreserves ==
    ASSUME ExecutorInv, NEW t \in Tasks, Execute(t)
    PROVE  ExecutorInv'
<1> USE ExecutorAssumption
        DEF ExecutorInv, Execute, Frame, Critical, Stages
<1>1. ExecutorTypeOK'
  BY DEF ExecutorTypeOK, SetupUnderway
<1>2. LockInv'
  BY DEF ExecutorTypeOK, LockInv
<1>3. EnsureReturnsId'
  BY DEF ExecutorTypeOK, EnsureReturnsId, HasContainer, CheckedIsCached, SetupUnderway
<1>4. CheckedIsCached'
  BY DEF ExecutorTypeOK, LockInv, CheckedIsCached
<1>5. SetupUnderway'
  BY DEF ExecutorTypeOK, SetupUnderway
<1>6. QED
  BY <1>1, <1>2, <1>3, <1>4, <1>5

(* The lock goes to a task only when no task of that executor holds it. *)
LEMMA AcquirePreserves ==
    ASSUME ExecutorInv, NEW t \in Tasks, Acquire(t)
    PROVE  ExecutorInv'
<1> USE ExecutorAssumption
        DEF ExecutorInv, Acquire, Frame, Critical, Stages
<1>1. ExecutorTypeOK'
  BY DEF ExecutorTypeOK, SetupUnderway
<1>2. LockInv'
  <2> SUFFICES ASSUME NEW u \in Tasks
               PROVE  stage'[u] \in Critical <=> lockHolder'[ExecutorOf[u]] = u
    BY DEF LockInv
  <2>1. CASE u = t
    BY <2>1 DEF ExecutorTypeOK, LockInv
  <2>2. CASE u # t
    BY <2>2 DEF ExecutorTypeOK, LockInv
  <2>3. QED
    BY <2>1, <2>2
<1>3. EnsureReturnsId'
  BY DEF ExecutorTypeOK, EnsureReturnsId, HasContainer, CheckedIsCached, SetupUnderway
<1>4. CheckedIsCached'
  BY DEF ExecutorTypeOK, LockInv, CheckedIsCached
<1>5. SetupUnderway'
  BY DEF ExecutorTypeOK, SetupUnderway
<1>6. QED
  BY <1>1, <1>2, <1>3, <1>4, <1>5

(* The check of the cached id returns that id, or starts the search. *)
LEMMA ExistsPreserves ==
    ASSUME ExecutorInv, NEW t \in Tasks, NEW running \in BOOLEAN, ExistsReturns(t, running)
    PROVE  ExecutorInv'
<1> USE ExecutorAssumption
        DEF ExecutorInv, ExistsReturns, EnsureReturns, Release, Frame, Critical, Stages
<1>1. ExecutorTypeOK'
  BY DEF ExecutorTypeOK, SetupUnderway
<1>2. LockInv'
  BY DEF ExecutorTypeOK, LockInv
<1>3. EnsureReturnsId'
  BY DEF ExecutorTypeOK, EnsureReturnsId, HasContainer, CheckedIsCached, SetupUnderway
<1>4. CheckedIsCached'
  BY DEF ExecutorTypeOK, LockInv, CheckedIsCached
<1>5. SetupUnderway'
  BY DEF ExecutorTypeOK, SetupUnderway
<1>6. QED
  BY <1>1, <1>2, <1>3, <1>4, <1>5

(* The search returns what it found, or starts the creation. *)
LEMMA FindPreserves ==
    ASSUME ExecutorInv, NEW t \in Tasks, NEW found \in Ids \cup {None}, FindReturns(t, found)
    PROVE  ExecutorInv'
<1> USE ExecutorAssumption
        DEF ExecutorInv, FindReturns, EnsureReturns, Release, Frame, Critical, Stages
<1>1. ExecutorTypeOK'
  BY DEF ExecutorTypeOK, SetupUnderway
<1>2. LockInv'
  BY DEF ExecutorTypeOK, LockInv
<1>3. EnsureReturnsId'
  BY DEF ExecutorTypeOK, EnsureReturnsId, HasContainer, CheckedIsCached, SetupUnderway
<1>4. CheckedIsCached'
  BY DEF ExecutorTypeOK, LockInv, CheckedIsCached
<1>5. SetupUnderway'
  BY DEF ExecutorTypeOK, SetupUnderway
<1>6. QED
  BY <1>1, <1>2, <1>3, <1>4, <1>5

(* A creation caches the id and starts the setup commands. *)
LEMMA CreatePreserves ==
    ASSUME ExecutorInv, NEW t \in Tasks, NEW id \in Ids, CreateReturns(t, id)
    PROVE  ExecutorInv'
<1> USE ExecutorAssumption
        DEF ExecutorInv, CreateReturns, EnsureReturns, Release, Frame, Critical, Stages
<1>1. ExecutorTypeOK'
  <2>1. containerId' \in [Executors -> Ids \cup {None}]
    BY DEF ExecutorTypeOK
  <2>2. lockHolder' \in [Executors -> Tasks \cup {None}]
    BY DEF ExecutorTypeOK
  <2>3. stage' \in [Tasks -> Stages]
    BY DEF ExecutorTypeOK
  <2>4. bound' \in [Tasks -> Ids \cup {None}]
    BY DEF ExecutorTypeOK
  <2>5. setupsRun' \in [Tasks -> 0..SetupCount]
    BY DEF ExecutorTypeOK
  <2>6. QED
    BY <2>1, <2>2, <2>3, <2>4, <2>5 DEF ExecutorTypeOK
<1>2. LockInv'
  <2> SUFFICES ASSUME NEW u \in Tasks
               PROVE  stage'[u] \in Critical <=> lockHolder'[ExecutorOf[u]] = u
    BY DEF LockInv
  <2>1. /\ lockHolder[ExecutorOf[t]] = t
        /\ stage[u] \in Critical <=> lockHolder[ExecutorOf[u]] = u
        /\ ExecutorOf[t] \in Executors /\ ExecutorOf[u] \in Executors
    BY DEF LockInv
  <2>2. CASE SetupCount = 0
    <3>1. lockHolder' = [lockHolder EXCEPT ![ExecutorOf[t]] = None]
      BY <2>2
    <3>2. stage' = [stage EXCEPT ![t] = "exec"]
      BY <2>2
    <3>3. QED
      BY <2>1, <3>1, <3>2 DEF ExecutorTypeOK
  <2>3. CASE ~(SetupCount = 0)
    <3>1. lockHolder' = lockHolder /\ stage' = [stage EXCEPT ![t] = "setup"]
      BY <2>3 DEF ExecutorTypeOK
    <3>2. QED
      BY <2>1, <3>1 DEF ExecutorTypeOK
  <2>4. QED
    BY <2>2, <2>3
<1>3. EnsureReturnsId'
  BY DEF ExecutorTypeOK, EnsureReturnsId, HasContainer, CheckedIsCached, SetupUnderway
<1>4. CheckedIsCached'
  BY DEF ExecutorTypeOK, LockInv, CheckedIsCached
<1>5. SetupUnderway'
  BY DEF ExecutorTypeOK, SetupUnderway
<1>6. QED
  BY <1>1, <1>2, <1>3, <1>4, <1>5

(* The last setup command gives the lock back. *)
LEMMA SetupPreserves ==
    ASSUME ExecutorInv, NEW t \in Tasks, SetupReturns(t)
    PROVE  ExecutorInv'
<1> USE ExecutorAssumption
        DEF ExecutorInv, SetupReturns, LastSetup, EnsureReturns, Release, Frame, Critical, Stages
<1>1. ExecutorTypeOK'
  BY DEF ExecutorTypeOK, SetupUnderway
<1>2. LockInv'
  <2> SUFFICES ASSUME NEW u \in Tasks
               PROVE  stage'[u] \in Critical <=> lockHolder'[ExecutorOf[u]] = u
    BY DEF LockInv
  <2>1. /\ lockHolder[ExecutorOf[t]] = t
        /\ stage[u] \in Critical <=> lockHolder[ExecutorOf[u]] = u
        /\ ExecutorOf[t] \in Executors /\ ExecutorOf[u] \in Executors
    BY DEF LockInv
  <2>2. CASE setupsRun[t] + 1 = SetupCount
    <3>1. lockHolder' = [lockHolder EXCEPT ![ExecutorOf[t]] = None]
      BY <2>2
    <3>2. stage' = [stage EXCEPT ![t] = "exec"]
      BY <2>2
    <3>3. QED
      BY <2>1, <3>1, <3>2 DEF ExecutorTypeOK
  <2>3. CASE ~(setupsRun[t] + 1 = SetupCount)
    <3>1. lockHolder' = lockHolder /\ stage' = [stage EXCEPT ![t] = "setup"]
      BY <2>3 DEF ExecutorTypeOK
    <3>2. QED
      BY <2>1, <3>1 DEF ExecutorTypeOK
  <2>4. QED
    BY <2>2, <2>3
<1>3. EnsureReturnsId'
  BY DEF ExecutorTypeOK, EnsureReturnsId, HasContainer, CheckedIsCached, SetupUnderway
<1>4. CheckedIsCached'
  BY DEF ExecutorTypeOK, LockInv, CheckedIsCached
<1>5. SetupUnderway'
  BY DEF ExecutorTypeOK, SetupUnderway
<1>6. QED
  BY <1>1, <1>2, <1>3, <1>4, <1>5

(* An exception gives the lock back. *)
LEMMA RaisePreserves ==
    ASSUME ExecutorInv, NEW t \in Tasks, EnsureRaises(t)
    PROVE  ExecutorInv'
<1> USE ExecutorAssumption
        DEF ExecutorInv, EnsureRaises, Release, Frame, Critical, Stages
<1>1. ExecutorTypeOK'
  BY DEF ExecutorTypeOK, SetupUnderway
<1>2. LockInv'
  BY DEF ExecutorTypeOK, LockInv
<1>3. EnsureReturnsId'
  BY DEF ExecutorTypeOK, EnsureReturnsId, HasContainer, CheckedIsCached, SetupUnderway
<1>4. CheckedIsCached'
  BY DEF ExecutorTypeOK, LockInv, CheckedIsCached
<1>5. SetupUnderway'
  BY DEF ExecutorTypeOK, SetupUnderway
<1>6. QED
  BY <1>1, <1>2, <1>3, <1>4, <1>5

(* The end of a command leaves the lock alone. *)
LEMMA ExecReturnPreserves ==
    ASSUME ExecutorInv, NEW t \in Tasks, ExecReturns(t)
    PROVE  ExecutorInv'
<1> USE ExecutorAssumption
        DEF ExecutorInv, ExecReturns, Frame, Critical, Stages
<1>1. ExecutorTypeOK'
  BY DEF ExecutorTypeOK, SetupUnderway
<1>2. LockInv'
  BY DEF ExecutorTypeOK, LockInv
<1>3. EnsureReturnsId'
  BY DEF ExecutorTypeOK, EnsureReturnsId, HasContainer, CheckedIsCached, SetupUnderway
<1>4. CheckedIsCached'
  BY DEF ExecutorTypeOK, LockInv, CheckedIsCached
<1>5. SetupUnderway'
  BY DEF ExecutorTypeOK, SetupUnderway
<1>6. QED
  BY <1>1, <1>2, <1>3, <1>4, <1>5

(* close() is called only on the executors the host closes. *)
LEMMA ClosePreserves ==
    ASSUME ExecutorInv, NEW e \in Executors, Close(e)
    PROVE  ExecutorInv'
BY ExecutorAssumption
DEF ExecutorInv, ExecutorTypeOK, LockInv, EnsureReturnsId, HasContainer,
    CheckedIsCached, SetupUnderway, Close, Critical, Stages

(* A restart brings the initial state back. *)
LEMMA RestartPreserves ==
    ASSUME ExecutorInv, Restart
    PROVE  ExecutorInv'
BY ExecutorAssumption
DEF ExecutorInv, ExecutorTypeOK, LockInv, EnsureReturnsId, HasContainer,
    CheckedIsCached, SetupUnderway, Restart, Critical, Stages

-----------------------------------------------------------------------------
(***************************************************************************)
(* ExecutorInv is inductive: it holds initially and every step of          *)
(* executor.py keeps it, whatever the backend does.                        *)
(***************************************************************************)
THEOREM ExecutorInvariant == ExecutorSpec => []ExecutorInv
<1>1. ExecutorInit => ExecutorInv
  BY InitEstablishes
<1>2. ASSUME ExecutorInv, NEW t \in Tasks, ExecutorStep(t)
      PROVE  ExecutorInv'
  BY <1>2, ExecutePreserves, AcquirePreserves, ExistsPreserves, FindPreserves,
     CreatePreserves, SetupPreserves, RaisePreserves, ExecReturnPreserves
  DEF ExecutorStep
<1>3. ASSUME ExecutorInv, UNCHANGED executorVars
      PROVE  ExecutorInv'
  BY <1>3
  DEF ExecutorInv, ExecutorTypeOK, LockInv, EnsureReturnsId, HasContainer,
      CheckedIsCached, SetupUnderway, executorVars
<1>4. ExecutorInv /\ [ExecutorNext]_executorVars => ExecutorInv'
  BY <1>2, <1>3, ClosePreserves, RestartPreserves DEF ExecutorNext
<1>5. QED
  BY <1>1, <1>4, PTL DEF ExecutorSpec

(***************************************************************************)
(* The lock of executor.py:129 is held by exactly the task between its     *)
(* entry and its exit, on every path.                                      *)
(***************************************************************************)
THEOREM LockIsExact == ExecutorSpec => []LockInv
<1>1. ExecutorInv => LockInv
  BY DEF ExecutorInv
<1>2. QED
  BY <1>1, ExecutorInvariant, PTL

(***************************************************************************)
(* Without close(), _ensure_container never returns None (executor.py:133).*)
(***************************************************************************)
THEOREM EnsureReturnsAnId == ExecutorSpec => []EnsureReturnsId
<1>1. ExecutorInv => EnsureReturnsId
  BY DEF ExecutorInv
<1>2. QED
  BY <1>1, ExecutorInvariant, PTL

(* The types of executor.py's state. *)
THEOREM ExecutorTypes == ExecutorSpec => []ExecutorTypeOK
<1>1. ExecutorInv => ExecutorTypeOK
  BY DEF ExecutorInv
<1>2. QED
  BY <1>1, ExecutorInvariant, PTL
=============================================================================
