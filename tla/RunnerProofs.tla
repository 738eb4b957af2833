---------------------------- MODULE RunnerProofs ----------------------------
(***************************************************************************)
(* Proofs about RunnerExec and Runner, for any processes a command starts, *)
(* any requests, host processes and faults.  First a command and its       *)
(* watchdog, for every step of RunnerExec; then the protocol, which runs   *)
(* RunnerExec, so that the first part holds of it, and keeps the promise   *)
(* of Requests.                                                            *)
(***************************************************************************)
EXTENDS Runner, SequenceTheorems, FiniteSetTheorems, TLAPS

-----------------------------------------------------------------------------
(* A command and its watchdog.  What the two killtrees do depends on what  *)
(* their agendas hold; the invariant says how the process tree, the        *)
(* agendas and the line the runner is at go together.                      *)

(* The processes of the command are a tree of their own, and so are the    *)
(* watchdog and its sleep.  Who waits for a process that is alive is its   *)
(* parent.                                                                 *)
TreeShape ==
    /\ parent[Root] = None /\ parent[Watchdog] = None
    /\ parent[Sleep] \in {Watchdog, None}
    /\ \A p \in Command : /\ parent[p] \in Command \cup {None}
                          /\ waitsFor[p] \in Children \cup {None}
    /\ waitsFor[Sleep] = None
    /\ Watchdog \in alive => waitsFor[Watchdog] = Sleep
    /\ {Watchdog, Sleep} \subseteq alive => parent[Sleep] = Watchdog
    /\ \A c \in Pids : parent[c] # None => parent[c] \in alive
    /\ \A p \in alive : waitsFor[p] \in alive => parent[waitsFor[p]] = p

(* The watchdog kills the command's processes, the runner the watchdog's.  *)
(* What is to be killed has no parent any more; what was listed has at     *)
(* most the parent that is to be killed next.                              *)
AgendaShape ==
    /\ ToSet(agenda[Watchdog]) \subseteq Command
    /\ children[Watchdog] \subseteq Command
    /\ ToSet(agenda[Runner]) \subseteq {Watchdog, Sleep}
    /\ children[Runner] \subseteq {Sleep}
    /\ \A k \in Killers : k \in listed => agenda[k] # <<>>
    /\ \A k \in Killers : k \notin listed => children[k] = {}
    /\ \A k \in Killers : \A p \in ToSet(agenda[k]) \cap alive : parent[p] = None
    /\ \A k \in listed : \A c \in children[k] \cap alive :
           parent[c] \in {Head(agenda[k]), None}

(* Once the timeout is marked, every process of the command either has a   *)
(* parent, or is on the watchdog's agenda, or has fled.                    *)
InReach ==
    /\ \A p \in alive \cap Command :
           parent[p] = None
               => \/ p \in fled
                  \/ IF marked THEN p \in ToSet(agenda[Watchdog]) ELSE p = Root
    /\ Watchdog \in listed
           => \A c \in alive : parent[c] = Head(agenda[Watchdog])
                                   => c \in children[Watchdog] \cup fled
    /\ Runner \in listed /\ Sleep \in alive /\ parent[Sleep] = Head(agenda[Runner])
           => Sleep \in children[Runner]

(* What is known at each line of do_exec. *)
Stages ==
    /\ ~ marked => agenda[Watchdog] = <<>> /\ killed \cap Command = {}
    /\ marked => Sleep \notin alive
    /\ step # "spare" => agenda[Runner] = <<>>
    /\ step = "read" => alive = {} /\ killed = {}
    /\ step \notin {"read", "wait"} => Root \notin alive
    /\ step \in {"read", "wait", "spare"} => rc = "own"
    /\ step = "join" => rc = "124"
    /\ rc = "124" => marked
    /\ step \in {"wait", "join"} /\ Watchdog \notin alive
           => marked /\ agenda[Watchdog] = <<>>
    /\ step \in {"sync", "answer"} /\ rc = "124" => agenda[Watchdog] = <<>>
    /\ step \in {"sync", "answer"} => {Watchdog, Sleep} \cap alive = {}
    /\ step = "spare" =>
           /\ Watchdog \in alive => Watchdog \in ToSet(agenda[Runner])
           /\ Sleep \in alive /\ Watchdog \notin alive
                  => Sleep \in ToSet(agenda[Runner])
    /\ step \in {"spare", "sync", "answer"} /\ rc = "own" =>
           /\ killed \cap Command = {}
           /\ ToSet(agenda[Watchdog]) \subseteq {Root}
           /\ children[Watchdog] = {}

ExecInv ==
    /\ ExecTypeOK
    /\ TreeShape
    /\ AgendaShape
    /\ InReach
    /\ Stages
    /\ NoNextLine

-----------------------------------------------------------------------------
(* The elements of a sequence *)

LEMMA ToSetOfFew ==
    ASSUME NEW x
    PROVE  ToSet(<<>>) = {} /\ ToSet(<<x>>) = {x}
  BY DEF ToSet

LEMMA ToSetOfTail ==
    ASSUME NEW S, NEW s \in Seq(S), s # <<>>
    PROVE  /\ Head(s) \in S /\ Tail(s) \in Seq(S)
           /\ Head(s) \in ToSet(s)
           /\ ToSet(s) = {Head(s)} \cup ToSet(Tail(s))
  <1>1. Len(s) \in Nat /\ Len(s) > 0 /\ DOMAIN s = 1..Len(s)  OBVIOUS
  <1>2. Head(s) = s[1]  OBVIOUS
  <1>3. /\ Head(s) \in S /\ Tail(s) \in Seq(S)
        /\ DOMAIN Tail(s) = 1..(Len(s) - 1)
        /\ \A i \in 1..(Len(s) - 1) : Tail(s)[i] = s[i + 1]
    BY HeadTailProperties, <1>1
  <1>4. ASSUME NEW i \in 1..Len(s)
        PROVE  s[i] \in {Head(s)} \cup ToSet(Tail(s))
    <2>1. CASE i = 1  BY <2>1, <1>2
    <2>2. CASE i # 1
      <3> DEFINE j == i - 1
      <3>1. j \in 1..(Len(s) - 1) /\ j + 1 = i  BY <2>2, <1>1
      <3>2. Tail(s)[j] = s[i]  BY <3>1, <1>3
      <3> QED  BY <3>1, <3>2, <1>3 DEF ToSet
    <2> QED  BY <2>1, <2>2
  <1>5. ToSet(s) \subseteq {Head(s)} \cup ToSet(Tail(s))
    BY <1>1, <1>4 DEF ToSet
  <1>6. ToSet(Tail(s)) \subseteq ToSet(s)  BY <1>1, <1>3 DEF ToSet
  <1>7. Head(s) \in ToSet(s)  BY <1>1, <1>2 DEF ToSet
  <1> QED  BY <1>3, <1>5, <1>6, <1>7

LEMMA ToSetOfConcat ==
    ASSUME NEW S, NEW s \in Seq(S), NEW t \in Seq(S)
    PROVE  /\ s \o t \in Seq(S)
           /\ ToSet(s \o t) = ToSet(s) \cup ToSet(t)
  <1>1. /\ Len(s) \in Nat /\ DOMAIN s = 1..Len(s)
        /\ Len(t) \in Nat /\ DOMAIN t = 1..Len(t)  OBVIOUS
  <1>2. /\ s \o t \in Seq(S)
        /\ DOMAIN (s \o t) = 1..(Len(s) + Len(t))
        /\ \A i \in 1..(Len(s) + Len(t)) :
               (s \o t)[i] = IF i <= Len(s) THEN s[i] ELSE t[i - Len(s)]
    BY ConcatProperties, <1>1
  <1>3. ToSet(s \o t) \subseteq ToSet(s) \cup ToSet(t)  BY <1>1, <1>2 DEF ToSet
  <1>4. ToSet(s) \subseteq ToSet(s \o t)  BY <1>1, <1>2 DEF ToSet
  <1>5. ASSUME NEW i \in 1..Len(t)
        PROVE  t[i] \in ToSet(s \o t)
    <2>1. Len(s) + i \in 1..(Len(s) + Len(t)) /\ (s \o t)[Len(s) + i] = t[i]
      BY <1>1, <1>2
    <2> QED  BY <1>2, <2>1 DEF ToSet
  <1>6. ToSet(t) \subseteq ToSet(s \o t)  BY <1>1, <1>5 DEF ToSet
  <1> QED  BY <1>2, <1>3, <1>4, <1>6

\* An order of a finite set is a sequence of exactly its elements.
LEMMA OrderOfSet ==
    ASSUME NEW S, IsFiniteSet(S), NEW order \in SetToSeqs(S)
    PROVE  order \in Seq(S) /\ ToSet(order) = S
  <1> DEFINE D == 1..Cardinality(S)
  <1>1. Cardinality(S) \in Nat  BY FS_CardinalityType
  <1>2. order \in [D -> S] /\ \A i, j \in D : i # j => order[i] # order[j]
    BY DEF SetToSeqs
  <1>3. order \in Injection(D, S)  BY <1>2 DEF Injection, IsInjective
  <1>4. Cardinality(D) = Cardinality(S)  BY <1>1, FS_Interval
  <1>5. order \in Surjection(D, S)  BY <1>3, <1>4, FS_Injection
  <1>6. order \in Seq(S)  BY <1>1, <1>2, SeqDef
  <1> QED  BY <1>2, <1>5, <1>6 DEF Surjection, ToSet

-----------------------------------------------------------------------------
(* The process tree *)

LEMMA PidsFinite == IsFiniteSet(Pids)
  <1>1. IsFiniteSet(Command)
    BY RunnerExecAssumption, FS_EmptySet, FS_AddElement, FS_Union
    DEF RunnerExecAssumption, Command
  <1>2. IsFiniteSet({Watchdog} \cup {Sleep})  BY FS_Singleton, FS_AddElement
  <1>3. Pids = Command \cup ({Watchdog} \cup {Sleep})  BY DEF Pids
  <1> QED  BY <1>1, <1>2, <1>3, FS_Union

\* Whoever dies, the processes that are left keep their tree.
LEMMA DeathKeepsTree ==
    ASSUME ExecTypeOK, TreeShape, NEW p \in Pids, Dies(p)
    PROVE  /\ TreeShape'
           /\ alive' \subseteq Pids
           /\ parent' \in [Pids -> Pids \cup {None}]
           /\ waitsFor' \in [Pids -> Pids \cup {None}]
           /\ \A q \in Pids : q \notin alive'
                  => parent'[q] = None /\ waitsFor'[q] = None
  <1> USE RunnerExecAssumption
      DEF RunnerExecAssumption, Command, Pids, ExecTypeOK, Dies, TreeShape
  <1>1. /\ alive' \subseteq Pids
        /\ parent' \in [Pids -> Pids \cup {None}]
        /\ waitsFor' \in [Pids -> Pids \cup {None}]
    OBVIOUS
  <1>2. \A q \in Pids : q \notin alive' => parent'[q] = None /\ waitsFor'[q] = None
    OBVIOUS
  <1>3. /\ parent'[Root] = None /\ parent'[Watchdog] = None
        /\ parent'[Sleep] \in {Watchdog, None}
        /\ waitsFor'[Sleep] = None
        /\ Watchdog \in alive' => waitsFor'[Watchdog] = Sleep
        /\ {Watchdog, Sleep} \subseteq alive' => parent'[Sleep] = Watchdog
    OBVIOUS
  <1>4. \A q \in Command : /\ parent'[q] \in Command \cup {None}
                           /\ waitsFor'[q] \in Children \cup {None}
    OBVIOUS
  <1>5. \A c \in Pids : parent'[c] # None => parent'[c] \in alive'
    OBVIOUS
  <1>6. ASSUME NEW q \in alive', waitsFor'[q] \in alive'
        PROVE  parent'[waitsFor'[q]] = q
    BY <1>6
  <1> QED  BY <1>1, <1>2, <1>3, <1>4, <1>5, <1>6

\* What is to be killed is waited for by nobody that is alive.
LEMMA NobodyWaitsForTheKilled ==
    ASSUME ExecTypeOK, TreeShape, NoNextLine, NEW p \in Pids, Dies(p),
           p \in alive => parent[p] = None,
           killed' = killed \cup ({p} \cap alive)
    PROVE  NoNextLine' /\ killed' \subseteq Pids
  <1> USE RunnerExecAssumption DEF RunnerExecAssumption, ExecTypeOK, TreeShape, Dies
  <1>1. killed' \subseteq Pids  OBVIOUS
  <1>2. ASSUME NEW q \in alive'
        PROVE  waitsFor'[q] \notin killed'
    <2>1. q \in alive /\ q # p /\ q \in Pids /\ waitsFor'[q] = waitsFor[q]  OBVIOUS
    <2>2. waitsFor[q] \notin killed  BY <2>1 DEF NoNextLine
    <2>3. q # None  BY <2>1 DEF Pids
    <2>4. CASE waitsFor[q] = p /\ p \in alive  BY <2>1, <2>3, <2>4
    <2> QED  BY <2>1, <2>2, <2>4
  <1> QED  BY <1>1, <1>2 DEF NoNextLine

-----------------------------------------------------------------------------
(* The steps of the command *)

LEMMA ExitKeeps ==
    ASSUME ExecInv, NEW p \in Command, Exit(p)
    PROVE  ExecInv'
  <1> USE RunnerExecAssumption DEF RunnerExecAssumption, Command, Pids
  <1>0. p \in Pids /\ Dies(p) /\ p \in alive  BY DEF Exit, Runs
  <1>1. /\ TreeShape'
        /\ alive' \subseteq Pids
        /\ parent' \in [Pids -> Pids \cup {None}]
        /\ waitsFor' \in [Pids -> Pids \cup {None}]
        /\ \A q \in Pids : q \notin alive'
               => parent'[q] = None /\ waitsFor'[q] = None
    BY <1>0, DeathKeepsTree DEF ExecInv
  <1>2. ChildrenOf(p) \subseteq Command
    BY <1>0 DEF ChildrenOf, ExecInv, ExecTypeOK, TreeShape
  <1>3. ExecTypeOK'
    BY <1>1, <1>2 DEF ExecInv, ExecTypeOK, Exit, killVars
  <1>4. AgendaShape'
    BY <1>0 DEF ExecInv, ExecTypeOK, AgendaShape, Exit, Dies, killVars, Killers
  <1>5. InReach'
    BY <1>0 DEF ExecInv, ExecTypeOK, TreeShape, AgendaShape, InReach, Exit, Dies,
        ChildrenOf, killVars, Killers
  <1>6. Stages'
    BY <1>0 DEF ExecInv, ExecTypeOK, Stages, Exit, Dies, killVars
  <1>7. NoNextLine'
    BY <1>0 DEF ExecInv, ExecTypeOK, NoNextLine, Exit, Dies, killVars
  <1> QED  BY <1>1, <1>3, <1>4, <1>5, <1>6, <1>7 DEF ExecInv

LEMMA ForkKeeps ==
    ASSUME ExecInv, NEW p \in Command, NEW c \in Children, Fork(p, c)
    PROVE  ExecInv'
  <1> USE RunnerExecAssumption DEF RunnerExecAssumption, Command, Pids
  <1>0. /\ p \in Pids /\ p \in alive /\ c \in Pids /\ c \notin alive /\ p # c
        /\ ~ Referred(c)
    BY DEF Fork, Runs
  <1>1. /\ alive' = alive \cup {c} /\ alive' \subseteq Pids
        /\ parent' = [parent EXCEPT ![c] = p]
        /\ parent' \in [Pids -> Pids \cup {None}]
        /\ waitsFor' \in [Pids -> Pids \cup {None}]
        /\ waitsFor'[p] \in {c, None}
        /\ \A q \in Pids \ {p} : waitsFor'[q] = waitsFor[q]
    BY <1>0 DEF Fork, ExecInv, ExecTypeOK
  <1>2. ExecTypeOK'
    BY <1>0, <1>1 DEF ExecInv, ExecTypeOK, Fork
  <1>3. TreeShape'
    <2> USE DEF ExecInv, ExecTypeOK, TreeShape
    <2>1. \A q \in alive : waitsFor[q] # c  BY <1>0 DEF Referred
    <2>2. waitsFor[c] = None  BY <1>0
    <2>3. ASSUME NEW q \in alive', waitsFor'[q] \in alive'
          PROVE  parent'[waitsFor'[q]] = q
      <3>1. None \notin alive'  BY <1>1
      <3>2. CASE q = p  BY <1>0, <1>1, <2>3, <3>1, <3>2
      <3>3. CASE q # p
        <4>1. q \in Pids /\ waitsFor'[q] = waitsFor[q]  BY <1>1, <3>3
        <4>2. q # c  BY <2>2, <2>3, <3>1, <4>1
        <4>3. q \in alive /\ waitsFor[q] # c  BY <1>1, <2>1, <4>2
        <4>4. waitsFor[q] \in alive  BY <1>1, <2>3, <4>1, <4>3
        <4>5. parent[waitsFor[q]] = q  BY <4>3, <4>4
        <4> QED  BY <1>0, <1>1, <4>1, <4>4, <4>5
      <3> QED  BY <3>2, <3>3
    <2>4. /\ parent'[Root] = None /\ parent'[Watchdog] = None
          /\ parent'[Sleep] \in {Watchdog, None}
          /\ waitsFor'[Sleep] = None
          /\ Watchdog \in alive' => waitsFor'[Watchdog] = Sleep
          /\ {Watchdog, Sleep} \subseteq alive' => parent'[Sleep] = Watchdog
      BY <1>0, <1>1
    <2>5. \A q \in Command : /\ parent'[q] \in Command \cup {None}
                             /\ waitsFor'[q] \in Children \cup {None}
      BY <1>0, <1>1
    <2>6. \A q \in Pids : parent'[q] # None => parent'[q] \in alive'
      BY <1>0, <1>1
    <2> QED  BY <2>3, <2>4, <2>5, <2>6
  <1>4. AgendaShape'
    <2>1. \A k \in Killers : c \notin ToSet(agenda[k]) /\ c \notin children[k]
      BY <1>0 DEF Referred
    <2> QED  BY <1>0, <1>1, <2>1 DEF ExecInv, ExecTypeOK, AgendaShape, Fork, Killers
  <1>5. InReach'
    <2>1. Watchdog \in listed /\ p = Head(agenda[Watchdog]) => c \in fled'
      BY DEF Fork, ChildrenListed, ExecInv, AgendaShape, Killers
    <2>2. fled \ {c} \subseteq fled'  BY DEF Fork
    <2> QED
      BY <1>0, <1>1, <2>1, <2>2 DEF ExecInv, ExecTypeOK, InReach, Fork
  <1>6. Stages'
    BY <1>0, <1>1 DEF ExecInv, ExecTypeOK, Stages, Fork
  <1>7. NoNextLine'
    BY <1>0, <1>1 DEF ExecInv, ExecTypeOK, NoNextLine, Fork
  <1> QED  BY <1>2, <1>3, <1>4, <1>5, <1>6, <1>7 DEF ExecInv

-----------------------------------------------------------------------------
(* killtree *)

LEMMA ReadChildrenKeeps ==
    ASSUME ExecInv, NEW k \in Killers, ReadChildren(k)
    PROVE  ExecInv'
  <1> USE RunnerExecAssumption DEF RunnerExecAssumption, Command, Pids, Killers
  <1> DEFINE p == Head(agenda[k])
  <1>0. /\ agenda[k] \in Seq(Pids) /\ agenda[k] # <<>> /\ k \notin listed
        /\ listed' = listed \cup {k}
        /\ children' = [children EXCEPT ![k] = ChildrenOf(p)]
        /\ UNCHANGED <<step, rc, marked, alive, parent, waitsFor, forks, fled,
                       agenda, killed>>
    BY DEF ExecInv, ExecTypeOK, ReadChildren, Killing, treeVars
  <1>1. p \in Pids /\ p \in ToSet(agenda[k])  BY <1>0, ToSetOfTail
  <1>2. ChildrenOf(p) \subseteq Pids
        /\ \A c \in ChildrenOf(p) : c \in alive /\ parent[c] = p
    BY DEF ChildrenOf, ExecInv, ExecTypeOK
  <1>3. ExecTypeOK'
    BY <1>0, <1>2 DEF ExecInv, ExecTypeOK
  <1>4. TreeShape'
    BY <1>0 DEF ExecInv, TreeShape
  <1>5. k = Watchdog => ChildrenOf(p) \subseteq Command
    BY <1>1, <1>2 DEF ExecInv, ExecTypeOK, TreeShape, AgendaShape
  <1>6. k = Runner => ChildrenOf(p) \subseteq {Sleep}
    BY <1>1, <1>2 DEF ExecInv, ExecTypeOK, TreeShape, AgendaShape
  <1>7. AgendaShape'
    BY <1>0, <1>2, <1>5, <1>6 DEF ExecInv, ExecTypeOK, AgendaShape
  <1>8. InReach'
    BY <1>0 DEF ExecInv, ExecTypeOK, InReach, ChildrenOf
  <1>9. Stages'
    <2>1. k = Watchdog /\ step \in {"spare", "sync", "answer"} /\ rc = "own"
              => ChildrenOf(p) = {}
      BY <1>1, <1>2 DEF ExecInv, ExecTypeOK, TreeShape, Stages
    <2> QED  BY <1>0, <2>1 DEF ExecInv, ExecTypeOK, Stages
  <1>10. NoNextLine'
    BY <1>0 DEF ExecInv, NoNextLine
  <1> QED  BY <1>3, <1>4, <1>7, <1>8, <1>9, <1>10 DEF ExecInv

\* A process is replaced, on the agenda, by the children it was found to
\* have, and leaves them without a parent.
LEMMA KillEffect ==
    ASSUME ExecInv, NEW k \in Killers, Kill(k)
    PROVE  LET p == Head(agenda[k])
               rest == ToSet(Tail(agenda[k]))
           IN  /\ p \in Pids /\ p \in ToSet(agenda[k])
               /\ Dies(p)
               /\ p \in alive => parent[p] = None
               /\ ToSet(agenda[k]) = {p} \cup rest
               /\ agenda' \in [Killers -> Seq(Pids)]
               /\ ToSet(agenda'[k]) = children[k] \cup rest
               /\ \A j \in Killers \ {k} : agenda'[j] = agenda[j]
               /\ killed' = killed \cup ({p} \cap alive)
               /\ listed' = listed \ {k}
               /\ children' = [children EXCEPT ![k] = {}]
               /\ UNCHANGED <<step, rc, marked, forks, fled>>
  <1> DEFINE p == Head(agenda[k])
             rest == ToSet(Tail(agenda[k]))
  <1>1. agenda \in [Killers -> Seq(Pids)] /\ children[k] \subseteq Pids
    BY DEF ExecInv, ExecTypeOK
  <1>2. agenda[k] \in Seq(Pids) /\ agenda[k] # <<>>  BY <1>1 DEF Kill, Killing
  <1>3. /\ p \in Pids /\ p \in ToSet(agenda[k]) /\ Tail(agenda[k]) \in Seq(Pids)
        /\ ToSet(agenda[k]) = {p} \cup rest
    BY <1>2, ToSetOfTail
  <1>4. p \in alive => parent[p] = None
    BY <1>3 DEF ExecInv, AgendaShape
  <1>5. PICK order \in SetToSeqs(children[k]) :
            agenda' = [agenda EXCEPT ![k] = order \o Tail(agenda[k])]
    BY DEF Kill
  <1>6. IsFiniteSet(children[k])  BY <1>1, PidsFinite, FS_Subset
  <1>7. order \in Seq(Pids) /\ ToSet(order) = children[k]
    BY <1>1, <1>6, OrderOfSet, SeqMonotonic
  <1>8. /\ order \o Tail(agenda[k]) \in Seq(Pids)
        /\ ToSet(order \o Tail(agenda[k])) = children[k] \cup rest
    <2> DEFINE others == Tail(agenda[k])
    <2>1. others \in Seq(Pids)  BY <1>3
    <2> HIDE DEF others
    <2>2. /\ order \o others \in Seq(Pids)
          /\ ToSet(order \o others) = ToSet(order) \cup ToSet(others)
      BY <1>7, <2>1, ToSetOfConcat
    <2> QED  BY <1>7, <2>2 DEF others
  <1>9. /\ agenda' \in [Killers -> Seq(Pids)]
        /\ ToSet(agenda'[k]) = children[k] \cup rest
        /\ \A j \in Killers \ {k} : agenda'[j] = agenda[j]
    BY <1>1, <1>5, <1>8
  <1> QED  BY <1>3, <1>4, <1>9 DEF Kill

LEMMA KillKeeps ==
    ASSUME ExecInv, NEW k \in Killers, Kill(k)
    PROVE  ExecInv'
  <1> USE RunnerExecAssumption DEF RunnerExecAssumption, Command, Pids, Killers
  <1> DEFINE p == Head(agenda[k])
             rest == ToSet(Tail(agenda[k]))
  <1>0. /\ p \in Pids /\ p \in ToSet(agenda[k])
        /\ Dies(p)
        /\ p \in alive => parent[p] = None
        /\ ToSet(agenda[k]) = {p} \cup rest
        /\ agenda' \in [Killers -> Seq(Pids)]
        /\ ToSet(agenda'[k]) = children[k] \cup rest
        /\ \A j \in Killers \ {k} : agenda'[j] = agenda[j]
        /\ killed' = killed \cup ({p} \cap alive)
        /\ listed' = listed \ {k}
        /\ children' = [children EXCEPT ![k] = {}]
        /\ UNCHANGED <<step, rc, marked, forks, fled>>
    BY KillEffect
  <1>a. k \in listed /\ agenda[k] # <<>>  BY DEF Kill, Killing
  <1> HIDE DEF p, rest
  <1>1. /\ TreeShape'
        /\ alive' \subseteq Pids
        /\ parent' \in [Pids -> Pids \cup {None}]
        /\ waitsFor' \in [Pids -> Pids \cup {None}]
        /\ \A q \in Pids : q \notin alive'
               => parent'[q] = None /\ waitsFor'[q] = None
    BY <1>0, DeathKeepsTree DEF ExecInv
  <1>2. NoNextLine' /\ killed' \subseteq Pids
    BY <1>0, NobodyWaitsForTheKilled DEF ExecInv
  <1>3. ExecTypeOK'
    BY <1>0, <1>1, <1>2 DEF ExecInv, ExecTypeOK
  <1>4. /\ alive' = alive \ {p}
        /\ \A q \in Pids : parent'[q] = IF parent[q] = p \/ q = p
                                       THEN None ELSE parent[q]
    BY <1>0 DEF Dies
  <1>5. AgendaShape'
    <2> USE DEF ExecInv, ExecTypeOK, AgendaShape
    <2>1. ASSUME NEW c \in children[k] \cap alive'
          PROVE  parent'[c] = None
      BY <1>a, <1>4 DEF p
    <2>2. ASSUME NEW j \in Killers, NEW q \in ToSet(agenda'[j]) \cap alive'
          PROVE  parent'[q] = None
      BY <1>0, <1>1, <1>4, <2>1
    <2>3. ASSUME NEW j \in listed', NEW c \in children'[j] \cap alive'
          PROVE  parent'[c] \in {Head(agenda'[j]), None}
      BY <1>0, <1>1, <1>4
    <2>4. \A j \in Killers : /\ j \in listed' => agenda'[j] # <<>>
                             /\ j \notin listed' => children'[j] = {}
      BY <1>0
    <2>5. /\ ToSet(agenda'[Watchdog]) \subseteq Command
          /\ children'[Watchdog] \subseteq Command
          /\ ToSet(agenda'[Runner]) \subseteq {Watchdog, Sleep}
          /\ children'[Runner] \subseteq {Sleep}
      BY <1>0
    <2> QED  BY <2>2, <2>3, <2>4, <2>5
  <1>6. CASE k = Watchdog
    <2>1. p \in Command /\ marked /\ Watchdog \in alive
      BY <1>0, <1>6, <1>a DEF ExecInv, AgendaShape, Stages, Kill, Killing, Runs
    <2>2. InReach'
      <3>1. ASSUME NEW q \in alive' \cap Command, parent'[q] = None
            PROVE  q \in fled \/ q \in ToSet(agenda'[Watchdog])
        <4>1. q \in alive /\ q # p  BY <1>4
        <4>2. CASE parent[q] = p
          BY <1>0, <1>6, <1>a, <4>1, <4>2 DEF ExecInv, InReach, p
        <4>3. CASE parent[q] = None
          BY <1>0, <1>6, <2>1, <4>1, <4>3 DEF ExecInv, InReach
        <4> QED  BY <1>4, <3>1, <4>1, <4>2, <4>3
      <3>2. ASSUME Runner \in listed', Sleep \in alive',
                   parent'[Sleep] = Head(agenda'[Runner])
            PROVE  Sleep \in children'[Runner]
        <4>1. Runner \in listed /\ Sleep \in alive /\ agenda'[Runner] = agenda[Runner]
              /\ children'[Runner] = children[Runner]
          BY <1>0, <1>4, <1>6, <3>2 DEF ExecInv, ExecTypeOK
        <4>2. Head(agenda[Runner]) # None
          BY <4>1, ToSetOfTail DEF ExecInv, ExecTypeOK, AgendaShape
        <4>3. parent[Sleep] = Head(agenda[Runner])
          BY <1>4, <3>2, <4>1, <4>2
        <4> QED  BY <4>1, <4>3 DEF ExecInv, InReach
      <3> QED  BY <1>0, <1>6, <2>1, <3>1, <3>2 DEF InReach
    <2>3. Stages'
      <3>1. p \notin {Watchdog, Sleep}  BY <2>1
      <3>2. step \in {"spare", "sync", "answer"} /\ rc = "own"
                => p \notin alive /\ children[Watchdog] = {} /\ rest \subseteq {Root}
        BY <1>0, <1>6 DEF ExecInv, Stages
      <3>3. step \notin {"read", "sync", "answer"}
        BY <2>1 DEF ExecInv, Stages, ExecTypeOK
      <3>4. /\ marked' /\ step' = step /\ rc' = rc /\ agenda'[Runner] = agenda[Runner]
            /\ Watchdog \in alive' /\ (Sleep \in alive' <=> Sleep \in alive)
            /\ (Root \in alive' => Root \in alive)
        BY <1>0, <1>4, <1>6, <2>1, <3>1
      <3>5. step \in {"spare", "sync", "answer"} /\ rc = "own"
                => /\ killed' \cap Command = {}
                   /\ ToSet(agenda'[Watchdog]) \subseteq {Root}
                   /\ children'[Watchdog] = {}
        BY <1>0, <1>6, <3>2 DEF ExecInv, ExecTypeOK, Stages
      <3>6. /\ step' \notin {"read", "sync", "answer"}
            /\ Sleep \notin alive'
            /\ step' # "wait" => Root \notin alive'
            /\ step' # "spare" => agenda'[Runner] = <<>>
        BY <3>3, <3>4, <2>1 DEF ExecInv, Stages
      <3>7. /\ step' \in {"wait", "spare"} => rc' = "own"
            /\ step' = "join" => rc' = "124"
            /\ step' = "spare" => Watchdog \in ToSet(agenda'[Runner])
        BY <3>3, <3>4, <2>1 DEF ExecInv, Stages
      <3> QED
        BY <3>4, <3>5, <3>6, <3>7 DEF Stages
    <2> QED  BY <1>1, <1>2, <1>3, <1>5, <2>2, <2>3 DEF ExecInv
  <1>7. CASE k = Runner
    <2>1. p \in {Watchdog, Sleep} /\ step = "spare"
      BY <1>0, <1>7, <1>a DEF ExecInv, AgendaShape, Stages
    <2>2. InReach'
      <3>1. \A c \in Pids : c \in Command => parent'[c] = parent[c] /\ c # p
        BY <1>4, <2>1 DEF ExecInv, TreeShape
      <3>2. ASSUME Watchdog \in listed', NEW c \in alive',
                   parent'[c] = Head(agenda'[Watchdog])
            PROVE  c \in children'[Watchdog] \cup fled'
        <4>1. Watchdog \in listed /\ c \in alive /\ c \in Pids
              /\ agenda'[Watchdog] = agenda[Watchdog]
              /\ children'[Watchdog] = children[Watchdog]
          BY <1>0, <1>1, <1>4, <1>7, <3>2 DEF ExecInv, ExecTypeOK
        <4>2. Head(agenda[Watchdog]) # None
          BY <4>1, ToSetOfTail DEF ExecInv, ExecTypeOK, AgendaShape
        <4>3. parent[c] = Head(agenda[Watchdog])
          BY <1>4, <3>2, <4>1, <4>2
        <4> QED  BY <1>0, <4>1, <4>3 DEF ExecInv, InReach
      <3> QED  BY <1>0, <1>1, <1>4, <1>7, <3>1, <3>2 DEF ExecInv, InReach
    <2>3. Stages'
      <3>1. Watchdog \in alive' => Watchdog \in ToSet(agenda'[Runner])
        BY <1>0, <1>4, <1>7, <2>1 DEF ExecInv, Stages
      <3>2. ASSUME Sleep \in alive', Watchdog \notin alive'
            PROVE  Sleep \in ToSet(agenda'[Runner])
        <4>1. Sleep \in alive /\ p # Sleep  BY <1>4, <3>2
        <4>2. CASE Watchdog \in alive
          <5>1. p = Watchdog /\ parent[Sleep] = p
            BY <1>4, <3>2, <4>1, <4>2 DEF ExecInv, TreeShape
          <5> QED
            BY <1>0, <1>7, <1>a, <4>1, <5>1 DEF ExecInv, InReach, p
        <4>3. CASE Watchdog \notin alive
          BY <1>0, <1>7, <2>1, <4>1, <4>3 DEF ExecInv, Stages
        <4> QED  BY <4>2, <4>3
      <3>3. /\ marked' = marked /\ step' = "spare" /\ rc' = rc
            /\ agenda'[Watchdog] = agenda[Watchdog]
            /\ children'[Watchdog] = children[Watchdog]
            /\ alive' \subseteq alive
        BY <1>0, <1>4, <1>7, <2>1 DEF ExecInv, ExecTypeOK
      <3>4. killed' \cap Command = killed \cap Command  BY <1>0, <2>1
      <3> QED
        BY <2>1, <3>1, <3>2, <3>3, <3>4 DEF ExecInv, Stages
    <2> QED  BY <1>1, <1>2, <1>3, <1>5, <2>2, <2>3 DEF ExecInv
  <1> QED  BY <1>6, <1>7

-----------------------------------------------------------------------------
(* The watchdog *)

\* The watchdog's sleep ends, or the watchdog itself.
LEMMA WatchdogDiesKeeps ==
    ASSUME ExecInv, SleepEnds \/ WatchdogExits
    PROVE  ExecInv'
  <1> USE RunnerExecAssumption DEF RunnerExecAssumption, Command, Pids, Killers
  <1>0. PICK p \in {Watchdog, Sleep} :
            /\ Dies(p)
            /\ p = Watchdog => marked /\ Sleep \notin alive /\ agenda[Watchdog] = <<>>
            /\ UNCHANGED <<step, rc, marked, forks, fled, agenda, listed,
                            children, killed>>
    <2>1. CASE SleepEnds  BY <2>1 DEF SleepEnds, killVars
    <2>2. CASE WatchdogExits
      BY <2>2 DEF WatchdogExits, killVars, Runs, ExecInv, TreeShape
    <2> QED  BY <2>1, <2>2
  <1>1. /\ TreeShape'
        /\ alive' \subseteq Pids
        /\ parent' \in [Pids -> Pids \cup {None}]
        /\ waitsFor' \in [Pids -> Pids \cup {None}]
        /\ \A q \in Pids : q \notin alive'
               => parent'[q] = None /\ waitsFor'[q] = None
    BY <1>0, DeathKeepsTree DEF ExecInv
  <1>2. /\ alive' = alive \ {p}
        /\ \A q \in Pids : parent'[q] = IF parent[q] = p \/ q = p
                                       THEN None ELSE parent[q]
    BY <1>0 DEF Dies
  <1>3. ExecTypeOK'  BY <1>0, <1>1 DEF ExecInv, ExecTypeOK
  <1>4. AgendaShape'
    BY <1>0, <1>2 DEF ExecInv, ExecTypeOK, AgendaShape
  <1>5. InReach'
    <2>1. \A c \in Command : parent'[c] = parent[c] /\ c # p
      BY <1>2 DEF ExecInv, TreeShape
    <2>2. \A k \in listed : Head(agenda[k]) # None
      BY ToSetOfTail DEF ExecInv, ExecTypeOK, AgendaShape
    <2> QED
      BY <1>0, <1>1, <1>2, <2>1, <2>2 DEF ExecInv, ExecTypeOK, InReach
  <1>6. Stages'
    <2>1. Root \in alive' <=> Root \in alive  BY <1>2
    <2> QED  BY <1>0, <1>2, <2>1 DEF ExecInv, ExecTypeOK, Stages
  <1>7. NoNextLine'
    BY <1>0, <1>2 DEF ExecInv, ExecTypeOK, NoNextLine, Dies
  <1> QED  BY <1>1, <1>3, <1>4, <1>5, <1>6, <1>7 DEF ExecInv

LEMMA TouchKeeps ==
    ASSUME ExecInv, Touch
    PROVE  ExecInv'
  <1> USE RunnerExecAssumption DEF RunnerExecAssumption, Command, Pids, Killers
  <1>0. /\ Watchdog \in alive /\ Sleep \notin alive /\ ~ marked /\ marked' = TRUE
        /\ agenda' = [agenda EXCEPT ![Watchdog] = <<Root>>]
        /\ UNCHANGED <<step, rc, alive, parent, waitsFor, forks, fled, listed,
                       children, killed>>
    BY DEF Touch, Runs, ExecInv, TreeShape, treeVars
  <1>1. /\ agenda[Watchdog] = <<>> /\ Watchdog \notin listed
        /\ children[Watchdog] = {} /\ killed \cap Command = {}
        /\ step \in {"wait", "spare"} /\ rc = "own"
    BY <1>0 DEF ExecInv, ExecTypeOK, AgendaShape, Stages
  <1>2. /\ agenda' \in [Killers -> Seq(Pids)]
        /\ agenda'[Watchdog] = <<Root>> /\ agenda'[Runner] = agenda[Runner]
        /\ ToSet(agenda'[Watchdog]) = {Root}
    BY <1>0, ToSetOfFew DEF ExecInv, ExecTypeOK
  <1>3. ExecTypeOK'  BY <1>0, <1>1, <1>2 DEF ExecInv, ExecTypeOK
  <1>4. TreeShape'  BY <1>0 DEF ExecInv, TreeShape
  <1>5. AgendaShape'
    <2>1. parent[Root] = None  BY DEF ExecInv, TreeShape
    <2> QED  BY <1>0, <1>1, <1>2, <2>1 DEF ExecInv, ExecTypeOK, AgendaShape
  <1>6. InReach'  BY <1>0, <1>1, <1>2 DEF ExecInv, InReach
  <1>7. Stages'  BY <1>0, <1>1, <1>2 DEF ExecInv, Stages
  <1>8. NoNextLine'  BY <1>0 DEF ExecInv, NoNextLine
  <1> QED  BY <1>3, <1>4, <1>5, <1>6, <1>7, <1>8 DEF ExecInv

-----------------------------------------------------------------------------
(* do_exec *)

LEMMA StartKeeps ==
    ASSUME ExecInv, Start
    PROVE  ExecInv'
  <1> USE RunnerExecAssumption DEF RunnerExecAssumption, Command, Pids, Killers
  <1>0. /\ step = "read" /\ step' = "wait"
        /\ alive' = alive \cup {Root, Watchdog, Sleep}
        /\ parent' = [parent EXCEPT ![Root] = None, ![Watchdog] = None,
                                    ![Sleep] = Watchdog]
        /\ waitsFor' = [waitsFor EXCEPT ![Watchdog] = Sleep]
        /\ UNCHANGED <<rc, marked, agenda, listed, children, killed, forks, fled>>
    BY DEF Start, killVars
  <1>1. /\ alive = {} /\ killed = {} /\ ~ marked /\ rc = "own"
        /\ \A p \in Pids : parent[p] = None /\ waitsFor[p] = None
        /\ agenda[Watchdog] = <<>> /\ agenda[Runner] = <<>>
        /\ listed = {} /\ children[Watchdog] = {} /\ children[Runner] = {}
    BY <1>0 DEF ExecInv, ExecTypeOK, AgendaShape, Stages
  <1>2. /\ alive' = {Root, Watchdog, Sleep}
        /\ parent' \in [Pids -> Pids \cup {None}]
        /\ waitsFor' \in [Pids -> Pids \cup {None}]
        /\ \A p \in Pids : parent'[p] = IF p = Sleep THEN Watchdog ELSE None
        /\ \A p \in Pids : waitsFor'[p] = IF p = Watchdog THEN Sleep ELSE None
    BY <1>0, <1>1 DEF ExecInv, ExecTypeOK
  <1>3. ExecTypeOK'  BY <1>0, <1>1, <1>2 DEF ExecInv, ExecTypeOK
  <1>4. TreeShape'  BY <1>1, <1>2 DEF TreeShape
  <1>5. AgendaShape'  BY <1>0, <1>1, ToSetOfFew DEF AgendaShape
  <1>6. InReach'  BY <1>0, <1>1, <1>2 DEF InReach
  <1>7. Stages'  BY <1>0, <1>1, <1>2 DEF Stages
  <1>8. NoNextLine'  BY <1>0, <1>1 DEF NoNextLine
  <1> QED  BY <1>3, <1>4, <1>5, <1>6, <1>7, <1>8 DEF ExecInv

LEMMA CommandEndedKeeps ==
    ASSUME ExecInv, CommandEnded
    PROVE  ExecInv'
  <1> USE RunnerExecAssumption DEF RunnerExecAssumption, Command, Pids, Killers
  <1>0. /\ step = "wait" /\ Root \notin alive /\ rc = "own"
        /\ agenda[Runner] = <<>> /\ Runner \notin listed /\ children[Runner] = {}
        /\ UNCHANGED <<marked, alive, parent, waitsFor, forks, fled, listed,
                       children, killed>>
    BY DEF CommandEnded, treeVars, ExecInv, ExecTypeOK, AgendaShape, Stages
  <1>1. TreeShape'  BY <1>0 DEF ExecInv, TreeShape
  <1>2. NoNextLine'  BY <1>0 DEF ExecInv, NoNextLine
  <1>3. CASE marked
    <2>1. step' = "join" /\ rc' = "124" /\ agenda' = agenda
      BY <1>3 DEF CommandEnded
    <2>2. ExecTypeOK'  BY <1>0, <1>3, <2>1 DEF ExecInv, ExecTypeOK
    <2>3. AgendaShape'  BY <1>0, <2>1 DEF ExecInv, AgendaShape
    <2>4. InReach'  BY <1>0, <2>1 DEF ExecInv, InReach
    <2>5. Stages'  BY <1>0, <1>3, <2>1 DEF ExecInv, Stages
    <2> QED  BY <1>1, <1>2, <2>2, <2>3, <2>4, <2>5 DEF ExecInv
  <1>4. CASE ~ marked
    <2>1. /\ step' = "spare" /\ rc' = rc
          /\ agenda' = [agenda EXCEPT ![Runner] = <<Watchdog>>]
      BY <1>4 DEF CommandEnded
    <2>2. /\ agenda' \in [Killers -> Seq(Pids)]
          /\ agenda'[Runner] = <<Watchdog>> /\ agenda'[Watchdog] = agenda[Watchdog]
          /\ ToSet(agenda'[Runner]) = {Watchdog}
      BY <2>1, ToSetOfFew DEF ExecInv, ExecTypeOK
    <2>3. /\ agenda[Watchdog] = <<>> /\ Watchdog \notin listed
          /\ children[Watchdog] = {} /\ killed \cap Command = {}
          /\ Watchdog \in alive /\ parent[Watchdog] = None
      BY <1>0, <1>4 DEF ExecInv, AgendaShape, TreeShape, Stages
    <2>4. ExecTypeOK'  BY <1>0, <2>1, <2>2 DEF ExecInv, ExecTypeOK
    <2>5. AgendaShape'  BY <1>0, <2>2, <2>3 DEF ExecInv, ExecTypeOK, AgendaShape
    <2>6. InReach'  BY <1>0, <2>2 DEF ExecInv, InReach
    <2>7. Stages'  BY <1>0, <1>4, <2>1, <2>2, <2>3, ToSetOfFew DEF ExecInv, Stages
    <2> QED  BY <1>1, <1>2, <2>4, <2>5, <2>6, <2>7 DEF ExecInv
  <1> QED  BY <1>3, <1>4

\* The watchdog is gone, and the disk synced.
LEMMA SettledSyncedKeep ==
    ASSUME ExecInv, Settled \/ Synced
    PROVE  ExecInv'
  <1> USE RunnerExecAssumption DEF RunnerExecAssumption, Command, Pids, Killers
  <1>0. UNCHANGED <<rc, marked, alive, parent, waitsFor, forks, fled, agenda,
                    listed, children, killed>>
    BY DEF Settled, Synced, treeVars, killVars
  <1>1. step' \in {"sync", "answer"} /\ step \notin {"read", "wait"}
    BY DEF Settled, Synced
  <1>2. ExecTypeOK'  BY <1>0, <1>1 DEF ExecInv, ExecTypeOK
  <1>3. /\ TreeShape' /\ NoNextLine' /\ AgendaShape' /\ InReach'
    BY <1>0 DEF ExecInv, TreeShape, NoNextLine, AgendaShape, InReach
  <1>4. Stages'
    <2>1. CASE step = "join"
      BY <1>0, <1>1, <2>1 DEF ExecInv, Stages, Settled, Synced
    <2>2. CASE step = "spare"
      <3>1. agenda[Runner] = <<>>  BY <2>2 DEF Settled, Synced
      <3>2. {Watchdog, Sleep} \cap alive = {}
        BY <2>2, <3>1, ToSetOfFew DEF ExecInv, Stages
      <3> QED  BY <1>0, <1>1, <2>2, <3>1, <3>2 DEF ExecInv, Stages
    <2>3. CASE step = "sync"  BY <1>0, <1>1, <2>3 DEF ExecInv, Stages
    <2> QED  BY <2>1, <2>2, <2>3 DEF Settled, Synced
  <1> QED  BY <1>2, <1>3, <1>4 DEF ExecInv

LEMMA AnsweredKeeps ==
    ASSUME ExecInv, Answered
    PROVE  ExecInv'
  <1> USE RunnerExecAssumption DEF RunnerExecAssumption, Command, Pids, Killers
  <1>1. alive' = {}  BY DEF Answered, ExecInv, ExecTypeOK, Stages
  <1>2. <<>> \in Seq(Pids)  OBVIOUS
  <1>3. ExecTypeOK'
    <2>1. agenda' \in [Killers -> Seq(Pids)]
      <3>1. agenda' = [k \in Killers |-> <<>>]  BY DEF Answered
      <3> QED  BY <1>2, <3>1
    <2>2. /\ parent' \in [Pids -> Pids \cup {None}]
          /\ waitsFor' \in [Pids -> Pids \cup {None}]
          /\ children' \in [Killers -> SUBSET Pids]
          /\ \A p \in Pids : parent'[p] = None /\ waitsFor'[p] = None
      BY DEF Answered
    <2>3. /\ step' = "read" /\ rc' = "own" /\ marked' = FALSE
          /\ listed' = {} /\ forks' = 0 /\ killed' = {} /\ fled' = {}
      BY DEF Answered
    <2>4. /\ step' \in {"read", "wait", "join", "spare", "sync", "answer"}
          /\ rc' \in {"own", "124"} /\ marked' \in BOOLEAN
          /\ alive' \subseteq Pids /\ listed' \subseteq Killers
          /\ killed' \subseteq Pids /\ fled' \subseteq Command
      BY <1>1, <2>3
    <2>5. forks' \in 0..MaxForks  BY <2>3
    <2> QED  BY <2>1, <2>2, <2>3, <2>4, <2>5 DEF ExecTypeOK
  <1>4. TreeShape'  BY <1>1 DEF Answered, TreeShape
  <1>5. AgendaShape'  BY <1>1, ToSetOfFew DEF Answered, AgendaShape
  <1>6. InReach'  BY <1>1 DEF Answered, InReach
  <1>7. Stages'  BY <1>1 DEF Answered, Stages
  <1>8. NoNextLine'  BY <1>1 DEF NoNextLine
  <1> QED  BY <1>3, <1>4, <1>5, <1>6, <1>7, <1>8 DEF ExecInv

-----------------------------------------------------------------------------
(* The theorems *)

LEMMA InitExecInv == ExecInit => ExecInv
  <1> SUFFICES ASSUME ExecInit PROVE ExecInv  OBVIOUS
  <1> USE RunnerExecAssumption
      DEF RunnerExecAssumption, Command, Pids, Killers, ExecInit
  <1>1. ExecTypeOK
    <2>1. <<>> \in Seq(Pids)  OBVIOUS
    <2>2. agenda \in [Killers -> Seq(Pids)]  BY <2>1
    <2>3. /\ parent \in [Pids -> Pids \cup {None}]
          /\ waitsFor \in [Pids -> Pids \cup {None}]
          /\ children \in [Killers -> SUBSET Pids]
          /\ \A p \in Pids : parent[p] = None /\ waitsFor[p] = None
      OBVIOUS
    <2>4. /\ step \in {"read", "wait", "join", "spare", "sync", "answer"}
          /\ rc \in {"own", "124"} /\ marked \in BOOLEAN
          /\ alive \subseteq Pids /\ listed \subseteq Killers
          /\ killed \subseteq Pids /\ fled \subseteq Command
          /\ step = "read" => rc = "own" /\ ~ marked
      OBVIOUS
    <2>5. forks \in 0..MaxForks  OBVIOUS
    <2> QED  BY <2>2, <2>3, <2>4, <2>5 DEF ExecTypeOK
  <1>2. TreeShape  BY DEF TreeShape
  <1>3. AgendaShape  BY ToSetOfFew DEF AgendaShape
  <1>4. InReach  BY DEF InReach
  <1>5. Stages  BY DEF Stages
  <1>6. NoNextLine  BY DEF NoNextLine
  <1> QED  BY <1>1, <1>2, <1>3, <1>4, <1>5, <1>6 DEF ExecInv

LEMMA ExecStepKeeps == ExecInv /\ [ExecNext]_execVars => ExecInv'
  <1> SUFFICES ASSUME ExecInv, [ExecNext]_execVars PROVE ExecInv'  OBVIOUS
  <1>1. CASE Start  BY <1>1, StartKeeps
  <1>2. CASE CommandStep  BY <1>2, ExitKeeps, ForkKeeps DEF CommandStep
  <1>3. CASE WatchdogStep
    BY <1>3, WatchdogDiesKeeps, TouchKeeps, ReadChildrenKeeps, KillKeeps
    DEF WatchdogStep, KillStep, Killers
  <1>4. CASE RunnerStep
    BY <1>4, CommandEndedKeeps, SettledSyncedKeep, ReadChildrenKeeps, KillKeeps
    DEF RunnerStep, KillStep, Killers
  <1>5. CASE Answered  BY <1>5, AnsweredKeeps
  <1>6. CASE UNCHANGED execVars
    BY <1>6 DEF execVars, treeVars, killVars, ExecInv, ExecTypeOK, TreeShape,
        AgendaShape, InReach, Stages, NoNextLine
  <1> QED  BY <1>1, <1>2, <1>3, <1>4, <1>5, <1>6 DEF ExecNext

(* The invariant holds of every command the runner executes, one after the *)
(* other (do_exec and killtree, runner.sh:28-89).                          *)
THEOREM ExecInvariant == ExecSpec => []ExecInv
  BY InitExecInv, ExecStepKeeps, PTL DEF ExecSpec

(* The variables keep their types: among them, that no process is dead and *)
(* has a parent, and that a command begins with no mark and no exit code   *)
(* of the one before.                                                      *)
THEOREM ExecTypes == ExecSpec => []ExecTypeOK
  <1>1. ExecInv => ExecTypeOK  BY DEF ExecInv
  <1> QED  BY <1>1, ExecInvariant, PTL

(* No shell runs its next line because killtree killed the child it waits  *)
(* for, whatever the command forks and however the two killtrees           *)
(* interleave (runner.sh:28-30).                                           *)
THEOREM ParentFirst == ExecSpec => []NoNextLine
  <1>1. ExecInv => NoNextLine  BY DEF ExecInv
  <1> QED  BY <1>1, ExecInvariant, PTL

(* A command any process of which was killed is answered as timed out.     *)
THEOREM KillsAreTimeouts == ExecSpec => []KilledMeansTimedOut
  <1>1. ExecInv => KilledMeansTimedOut
    BY DEF ExecInv, ExecTypeOK, Stages, KilledMeansTimedOut
  <1> QED  BY <1>1, ExecInvariant, PTL

(* When a timed-out command is answered, what is left alive of it descends *)
(* from a process nobody can find by its parents.                          *)
THEOREM TimeoutTakesTheTree == ExecSpec => []TreeIsGone
  <1>1. ExecInv => TreeIsGone
    BY ToSetOfFew DEF ExecInv, InReach, Stages, TreeIsGone
  <1> QED  BY <1>1, ExecInvariant, PTL

(* No watchdog, nor its sleep, outlives the answer to its command.         *)
THEOREM WatchdogEndsWithItsCommand == ExecSpec => []NoStrayWatchdog
  <1>1. ExecInv => NoStrayWatchdog
    BY DEF ExecInv, Stages, NoStrayWatchdog
  <1> QED  BY <1>1, ExecInvariant, PTL

-----------------------------------------------------------------------------
(* The protocol.  The invariant says where a request can be on its way and *)
(* that a line with an answer tells the outcome of the request it names.   *)

(* A request that is on its way, in a connection QEMU has not accepted, in *)
(* the port or with the runner, is in one of these places, once, was made, *)
(* and has no outcome.  Before the lock is granted it is nowhere.          *)
OnItsWay(r) == \/ r \in ToSet(backlog)
               \/ r \in ToSet(toGuest)
               \/ r = current

OncePlaced ==
    /\ IsInjective(backlog) /\ IsInjective(toGuest)
    /\ ToSet(backlog) \cap ToSet(toGuest) = {}
    /\ current \notin ToSet(backlog) \cup ToSet(toGuest)
    /\ \A r \in Reqs : OnItsWay(r) =>
           status[r] \notin {"new", "lock"} /\ outcome[r] = None
    /\ \A r \in Reqs : status[r] \in {"new", "lock"} => outcome[r] = None

\* Echoes and errors tell nothing that is taken for an answer.
Answers(line) == line.verb \in {"PONG", "OK", "RES"}

TrueToTheRun ==
    \A line \in ToSet(toHost) :
        Answers(line) => line.tells # None /\ line.tells = outcome[line.id]

RunnerInv ==
    /\ ExecInv
    /\ TypeOK
    /\ OncePlaced
    /\ TrueToTheRun

-----------------------------------------------------------------------------
(* Queues without duplicates *)

LEMMA Dequeued ==
    ASSUME NEW S, NEW s \in Seq(S), s # <<>>, IsInjective(s)
    PROVE  /\ Head(s) \in S /\ Tail(s) \in Seq(S)
           /\ IsInjective(Tail(s))
           /\ ToSet(s) = {Head(s)} \cup ToSet(Tail(s))
           /\ Head(s) \notin ToSet(Tail(s))
  <1>1. Len(s) \in Nat /\ Len(s) > 0 /\ DOMAIN s = 1..Len(s) /\ Head(s) = s[1]
    OBVIOUS
  <1>2. /\ DOMAIN Tail(s) = 1..(Len(s) - 1)
        /\ \A i \in 1..(Len(s) - 1) : Tail(s)[i] = s[i + 1]
    BY HeadTailProperties, <1>1
  <1>3. ASSUME NEW i \in 1..(Len(s) - 1), NEW j \in 1..(Len(s) - 1),
               Tail(s)[i] = Tail(s)[j]
        PROVE  i = j
    <2>1. i + 1 \in 1..Len(s) /\ j + 1 \in 1..Len(s)  BY <1>1
    <2>2. s[i + 1] = s[j + 1]  BY <1>2, <1>3
    <2>3. i + 1 = j + 1  BY <1>1, <2>1, <2>2 DEF IsInjective
    <2> QED  BY <2>3
  <1>4. ASSUME NEW i \in 1..(Len(s) - 1)
        PROVE  Tail(s)[i] # s[1]
    <2>1. i + 1 \in 1..Len(s) /\ 1 \in 1..Len(s) /\ i + 1 # 1  BY <1>1
    <2>2. s[i + 1] # s[1]  BY <1>1, <2>1 DEF IsInjective
    <2> QED  BY <1>2, <2>2
  <1>5. IsInjective(Tail(s))  BY <1>2, <1>3 DEF IsInjective
  <1>6. Head(s) \notin ToSet(Tail(s))  BY <1>1, <1>2, <1>4 DEF ToSet
  <1> QED  BY <1>5, <1>6, ToSetOfTail

LEMMA Enqueued ==
    ASSUME NEW S, NEW s \in Seq(S), NEW x \in S
    PROVE  /\ Append(s, x) \in Seq(S)
           /\ ToSet(Append(s, x)) = ToSet(s) \cup {x}
           /\ IsInjective(s) /\ x \notin ToSet(s) => IsInjective(Append(s, x))
  <1> DEFINE t == Append(s, x)
  <1>1. Len(s) \in Nat /\ DOMAIN s = 1..Len(s)  OBVIOUS
  <1>2. /\ t \in Seq(S) /\ DOMAIN t = 1..(Len(s) + 1)
        /\ \A i \in 1..Len(s) : t[i] = s[i]
        /\ t[Len(s) + 1] = x
    BY AppendProperties, <1>1
  <1> HIDE DEF t
  <1>3. ToSet(t) = ToSet(s) \cup {x}
    <2>1. ToSet(t) \subseteq ToSet(s) \cup {x}
      <3>1. \A i \in 1..(Len(s) + 1) : i \in 1..Len(s) \/ i = Len(s) + 1  BY <1>1
      <3> QED  BY <1>1, <1>2, <3>1 DEF ToSet
    <2>2. ToSet(s) \subseteq ToSet(t)
      <3>1. \A i \in 1..Len(s) : i \in 1..(Len(s) + 1)  BY <1>1
      <3> QED  BY <1>1, <1>2, <3>1 DEF ToSet
    <2>3. x \in ToSet(t)
      <3>1. Len(s) + 1 \in 1..(Len(s) + 1)  BY <1>1
      <3> QED  BY <1>2, <3>1 DEF ToSet
    <2> QED  BY <2>1, <2>2, <2>3
  <1>4. ASSUME IsInjective(s), x \notin ToSet(s)
        PROVE  IsInjective(t)
    <2>1. \A i \in 1..(Len(s) + 1) : i \in 1..Len(s) \/ i = Len(s) + 1  BY <1>1
    <2>2. \A i \in 1..Len(s) : s[i] # x  BY <1>1, <1>4 DEF ToSet
    <2> QED  BY <1>1, <1>2, <1>4, <2>1, <2>2 DEF IsInjective
  <1> QED  BY <1>2, <1>3, <1>4 DEF t

LEMMA NothingQueued == IsInjective(<<>>) /\ \A S : <<>> \in Seq(S)
  BY DEF IsInjective

-----------------------------------------------------------------------------
(* The runner's steps are steps of do_exec, or leave it alone *)

LEMMA StepsOfExec == [Next]_vars => [ExecNext]_execVars
  <1> SUFFICES ASSUME [Next]_vars PROVE [ExecNext]_execVars  OBVIOUS
  <1> USE DEF ExecNext
  <1>1. ASSUME NEW r \in Reqs, Request(r) \/ Host(r)
        PROVE  UNCHANGED execVars
    BY <1>1 DEF Request, Host, Open, TimesOut
  <1>2. CASE Port  BY <1>2 DEF Port, HostReads, Accept, Detach
  <1>3. CASE Serve
    BY <1>3 DEF Serve, OpenPort, AnswerAtOnce, BeginExec, EndExec, Exec
  <1>4. CASE Exec(WatchdogStep) \/ Exec(CommandStep)  BY <1>4 DEF Exec
  <1>5. CASE Eof  BY <1>5 DEF Eof
  <1>6. ASSUME NEW p \in Procs, Crash(p)
        PROVE  UNCHANGED execVars
    BY <1>6 DEF Crash
  <1>7. CASE UNCHANGED vars  BY <1>7 DEF vars
  <1> QED  BY <1>1, <1>2, <1>3, <1>4, <1>5, <1>6, <1>7 DEF Next

(* Whatever is asked of it and however its port fails, the runner executes *)
(* one command after the other, so that all of ExecInv holds of it.        *)
THEOREM RunnerRunsExec == Spec => ExecSpec
  <1>1. Init => ExecInit  BY DEF Init
  <1> QED  BY <1>1, StepsOfExec, PTL DEF Spec, ExecSpec

-----------------------------------------------------------------------------
(* The host and QEMU *)

LEMMA RequestPreserves ==
    ASSUME RunnerInv, ExecInv', NEW r \in Reqs, Request(r)
    PROVE  RunnerInv'
  <1> USE RunnerAssumption DEF RunnerAssumption
  <1>1. TypeOK'
    BY DEF RunnerInv, ExecInv, TypeOK, Request, portVars, execVars
  <1>2. OncePlaced'
    BY DEF RunnerInv, TypeOK, OncePlaced, OnItsWay, Request, portVars
  <1>3. TrueToTheRun'  BY DEF RunnerInv, TrueToTheRun, Request, portVars
  <1> QED  BY <1>1, <1>2, <1>3 DEF RunnerInv

LEMMA OpenPreserves ==
    ASSUME RunnerInv, ExecInv', NEW r \in Reqs, Open(r)
    PROVE  RunnerInv'
  <1> USE RunnerAssumption DEF RunnerAssumption
  <1>1. /\ backlog' \in Seq(Reqs) /\ ToSet(backlog') = ToSet(backlog) \cup {r}
        /\ IsInjective(backlog) /\ r \notin ToSet(backlog) => IsInjective(backlog')
    BY Enqueued DEF RunnerInv, TypeOK, Open
  <1>2. r \notin ToSet(backlog) /\ r \notin ToSet(toGuest) /\ r # current
        /\ outcome[r] = None
    BY DEF RunnerInv, OncePlaced, OnItsWay, Open
  <1>3. TypeOK'
    BY <1>1 DEF RunnerInv, ExecInv, TypeOK, Open, execVars
  <1>4. OncePlaced'
    BY <1>1, <1>2 DEF RunnerInv, TypeOK, OncePlaced, OnItsWay, Open
  <1>5. TrueToTheRun'  BY DEF RunnerInv, TrueToTheRun, Open
  <1> QED  BY <1>3, <1>4, <1>5 DEF RunnerInv

LEMMA TimesOutPreserves ==
    ASSUME RunnerInv, ExecInv', NEW r \in Reqs, TimesOut(r)
    PROVE  RunnerInv'
  <1> USE RunnerAssumption DEF RunnerAssumption
  <1>1. TypeOK'
    BY DEF RunnerInv, ExecInv, TypeOK, TimesOut, portVars, execVars
  <1>2. OncePlaced'
    BY DEF RunnerInv, TypeOK, OncePlaced, OnItsWay, TimesOut, portVars
  <1>3. TrueToTheRun'  BY DEF RunnerInv, TrueToTheRun, TimesOut, portVars
  <1> QED  BY <1>1, <1>2, <1>3 DEF RunnerInv

LEMMA HostReadsPreserves ==
    ASSUME RunnerInv, ExecInv', HostReads
    PROVE  RunnerInv'
  <1> USE RunnerAssumption DEF RunnerAssumption
  <1> DEFINE line == Head(toHost)
  <1>1. /\ line \in Lines /\ toHost' \in Seq(Lines)
        /\ ToSet(toHost') \subseteq ToSet(toHost)
    BY ToSetOfTail DEF RunnerInv, TypeOK, HostReads
  <1>2. /\ status' \in [Reqs -> {"new", "lock", "open", "returned", "failed"}]
        /\ reply' \in [Reqs -> Outcomes \cup {None}]
        /\ \A r \in Reqs :
               \/ status'[r] = status[r]
               \/ status[r] = "open" /\ status'[r] \in {"returned", "failed"}
    <2>1. line.tells \in Outcomes \cup {None}  BY <1>1 DEF Lines
    <2> HIDE DEF line
    <2>a. /\ status \in [Reqs -> {"new", "lock", "open", "returned", "failed"}]
          /\ reply \in [Reqs -> Outcomes \cup {None}]
      BY DEF RunnerInv, TypeOK
    <2>2. CASE UNCHANGED hostVars
      <3>1. status' = status /\ reply' = reply  BY <2>2 DEF hostVars
      <3> QED  BY <2>a, <3>1
    <2>3. CASE ~ UNCHANGED hostVars
      <3>1. client \in Reqs /\ status[client] = "open"
        BY <2>3 DEF RunnerInv, TypeOK, HostReads
      <3>2. \/ /\ status' = [status EXCEPT ![client] = "returned"]
               /\ reply' = [reply EXCEPT ![client] = line.tells]
            \/ /\ status' = [status EXCEPT ![client] = "failed"]
               /\ reply' = reply
        BY <2>3 DEF HostReads, line
      <3>3. reply' \in [Reqs -> Outcomes \cup {None}]  BY <2>a, <2>1, <3>2
      <3>4. PICK told \in {"returned", "failed"} :
                status' = [status EXCEPT ![client] = told]
        BY <3>2
      <3> QED  BY <2>a, <3>1, <3>3, <3>4
    <2> QED  BY <2>2, <2>3
  <1>3. TypeOK'
    BY <1>1, <1>2 DEF RunnerInv, ExecInv, TypeOK, HostReads, execVars
  <1>4. OncePlaced'
    BY <1>2 DEF RunnerInv, TypeOK, OncePlaced, OnItsWay, HostReads
  <1>5. TrueToTheRun'  BY <1>1 DEF RunnerInv, TrueToTheRun, HostReads
  <1> QED  BY <1>3, <1>4, <1>5 DEF RunnerInv

LEMMA AcceptPreserves ==
    ASSUME RunnerInv, ExecInv', Accept
    PROVE  RunnerInv'
  <1> USE RunnerAssumption DEF RunnerAssumption
  <1> DEFINE r == Head(backlog)
  <1>1. /\ r \in Reqs /\ backlog' \in Seq(Reqs) /\ IsInjective(backlog')
        /\ ToSet(backlog) = {r} \cup ToSet(backlog') /\ r \notin ToSet(backlog')
    BY Dequeued DEF RunnerInv, TypeOK, OncePlaced, Accept
  <1>2. client' = r /\ Deliver(r)
        /\ UNCHANGED <<execVars, hostVars, raw, current, outcome, faults>>
    BY DEF Accept
  <1> HIDE DEF r
  <1>3. r \notin ToSet(toGuest) /\ r # current
        /\ status[r] \notin {"new", "lock"} /\ outcome[r] = None
    BY <1>1 DEF RunnerInv, OncePlaced, OnItsWay
  <1>4. toGuest' = toGuest \/ toGuest' = Append(toGuest, r)
    BY <1>2 DEF Deliver
  <1>5. /\ toGuest' \in Seq(Reqs) /\ IsInjective(toGuest')
        /\ ToSet(toGuest') \subseteq ToSet(toGuest) \cup {r}
    <2>1. toGuest \in Seq(Reqs) /\ IsInjective(toGuest)
      BY DEF RunnerInv, TypeOK, OncePlaced
    <2>2. /\ Append(toGuest, r) \in Seq(Reqs) /\ IsInjective(Append(toGuest, r))
          /\ ToSet(Append(toGuest, r)) = ToSet(toGuest) \cup {r}
      BY <1>1, <1>3, <2>1, Enqueued
    <2> QED  BY <1>4, <2>1, <2>2
  <1>6. /\ toHost' \in Seq(Lines) /\ torn' \subseteq Reqs
        /\ \A line \in ToSet(toHost') : line \in ToSet(toHost) \/ ~ Answers(line)
    <2> DEFINE echo == [verb |-> VerbOf[r], id |-> r, tells |-> None]
    <2>1. echo \in Lines /\ echo.verb \in {"PING", "ENV", "EXEC"}
      BY <1>1 DEF Lines
    <2>2. toHost' = toHost \/ toHost' = Append(toHost, echo)
      BY <1>2 DEF Deliver
    <2>3. torn' \subseteq Reqs  BY <1>2 DEF RunnerInv, TypeOK, Deliver
    <2> HIDE DEF echo
    <2>4. CASE toHost' = toHost  BY <2>3, <2>4 DEF RunnerInv, TypeOK
    <2>5. CASE toHost' = Append(toHost, echo)
      BY <2>1, <2>3, <2>5, Enqueued DEF RunnerInv, TypeOK, Answers
    <2> QED  BY <2>2, <2>4, <2>5
  <1>7. TypeOK'
    BY <1>1, <1>2, <1>5, <1>6 DEF RunnerInv, ExecInv, TypeOK, execVars, hostVars
  <1>8. OncePlaced'
    BY <1>1, <1>2, <1>3, <1>5 DEF RunnerInv, TypeOK, OncePlaced, OnItsWay, hostVars
  <1>9. TrueToTheRun'
    BY <1>2, <1>6 DEF RunnerInv, TrueToTheRun
  <1> QED  BY <1>7, <1>8, <1>9 DEF RunnerInv

\* QEMU lets go of its client, and the runner opens the port.
LEMMA DetachOpenPortPreserve ==
    ASSUME RunnerInv, ExecInv', Detach \/ OpenPort
    PROVE  RunnerInv'
  <1> USE RunnerAssumption DEF RunnerAssumption
  <1>1. /\ UNCHANGED <<execVars, hostVars, backlog, torn, toGuest, toHost, current,
                       outcome, faults>>
        /\ client' \in {client, None} /\ raw' \in {raw, TRUE}
    BY DEF Detach, OpenPort
  <1>2. TypeOK'
    BY <1>1 DEF RunnerInv, ExecInv, TypeOK, execVars, hostVars
  <1>3. OncePlaced'
    BY <1>1 DEF RunnerInv, OncePlaced, OnItsWay, hostVars
  <1>4. TrueToTheRun'  BY <1>1 DEF RunnerInv, TrueToTheRun
  <1> QED  BY <1>2, <1>3, <1>4 DEF RunnerInv

LEMMA EofPreserves ==
    ASSUME RunnerInv, ExecInv', Eof
    PROVE  RunnerInv'
  <1> USE RunnerAssumption DEF RunnerAssumption
  <1>1. toGuest' = toGuest \/ toGuest' = <<>>  BY DEF Eof
  <1>2. /\ toGuest' \in Seq(Reqs) /\ IsInjective(toGuest')
        /\ ToSet(toGuest') \subseteq ToSet(toGuest)
    <2>1. toGuest \in Seq(Reqs) /\ IsInjective(toGuest)
      BY DEF RunnerInv, TypeOK, OncePlaced
    <2>2. <<>> \in Seq(Reqs) /\ IsInjective(<<>>) /\ ToSet(<<>>) = {}
      BY NothingQueued, ToSetOfFew
    <2> QED  BY <1>1, <2>1, <2>2
  <1>3. TypeOK'
    <2>1. torn' \subseteq Reqs /\ faults' \in 0..MaxFaults
      BY DEF RunnerInv, TypeOK, Eof
    <2>2. UNCHANGED <<execVars, hostVars, backlog, client, toHost, current, outcome>>
          /\ raw' = FALSE
      BY DEF Eof
    <2> QED
      BY <1>2, <2>1, <2>2 DEF RunnerInv, ExecInv, TypeOK, execVars, hostVars
  <1>4. OncePlaced'
    BY <1>2 DEF RunnerInv, TypeOK, OncePlaced, OnItsWay, Eof, hostVars
  <1>5. TrueToTheRun'  BY DEF RunnerInv, TrueToTheRun, Eof
  <1> QED  BY <1>3, <1>4, <1>5 DEF RunnerInv

LEMMA CrashPreserves ==
    ASSUME RunnerInv, ExecInv', NEW p \in Procs, Crash(p)
    PROVE  RunnerInv'
  <1> USE RunnerAssumption DEF RunnerAssumption
  <1>1. /\ UNCHANGED <<execVars, reply, backlog, client, toGuest, toHost, raw,
                       current, outcome>>
        /\ faults' \in 0..MaxFaults
    BY DEF Crash, RunnerInv, TypeOK
  <1>2. torn' \subseteq Reqs  BY DEF Crash, RunnerInv, TypeOK
  <1>3. /\ status' \in [Reqs -> {"new", "lock", "open", "returned", "failed"}]
        /\ \A r \in Reqs : \/ status'[r] = status[r]
                           \/ status[r] \in {"lock", "open"} /\ status'[r] = "failed"
    BY DEF Crash, RunnerInv, TypeOK
  <1>4. TypeOK'
    BY <1>1, <1>2, <1>3 DEF RunnerInv, ExecInv, TypeOK, execVars
  <1>5. OncePlaced'
    BY <1>1, <1>3 DEF RunnerInv, TypeOK, OncePlaced, OnItsWay
  <1>6. TrueToTheRun'  BY <1>1 DEF RunnerInv, TrueToTheRun
  <1> QED  BY <1>4, <1>5, <1>6 DEF RunnerInv

-----------------------------------------------------------------------------
(* The guest *)

\* A request that is read leaves the port, to be the runner's alone.
LEMMA ReadsEffect ==
    ASSUME RunnerInv, NEW r \in Reqs, Reads(r)
    PROVE  /\ toGuest' \in Seq(Reqs) /\ IsInjective(toGuest')
           /\ ToSet(toGuest) = {r} \cup ToSet(toGuest') /\ r \notin ToSet(toGuest')
           /\ r \notin ToSet(backlog) /\ current = None
           /\ status[r] \notin {"new", "lock"} /\ outcome[r] = None
  <1>1. /\ toGuest' \in Seq(Reqs) /\ IsInjective(toGuest')
        /\ ToSet(toGuest) = {r} \cup ToSet(toGuest') /\ r \notin ToSet(toGuest')
    BY Dequeued DEF RunnerInv, TypeOK, OncePlaced, Reads
  <1>2. current = None  BY DEF RunnerInv, TypeOK, Reads
  <1> QED  BY <1>1, <1>2 DEF RunnerInv, OncePlaced, OnItsWay

\* An answer is printed with the outcome of its request, which had none.
LEMMA PrintsEffect ==
    ASSUME RunnerInv, NEW r \in Reqs, outcome[r] = None,
           NEW verb \in {"PONG", "OK", "RES", "ERR"}, NEW o \in Outcomes,
           Prints(r, verb, o)
    PROVE  /\ toHost' \in Seq(Lines)
           /\ outcome' = [outcome EXCEPT ![r] = o]
           /\ outcome' \in [Reqs -> Outcomes \cup {None}]
           /\ TrueToTheRun'
  <1> DEFINE line == [verb |-> verb, id |-> r, tells |-> o]
  <1>1. line \in Lines /\ line.id = r /\ line.tells = o /\ o # None
    BY RunnerAssumption DEF Lines, RunnerAssumption
  <1>2. toHost' = Append(toHost, line) /\ outcome' = [outcome EXCEPT ![r] = o]
    BY DEF Prints
  <1> HIDE DEF line
  <1>3. toHost' \in Seq(Lines) /\ ToSet(toHost') = ToSet(toHost) \cup {line}
    BY <1>1, <1>2, Enqueued DEF RunnerInv, TypeOK
  <1>4. outcome' \in [Reqs -> Outcomes \cup {None}] /\ outcome'[r] = o
    BY <1>2 DEF RunnerInv, TypeOK
  <1>5. ASSUME NEW l \in ToSet(toHost'), Answers(l)
        PROVE  l.tells # None /\ l.tells = outcome'[l.id]
    <2>1. CASE l = line  BY <1>1, <1>4, <2>1
    <2>2. CASE l \in ToSet(toHost)
      <3>1. l.tells # None /\ l.tells = outcome[l.id]
        BY <1>5, <2>2 DEF RunnerInv, TrueToTheRun
      <3>2. l.id # r  BY <3>1
      <3>3. outcome'[l.id] = outcome[l.id]
        <4>1. l \in Lines
          BY <2>2 DEF ToSet, RunnerInv, TypeOK
        <4> QED  BY <1>2, <3>2, <4>1 DEF Lines, RunnerInv, TypeOK
      <3> QED  BY <3>1, <3>3
    <2> QED  BY <1>3, <2>1, <2>2
  <1> QED  BY <1>2, <1>3, <1>4, <1>5 DEF TrueToTheRun

LEMMA AnswerAtOncePreserves ==
    ASSUME RunnerInv, ExecInv', NEW r \in Reqs, AnswerAtOnce(r)
    PROVE  RunnerInv'
  <1> USE RunnerAssumption DEF RunnerAssumption
  <1>1. /\ toGuest' \in Seq(Reqs) /\ IsInjective(toGuest')
        /\ ToSet(toGuest) = {r} \cup ToSet(toGuest') /\ r \notin ToSet(toGuest')
        /\ r \notin ToSet(backlog) /\ current = None
        /\ status[r] \notin {"new", "lock"} /\ outcome[r] = None
    BY ReadsEffect DEF AnswerAtOnce
  <1>2. PICK verb \in {"PONG", "OK", "RES", "ERR"}, o \in Outcomes :
            Prints(r, verb, o)
    BY DEF AnswerAtOnce, Answer, Outcomes
  <1>3. /\ toHost' \in Seq(Lines)
        /\ outcome' = [outcome EXCEPT ![r] = o]
        /\ outcome' \in [Reqs -> Outcomes \cup {None}]
        /\ TrueToTheRun'
    BY <1>1, <1>2, PrintsEffect
  <1>4. UNCHANGED <<execVars, hostVars, backlog, client, torn, raw, current, faults>>
    BY DEF AnswerAtOnce
  <1>5. TypeOK'
    BY <1>1, <1>3, <1>4 DEF RunnerInv, ExecInv, TypeOK, execVars, hostVars
  <1>6. OncePlaced'
    BY <1>1, <1>3, <1>4 DEF RunnerInv, TypeOK, OncePlaced, OnItsWay, hostVars
  <1> QED  BY <1>3, <1>5, <1>6 DEF RunnerInv

LEMMA BeginExecPreserves ==
    ASSUME RunnerInv, ExecInv', NEW r \in Reqs, BeginExec(r)
    PROVE  RunnerInv'
  <1> USE RunnerAssumption DEF RunnerAssumption
  <1>1. /\ toGuest' \in Seq(Reqs) /\ IsInjective(toGuest')
        /\ ToSet(toGuest) = {r} \cup ToSet(toGuest') /\ r \notin ToSet(toGuest')
        /\ r \notin ToSet(backlog)
        /\ status[r] \notin {"new", "lock"} /\ outcome[r] = None
    BY ReadsEffect DEF BeginExec
  <1>2. /\ current' = r /\ step' = "wait"
        /\ UNCHANGED <<hostVars, backlog, client, torn, toHost, raw, outcome, faults>>
    BY DEF BeginExec, Start
  <1>3. TypeOK'
    BY <1>1, <1>2 DEF RunnerInv, ExecInv, TypeOK, hostVars
  <1>4. OncePlaced'
    BY <1>1, <1>2 DEF RunnerInv, TypeOK, OncePlaced, OnItsWay, hostVars
  <1>5. TrueToTheRun'  BY <1>2 DEF RunnerInv, TrueToTheRun
  <1> QED  BY <1>3, <1>4, <1>5 DEF RunnerInv

LEMMA EndExecPreserves ==
    ASSUME RunnerInv, ExecInv', EndExec
    PROVE  RunnerInv'
  <1> USE RunnerAssumption DEF RunnerAssumption
  <1>1. /\ step = "answer" /\ step' = "read" /\ current' = None
        /\ Prints(current, "RES", rc)
        /\ UNCHANGED <<hostVars, backlog, client, torn, toGuest, raw, faults>>
    BY DEF EndExec, Answered
  <1>2. PICK r \in Reqs, o \in Outcomes : r = current /\ o = rc
    BY <1>1 DEF RunnerInv, TypeOK, ExecTypeOK, Outcomes
  <1>3. outcome[r] = None /\ status[r] \notin {"new", "lock"}
    BY <1>2 DEF RunnerInv, OncePlaced, OnItsWay
  <1>4. /\ toHost' \in Seq(Lines)
        /\ outcome' = [outcome EXCEPT ![r] = o]
        /\ outcome' \in [Reqs -> Outcomes \cup {None}]
        /\ TrueToTheRun'
    BY <1>1, <1>2, <1>3, PrintsEffect
  <1>5. TypeOK'
    BY <1>1, <1>4 DEF RunnerInv, ExecInv, TypeOK, hostVars
  <1>6. OncePlaced'
    <2>1. None \notin ToSet(backlog) \cup ToSet(toGuest)
      BY DEF RunnerInv, TypeOK, ToSet
    <2> QED
      BY <1>1, <1>2, <1>3, <1>4, <2>1
         DEF RunnerInv, TypeOK, OncePlaced, OnItsWay, hostVars
  <1> QED  BY <1>4, <1>5, <1>6 DEF RunnerInv

\* What the runner, the watchdog and the command do meanwhile.
LEMMA MeanwhilePreserves ==
    ASSUME RunnerInv, ExecInv',
           Exec(RunnerStep) \/ Exec(WatchdogStep) \/ Exec(CommandStep)
    PROVE  RunnerInv'
  <1>1. step' = "read" <=> step = "read"
    BY DEF RunnerInv, ExecInv, Stages, Exec, RunnerStep, WatchdogStep, CommandStep,
        CommandEnded, Settled, Synced, KillStep, ReadChildren, Kill, SleepEnds, Touch,
        WatchdogExits, Exit, Fork
  <1>2. UNCHANGED runnerVars  BY DEF Exec
  <1>3. TypeOK'
    BY <1>1, <1>2 DEF RunnerInv, ExecInv, TypeOK, runnerVars, hostVars, portVars
  <1>4. OncePlaced'
    BY <1>2 DEF RunnerInv, OncePlaced, OnItsWay, runnerVars, hostVars, portVars
  <1>5. TrueToTheRun'
    BY <1>2 DEF RunnerInv, TrueToTheRun, runnerVars, hostVars, portVars
  <1> QED  BY <1>3, <1>4, <1>5 DEF RunnerInv

-----------------------------------------------------------------------------
(* The invariant *)

LEMMA InitRunnerInv == Init => RunnerInv
  <1> SUFFICES ASSUME Init PROVE RunnerInv  OBVIOUS
  <1> USE RunnerAssumption DEF RunnerAssumption, Init
  <1>1. ExecInv  BY InitExecInv
  <1>2. TypeOK
    <2>1. step = "read"  BY DEF ExecInit
    <2>2. ExecTypeOK  BY <1>1 DEF ExecInv
    <2>3. <<>> \in Seq(Reqs) /\ <<>> \in Seq(Lines)  BY NothingQueued
    <2>4. faults \in 0..MaxFaults  OBVIOUS
    <2> QED  BY <2>1, <2>2, <2>3, <2>4 DEF TypeOK
  <1>3. OncePlaced
    BY NothingQueued, ToSetOfFew DEF OncePlaced, OnItsWay
  <1>4. TrueToTheRun  BY ToSetOfFew DEF TrueToTheRun
  <1> QED  BY <1>1, <1>2, <1>3, <1>4 DEF RunnerInv

LEMMA StepPreserves == RunnerInv /\ [Next]_vars => RunnerInv'
  <1> SUFFICES ASSUME RunnerInv, [Next]_vars PROVE RunnerInv'  OBVIOUS
  <1>0. ExecInv'  BY StepsOfExec, ExecStepKeeps DEF RunnerInv
  <1>1. ASSUME NEW r \in Reqs, Request(r) \/ Host(r)
        PROVE  RunnerInv'
    BY <1>0, <1>1, RequestPreserves, OpenPreserves, TimesOutPreserves DEF Host
  <1>2. CASE Port
    BY <1>0, <1>2, HostReadsPreserves, AcceptPreserves, DetachOpenPortPreserve DEF Port
  <1>3. CASE Serve
    BY <1>0, <1>3, DetachOpenPortPreserve, AnswerAtOncePreserves, BeginExecPreserves,
       EndExecPreserves, MeanwhilePreserves DEF Serve
  <1>4. CASE Exec(WatchdogStep) \/ Exec(CommandStep)
    BY <1>0, <1>4, MeanwhilePreserves
  <1>5. CASE Eof  BY <1>0, <1>5, EofPreserves
  <1>6. ASSUME NEW p \in Procs, Crash(p)
        PROVE  RunnerInv'
    BY <1>0, <1>6, CrashPreserves
  <1>7. CASE UNCHANGED vars
    <2>1. UNCHANGED execVars /\ UNCHANGED runnerVars  BY <1>7 DEF vars
    <2>2. TypeOK'
      BY <1>0, <2>1 DEF RunnerInv, ExecInv, TypeOK, execVars, runnerVars, hostVars,
          portVars
    <2>3. OncePlaced'
      BY <2>1 DEF RunnerInv, OncePlaced, OnItsWay, runnerVars, hostVars, portVars
    <2>4. TrueToTheRun'
      BY <2>1 DEF RunnerInv, TrueToTheRun, runnerVars, portVars
    <2> QED  BY <1>0, <2>2, <2>3, <2>4 DEF RunnerInv
  <1> QED  BY <1>1, <1>2, <1>3, <1>4, <1>5, <1>6, <1>7 DEF Next

THEOREM RunnerInvariant == Spec => []RunnerInv
  BY InitRunnerInv, StepPreserves, PTL DEF Spec

(* The variables keep their types; the runner has a request exactly while  *)
(* it is not reading the next one.                                         *)
THEOREM RunnerTypes == Spec => []TypeOK
  <1>1. RunnerInv => TypeOK  BY DEF RunnerInv
  <1> QED  BY <1>1, RunnerInvariant, PTL

-----------------------------------------------------------------------------
(* The promise: every step is one of Requests, or nothing it tells of *)

Promises == Promised!Next \/ UNCHANGED Promised!requestVars

\* Who waits for the lock and who waits for an answer only made a request.
LEMMA NothingToTell ==
    ASSUME TypeOK, UNCHANGED <<outcome, reply>>,
           \A r \in Reqs : \/ status'[r] = status[r]
                           \/ status[r] = "lock" /\ status'[r] = "open",
           status' \in [Reqs -> {"new", "lock", "open", "returned", "failed"}]
    PROVE  Promises
  BY DEF TypeOK, Promises, Promised!requestVars

LEMMA GivesUp ==
    ASSUME TypeOK, UNCHANGED <<outcome, reply>>, NEW rs \in SUBSET Reqs,
           \A r \in rs : status[r] \in {"lock", "open"},
           status' = [r \in Reqs |-> IF r \in rs THEN "failed" ELSE status[r]]
    PROVE  Promises
  <1>1. Promised!GiveUp(rs)  BY DEF TypeOK, Promised!GiveUp
  <1> QED  BY <1>1 DEF Promises, Promised!Next

LEMMA CarriesOut ==
    ASSUME RunnerInv, NEW r \in Reqs, NEW o \in Outcomes,
           status[r] # "new", outcome[r] = None, UNCHANGED hostVars,
           outcome' = [outcome EXCEPT ![r] = o]
    PROVE  Promises
  <1>1. Promised!CarryOut(r)
    BY DEF RunnerInv, TypeOK, hostVars, Promised!CarryOut
  <1> QED  BY <1>1 DEF Promises, Promised!Next

LEMMA HostReadsPromised ==
    ASSUME RunnerInv, HostReads
    PROVE  Promises
  <1> USE DEF RunnerInv, TypeOK
  <1> DEFINE line == Head(toHost)
  <1>1. line \in Lines /\ line \in ToSet(toHost)
    BY ToSetOfTail DEF HostReads
  <1>2. UNCHANGED outcome  BY DEF HostReads
  <1> HIDE DEF line
  <1>3. CASE UNCHANGED hostVars
    BY <1>2, <1>3, NothingToTell DEF hostVars
  <1>4. CASE ~ UNCHANGED hostVars
    <2>1. PICK r \in Reqs : r = client
      BY <1>4 DEF HostReads
    <2>2. status[r] = "open"  BY <1>4, <2>1 DEF HostReads
    <2>3. CASE /\ Accepts(r, line)
               /\ status' = [status EXCEPT ![r] = "returned"]
               /\ reply' = [reply EXCEPT ![r] = line.tells]
      <3>1. Answers(line) /\ line.id = r
        BY <2>3, RunnerAssumption DEF Accepts, Answers, Answer, RunnerAssumption
      <3>2. outcome[r] # None /\ line.tells = outcome[r]
        BY <1>1, <3>1 DEF TrueToTheRun
      <3>3. Promised!Return(r)
        BY <1>2, <2>2, <2>3, <3>2 DEF Promised!Return
      <3> QED  BY <3>3 DEF Promises, Promised!Next
    <2>4. CASE /\ status' = [status EXCEPT ![r] = "failed"]
               /\ reply' = reply
      <3>1. status' = [q \in Reqs |-> IF q \in {r} THEN "failed" ELSE status[q]]
        BY <2>4
      <3> QED  BY <1>2, <2>2, <2>4, <3>1, GivesUp
    <2> QED  BY <1>4, <2>1, <2>3, <2>4 DEF HostReads, line
  <1> QED  BY <1>3, <1>4

LEMMA StepPromised == RunnerInv /\ [Next]_vars => Promises
  <1> SUFFICES ASSUME RunnerInv, [Next]_vars PROVE Promises  OBVIOUS
  <1> USE DEF RunnerInv
  <1>1. ASSUME NEW r \in Reqs, Request(r)
        PROVE  Promises
    <2>1. Promised!Make(r)
      BY <1>1 DEF TypeOK, Request, Promised!Make
    <2> QED  BY <2>1 DEF Promises, Promised!Next
  <1>2. ASSUME NEW r \in Reqs, Open(r)
        PROVE  Promises
    BY <1>2, NothingToTell DEF TypeOK, Open
  <1>3. ASSUME NEW r \in Reqs, TimesOut(r)
        PROVE  Promises
    <2>1. status' = [q \in Reqs |-> IF q \in {r} THEN "failed" ELSE status[q]]
      BY <1>3 DEF TypeOK, TimesOut
    <2> QED  BY <1>3, <2>1, GivesUp DEF TimesOut
  <1>4. CASE HostReads  BY <1>4, HostReadsPromised
  <1>5. ASSUME NEW r \in Reqs, AnswerAtOnce(r)
        PROVE  Promises
    <2>1. status[r] # "new" /\ outcome[r] = None
      BY <1>5, ReadsEffect DEF AnswerAtOnce
    <2>2. PICK verb \in {"PONG", "OK", "RES", "ERR"}, o \in Outcomes :
              Prints(r, verb, o)
      BY <1>5, RunnerAssumption DEF AnswerAtOnce, Answer, Outcomes, RunnerAssumption
    <2> QED  BY <1>5, <2>1, <2>2, CarriesOut DEF AnswerAtOnce, Prints
  <1>6. CASE EndExec
    <2>1. PICK r \in Reqs, o \in Outcomes : r = current /\ o = rc
      BY <1>6 DEF EndExec, Answered, TypeOK, ExecTypeOK, Outcomes
    <2>2. status[r] # "new" /\ outcome[r] = None
      BY <2>1 DEF OncePlaced, OnItsWay
    <2>3. UNCHANGED hostVars /\ outcome' = [outcome EXCEPT ![r] = o]
      BY <1>6, <2>1 DEF EndExec, Prints
    <2> QED  BY <2>2, <2>3, CarriesOut
  <1>7. ASSUME NEW p \in Procs, Crash(p)
        PROVE  Promises
    <2> DEFINE rs == {r \in Reqs : ProcOf[r] = p /\ status[r] \in {"lock", "open"}}
    <2>1. /\ status' = [r \in Reqs |-> IF r \in rs THEN "failed" ELSE status[r]]
          /\ UNCHANGED <<outcome, reply>>
      BY <1>7 DEF Crash, TypeOK
    <2> QED  BY <2>1, GivesUp
  <1>8. CASE UNCHANGED <<hostVars, outcome>>
    BY <1>8, NothingToTell DEF hostVars, TypeOK
  <1>9. Accept \/ Detach \/ OpenPort \/ Eof \/ UNCHANGED runnerVars
            => UNCHANGED <<hostVars, outcome>>
    BY DEF Accept, Detach, OpenPort, Eof, runnerVars
  <1>10. ASSUME NEW r \in Reqs, BeginExec(r)
         PROVE  UNCHANGED <<hostVars, outcome>>
    BY <1>10 DEF BeginExec
  <1> QED
    BY <1>1, <1>2, <1>3, <1>4, <1>5, <1>6, <1>7, <1>8, <1>9, <1>10
    DEF Next, Host, Port, Serve, Exec, vars

(* The protocol keeps its promise: whatever times out, is lost, cut, late  *)
(* or echoed, each request is carried out at most once, and one that       *)
(* returns an answer returns that of its own run.                          *)
THEOREM ProtocolKeepsPromise == Spec => KeepsPromise
  <1>1. Init => Promised!Init  BY DEF Init, Promised!Init
  <1>2. RunnerInv /\ [Next]_vars => [Promised!Next]_(Promised!requestVars)
    BY StepPromised DEF Promises
  <1> QED
    BY <1>1, <1>2, RunnerInvariant, PTL DEF Spec, KeepsPromise, Promised!Spec
=============================================================================
