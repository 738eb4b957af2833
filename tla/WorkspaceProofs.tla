-------------------------- MODULE WorkspaceProofs --------------------------
(***************************************************************************)
(* Theorems about Workspace, for any disks, any writes and any number of   *)
(* kills, failures and deletions.  Both properties follow from DiskInv,    *)
(* which says what the session's disk holds at each step of the boot and   *)
(* where the data of a command is at each step of the runner.              *)
(***************************************************************************)
EXTENDS Workspace, TLAPS

\* The session's disk is the only one without a file system, so the only
\* one that is ever chosen; at each step it holds what the last step made.
DiskStage ==
    /\ \A d \in Disks \ {Ws} : content[d] = "ffs"
    /\ target \in {Ws, None}
    /\ host # "idle" => guest = "off"
    /\ host = "sizing" => content[Ws] = "empty"
    /\ guest = "create" => content[Ws] \in {"empty", "blank"}
    /\ guest = "add" => content[Ws] = "table"
    /\ guest = "newfs" => content[Ws] = "wedge"
    /\ guest \in {"remount", "serve", "run", "sync", "answer"} => content[Ws] = "ffs"

\* Data is in the guest's cache only while a guest serves, and on the disk
\* only if there is a file system; a command that is answered was synced.
DataStage ==
    /\ cached # {} => guest \in {"serve", "run", "sync", "answer"}
    /\ stored # {} => content[Ws] = "ffs"
    /\ answered \subseteq stored
    /\ guest = "sync" => running \in cached \cup stored
    /\ guest = "answer" => running \in stored

DiskInv == TypeOK /\ DiskStage /\ DataStage

LEMMA InitDiskInv == Init => DiskInv
  <1> SUFFICES ASSUME Init PROVE DiskInv  OBVIOUS
  <1> USE WorkspaceAssumption DEF WorkspaceAssumption, Init
  <1>1. TypeOK  BY DEF TypeOK, Contents
  <1>2. DiskStage  BY DEF DiskStage
  <1>3. DataStage  BY DEF DataStage
  <1> QED  BY <1>1, <1>2, <1>3 DEF DiskInv

\* Only a disk without a wedge whose first sectors are zero is blank.
LEMMA BlankIsOurs ==
    ASSUME DiskInv, NEW d \in Disks, BlankDisk(d)
    PROVE  d = Ws /\ content[Ws] \in {"empty", "blank"}
  BY DEF DiskInv, DiskStage, BlankDisk, HasWedge, StartsWithZeros

\* The steps of the host, and those that end a VM.
LEMMA HostKeeps ==
    ASSUME DiskInv, Host \/ SizeFails \/ Delete \/ Kill
    PROVE  DiskInv'
  <1> USE WorkspaceAssumption
      DEF WorkspaceAssumption, DiskInv, TypeOK, Contents, DiskStage, DataStage, SetContent, Gone,
          guestVars, dataVars, countVars
  <1>1. CASE EnsureDisk  BY <1>1 DEF EnsureDisk
  <1>2. CASE SizeDisk  BY <1>2 DEF SizeDisk
  <1>3. CASE Boot  BY <1>3 DEF Boot
  <1>4. CASE SizeFails  BY <1>4 DEF SizeFails
  <1>5. CASE Delete  BY <1>5 DEF Delete
  <1>6. CASE Kill  BY <1>6 DEF Kill
  <1> QED  BY <1>1, <1>2, <1>3, <1>4, <1>5, <1>6 DEF Host

\* The steps of workspace.sh.
LEMMA BootKeeps ==
    ASSUME DiskInv, BootScript \/ FormatFails
    PROVE  DiskInv'
  <1> USE WorkspaceAssumption
      DEF WorkspaceAssumption, DiskInv, TypeOK, Contents, DiskStage, DataStage, SetContent, Gone,
          Halt, GuestAt, guestVars, dataVars, countVars
  <1>1. CASE Mount  BY <1>1 DEF Mount
  <1>2. CASE MountFails
    <2>1. CASE Halt /\ errors' \in 0..MaxErrors  BY <2>1
    <2>2. ASSUME NEW d \in Disks, BlankDisk(d), target' = d, GuestAt("create"),
                 errors' \in 0..MaxErrors, UNCHANGED <<content, kills, deletes>>
          PROVE  DiskInv'
      <3>1. d = Ws /\ content[Ws] \in {"empty", "blank"}  BY <2>2, BlankIsOurs
      <3>2. cached = {}  BY <1>2 DEF MountFails
      <3> QED  BY <1>2, <2>2, <3>1, <3>2 DEF MountFails
    <2>3. errors' \in 0..MaxErrors  BY <1>2 DEF MountFails
    <2> QED  BY <1>2, <2>1, <2>2, <2>3 DEF MountFails
  <1>3. CASE CreateTable  BY <1>3 DEF CreateTable
  <1>4. CASE AddWedge  BY <1>4 DEF AddWedge
  <1>5. CASE Newfs  BY <1>5 DEF Newfs
  <1>6. CASE Remount  BY <1>6 DEF Remount
  <1>7. CASE FormatFails  BY <1>7 DEF FormatFails
  <1> QED  BY <1>1, <1>2, <1>3, <1>4, <1>5, <1>6, <1>7 DEF BootScript

\* The steps of the runner and of the guest's cache.
LEMMA CommandKeeps ==
    ASSUME DiskInv, Command \/ Flush
    PROVE  DiskInv'
  <1> USE WorkspaceAssumption
      DEF WorkspaceAssumption, DiskInv, TypeOK, Contents, DiskStage, DataStage,
          guestVars, dataVars, countVars
  <1>1. ASSUME NEW w \in Writes, Begin(w) PROVE DiskInv'  BY <1>1 DEF Begin
  <1>2. CASE CommandWrites  BY <1>2 DEF CommandWrites
  <1>3. CASE Sync  BY <1>3 DEF Sync
  <1>4. CASE Answer  BY <1>4 DEF Answer
  <1>5. CASE Flush  BY <1>5 DEF Flush
  <1> QED  BY <1>1, <1>2, <1>3, <1>4, <1>5 DEF Command

LEMMA StepKeeps == DiskInv /\ [Next]_vars => DiskInv'
  <1> SUFFICES ASSUME DiskInv, [Next]_vars PROVE DiskInv'  OBVIOUS
  <1>1. CASE UNCHANGED vars
    BY <1>1 DEF DiskInv, TypeOK, DiskStage, DataStage, vars, guestVars,
                dataVars, countVars
  <1>2. CASE Next  BY <1>2, HostKeeps, BootKeeps, CommandKeeps DEF Next
  <1> QED  BY <1>1, <1>2

LEMMA AlwaysDiskInv == Spec => []DiskInv
  BY InitDiskInv, StepKeeps, PTL DEF Spec

-----------------------------------------------------------------------------
(***************************************************************************)
(* Type correctness: the script has chosen a disk exactly while it formats *)
(* one, and a command runs exactly while the runner is in it.              *)
(***************************************************************************)
THEOREM WorkspaceTypes == Spec => []TypeOK
  <1>1. DiskInv => TypeOK  BY DEF DiskInv
  <1> QED  BY <1>1, AlwaysDiskInv, PTL

(***************************************************************************)
(* What the runner has answered is on the disk until the session is        *)
(* deleted, however many VMs are killed and mounts fail (runner.sh:88-89). *)
(***************************************************************************)
THEOREM AnsweredSurvives == Spec => []FinishedSurvives
  <1>1. DiskInv => FinishedSurvives
    BY DEF DiskInv, DataStage, FinishedSurvives
  <1> QED  BY <1>1, AlwaysDiskInv, PTL

(***************************************************************************)
(* However the disks are numbered and whatever fails, a disk with a file   *)
(* system keeps it until the session is deleted (workspace.sh:6-10).       *)
(***************************************************************************)
THEOREM DataIsNotFormatted == Spec => NoDataFormatted
  <1> DEFINE Kept ==
        \A d \in Disks : content[d] = "ffs" => content'[d] \in {"ffs", "absent"}
  <1>1. ASSUME DiskInv, Next PROVE Kept
    <2> SUFFICES ASSUME NEW d \in Disks, content[d] = "ffs"
                 PROVE  content'[d] \in {"ffs", "absent"}
      OBVIOUS
    <2> USE <1>1, WorkspaceAssumption
        DEF WorkspaceAssumption, DiskInv, TypeOK, DiskStage, SetContent
    <2>1. CASE UNCHANGED content  BY <2>1
    <2>2. CASE EnsureDisk  BY <2>2 DEF EnsureDisk
    <2>3. CASE SizeDisk  BY <2>3 DEF SizeDisk
    <2>4. CASE Delete  BY <2>4 DEF Delete
    <2>5. CASE CreateTable  BY <2>5 DEF CreateTable, Halt
    <2>6. CASE AddWedge  BY <2>6 DEF AddWedge
    <2>7. CASE Newfs  BY <2>7 DEF Newfs
    <2>8. CASE Boot \/ SizeFails \/ Kill \/ Mount \/ MountFails \/ Remount
                 \/ FormatFails
      BY <2>1, <2>8 DEF Boot, SizeFails, Kill, Mount, MountFails, Remount,
         FormatFails, Halt
    <2>9. CASE Command \/ Flush
      BY <2>1, <2>9 DEF Command, Begin, CommandWrites, Sync, Answer, Flush
    <2> QED
      BY <2>2, <2>3, <2>4, <2>5, <2>6, <2>7, <2>8, <2>9 DEF Next, Host, BootScript
  <1>2. DiskInv /\ [Next]_vars => [Kept]_vars
    BY <1>1
  <1> QED  BY <1>2, AlwaysDiskInv, PTL DEF Spec, NoDataFormatted
=============================================================================
