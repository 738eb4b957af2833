----------------------------- MODULE Workspace -----------------------------
(***************************************************************************)
(* The workspace disk of one session: the host makes it (ensure_disk),     *)
(* the guest mounts it or formats it at boot (smolbsd/workspace.sh), the   *)
(* runner syncs what a command wrote before it answers (runner.sh:88-89),  *)
(* and the VM may be killed at any step (stop, a crash of QEMU).  Each     *)
(* action of the guest is one command of the scripts.                      *)
(*                                                                         *)
(* The raw writes of gpt and newfs reach the image at once; what commands  *)
(* write to the file system is cached by the guest, and is lost with it.   *)
(***************************************************************************)
EXTENDS Naturals, FiniteSets

CONSTANTS
    Disks,      \* the block devices of the guest
    Ws,         \* the workspace disk among them
    Writes,     \* what the commands write, one per command
    None,       \* no disk
    MaxKills,   \* bound on VMs killed, or dead by themselves
    MaxErrors,  \* bound on steps that make or mount a disk and fail
    MaxDeletes  \* bound on delete_container

ASSUME WorkspaceAssumption ==
    /\ Ws \in Disks
    /\ None \notin Disks \cup Writes
    /\ MaxKills \in Nat /\ MaxErrors \in Nat /\ MaxDeletes \in Nat

VARIABLES
    host,      \* where the host is before it starts a VM
    content,   \* what each disk holds, from nothing to a file system
    guest,     \* where the guest is; "off" if no VM runs
    target,    \* the disk the guest chose to format
    running,   \* the command the runner executes, or None
    cached,    \* writes of which the guest has not written the data yet
    stored,    \* writes that are on the disk
    answered,  \* commands the runner has answered
    kills, errors, deletes  \* how many faults and deletions there were

guestVars == <<guest, target, running>>
dataVars == <<cached, stored, answered>>
countVars == <<kills, errors, deletes>>
vars == <<host, content, guestVars, dataVars, countVars>>

\* The image does not exist; it exists without its size; it has its size;
\* it has a partition table; also a labelled wedge; also a file system.
Contents == {"absent", "empty", "blank", "table", "wedge", "ffs"}

TypeOK ==
    /\ host \in {"idle", "sizing", "starting"}
    /\ content \in [Disks -> Contents]
    /\ guest \in {"off", "mount", "create", "add", "newfs", "remount", "serve",
                  "run", "sync", "answer"}
    /\ target \in Disks \cup {None}
    /\ running \in Writes \cup {None}
    /\ target # None <=> guest \in {"create", "add", "newfs", "remount"}
    /\ running # None <=> guest \in {"run", "sync", "answer"}
    /\ cached \subseteq Writes
    /\ stored \subseteq Writes
    /\ answered \subseteq Writes
    /\ kills \in 0..MaxKills
    /\ errors \in 0..MaxErrors
    /\ deletes \in 0..MaxDeletes

\* The other disks, the root disk for one, come from the image build.
Init ==
    /\ host = "idle"
    /\ content = [d \in Disks |-> IF d = Ws THEN "absent" ELSE "ffs"]
    /\ guest = "off"
    /\ target = None
    /\ running = None
    /\ cached = {}
    /\ stored = {}
    /\ answered = {}
    /\ kills = 0 /\ errors = 0 /\ deletes = 0

-----------------------------------------------------------------------------
(* The host: _boot, stop and delete_container *)

SetContent(d, c) == content' = [content EXCEPT ![d] = c]

\* ensure_disk: a file that exists is taken for a disk, another is opened,
\* and gets its size in a second step.
EnsureDisk ==
    /\ host = "idle"
    /\ guest = "off"
    /\ IF content[Ws] = "absent"
       THEN SetContent(Ws, "empty") /\ host' = "sizing"
       ELSE host' = "starting" /\ UNCHANGED content
    /\ UNCHANGED <<guestVars, dataVars, countVars>>

SizeDisk ==
    /\ host = "sizing"
    /\ host' = "starting"
    /\ SetContent(Ws, "blank")
    /\ UNCHANGED <<guestVars, dataVars, countVars>>

\* truncate raises, or the process dies before it.
SizeFails ==
    /\ host = "sizing"
    /\ errors < MaxErrors
    /\ errors' = errors + 1
    /\ host' = "idle"
    /\ UNCHANGED <<content, guestVars, dataVars, kills, deletes>>

Boot ==
    /\ host = "starting"
    /\ host' = "idle"
    /\ guest' = "mount"
    /\ UNCHANGED <<content, target, running, dataVars, countVars>>

\* rmtree, once no VM runs.
Delete ==
    /\ host = "idle"
    /\ guest = "off"
    /\ content[Ws] # "absent"
    /\ deletes < MaxDeletes
    /\ deletes' = deletes + 1
    /\ SetContent(Ws, "absent")
    /\ stored' = {}
    /\ answered' = {}
    /\ UNCHANGED <<host, guestVars, cached, kills, errors>>

\* The VM is gone, with what it had not written.
Gone ==
    /\ guest' = "off"
    /\ target' = None
    /\ running' = None
    /\ cached' = {}
    /\ UNCHANGED <<host, stored, answered>>

Kill ==
    /\ guest # "off"
    /\ kills < MaxKills
    /\ kills' = kills + 1
    /\ Gone
    /\ UNCHANGED <<content, errors, deletes>>

-----------------------------------------------------------------------------
(* workspace.sh, whose failure halts the VM: "no runner without a          *)
(* workspace" (smolbsd/SMOLerfile:21-23)                                   *)

Halt == Gone /\ UNCHANGED <<content, kills, deletes>>

GuestAt(s) == guest' = s /\ UNCHANGED <<host, running, dataVars>>

HasWedge(d) == content[d] \in {"wedge", "ffs"}
StartsWithZeros(d) == content[d] \in {"empty", "blank"}

\* Mutant: the first disk without a mounted file system is formatted.
AnyDisk(d) == d \in Disks

\* blank_disk, over disks whose numbering is not stable
BlankDisk(d) == ~ HasWedge(d) /\ StartsWithZeros(d)

\* mount -o log NAME=roomkit-workspace
Mount ==
    /\ guest = "mount"
    /\ content[Ws] = "ffs"
    /\ GuestAt("serve")
    /\ UNCHANGED <<content, target, countVars>>

\* Mutant: the script ends at the mount that fails.
MountFailsAtOnce ==
    /\ guest = "mount"
    /\ \/ content[Ws] # "ffs" /\ UNCHANGED errors
       \/ errors < MaxErrors /\ errors' = errors + 1
    /\ Halt

\* It does not mount: a blank disk is looked for.
MountFails ==
    /\ guest = "mount"
    /\ \/ content[Ws] # "ffs" /\ UNCHANGED errors
       \/ errors < MaxErrors /\ errors' = errors + 1
    /\ \/ \E d \in Disks :
              /\ BlankDisk(d)
              /\ target' = d
              /\ GuestAt("create")
              /\ UNCHANGED <<content, kills, deletes>>
       \/ (\A d \in Disks : ~ BlankDisk(d)) /\ Halt

\* gpt create, which fails on a disk without size
CreateTable ==
    /\ guest = "create"
    /\ IF content[target] = "empty"
       THEN Halt
       ELSE /\ SetContent(target, "table")
            /\ GuestAt("add")
            /\ UNCHANGED <<target, kills, deletes>>
    /\ UNCHANGED errors

\* gpt add -t ffs -l roomkit-workspace
AddWedge ==
    /\ guest = "add"
    /\ SetContent(target, "wedge")
    /\ GuestAt("newfs")
    /\ UNCHANGED <<target, countVars>>

Newfs ==
    /\ guest = "newfs"
    /\ SetContent(target, "ffs")
    /\ GuestAt("remount")
    /\ UNCHANGED <<target, countVars>>

\* Mutant: the choice of the disk outlives the script.
RemountKeeps ==
    /\ guest = "remount"
    /\ GuestAt("serve")
    /\ UNCHANGED <<content, target, countVars>>

Remount ==
    /\ guest = "remount"
    /\ target' = None
    /\ GuestAt("serve")
    /\ UNCHANGED <<content, countVars>>

FormatFails ==
    /\ guest \in {"create", "add", "newfs", "remount"}
    /\ errors < MaxErrors
    /\ errors' = errors + 1
    /\ Halt

-----------------------------------------------------------------------------
(* The runner, as far as the disk goes, and the guest's cache *)

Begin(w) ==
    /\ guest = "serve"
    /\ guest' = "run"
    /\ running' = w
    /\ UNCHANGED <<host, content, target, dataVars, countVars>>

CommandWrites ==
    /\ guest = "run"
    /\ guest' = "sync"
    /\ cached' = cached \cup {running}
    /\ UNCHANGED <<host, content, target, running, stored, answered, countVars>>

\* The guest writes some of its cache in the background.
Flush ==
    /\ \E some \in (SUBSET cached) \ {{}} :
           /\ stored' = stored \cup some
           /\ cached' = cached \ some
    /\ UNCHANGED <<host, content, guestVars, answered, countVars>>

\* Mutant: the answer does not wait for the disk.
SyncNothing ==
    /\ guest = "sync"
    /\ guest' = "answer"
    /\ UNCHANGED <<host, content, target, running, dataVars, countVars>>

Sync ==
    /\ guest = "sync"
    /\ guest' = "answer"
    /\ stored' = stored \cup cached
    /\ cached' = {}
    /\ UNCHANGED <<host, content, target, running, answered, countVars>>

Answer ==
    /\ guest = "answer"
    /\ guest' = "serve"
    /\ running' = None
    /\ answered' = answered \cup {running}
    /\ UNCHANGED <<host, content, target, cached, stored, countVars>>

-----------------------------------------------------------------------------

Host == EnsureDisk \/ SizeDisk \/ Boot
BootScript ==
    \/ Mount \/ MountFails
    \/ CreateTable \/ AddWedge \/ Newfs \/ Remount
Command == (\E w \in Writes : Begin(w)) \/ CommandWrites \/ Sync \/ Answer

Next ==
    \/ Host \/ SizeFails \/ Delete \/ Kill
    \/ BootScript \/ FormatFails
    \/ Command \/ Flush

Spec == Init /\ [][Next]_vars

(***************************************************************************)
(* An agent keeps calling, so that a session without a VM gets one, and    *)
(* the guest goes through its boot.                                        *)
(***************************************************************************)
FairSpec == Spec /\ WF_vars(Host) /\ WF_vars(BootScript)

-----------------------------------------------------------------------------
(***************************************************************************)
(* A disk that has a file system is never formatted, whether it is another *)
(* one or the session's own that does not mount this time, and whatever    *)
(* order the disks come in (workspace.sh:6-10): only delete_container does *)
(* away with it.                                                           *)
(***************************************************************************)
NoDataFormatted ==
    [][\A d \in Disks : content[d] = "ffs" => content'[d] \in {"ffs", "absent"}]_vars

(***************************************************************************)
(* "What a finished command wrote survives the VM being killed": from its  *)
(* answer until the session is deleted it is on the session's disk, across *)
(* kills, failed mounts and boots (runner.sh:88-89, backends.md:117-119).  *)
(***************************************************************************)
FinishedSurvives == answered \subseteq stored /\ (answered # {} => content[Ws] = "ffs")

\* The making of the disk was cut short, and nothing will resume it.
HalfMade ==
    host = "idle" /\ guest = "off" /\ content[Ws] \in {"empty", "table", "wedge"}

(***************************************************************************)
(* "If the VM dies, the next command boots a new one on the same disk"     *)
(* (docs/backends.md:118-119): as long as calls keep coming a VM serves    *)
(* again, unless a VM or the host was stopped while it made the disk: then *)
(* no boot finds a disk to mount or to format, until the session is        *)
(* deleted.                                                                *)
(***************************************************************************)
ServesUnlessHalfMade == (guest = "off") ~> (guest = "serve" \/ HalfMade)
=============================================================================
