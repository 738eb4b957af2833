----------------------------- MODULE RunnerExec -----------------------------
(***************************************************************************)
(* do_exec and killtree of the guest's runner (smolbsd/runner.sh): one     *)
(* command at a time, the processes it starts, and the watchdog that ends  *)
(* it.  The shells are processes like those of the command: the watchdog   *)
(* is a subshell whose child is `sleep`.  Each action is one line, or one  *)
(* system call where two processes race.                                   *)
(***************************************************************************)
EXTENDS Naturals, Sequences, FiniteSets, SequencesExt

CONSTANTS
    Root,      \* the command: `pid` in do_exec
    Children,  \* the other processes a command may start
    Watchdog,  \* the subshell that sleeps, marks and kills
    Sleep,     \* its child
    Runner,    \* the runner's own shell
    None,      \* no process; as a parent, init or the runner
    MaxForks   \* bound on the processes a command starts

Command == {Root} \cup Children
Pids == Command \cup {Watchdog, Sleep}
Killers == {Runner, Watchdog}

ASSUME RunnerExecAssumption ==
    /\ Root \notin Children
    /\ IsFiniteSet(Children)
    /\ {Watchdog, Sleep} \cap Command = {}
    /\ Watchdog # Sleep
    /\ {None, Runner} \cap Pids = {}
    /\ None # Runner
    /\ MaxForks \in Nat

VARIABLES
    step,      \* the line the runner is at
    rc,        \* the exit code: the command's own, or 124
    marked,    \* $work/timeout exists
    alive,     \* the processes that are alive
    parent,    \* the parent of a process
    waitsFor,  \* the child a shell waits for before its next line
    agenda,    \* the processes each killtree still has to kill, in order
    listed,    \* the killtrees whose pgrep has run for the next of them
    children,  \* and the children it found
    forks,     \* how many processes the command has started
    killed,    \* history: what killtree killed since the command began
    fled       \* history: processes killtree cannot find, see Fled below

treeVars == <<alive, parent, waitsFor, forks, fled>>
killVars == <<agenda, listed, children, killed>>
execVars == <<step, rc, marked, treeVars, killVars>>

ExecTypeOK ==
    /\ step \in {"read", "wait", "join", "spare", "sync", "answer"}
    /\ rc \in {"own", "124"}
    /\ marked \in BOOLEAN
    /\ alive \subseteq Pids
    /\ parent \in [Pids -> Pids \cup {None}]
    /\ waitsFor \in [Pids -> Pids \cup {None}]
    /\ agenda \in [Killers -> Seq(Pids)]
    /\ listed \subseteq Killers
    /\ children \in [Killers -> SUBSET Pids]
    /\ forks \in 0..MaxForks
    /\ killed \subseteq Pids
    /\ fled \subseteq Command
    /\ step = "read" => rc = "own" /\ ~ marked
    /\ \A p \in Pids : p \notin alive => parent[p] = None /\ waitsFor[p] = None

ExecInit ==
    /\ step = "read"
    /\ rc = "own"
    /\ marked = FALSE
    /\ alive = {}
    /\ parent = [p \in Pids |-> None]
    /\ waitsFor = [p \in Pids |-> None]
    /\ agenda = [k \in Killers |-> <<>>]
    /\ listed = {}
    /\ children = [k \in Killers |-> {}]
    /\ forks = 0
    /\ killed = {}
    /\ fled = {}

ChildrenOf(p) == {c \in alive : parent[c] = p}

\* A process that waits for a child runs its next line once the child died.
Runs(p) == p \in alive /\ waitsFor[p] \notin alive

\* p is gone, and its children are init's.
Dies(p) ==
    /\ alive' = alive \ {p}
    /\ parent' = [c \in Pids |-> IF parent[c] = p \/ c = p THEN None
                                                           ELSE parent[c]]
    /\ waitsFor' = [waitsFor EXCEPT ![p] = None]

-----------------------------------------------------------------------------
(* The command, external: it may fork, wait, leave children behind, or     *)
(* never end.                                                              *)

\* A pid is not given again while somebody refers to it.
Referred(c) ==
    \/ \E p \in alive : waitsFor[p] = c
    \/ \E k \in Killers : \/ c \in ToSet(agenda[k])
                          \/ c \in children[k]

\* killtree has read the children of p and not yet killed it.
ChildrenListed(p) ==
    \E k \in listed : agenda[k] # <<>> /\ Head(agenda[k]) = p

(* Fled: a process killtree cannot reach by its parents.  It was forked    *)
(* after its parent's children were read, or its parent ended before it.   *)

Fork(p, c) ==
    /\ p \in Command
    /\ Runs(p)
    /\ forks < MaxForks
    /\ forks' = forks + 1
    /\ c \in Children \ alive
    /\ ~ Referred(c)
    /\ alive' = alive \cup {c}
    /\ parent' = [parent EXCEPT ![c] = p]
    /\ \E waited \in {c, None} : waitsFor' = [waitsFor EXCEPT ![p] = waited]
    /\ fled' = IF ChildrenListed(p) THEN fled \cup {c} ELSE fled \ {c}
    /\ killed' = killed \ {c}
    /\ UNCHANGED <<step, rc, marked, agenda, listed, children>>

Exit(p) ==
    /\ p \in Command
    /\ Runs(p)
    /\ Dies(p)
    /\ fled' = (fled \ {p}) \cup ChildrenOf(p)
    /\ UNCHANGED <<step, rc, marked, forks, killVars>>

-----------------------------------------------------------------------------
(* killtree, run by the watchdog on the command or by the runner on the    *)
(* watchdog                                                                *)

Killing(k) == agenda[k] # <<>> /\ (k = Runner \/ Runs(k))

ReadChildren(k) ==
    /\ Killing(k)
    /\ k \notin listed
    /\ listed' = listed \cup {k}
    /\ children' = [children EXCEPT ![k] = ChildrenOf(Head(agenda[k]))]
    /\ UNCHANGED <<step, rc, marked, treeVars, agenda, killed>>

\* Mutant: the children are killed before their parent.
KillChildrenFirst(k) ==
    LET p == Head(agenda[k])
    IN  /\ Killing(k)
        /\ k \in listed
        /\ IF children[k] \cap alive # {}
           THEN /\ \E c \in children[k] \cap alive :
                       Dies(c) /\ killed' = killed \cup {c}
                /\ UNCHANGED <<agenda, listed, children>>
           ELSE /\ Dies(p)
                /\ killed' = killed \cup {p}
                /\ agenda' = [agenda EXCEPT ![k] = Tail(@)]
                /\ listed' = listed \ {k}
                /\ children' = [children EXCEPT ![k] = {}]
        /\ UNCHANGED <<step, rc, marked, forks, fled>>

\* Mutant: the signal can be ignored.
KillPolite(k) ==
    LET p == Head(agenda[k])
    IN  /\ Killing(k)
        /\ k \in listed
        /\ \E obeys \in BOOLEAN :
               IF obeys
               THEN Dies(p) /\ killed' = killed \cup ({p} \cap alive)
               ELSE UNCHANGED <<alive, parent, waitsFor, killed>>
        /\ \E order \in SetToSeqs(children[k]) :
               agenda' = [agenda EXCEPT ![k] = order \o Tail(@)]
        /\ listed' = listed \ {k}
        /\ children' = [children EXCEPT ![k] = {}]
        /\ UNCHANGED <<step, rc, marked, forks, fled>>

\* The process is killed, then its children in turn, each with its own.
Kill(k) ==
    LET p == Head(agenda[k])
    IN  /\ Killing(k)
        /\ k \in listed
        /\ Dies(p)
        /\ killed' = killed \cup ({p} \cap alive)
        /\ \E order \in SetToSeqs(children[k]) :
               agenda' = [agenda EXCEPT ![k] = order \o Tail(@)]
        /\ listed' = listed \ {k}
        /\ children' = [children EXCEPT ![k] = {}]
        /\ UNCHANGED <<step, rc, marked, forks, fled>>

-----------------------------------------------------------------------------
(* The watchdog: ( sleep "$timeout"; touch "$work/timeout"; killtree ) *)

SleepEnds ==
    /\ Sleep \in alive
    /\ Dies(Sleep)
    /\ UNCHANGED <<step, rc, marked, forks, fled, killVars>>

\* Mutant: the mark is left after the kill.
TouchLate ==
    /\ Runs(Watchdog)
    /\ ~ marked
    /\ IF Root \in alive
       THEN /\ agenda' = [agenda EXCEPT ![Watchdog] = <<Root>>]
            /\ agenda[Watchdog] = <<>>
            /\ UNCHANGED marked
       ELSE /\ agenda[Watchdog] = <<>>
            /\ marked' = TRUE
            /\ UNCHANGED agenda
    /\ UNCHANGED <<step, rc, treeVars, listed, children, killed>>

Touch ==
    /\ Runs(Watchdog)
    /\ ~ marked
    /\ marked' = TRUE
    /\ agenda' = [agenda EXCEPT ![Watchdog] = <<Root>>]
    /\ UNCHANGED <<step, rc, treeVars, listed, children, killed>>

WatchdogExits ==
    /\ Runs(Watchdog)
    /\ marked
    /\ agenda[Watchdog] = <<>>
    /\ Dies(Watchdog)
    /\ UNCHANGED <<step, rc, marked, forks, fled, killVars>>

-----------------------------------------------------------------------------
(* do_exec *)

\* mktemp made a new work directory: the command and the watchdog start.
Start ==
    /\ step = "read"
    /\ step' = "wait"
    /\ alive' = alive \cup {Root, Watchdog, Sleep}
    /\ parent' = [parent EXCEPT ![Root] = None, ![Watchdog] = None,
                                ![Sleep] = Watchdog]
    /\ waitsFor' = [waitsFor EXCEPT ![Watchdog] = Sleep]
    /\ UNCHANGED <<rc, marked, killVars, forks, fled>>

\* Mutant: the answer does not wait for the watchdog to finish killing.
CommandEndedHasty ==
    /\ step = "wait"
    /\ Root \notin alive
    /\ IF marked
       THEN step' = "sync" /\ rc' = "124" /\ UNCHANGED agenda
       ELSE /\ step' = "spare"
            /\ agenda' = [agenda EXCEPT ![Runner] = <<Watchdog>>]
            /\ UNCHANGED rc
    /\ UNCHANGED <<marked, treeVars, listed, children, killed>>

\* Mutant: the watchdog is left to run out.
CommandEndedSparing ==
    /\ step = "wait"
    /\ Root \notin alive
    /\ IF marked THEN step' = "join" /\ rc' = "124"
                 ELSE step' = "sync" /\ UNCHANGED rc
    /\ UNCHANGED <<marked, agenda, treeVars, listed, children, killed>>

\* `wait "$pid"` returns: the mark tells whether the watchdog fired.
CommandEnded ==
    /\ step = "wait"
    /\ Root \notin alive
    /\ IF marked
       THEN step' = "join" /\ rc' = "124" /\ UNCHANGED agenda
       ELSE /\ step' = "spare"
            /\ agenda' = [agenda EXCEPT ![Runner] = <<Watchdog>>]
            /\ UNCHANGED rc
    /\ UNCHANGED <<marked, treeVars, listed, children, killed>>

\* The watchdog was waited for, or was killed, and the disk is synced.
Settled ==
    /\ step \in {"join", "spare"}
    /\ IF step = "join" THEN Watchdog \notin alive ELSE agenda[Runner] = <<>>
    /\ step' = "sync"
    /\ UNCHANGED <<rc, marked, treeVars, killVars>>

Synced ==
    /\ step = "sync"
    /\ step' = "answer"
    /\ UNCHANGED <<rc, marked, treeVars, killVars>>

\* Mutant: the work directory, and the mark in it, is still there next time.
AnsweredUncleaned ==
    /\ step = "answer"
    /\ step' = "read"
    /\ rc' = "own"
    /\ alive' = alive \ Command
    /\ parent' = [p \in Pids |-> None]
    /\ waitsFor' = [p \in Pids |-> None]
    /\ fled' = {}
    /\ forks' = 0
    /\ UNCHANGED <<marked, killVars>>

\* RES is printed; the work directory goes, and the mark with it.  What is
\* left of the command is not followed further: nothing refers to it again.
Answered ==
    /\ step = "answer"
    /\ step' = "read"
    /\ rc' = "own"
    /\ marked' = FALSE
    /\ agenda' = [k \in Killers |-> <<>>]
    /\ listed' = {}
    /\ children' = [k \in Killers |-> {}]
    /\ killed' = {}
    /\ alive' = alive \ Command
    /\ parent' = [p \in Pids |-> None]
    /\ waitsFor' = [p \in Pids |-> None]
    /\ fled' = {}
    /\ forks' = 0

-----------------------------------------------------------------------------

\* What the command does by itself, and what the guest's shells do.
CommandStep == \E p \in Command : Exit(p) \/ \E c \in Children : Fork(p, c)
KillStep(k) == ReadChildren(k) \/ Kill(k)
WatchdogStep == SleepEnds \/ Touch \/ WatchdogExits \/ KillStep(Watchdog)
RunnerStep == CommandEnded \/ Settled \/ Synced \/ KillStep(Runner)

\* One command after the other.
ExecNext == Start \/ CommandStep \/ WatchdogStep \/ RunnerStep \/ Answered

ExecSpec == ExecInit /\ [][ExecNext]_execVars

(***************************************************************************)
(* The guest's shells go on and sleep ends.  Nothing obliges the command:  *)
(* it may never end.                                                       *)
(***************************************************************************)
ExecFairSpec ==
    /\ ExecSpec
    /\ WF_execVars(WatchdogStep)
    /\ WF_execVars(RunnerStep \/ Answered)

-----------------------------------------------------------------------------
(***************************************************************************)
(* A shell never runs its next line because killtree killed its child: the *)
(* parent is dead by then, whatever forks and ends meanwhile ("Parent      *)
(* first", runner.sh:28-30).  So no script goes on after its time-out, and *)
(* a watchdog that is stood down marks no timeout.                         *)
(***************************************************************************)
NoNextLine == \A p \in alive : waitsFor[p] \notin killed

(***************************************************************************)
(* A command any process of which was killed is reported as timed out: its *)
(* end by the watchdog never passes for one of its own (runner.sh:79-84).  *)
(***************************************************************************)
KilledMeansTimedOut ==
    step = "answer" /\ killed \cap Command # {} => rc = "124"

(***************************************************************************)
(* When a timed-out command is answered its process tree is gone, but for  *)
(* what nobody can find by its parents: a process forked between pgrep and *)
(* kill, or left behind by a parent that had ended ("the command's process *)
(* tree is killed", docs/backends.md:125).                                 *)
(***************************************************************************)
TreeIsGone ==
    step = "answer" /\ rc = "124"
        => \A p \in alive \cap Command : parent[p] = None => p \in fled

(***************************************************************************)
(* No watchdog outlives its command's answer, to mark or kill while the    *)
(* next one runs (runner.sh:81-87).                                        *)
(***************************************************************************)
NoStrayWatchdog ==
    step \in {"answer", "read"} => {Watchdog, Sleep} \cap alive = {}

(***************************************************************************)
(* Whatever a command does, never ending or forking while it is killed,    *)
(* the runner comes back to read the next request: the watchdog ends it.   *)
(***************************************************************************)
RunnerComesBack == (step # "read") ~> (step = "read")
=============================================================================
