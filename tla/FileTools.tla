----------------------------- MODULE FileTools -----------------------------
(***************************************************************************)
(* The commands that sandbox_write, sandbox_edit, sandbox_delete and       *)
(* sandbox_read become (commands.py), run on one file by calls that may    *)
(* overlap, as they do in a container, or be killed at any step, as a      *)
(* time-out does in a VM.  Each action is one command of the shell line,   *)
(* or the opening of a file by the shell before it.                        *)
(*                                                                         *)
(* A file is an inode under a name: a call that has opened one goes on     *)
(* writing to it whatever its name becomes.                                *)
(***************************************************************************)
EXTENDS Naturals, Sequences, FiniteSets

CONSTANTS
    Calls,    \* the calls that may be made
    OpOf,     \* the tool and the arguments of a call
    Chars,    \* what texts are made of
    Texts,    \* the texts the file may start with
    NL,       \* the newline
    None      \* no such file, or an argument that is not given

VARIABLES
    name,     \* the inode of the file and of its .tmp file, or None
    data,     \* what each inode holds
    at,       \* the next step of a call
    fd,       \* the inode a call has opened to write
    got,      \* the text a call has read
    shown,    \* the output of a read
    result,   \* how a call ended
    clash     \* history: two calls that change the file have overlapped

vars == <<name, data, at, fd, got, shown, result, clash>>

\* An inode is named for the call that made it; Base is there from the start.
Base == "base"
Inodes == Calls \cup {Base}

Tool(c) == OpOf[c].tool
Calling(tool) == {c \in Calls : Tool(c) = tool}
Changers == Calls \ Calling("read")

ASSUME FileToolsAssumption ==
    /\ NL \in Chars
    /\ Texts \subseteq Seq(Chars)
    /\ Base \notin Calls
    /\ None \notin Inodes \cup Seq(Chars)
    /\ \A c \in Calls : Tool(c) \in {"write", "edit", "delete", "read"}
    /\ \A c \in Calling("write") : OpOf[c].text \in Seq(Chars)
    /\ \A c \in Calling("edit") : {OpOf[c].old, OpOf[c].new} \subseteq Seq(Chars)
    /\ \A c \in Calling("read") :
           {OpOf[c].offset, OpOf[c].limit} \subseteq Nat \cup {None}

FileTypeOK ==
    /\ name \in [{"file", "tmp"} -> Inodes \cup {None}]
    /\ data \in [Inodes -> Seq(Chars)]
    /\ got \in [Calls -> Seq(Chars)]
    /\ shown \in [Calls -> Seq(Chars)]
    /\ at \in [Calls -> {"idle", "fill", "scan", "print", "move", "done"}]
    /\ fd \in [Calls -> Inodes \cup {None}]
    /\ result \in [Calls -> {"none", "ok", "error", "killed"}]
    /\ clash \in BOOLEAN
    /\ \A c \in Calls : fd[c] # None <=> at[c] \in {"fill", "scan", "print"}

Init ==
    /\ name = [n \in {"file", "tmp"} |-> IF n = "file" THEN Base ELSE None]
    /\ \E t \in Texts : data = [i \in Inodes |-> IF i = Base THEN t ELSE <<>>]
    /\ at = [c \in Calls |-> "idle"]
    /\ fd = [c \in Calls |-> None]
    /\ got = [c \in Calls |-> <<>>]
    /\ shown = [c \in Calls |-> <<>>]
    /\ result = [c \in Calls |-> "none"]
    /\ clash = FALSE

InProgress(c) == at[c] \notin {"idle", "done"}

\* A call that changes the file begins.
Begins(c) ==
    /\ at[c] = "idle"
    /\ clash' = (clash \/ \E d \in Changers : InProgress(d))

Goto(c, s) == at' = [at EXCEPT ![c] = s]

Ends(c, r) ==
    /\ Goto(c, "done")
    /\ fd' = [fd EXCEPT ![c] = None]
    /\ result' = [result EXCEPT ![c] = r]

\* `> n`: the file is made, or truncated, and the call may write to it.
OpenTruncated(c, n) ==
    LET i == IF name[n] = None THEN c ELSE name[n]
    IN  /\ name' = [name EXCEPT ![n] = i]
        /\ data' = [data EXCEPT ![i] = <<>>]
        /\ fd' = [fd EXCEPT ![c] = i]

\* A write at the beginning of what the call has opened.
WriteOut(c, text) ==
    data' = [data EXCEPT ![fd[c]] =
                 text \o SubSeq(@, Len(text) + 1, Len(@))]

\* What the file holds, or None.
File == IF name["file"] = None THEN None ELSE data[name["file"]]

-----------------------------------------------------------------------------
(* build_write: printf '%s' content > path *)

WriteOpens(c) ==
    /\ Tool(c) = "write"
    /\ Begins(c)
    /\ OpenTruncated(c, "file")
    /\ Goto(c, "fill")
    /\ UNCHANGED <<got, shown, result>>

WriteFills(c) ==
    /\ at[c] = "fill"
    /\ WriteOut(c, OpOf[c].text)
    /\ Ends(c, "ok")
    /\ UNCHANGED <<name, got, shown, clash>>

-----------------------------------------------------------------------------
(* build_edit: awk ... path > path.tmp && mv path.tmp path *)

\* awk's index(t, o), from position i on: where o occurs next, or 0.
Index(t, o, i) ==
    LET places == {j \in i..(Len(t) + 1 - Len(o)) :
                       SubSeq(t, j, j + Len(o) - 1) = o}
    IN  IF o = <<>> \/ places = {}
        THEN 0
        ELSE CHOOSE j \in places : \A k \in places : j <= k

\* The loop that counts the matches, each search behind the last match,
\* counts one.
MatchesOnce(t, o) ==
    /\ Index(t, o, 1) # 0
    /\ Index(t, o, Index(t, o, 1) + Len(o)) = 0

\* The records awk joins: the text without its last newline.
Records(t) ==
    IF t # <<>> /\ t[Len(t)] = NL THEN SubSeq(t, 1, Len(t) - 1) ELSE t

\* What awk prints: the first match replaced, and a newline.
Replaced(t, o, n) ==
    LET p == Index(t, o, 1)
    IN  SubSeq(t, 1, p - 1) \o n \o SubSeq(t, p + Len(o), Len(t)) \o <<NL>>

\* Mutant: the output goes to the file itself.
EditOpensFile(c) ==
    /\ Tool(c) = "edit"
    /\ Begins(c)
    /\ OpenTruncated(c, "file")
    /\ Goto(c, "scan")
    /\ UNCHANGED <<got, shown, result>>

EditOpens(c) ==
    /\ Tool(c) = "edit"
    /\ Begins(c)
    /\ OpenTruncated(c, "tmp")
    /\ Goto(c, "scan")
    /\ UNCHANGED <<got, shown, result>>

\* Mutant: any number of matches will do.
EditScansAny(c) ==
    /\ at[c] = "scan"
    /\ IF File = None \/ Index(Records(File), OpOf[c].old, 1) = 0
       THEN Ends(c, "error") /\ UNCHANGED got
       ELSE /\ got' = [got EXCEPT ![c] = Records(File)]
            /\ Goto(c, "print")
            /\ UNCHANGED <<fd, result>>
    /\ UNCHANGED <<name, data, shown, clash>>

\* awk reads the file to its end and counts the matches.
EditScans(c) ==
    /\ at[c] = "scan"
    /\ IF File = None \/ ~ MatchesOnce(Records(File), OpOf[c].old)
       THEN Ends(c, "error") /\ UNCHANGED got
       ELSE /\ got' = [got EXCEPT ![c] = Records(File)]
            /\ Goto(c, "print")
            /\ UNCHANGED <<fd, result>>
    /\ UNCHANGED <<name, data, shown, clash>>

\* Mutant: the output is still open when the file is moved.
EditPrintsOpen(c) ==
    /\ at[c] = "print"
    /\ WriteOut(c, Replaced(got[c], OpOf[c].old, OpOf[c].new))
    /\ Goto(c, "move")
    /\ UNCHANGED <<name, fd, got, shown, result, clash>>

EditPrints(c) ==
    /\ at[c] = "print"
    /\ WriteOut(c, Replaced(got[c], OpOf[c].old, OpOf[c].new))
    /\ fd' = [fd EXCEPT ![c] = None]
    /\ Goto(c, "move")
    /\ UNCHANGED <<name, got, shown, result, clash>>

\* mv, which fails if somebody else has moved the .tmp file
EditMoves(c) ==
    /\ at[c] = "move"
    /\ IF name["tmp"] = None
       THEN Ends(c, "error") /\ UNCHANGED name
       ELSE /\ name' = [n \in DOMAIN name |->
                           IF n = "file" THEN name["tmp"] ELSE None]
            /\ Ends(c, "ok")
    /\ UNCHANGED <<data, got, shown, clash>>

-----------------------------------------------------------------------------
(* build_delete, of a file or of nothing *)

Delete(c) ==
    /\ Tool(c) = "delete"
    /\ Begins(c)
    /\ name' = [name EXCEPT !["file"] = None]
    /\ Ends(c, "ok")
    /\ UNCHANGED <<data, got, shown>>

-----------------------------------------------------------------------------
(* NativeCommandBuilder.build_read: cat -n path | tail | head *)

Newlines(t) == {i \in 1..Len(t) : t[i] = NL}

\* Where line n ends.
LineEnd(t, n) ==
    IF Cardinality(Newlines(t)) < n
    THEN Len(t)
    ELSE CHOOSE i \in Newlines(t) \cup {0} :
             Cardinality({j \in Newlines(t) : j <= i}) = n

HeadTo(t, n) == SubSeq(t, 1, LineEnd(t, n))
TailFrom(t, n) == SubSeq(t, LineEnd(t, n - 1) + 1, Len(t))

Given(arg) == arg # None /\ arg # 0

\* Mutant: offset is taken for the first line.
OutputOffByOne(t, offset, limit) ==
    LET tail == TailFrom(t, IF Given(offset) THEN offset ELSE 1)
    IN  IF Given(limit) THEN HeadTo(tail, limit) ELSE tail

\* What the pipeline prints of a text, without the numbers.
Output(t, offset, limit) ==
    LET tail == TailFrom(t, (IF Given(offset) THEN offset ELSE 0) + 1)
    IN  IF Given(limit) THEN HeadTo(tail, limit) ELSE tail

Read(c) ==
    /\ Tool(c) = "read"
    /\ at[c] = "idle"
    /\ IF File = None
       THEN Ends(c, "error") /\ UNCHANGED <<got, shown>>
       ELSE /\ got' = [got EXCEPT ![c] = File]
            /\ shown' = [shown EXCEPT ![c] =
                             Output(File, OpOf[c].offset, OpOf[c].limit)]
            /\ Ends(c, "ok")
    /\ UNCHANGED <<name, data, clash>>

-----------------------------------------------------------------------------

\* The command's process tree is killed.
Kill(c) ==
    /\ InProgress(c)
    /\ Ends(c, "killed")
    /\ UNCHANGED <<name, data, got, shown, clash>>

Step(c) ==
    \/ WriteOpens(c) \/ WriteFills(c)
    \/ EditOpens(c) \/ EditScans(c) \/ EditPrints(c) \/ EditMoves(c)
    \/ Delete(c)
    \/ Read(c)
    \/ Kill(c)

Next == \E c \in Calls : Step(c)

Spec == Init /\ [][Next]_vars

-----------------------------------------------------------------------------
\* Reference: u is t with its one match of o replaced, every other place
\* where o occurs being inside that match or overlapping it.
IsEditOf(u, t, o, n) ==
    LET b == Records(t)
        Occurs(i) == i + Len(o) <= Len(b) + 1 /\ SubSeq(b, i, i + Len(o) - 1) = o
    IN  /\ o # <<>>
        /\ \E i \in 1..Len(b) :
               /\ Occurs(i)
               /\ \A j \in 1..Len(b) : Occurs(j) => j \in i..(i + Len(o) - 1)
               /\ u = SubSeq(b, 1, i - 1) \o n
                          \o SubSeq(b, i + Len(o), Len(b)) \o <<NL>>

(***************************************************************************)
(* Unless two calls that change the file overlap, an edit changes it all   *)
(* at once or not at all, killed at whatever step: the file never holds    *)
(* part of an edit, one whose old string occurs elsewhere too changes      *)
(* nothing, and only the end of a successful edit, a write or a deletion   *)
(* changes the file (commands.py:54-90).                                   *)
(***************************************************************************)
ChangedWhole(c) ==
    \/ /\ Tool(c) = "edit"
       /\ result'[c] = "ok"
       /\ File # None
       /\ IsEditOf(File', File, OpOf[c].old, OpOf[c].new)
    \/ Tool(c) = "write" /\ File' \in {<<>>, OpOf[c].text}
    \/ Tool(c) = "delete" /\ File' = None

EditsAreAtomic ==
    [][~ clash' /\ File' # File
           => \E c \in Calls : at'[c] # at[c] /\ ChangedWhole(c)]_vars

(***************************************************************************)
(* A call that says it succeeded did what it says, unless calls that       *)
(* change the file overlap: "Replaced 1 occurrence in" is printed of the   *)
(* file as it is then (commands.py:77-79).                                 *)
(***************************************************************************)
OkMeansDone ==
    [][\A c \in Changers :
           ~ clash' /\ result[c] = "none" /\ result'[c] = "ok"
               => CASE Tool(c) = "edit" ->
                           /\ File # None
                           /\ IsEditOf(File', File, OpOf[c].old, OpOf[c].new)
                    [] Tool(c) = "write" -> File' = OpOf[c].text
                    [] Tool(c) = "delete" -> File' = None]_vars

\* Reference: s is the lines first + 1 to first + limit of t.
LineOf(t, i) == 1 + Cardinality({j \in Newlines(t) : j < i})

IsRangeOf(s, t, offset, limit) ==
    LET first == IF Given(offset) THEN offset ELSE 0
        Wanted(i) == /\ LineOf(t, i) > first
                     /\ Given(limit) => LineOf(t, i) <= first + limit
        places == {i \in 1..Len(t) : Wanted(i)}
    IN  /\ Len(s) = Cardinality(places)
        /\ \A i \in places : s[Cardinality({j \in places : j <= i})] = t[i]

(***************************************************************************)
(* A read shows the lines offset + 1 to offset + limit of the text it      *)
(* found, whole lines and no others (commands.py:153-162); a limit of 0    *)
(* counts as none.                                                         *)
(***************************************************************************)
ReadsTheRange ==
    \A c \in Calling("read") :
        result[c] = "ok" =>
            IsRangeOf(shown[c], got[c], OpOf[c].offset, OpOf[c].limit)
=============================================================================
