------------------------------- MODULE Runner -------------------------------
(***************************************************************************)
(* The runner's protocol: the requests of RunnerChannel                    *)
(* (_smolbsd_runner.py) in one process or several, the socket QEMU serves  *)
(* to one client at a time, the guest's port, and the loop of runner.sh,   *)
(* whose commands are those of RunnerExec.  A request stands for its own   *)
(* id, which is random and never used twice.                               *)
(***************************************************************************)
EXTENDS RunnerExec

CONSTANTS
    Reqs,       \* the requests that may be made
    Procs,      \* the processes with a channel to the VM
    ProcOf,     \* the process that makes a request
    VerbOf,     \* PING, ENV or EXEC
    MaxFaults   \* bound on EOFs of the port and deaths of host processes

\* What the guest answers: PONG or OK, a command's own exit code or that of
\* a time-out, or an error.
Outcomes == {"done", "own", "124", "error"}

ASSUME RunnerAssumption ==
    /\ ProcOf \in [Reqs -> Procs]
    /\ VerbOf \in [Reqs -> {"PING", "ENV", "EXEC"}]
    /\ None \notin Reqs \cup Outcomes
    /\ MaxFaults \in Nat

VARIABLES
    status,    \* where the host is with a request
    backlog,   \* connections QEMU has not accepted, in order
    client,    \* the request whose connection QEMU serves, or None
    torn,      \* requests of which only the beginning was written
    toGuest,   \* the lines the port holds for the runner
    toHost,    \* the lines the guest has printed
    raw,       \* the runner has the port open in raw mode, without echo
    current,   \* the request the runner executes
    outcome,   \* what came of a request in the guest
    reply,     \* what the host was told
    faults     \* how many faults there have been

hostVars == <<status, reply>>
portVars == <<backlog, client, torn, toGuest, toHost, raw>>
runnerVars == <<hostVars, portVars, current, outcome, faults>>
vars == <<execVars, runnerVars>>

Answer(verb) == CASE verb = "PING" -> "PONG"
                  [] verb = "ENV" -> "OK"
                  [] verb = "EXEC" -> "RES"

\* A line: its first word, its id, and what it tells the host.
Lines == [verb : {"PING", "ENV", "EXEC", "PONG", "OK", "RES", "ERR"},
          id : Reqs, tells : Outcomes \cup {None}]

TypeOK ==
    /\ ExecTypeOK
    /\ status \in [Reqs -> {"new", "lock", "open", "returned", "failed"}]
    /\ backlog \in Seq(Reqs)
    /\ client \in Reqs \cup {None}
    /\ torn \subseteq Reqs
    /\ toGuest \in Seq(Reqs)
    /\ toHost \in Seq(Lines)
    /\ raw \in BOOLEAN
    /\ current \in Reqs \cup {None}
    /\ current = None <=> step = "read"
    /\ outcome \in [Reqs -> Outcomes \cup {None}]
    /\ reply \in [Reqs -> Outcomes \cup {None}]
    /\ faults \in 0..MaxFaults

Init ==
    /\ ExecInit
    /\ status = [r \in Reqs |-> "new"]
    /\ backlog = <<>>
    /\ client = None
    /\ torn = {}
    /\ toGuest = <<>>
    /\ toHost = <<>>
    /\ raw = FALSE
    /\ current = None
    /\ outcome = [r \in Reqs |-> None]
    /\ reply = [r \in Reqs |-> None]
    /\ faults = 0

-----------------------------------------------------------------------------
(* RunnerChannel._request and _exchange *)

Request(r) ==
    /\ status[r] = "new"
    /\ status' = [status EXCEPT ![r] = "lock"]
    /\ UNCHANGED <<execVars, reply, portVars, current, outcome, faults>>

LockFree(p) == \A r \in Reqs : ProcOf[r] = p => status[r] # "open"

\* The lock is granted, the connection opened and the request written.
Open(r) ==
    /\ status[r] = "lock"
    /\ LockFree(ProcOf[r])
    /\ status' = [status EXCEPT ![r] = "open"]
    /\ backlog' = Append(backlog, r)
    /\ UNCHANGED <<execVars, reply, client, torn, toGuest, toHost, raw, current,
                   outcome, faults>>

\* wait_for gives up; the connection is closed and the lock released.
TimesOut(r) ==
    /\ status[r] = "open"
    /\ status' = [status EXCEPT ![r] = "failed"]
    /\ UNCHANGED <<execVars, reply, portVars, current, outcome, faults>>

\* Mutant: the id is not compared.
AcceptsAnyId(r, line) == line.verb = Answer(VerbOf[r])

\* What the request of client makes of a line: a line with another id or
\* another first word is skipped, ERR raises.
Accepts(r, line) == line.id = r /\ line.verb = Answer(VerbOf[r])
Refused(r, line) == line.id = r /\ line.verb = "ERR"

\* QEMU passes a line on to its client, if that one is still there.
HostReads ==
    /\ toHost # <<>>
    /\ toHost' = Tail(toHost)
    /\ LET line == Head(toHost)
           r == client
       IN  IF r = None \/ status[r] # "open"
           THEN UNCHANGED hostVars
           ELSE \/ /\ Accepts(r, line)
                   /\ status' = [status EXCEPT ![r] = "returned"]
                   /\ reply' = [reply EXCEPT ![r] = line.tells]
                \/ /\ Refused(r, line)
                   /\ status' = [status EXCEPT ![r] = "failed"]
                   /\ UNCHANGED reply
                \/ /\ ~ Accepts(r, line) /\ ~ Refused(r, line)
                   /\ UNCHANGED hostVars
    /\ UNCHANGED <<execVars, backlog, client, torn, toGuest, raw, current,
                   outcome, faults>>

-----------------------------------------------------------------------------
(* QEMU and the port, external *)

\* A line reaches the port.  Behind one that was cut it is lost: the runner
\* reads both as one, a request of the first.  Before the port is raw it is
\* echoed, or lost with what the terminal discards.
Deliver(r) ==
    IF toGuest # <<>> /\ Last(toGuest) \in torn
    THEN /\ torn' = torn \ {Last(toGuest)}
         /\ UNCHANGED <<toGuest, toHost>>
    ELSE /\ UNCHANGED torn
         /\ \/ /\ toGuest' = Append(toGuest, r)
               /\ IF raw
                  THEN UNCHANGED toHost
                  ELSE toHost' = Append(toHost, [verb |-> VerbOf[r], id |-> r,
                                                 tells |-> None])
            \/ ~ raw /\ UNCHANGED <<toGuest, toHost>>

\* QEMU accepts the next connection, with what was written to it, even if
\* its client has hung up.
Accept ==
    /\ client = None
    /\ backlog # <<>>
    /\ client' = Head(backlog)
    /\ backlog' = Tail(backlog)
    /\ Deliver(Head(backlog))
    /\ UNCHANGED <<execVars, hostVars, raw, current, outcome, faults>>

\* QEMU notices that its client hung up.
Detach ==
    /\ client # None
    /\ status[client] # "open"
    /\ client' = None
    /\ UNCHANGED <<execVars, hostVars, backlog, torn, toGuest, toHost, raw,
                   current, outcome, faults>>

-----------------------------------------------------------------------------
(* runner.sh: serve and the loop around it *)

\* exec <"$PORT" >"$PORT"; stty raw -echo
OpenPort ==
    /\ ~ raw
    /\ raw' = TRUE
    /\ UNCHANGED <<execVars, hostVars, backlog, client, torn, toGuest, toHost,
                   current, outcome, faults>>

\* A read of the port gives EOF: it is opened again, and may be flushed.
Eof ==
    /\ raw
    /\ step = "read"
    /\ faults < MaxFaults
    /\ faults' = faults + 1
    /\ raw' = FALSE
    /\ toGuest' \in {toGuest, <<>>}
    /\ torn' = torn \cap ToSet(toGuest')
    /\ UNCHANGED <<execVars, hostVars, backlog, client, toHost, current, outcome>>

Prints(r, verb, o) ==
    /\ toHost' = Append(toHost, [verb |-> verb, id |-> r, tells |-> o])
    /\ outcome' = [outcome EXCEPT ![r] = o]

\* The runner reads a whole line.
Reads(r) ==
    /\ raw
    /\ step = "read"
    /\ toGuest # <<>>
    /\ r = Head(toGuest)
    /\ r \notin torn
    /\ toGuest' = Tail(toGuest)

\* PING, ENV, and what fails before it begins.
AnswerAtOnce(r) ==
    /\ Reads(r)
    /\ \/ VerbOf[r] # "EXEC" /\ Prints(r, Answer(VerbOf[r]), "done")
       \/ VerbOf[r] # "PING" /\ Prints(r, "ERR", "error")
    /\ UNCHANGED <<execVars, hostVars, backlog, client, torn, raw, current,
                   faults>>

BeginExec(r) ==
    /\ Reads(r)
    /\ VerbOf[r] = "EXEC"
    /\ Start
    /\ current' = r
    /\ UNCHANGED <<hostVars, backlog, client, torn, toHost, raw, outcome,
                   faults>>

\* Mutant: the request stays the runner's after its answer.
EndExecKeeps ==
    /\ Answered
    /\ Prints(current, "RES", rc)
    /\ UNCHANGED <<hostVars, backlog, client, torn, toGuest, raw, current,
                   faults>>

EndExec ==
    /\ Answered
    /\ Prints(current, "RES", rc)
    /\ current' = None
    /\ UNCHANGED <<hostVars, backlog, client, torn, toGuest, raw, faults>>

-----------------------------------------------------------------------------

\* A host process dies: its connections are closed, and a long request may
\* have been written in part.
Crash(p) ==
    LET mine == {r \in Reqs : ProcOf[r] = p}
        cut == {r \in mine : /\ status[r] = "open"
                             /\ VerbOf[r] # "PING"
                             /\ \/ r \in ToSet(backlog)
                                \/ toGuest # <<>> /\ r = Last(toGuest)}
    IN  /\ faults < MaxFaults
        /\ faults' = faults + 1
        /\ status' = [r \in Reqs |->
                         IF r \in mine /\ status[r] \in {"lock", "open"}
                         THEN "failed" ELSE status[r]]
        /\ \E some \in SUBSET cut : torn' = torn \cup some
        /\ UNCHANGED <<execVars, reply, backlog, client, toGuest, toHost, raw,
                       current, outcome>>

Exec(A) == A /\ UNCHANGED runnerVars

Host(r) == Open(r) \/ TimesOut(r)
Port == HostReads \/ Accept \/ Detach
Serve ==
    \/ OpenPort
    \/ \E r \in Reqs : AnswerAtOnce(r) \/ BeginExec(r)
    \/ EndExec
    \/ Exec(RunnerStep)

Next ==
    \/ \E r \in Reqs : Request(r) \/ Host(r)
    \/ Port
    \/ Serve
    \/ Exec(WatchdogStep)
    \/ Exec(CommandStep)
    \/ Eof
    \/ \E p \in Procs : Crash(p)

Spec == Init /\ [][Next]_vars

-----------------------------------------------------------------------------
(***************************************************************************)
(* The protocol keeps what Requests promises, over connections that are    *)
(* given up with their request still on the way, answers that come late to *)
(* the next client, echoes, and lines that are lost or cut: a request that *)
(* returns has the answer of its own run, and runs at most once.           *)
(***************************************************************************)
Promised ==
    INSTANCE Requests WITH
        status <- [r \in Reqs |-> CASE status[r] = "lock" -> "made"
                                    [] status[r] = "open" -> "made"
                                    [] OTHER -> status[r]]

KeepsPromise == Promised!Spec
=============================================================================
