--------------------------- MODULE MCSmolSession ---------------------------
(* TLC instance of SmolSession: two calls that overlap, in one process. *)
EXTENDS SmolSession

CONSTANT p1

OneProc == {p1}
InOneProc == [t \in Tasks |-> p1]
AllBackendCalls == [t \in Tasks |-> {"create", "find", "exec"}]
=============================================================================
