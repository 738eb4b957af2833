---------------------------- MODULE MCSmolBackend ----------------------------
(* TLC instances of SmolBackend: the processes and what their tasks call. *)
EXTENDS SmolBackend, TLC

CONSTANTS p1, t1, t2, v1, v2, v3

OneProc == {p1}
OneTask == {t1}
TwoTasks == {t1, t2}
ThreeVms == {v1, v2, v3}

Alone == (t1 :> p1)
Together == (t1 :> p1) @@ (t2 :> p1)

Use == {"create", "find", "exec"}
All == Use \cup {"delete"}

AllCall == [t \in Tasks |-> All]
AllUse == [t \in Tasks |-> Use]
OneUsesOneDeletes ==
    (t1 :> {"create", "exec"}) @@ (t2 :> {"exec", "delete"})

TasksAndVms == Permutations(ThreeVms) \cup Permutations(TwoTasks)
=============================================================================
