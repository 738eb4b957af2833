---------------------------- MODULE MCK8sSession ----------------------------
(* TLC instance of K8sSession: who calls which executor. *)
EXTENDS K8sSession

CONSTANTS e1, t1, t2

OneExecutor == {e1}
TwoTasks == {t1, t2}
OnePod == {Pod}

BothOnOne == [t \in Tasks |-> e1]
=============================================================================
