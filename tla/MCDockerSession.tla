--------------------------- MODULE MCDockerSession ---------------------------
(* TLC instances of DockerSession: who calls which executor. *)
EXTENDS DockerSession, TLC

CONSTANTS e1, e2, t1, t2, t3, c1, c2, c3

OneExecutor == {e1}
SecondExecutor == {e2}
TwoExecutors == {e1, e2}
NoExecutors == {}
TwoTasks == {t1, t2}
ThreeTasks == {t1, t2, t3}
NoIds == {}
FirstId == {c1}
TwoIds == {c1, c2}
ThreeIds == {c1, c2, c3}

BothOnOne == (t1 :> e1) @@ (t2 :> e1)
TwoAndOne == (t1 :> e1) @@ (t2 :> e1) @@ (t3 :> e2)

\* The two tasks of the first executor, and all ids, are interchangeable.
TasksAndIds == Permutations(TwoTasks) \cup Permutations(ThreeIds)
=============================================================================
