----------------------------- MODULE MCTaskPool -----------------------------
(* Small instances of TaskPool: who submits, how many tasks and threads. *)
EXTENDS TaskPool

CONSTANTS s1, s2, k1, k2, k3

OneSubmitter  == {s1}
TwoSubmitters == {s1, s2}
TwoTasks      == {k1, k2}
ThreeTasks    == {k1, k2, k3}

=============================================================================
