----------------------------- MODULE MCTaskRuns -----------------------------
(* TaskRuns on small sets of runs, tasks and computers. *)
EXTENDS TaskRuns

CONSTANTS r1, r2, t1, here, c1

\* Runs of one task: a second one is a continuation of the first.
MCOneTask == [r \in Runs |-> t1]
MCHome == [t \in Tasks |-> c1]
=============================================================================
