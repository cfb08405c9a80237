----------------------------- MODULE MCJobQueue -----------------------------
(* JobQueue for TLC.                                                       *)
EXTENDS JobQueue, TLC

CONSTANTS p1, p2

\* Both calls run in the same process and share its worker id, as two task
\* requests of one Cloud Run instance do.
SharedWorker == [p \in Call |-> "task-1"]

CallSymmetry == Permutations(Call)

=============================================================================
