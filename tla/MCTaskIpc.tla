----------------------------- MODULE MCTaskIpc ------------------------------
(* Instances of TaskIpc for TLC.                                           *)
EXTENDS TaskIpc, TLC

\* Threads and descriptors are interchangeable; used where only invariants are checked.
Symmetry == Permutations(Apps) \union Permutations(Fds)
=============================================================================
