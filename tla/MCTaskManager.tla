--------------------------- MODULE MCTaskManager ---------------------------
(* Threads of one kind are interchangeable. *)
EXTENDS TaskManager, TLC

ThreadSymmetry == Permutations(Handlers) \cup Permutations(Workers)
=============================================================================
