----------------------------- MODULE MCAccount -----------------------------
(* Instance ids, and elastic addresses, are interchangeable. *)
EXTENDS Account, TLC

AccountSymmetry == Permutations(Instances) \cup Permutations(Eips)
=============================================================================
