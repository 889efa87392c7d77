---------------------------- MODULE MCRotation -----------------------------
(* The threads are interchangeable, and so are the addresses.              *)
EXTENDS Rotation, TLC

RotationSymmetry == Permutations(Threads) \cup Permutations(Addresses)
=============================================================================
