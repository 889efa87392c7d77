------------------------------ MODULE MCUnits ------------------------------
(* A plain name, and one that goes on behind it with an underscore and one *)
(* with a dot: the scripts ask for the interface of the first for all.     *)
EXTENDS Units

CONSTANTS aws, aws_us, awsDOT1

MCNames == {aws, aws_us, awsDOT1}
MCFirst == [n \in MCNames |-> aws]

(* A bound: one unit at a time has an interface that wg-quick spoiled.     *)
OneSpoiled == \A u, v \in spoiled : u = v
=============================================================================
