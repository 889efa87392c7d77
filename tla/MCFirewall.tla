----------------------------- MODULE MCFirewall -----------------------------
(* Two clients: no whitelist, one of them, both and an entry that is no    *)
(* address.  The threads are interchangeable, and so are the configs.      *)
EXTENDS Firewall, TLC

CONSTANTS s1, s2

MCSources == {s1, s2}
MCWhitelists == {{}, {s1}, {s1, s2, Junk}}
FirewallSymmetry == Permutations(Threads) \cup Permutations(Configs)

(* Once tasks have crossed, the properties of the passing run say nothing. *)
Uncrossed == ~crossed
=============================================================================
