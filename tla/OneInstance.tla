---------------------------- MODULE OneInstance ----------------------------
(***************************************************************************)
(* What the tasks promise about one AWS account: at most one instance is   *)
(* live at any time, it is in the home region (the one config.conf names), *)
(* an instance that was terminated never comes back, and the home region   *)
(* moves only while no instance is live.                                   *)
(***************************************************************************)
CONSTANTS Regions, Instances

VARIABLES
  home,   \* the region of the config
  live,   \* the instances that run
  place,  \* where each instance was launched
  gone    \* the instances that were terminated

state == <<home, live, place, gone>>

Init ==
  /\ home \in Regions
  /\ live = {}
  /\ place \in [Instances -> Regions]
  /\ gone = {}

Launch(i) ==
  /\ live = {}
  /\ i \notin gone
  /\ live' = {i}
  /\ place' = [place EXCEPT ![i] = home]
  /\ UNCHANGED <<home, gone>>

Terminate(i) ==
  /\ live = {i}
  /\ live' = {}
  /\ gone' = gone \cup {i}
  /\ UNCHANGED <<home, place>>

Move(r) ==
  /\ live = {}
  /\ home' = r
  /\ UNCHANGED <<live, place, gone>>

Next ==
  \/ \E i \in Instances : Launch(i) \/ Terminate(i)
  \/ \E r \in Regions : Move(r)

Spec == Init /\ [][Next]_state
=============================================================================
