----------------------------- MODULE ResetRace -----------------------------
(***************************************************************************)
(* Two tasks on one account: the endpoint /reset starts its thread without *)
(* looking at the status of the config (app.py), so a reset may run beside *)
(* a change_ip or a change_region.  The module composes the module Account *)
(* with itself: config.conf and the account are shared, each task has its  *)
(* own thread and snapshots.  That the process dies is that both raise.    *)
(***************************************************************************)

CONSTANTS Regions, OptedIn, HomeRegion, Instances, Eips, NoInstance

VARIABLES
  cfg, live, gone, place, groups, open, keys, tag, assoc,
  pc1, task1, self_config1, aws1, todo1, result1, slipped1,
  pc2, task2, self_config2, aws2, todo2, result2, slipped2

thread1 == <<pc1, task1, self_config1, aws1, todo1, result1, slipped1>>
thread2 == <<pc2, task2, self_config2, aws2, todo2, result2, slipped2>>
vars == <<cfg, live, gone, place, groups, open, keys, tag, assoc, thread1, thread2>>

(* The task that get_start_process or get_change_region has started.       *)
Rotation == INSTANCE Account WITH pc <- pc1, task <- task1,
  self_config <- self_config1, aws <- aws1, todo <- todo1, result <- result1,
  slipped <- slipped1

(* The task that get_reset has started.                                    *)
Reset == INSTANCE Account WITH pc <- pc2, task <- task2,
  self_config <- self_config2, aws <- aws2, todo <- todo2, result <- result2,
  slipped <- slipped2

Init == Rotation!Init /\ Reset!Init

RotationSteps ==
  /\ \/ \E r \in Regions : Rotation!Start("change_ip", r) \/ Rotation!Start("change_region", r)
     \/ Rotation!CallRaises \/ Rotation!login \/ Rotation!Rotate \/ Rotation!Remove
     \/ Rotation!Launch \/ Rotation!finish
  /\ UNCHANGED thread2

ResetSteps ==
  /\ \/ Reset!Start("reset", cfg.region) \/ Reset!CallRaises \/ Reset!login
     \/ Reset!Remove \/ Reset!finish
  /\ UNCHANGED thread1

Next == RotationSteps \/ ResetSteps
Spec == Init /\ [][Next]_vars

-----------------------------------------------------------------------------
(* When a rotation and a reset have both answered "success" (the reset     *)
(* after it logged "Instance terminated on ..."), an instance that runs is *)
(* the one config.conf names.                                              *)
BothSuccessesTrue ==
  pc1 = "idle" /\ pc2 = "idle" /\ result1 = "success" /\ result2 = "success"
    => live \subseteq {cfg.instanceid}
=============================================================================
