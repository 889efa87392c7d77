--------------------------- MODULE AccountProofs ---------------------------
(***************************************************************************)
(* The safety properties of Account, and that it implements OneInstance,   *)
(* for every set of regions, instances and elastic addresses.              *)
(*                                                                         *)
(* None of the properties is inductive by itself: that create_instances    *)
(* keeps the account at one instance depends on what the task did several  *)
(* steps before.  Invariant says, for every step of the task, what the     *)
(* steps before it have established.                                       *)
(***************************************************************************)
EXTENDS Account, TLAPS

Renewing  == {"release", "allocate", "associate", "release_again"}
Removing  == {"list", "terminate"}
Moving    == {"set_region", "relogin", "reset"}
Preparing == {"group", "ingress", "keypair", "create"}
Launching == Preparing \cup {"wait", "record"}

(* Which task is at which step.                                            *)
StepsOfTasks ==
  /\ pc \in Renewing \cup {"address"} => task.kind = "change_ip"
  /\ pc \in {"set_region", "relogin"} => task.kind = "change_region"
  /\ pc = "reset" => task.kind = "reset"
  /\ pc \in Launching \cup {"new_address"} => task.kind # "reset"
  /\ pc # "idle" => result = "none"

(* The snapshot of the Aws object against the section in the file.         *)
Snapshots ==
  /\ pc # "idle" => aws.region \in OptedIn
  /\ pc \in Renewing \cup {"login", "address", "list", "new_address"} => aws = cfg
  /\ pc \in Launching \cup {"terminate", "set_region", "reset"} =>
       aws.region = cfg.region
  /\ pc = "finish" /\ task.kind # "reset" => aws = cfg
  /\ task.kind = "change_ip" /\ pc \in Removing \cup Launching =>
       cfg.instanceid = NoInstance

(* The instances that run.                                                 *)
InstancesAtStep ==
  /\ pc = "terminate" => todo = live
  /\ pc \in Moving \cup Preparing => live = {}
  /\ pc \in {"wait", "record"} => todo = live
  /\ pc \in Renewing => aws.instanceid \in live
  /\ pc = "finish" /\ task.kind = "reset" =>
       live = {} /\ cfg = [region |-> HomeRegion, instanceid |-> NoInstance]
  /\ pc = "finish" /\ task.kind # "reset" => live = {cfg.instanceid}

(* The setup of the region an instance is launched into.                   *)
SetupAtStep ==
  /\ pc = "keypair" => aws.region \in open
  /\ pc = "create" => aws.region \in open \cap keys

(* The elastic addresses.                                                  *)
AddressesAtStep ==
  /\ \A e \in Eips : tag[e] \in live \cup gone \cup {NoInstance}
  /\ pc \in {"wait", "record"} => \A e \in Eips : tag[e] \notin todo
  /\ pc = "release_again" /\ ~slipped =>
       \A e \in Eips : tag[e] = aws.instanceid => e \in todo
  /\ pc \in {"new_address", "finish"} /\ task.kind = "change_ip" /\ ~slipped =>
       \A e \in Eips : tag[e] # aws.instanceid

Invariant ==
  /\ TypeOK
  /\ AtMostOneInstance /\ LiveInRegion /\ SuccessMeansRecorded
  /\ AddressesReleased /\ UnusableRegionIsEmpty /\ LiveIsReachable
  /\ StepsOfTasks /\ Snapshots /\ InstancesAtStep /\ SetupAtStep
  /\ AddressesAtStep

-----------------------------------------------------------------------------
(* The program starts on an empty account with no task running.            *)
LEMMA InitInvariant == Init => Invariant
  <1> SUFFICES ASSUME Init PROVE Invariant
    OBVIOUS
  <1> USE RegionsAssumption, InstanceAssumption DEF Init
  <1>1. cfg \in Section /\ cfg.region \in OptedIn /\ cfg.instanceid = NoInstance
    BY DEF Section, Ids
  <1>2. TypeOK
    BY <1>1 DEF TypeOK, Section, Ids, Task, Kinds, Pcs, Results
  <1>3. /\ AtMostOneInstance /\ LiveInRegion /\ SuccessMeansRecorded
        /\ AddressesReleased /\ UnusableRegionIsEmpty /\ LiveIsReachable
    BY DEF AtMostOneInstance, LiveInRegion, SuccessMeansRecorded,
           AddressesReleased, UnusableRegionIsEmpty, LiveIsReachable
  <1>4. /\ StepsOfTasks /\ Snapshots /\ InstancesAtStep /\ SetupAtStep
        /\ AddressesAtStep
    BY DEF StepsOfTasks, Snapshots, InstancesAtStep, SetupAtStep, AddressesAtStep,
           Renewing, Removing, Moving, Preparing, Launching
  <1>5. QED
    BY <1>2, <1>3, <1>4 DEF Invariant

(* Every call, failed call, lost answer and crash keeps the invariant: one *)
(* case per action.                                                        *)
LEMMA StepInvariant == Invariant /\ [Next]_vars => Invariant'
  <1> SUFFICES ASSUME Invariant, [Next]_vars PROVE Invariant'
    OBVIOUS
  <1> USE RegionsAssumption, InstanceAssumption
  <1> USE DEF Invariant, TypeOK, AtMostOneInstance, LiveInRegion,
        SuccessMeansRecorded, AddressesReleased, UnusableRegionIsEmpty,
        LiveIsReachable, StepsOfTasks, Snapshots, InstancesAtStep, SetupAtStep,
        AddressesAtStep, Section, Ids, Task, Kinds, Pcs, Results, Renewing,
        Removing, Moving, Preparing, Launching, Goto, End, Answered, Tagged,
        Unallocated, HasAddress, AfterTerminate, account
  <1>1. CASE \E k \in Kinds, r \in Regions : Start(k, r)
    <2> PICK k \in Kinds, r \in Regions : Start(k, r)
      BY <1>1
    <2> USE DEF Start
    <2>1. TypeOK'
      OBVIOUS
    <2>2. /\ AtMostOneInstance' /\ LiveInRegion' /\ SuccessMeansRecorded'
          /\ AddressesReleased' /\ UnusableRegionIsEmpty' /\ LiveIsReachable'
      OBVIOUS
    <2>3. StepsOfTasks' /\ Snapshots'
      OBVIOUS
    <2>4. InstancesAtStep' /\ SetupAtStep' /\ AddressesAtStep'
      OBVIOUS
    <2>5. QED
      BY <2>1, <2>2, <2>3, <2>4
  <1>2. CASE login
    BY <1>2 DEF login
  <1>3. CASE get_instance_address
    BY <1>3 DEF get_instance_address
  <1>4. CASE released_all
    BY <1>4 DEF released_all
  <1>5. CASE associate_address
    <2> PICK e \in todo :
          /\ pc = "associate"
          /\ assoc' = [assoc EXCEPT ![e] = aws.instanceid]
          /\ \/ Goto("release_again") /\ todo' = Tagged /\ UNCHANGED aws
             \/ End("failed")
          /\ UNCHANGED <<cfg, live, gone, place, groups, open, keys, tag>>
      BY <1>5 DEF associate_address
    <2>1. TypeOK'
      <3>1. assoc' \in [Eips -> Ids] /\ todo' \subseteq Instances \cup Eips
        OBVIOUS
      <3>2. /\ pc' \in Pcs /\ result' \in Results
            /\ UNCHANGED <<task, self_config, aws, slipped>>
        OBVIOUS
      <3>3. QED
        BY <3>1, <3>2
    <2>2. /\ AtMostOneInstance' /\ LiveInRegion' /\ SuccessMeansRecorded'
          /\ AddressesReleased' /\ UnusableRegionIsEmpty' /\ LiveIsReachable'
      OBVIOUS
    <2>3. StepsOfTasks' /\ Snapshots'
      OBVIOUS
    <2>4. InstancesAtStep' /\ SetupAtStep'
      OBVIOUS
    <2>5. AddressesAtStep'
      OBVIOUS
    <2>6. QED
      BY <2>1, <2>2, <2>3, <2>4, <2>5
  <1>6. CASE get_new_address
    BY <1>6 DEF get_new_address
  <1>7. CASE describe_instances
    BY <1>7 DEF describe_instances
  <1>8. CASE terminate_instance
    BY <1>8 DEF terminate_instance
  <1>9. CASE change_region
    BY <1>9 DEF change_region
  <1>10. CASE login_new_region
    BY <1>10 DEF login_new_region
  <1>11. CASE reset
    BY <1>11 DEF reset
  <1>12. CASE create_security_group
    BY <1>12 DEF create_security_group
  <1>13. CASE authorize_security_group_ingress
    BY <1>13 DEF authorize_security_group_ingress
  <1>14. CASE set_keypair
    BY <1>14 DEF set_keypair
  <1>15. CASE instance_running
    BY <1>15 DEF instance_running
  <1>16. CASE launch_instance
    BY <1>16 DEF launch_instance
  <1>17. CASE finish
    BY <1>17 DEF finish
  <1>18. CASE CallRaises
    BY <1>18 DEF CallRaises
  <1>19. CASE Crash
    BY <1>19 DEF Crash
  <1>20. CASE \E e \in Eips : disassociate_and_release_ip(e)
    <2> PICK e \in Eips : disassociate_and_release_ip(e)
      BY <1>20
    <2> PICK disassociated \in BOOLEAN, released \in BOOLEAN :
               LET still == assoc[e] # NoInstance /\ ~disassociated
                   freed == released /\ ~still IN
               /\ pc \in {"release", "release_again"}
               /\ e \in todo
               /\ assoc' = [assoc EXCEPT ![e] = IF still THEN @ ELSE NoInstance]
               /\ tag' = [tag EXCEPT ![e] = IF freed THEN NoInstance ELSE @]
               /\ slipped' = (slipped \/ ~freed)
               /\ todo' = todo \ {e}
               /\ UNCHANGED <<cfg, live, gone, place, groups, open, keys,
                              pc, task, self_config, aws, result>>
      BY DEF disassociate_and_release_ip
    <2>1. TypeOK'
      OBVIOUS
    <2>2. /\ AtMostOneInstance' /\ LiveInRegion' /\ SuccessMeansRecorded'
          /\ AddressesReleased' /\ UnusableRegionIsEmpty' /\ LiveIsReachable'
      OBVIOUS
    <2>3. StepsOfTasks' /\ Snapshots' /\ InstancesAtStep' /\ SetupAtStep'
      OBVIOUS
    <2>4. AddressesAtStep'
      <3>1. ~slipped' => ~slipped /\ tag'[e] = NoInstance
        BY ZenonT(30)
      <3>2. \A x \in Eips \ {e} : tag'[x] = tag[x]
        OBVIOUS
      <3>3. tag'[e] \in {tag[e], NoInstance}
        OBVIOUS
      <3>4. \A x \in Eips : tag'[x] \in live' \cup gone' \cup {NoInstance}
        BY <3>2, <3>3
      <3>5. pc' = "release_again" /\ ~slipped' =>
              \A x \in Eips : tag'[x] = aws'.instanceid => x \in todo'
        BY <3>1, <3>2
      <3>6. QED
        BY <3>4, <3>5
    <2>5. QED
      BY <2>1, <2>2, <2>3, <2>4
  <1>21. CASE \E e \in Eips : allocate_address(e)
    BY <1>21 DEF allocate_address
  <1>22. CASE \E e \in Eips : allocate_address_lost(e)
    BY <1>22 DEF allocate_address_lost
  <1>23. CASE \E i \in Instances : terminate_instances(i)
    BY <1>23 DEF terminate_instances
  <1>24. CASE \E i \in Instances : create_instances(i)
    BY <1>24 DEF create_instances
  <1>25. CASE RequestRefused \/ UNCHANGED vars
    BY <1>25 DEF RequestRefused, vars, thread
  <1>26. QED
    BY <1>1, <1>2, <1>3, <1>4, <1>5, <1>6, <1>7, <1>8, <1>9, <1>10, <1>11, <1>12,
       <1>13, <1>14, <1>15, <1>16, <1>17, <1>18, <1>19, <1>20, <1>21, <1>22,
       <1>23, <1>24, <1>25
    DEF Next, Rotate, Remove, Launch

(* The invariant the theorems below are read off from.                     *)
LEMMA InvariantHolds == Spec => []Invariant
  BY InitInvariant, StepInvariant, PTL DEF Spec

-----------------------------------------------------------------------------
(* The section, the account and the task thread keep their types through   *)
(* every task, failure and crash.                                          *)
THEOREM TypeCorrect == Spec => []TypeOK
  <1>1. Invariant => TypeOK
    BY DEF Invariant
  <1>2. QED
    BY <1>1, InvariantHolds, PTL

(* No sequence of tasks, failed calls, lost answers and crashes makes the  *)
(* account run two instances (terminate_instance before launch_instance).  *)
THEOREM NeverTwoInstances == Spec => []AtMostOneInstance
  <1>1. Invariant => AtMostOneInstance
    BY DEF Invariant
  <1>2. QED
    BY <1>1, InvariantHolds, PTL

(* An instance that runs is always in the region of config.conf, where the *)
(* next terminate_instance looks for it.                                   *)
THEOREM NoneLeftBehind == Spec => []LiveInRegion
  <1>1. Invariant => LiveInRegion
    BY DEF Invariant
  <1>2. QED
    BY <1>1, InvariantHolds, PTL

(* A task that reports success leaves the file and the account in          *)
(* agreement (change_ip, change_region, reset).                            *)
THEOREM SuccessIsTrue == Spec => []SuccessMeansRecorded
  <1>1. Invariant => SuccessMeansRecorded
    BY DEF Invariant
  <1>2. QED
    BY <1>1, InvariantHolds, PTL

(* A successful change_ip whose releases succeeded leaves no elastic       *)
(* address of its instance allocated (allocate_and_associate_ip).          *)
THEOREM NoAddressLeft == Spec => []AddressesReleased
  <1>1. Invariant => AddressesReleased
    BY DEF Invariant
  <1>2. QED
    BY <1>1, InvariantHolds, PTL

(* Nothing runs in a region the account cannot use: change_region moves    *)
(* the config only after the instance is gone.                             *)
THEOREM UnusableEmpty == Spec => []UnusableRegionIsEmpty
  <1>1. Invariant => UnusableRegionIsEmpty
    BY DEF Invariant
  <1>2. QED
    BY <1>1, InvariantHolds, PTL

(* Every instance that runs has its ingress rule and its key               *)
(* (create_security_group, set_keypair).                                   *)
THEOREM Reachable == Spec => []LiveIsReachable
  <1>1. Invariant => LiveIsReachable
    BY DEF Invariant
  <1>2. QED
    BY <1>1, InvariantHolds, PTL

(* No step of change_ip loses the instance the file records (get_new_ip).  *)
THEOREM ChangeIpSafe == Spec => ChangeIpKeepsInstance
  <1>1. Invariant /\ [Next]_vars =>
          [pc # "idle" /\ task.kind = "change_ip" /\ cfg.instanceid \in live
             => cfg' = cfg /\ live' = live]_vars
    <2> SUFFICES ASSUME Invariant, Next, pc # "idle", task.kind = "change_ip",
                        cfg.instanceid \in live
                 PROVE  cfg' = cfg /\ live' = live
      BY DEF vars
    <2>1. pc \notin Removing \cup Launching
      BY InstanceAssumption DEF Invariant, TypeOK, Snapshots
    <2>2. pc \notin Moving
      BY DEF Invariant, StepsOfTasks, Moving
    <2>3. QED
      BY <2>1, <2>2
      DEF Next, Rotate, Remove, Launch, Removing, Launching, Preparing, Moving, account,
          Start, RequestRefused, vars, CallRaises, Crash, login, finish,
          get_instance_address, disassociate_and_release_ip, released_all,
          allocate_address, allocate_address_lost, associate_address,
          get_new_address, describe_instances, terminate_instances,
          terminate_instance, change_region, login_new_region, reset,
          create_security_group, authorize_security_group_ingress, set_keypair,
          create_instances, instance_running, launch_instance
  <1>2. QED
    BY <1>1, InvariantHolds, PTL DEF Spec, ChangeIpKeepsInstance

(* The tasks implement OneInstance: only create_instances launches, only   *)
(* terminate_instances terminates, and the writes of config.conf that move *)
(* the region come when nothing runs.                                      *)
THEOREM Refinement == Spec => ImplementsOneInstance
  <1>1. Init => One!Init
    BY RegionsAssumption DEF Init, One!Init
  <1>2. Invariant /\ [Next]_vars => [One!Next]_One!state
    <2> SUFFICES ASSUME Invariant, [Next]_vars PROVE [One!Next]_One!state
      OBVIOUS
    <2> USE DEF One!state
    <2>1. ASSUME NEW i \in Instances, terminate_instances(i) PROVE One!Terminate(i)
      BY <2>1 DEF terminate_instances, One!Terminate, Invariant, AtMostOneInstance,
                  InstancesAtStep, Goto, End
    <2>2. ASSUME NEW i \in Instances, create_instances(i) PROVE One!Launch(i)
      BY <2>2 DEF create_instances, One!Launch, Invariant, InstancesAtStep, Snapshots,
                  Preparing, Launching
    <2>3. ASSUME change_region PROVE One!Move(task.new_region)
      BY <2>3 DEF change_region, One!Move, Invariant, InstancesAtStep, Moving, account
    <2>4. ASSUME reset PROVE One!Move(HomeRegion)
      BY <2>4 DEF reset, One!Move, Invariant, InstancesAtStep, Moving, account
    <2>5. ASSUME terminate_instance \/ launch_instance PROVE UNCHANGED One!state
      BY <2>5 DEF terminate_instance, launch_instance, Invariant, Snapshots, Launching,
                  account
    <2>6. task.new_region \in Regions /\ HomeRegion \in Regions
      BY RegionsAssumption DEF Invariant, TypeOK, Task
    <2>7. CASE \/ \E i \in Instances : terminate_instances(i) \/ create_instances(i)
               \/ change_region \/ reset \/ terminate_instance \/ launch_instance
      BY <2>1, <2>2, <2>3, <2>4, <2>5, <2>6, <2>7 DEF One!Next
    <2>8. CASE \/ \E k \in Kinds, r \in Regions : Start(k, r)
               \/ RequestRefused \/ CallRaises \/ Crash \/ login \/ finish
               \/ UNCHANGED vars
      BY <2>8 DEF Start, RequestRefused, CallRaises, Crash, login, finish, vars, account
    <2>9. CASE Rotate
      BY <2>9 DEF Rotate, get_instance_address, disassociate_and_release_ip, released_all,
                  allocate_address, allocate_address_lost, associate_address,
                  get_new_address, account
    <2>10. CASE \/ describe_instances \/ login_new_region \/ create_security_group
                \/ authorize_security_group_ingress \/ set_keypair \/ instance_running
      BY <2>10 DEF describe_instances, login_new_region, create_security_group,
                   authorize_security_group_ingress, set_keypair, instance_running,
                   account
    <2>11. QED
      BY <2>7, <2>8, <2>9, <2>10 DEF Next, Remove, Launch
  <1>3. QED
    BY <1>1, <1>2, InvariantHolds, PTL DEF Spec, ImplementsOneInstance, One!Spec
=============================================================================
