------------------------------ MODULE Account ------------------------------
(***************************************************************************)
(* The AWS side of the tasks change_ip, change_region and reset            *)
(* (functions/run.py) and the Aws methods they call (functions/aws.py),    *)
(* for one section of config.conf and the account its keys open.           *)
(*                                                                         *)
(* The module has one task thread; TaskManager shows when that is so.      *)
(* Every call of the EC2 API may raise, before or after it took effect,    *)
(* and the process may die between any two steps.  Of the section it keeps *)
(* the keys these tasks use, region and instanceid; ConfigFile is about    *)
(* how the section reaches the file.                                       *)
(*                                                                         *)
(* An Aws object works on the section as it was when the object was built, *)
(* and write_changes writes back the whole section of that snapshot: the   *)
(* snapshots are part of the state.                                        *)
(***************************************************************************)
EXTENDS FiniteSets

CONSTANTS
  Regions,      \* the regions a request may name
  OptedIn,      \* those the account may use (OptInStatus)
  HomeRegion,   \* the region reset writes, us-east-2
  Instances,    \* instance ids EC2 may hand out
  Eips,         \* elastic addresses EC2 may hand out
  NoInstance    \* the empty instanceid

ASSUME RegionsAssumption  == OptedIn \subseteq Regions /\ HomeRegion \in OptedIn
ASSUME InstanceAssumption == NoInstance \notin Instances

Ids == Instances \cup {NoInstance}
Section == [region : Regions, instanceid : Ids]

VARIABLES
  (* config.conf *)
  cfg,
  (* the account, as EC2 keeps it *)
  live, gone, place,   \* instances: running, terminated, their regions
  groups, open, keys,  \* regions with the group, its ingress rule, the key
  tag, assoc,          \* per elastic address: tag "instance", association
  (* the task thread *)
  pc,
  task,                \* what it was asked for
  self_config,         \* RunTask.config: the section when the task began
  aws,                 \* the Aws object: its section, and the new instance
  todo,                \* what is left of the loop it executes
  result,              \* how the last task ended
  slipped              \* history: a release failed and was ignored

account == <<live, gone, place, groups, open, keys, tag, assoc>>
thread  == <<pc, task, self_config, aws, todo, result, slipped>>
vars    == <<cfg, account, thread>>

Kinds == {"change_ip", "change_region", "reset"}
Task  == [kind : Kinds, new_region : Regions]
Results == {"none", "success", "failed", "crashed"}

Pcs == {"idle", "login", "address", "release", "allocate", "associate",
        "release_again", "new_address", "list", "terminate",
        "set_region", "relogin", "reset", "group", "ingress", "keypair",
        "create", "wait", "record", "finish"}

Unallocated == {e \in Eips : tag[e] = NoInstance}

Init ==
  /\ cfg \in [region : OptedIn, instanceid : {NoInstance}]
  /\ live = {} /\ gone = {}
  /\ place = [i \in Instances |-> HomeRegion]
  /\ groups = {} /\ open = {} /\ keys = {}
  /\ tag = [e \in Eips |-> NoInstance]
  /\ assoc = [e \in Eips |-> NoInstance]
  /\ pc = "idle"
  /\ task = [kind |-> "reset", new_region |-> HomeRegion]
  /\ self_config = cfg
  /\ aws = cfg
  /\ todo = {}
  /\ result = "none"
  /\ slipped = FALSE

-----------------------------------------------------------------------------
(* Control: the next step, or the except clause of the task.               *)

Goto(next) == pc' = next /\ UNCHANGED <<task, self_config, result, slipped>>
End(r) ==
  /\ pc' = "idle"
  /\ result' = r
  /\ todo' = {}
  /\ UNCHANGED <<task, self_config, aws, slipped>>

(* A call that took effect: its answer arrives, or is lost and raises.     *)
Answered(next) ==
  \/ Goto(next) /\ UNCHANGED <<aws, todo>>
  \/ End("failed")

(* The handler's own login succeeded, so the region is one the account may *)
(* use; set_start_task builds RunTask, and the task builds Aws.            *)
(* change_region gives up at once on the region in use.                    *)
Start(k, r) ==
  /\ pc = "idle"
  /\ cfg.region \in OptedIn
  /\ k = "change_region" => r # cfg.region
  /\ k # "change_region" => r = cfg.region
  /\ pc' = "login"
  /\ task' = [kind |-> k, new_region |-> r]
  /\ self_config' = cfg
  /\ aws' = cfg
  /\ todo' = {}
  /\ result' = "none"
  /\ slipped' = FALSE
  /\ UNCHANGED <<cfg, account>>

(* In a region the account cannot use, the login of every handler fails    *)
(* and no task starts: only an edit of config.conf helps.                  *)
RequestRefused ==
  /\ pc = "idle"
  /\ cfg.region \notin OptedIn
  /\ UNCHANGED vars

(* Any call of a task may raise without effect: boto3, reading or writing  *)
(* config.conf, SSH, systemd.                                              *)
CallRaises ==
  /\ pc # "idle"
  /\ End("failed")
  /\ UNCHANGED <<cfg, account>>

(* The process dies; what it wrote and what EC2 did remain.                *)
Crash ==
  /\ pc # "idle"
  /\ End("crashed")
  /\ UNCHANGED <<cfg, account>>

(* Mutation: the region is changed before the instances are terminated.    *)
login_region_first ==
  /\ pc = "login"
  /\ aws.region \in OptedIn
  /\ Goto(IF task.kind = "change_ip" /\ aws.instanceid # NoInstance
          THEN "address"
          ELSE IF task.kind = "change_region" THEN "set_region" ELSE "list")
  /\ UNCHANGED <<cfg, account, aws, todo>>

(* Mutation: get_new_ip launches without looking at instanceid.            *)
login_relaunch ==
  /\ pc = "login"
  /\ aws.region \in OptedIn
  /\ Goto("list")
  /\ UNCHANGED <<cfg, account, aws, todo>>

(* Aws.login: the region must be one the account has opted into (if not,   *)
(* CallRaises).  The branch after it is get_new_ip's, or terminate.        *)
login ==
  /\ pc = "login"
  /\ aws.region \in OptedIn
  /\ Goto(IF task.kind = "change_ip" /\ aws.instanceid # NoInstance
          THEN "address" ELSE "list")
  /\ UNCHANGED <<cfg, account, aws, todo>>

-----------------------------------------------------------------------------
(* get_new_ip with an instance: give it an elastic address and take that   *)
(* away again, so that EC2 assigns another public address.                 *)

(* The recorded instance must run in the region, or the call raises.       *)
HasAddress == aws.instanceid \in live /\ place[aws.instanceid] = aws.region

Tagged == {e \in Eips : tag[e] = aws.instanceid}

get_instance_address ==
  /\ pc = "address"
  /\ HasAddress
  /\ Goto("release")
  /\ todo' = Tagged
  /\ UNCHANGED <<cfg, account, aws>>

(* One iteration of disassociate_and_release_ip.  Both calls may fail and  *)
(* neither failure is noticed; an associated address is not released.      *)
disassociate_and_release_ip(e) ==
  \E disassociated, released \in BOOLEAN :
    LET still == assoc[e] # NoInstance /\ ~disassociated
        freed == released /\ ~still IN
    /\ pc \in {"release", "release_again"}
    /\ e \in todo
    /\ assoc' = [assoc EXCEPT ![e] = IF still THEN @ ELSE NoInstance]
    /\ tag' = [tag EXCEPT ![e] = IF freed THEN NoInstance ELSE @]
    /\ slipped' = (slipped \/ ~freed)
    /\ todo' = todo \ {e}
    /\ UNCHANGED <<cfg, live, gone, place, groups, open, keys,
                   pc, task, self_config, aws, result>>

released_all ==
  /\ pc \in {"release", "release_again"}
  /\ todo = {}
  /\ Goto(IF pc = "release" THEN "allocate" ELSE "new_address")
  /\ UNCHANGED <<cfg, account, aws, todo>>

allocate_address(e) ==
  /\ pc = "allocate"
  /\ e \in Unallocated
  /\ tag' = [tag EXCEPT ![e] = aws.instanceid]
  /\ todo' = {e}
  /\ Goto("associate") /\ UNCHANGED aws
  /\ UNCHANGED <<cfg, live, gone, place, groups, open, keys, assoc>>

(* The address was allocated, but the answer is lost.                      *)
allocate_address_lost(e) ==
  /\ pc = "allocate"
  /\ e \in Unallocated
  /\ tag' = [tag EXCEPT ![e] = aws.instanceid]
  /\ End("failed")
  /\ UNCHANGED <<cfg, live, gone, place, groups, open, keys, assoc>>

(* Mutation: the new address is kept.                                      *)
associate_address_kept ==
  \E e \in todo :
    /\ pc = "associate"
    /\ assoc' = [assoc EXCEPT ![e] = aws.instanceid]
    /\ \/ Goto("new_address") /\ todo' = {} /\ UNCHANGED aws
       \/ End("failed")
    /\ UNCHANGED <<cfg, live, gone, place, groups, open, keys, tag>>

(* associate_address, and the describe_addresses of the second             *)
(* disassociate_and_release_ip.                                            *)
associate_address ==
  \E e \in todo :
    /\ pc = "associate"
    /\ assoc' = [assoc EXCEPT ![e] = aws.instanceid]
    /\ \/ Goto("release_again") /\ todo' = Tagged /\ UNCHANGED aws
       \/ End("failed")
    /\ UNCHANGED <<cfg, live, gone, place, groups, open, keys, tag>>

(* The address get_new_ip, or change_region after a launch, hands on; EC2  *)
(* may not have assigned one yet (CallRaises).                             *)
get_new_address ==
  /\ pc = "new_address"
  /\ HasAddress
  /\ Goto("finish")
  /\ UNCHANGED <<cfg, account, aws, todo>>

-----------------------------------------------------------------------------
(* terminate_instance: every instance of the region, one call each, then   *)
(* the record.                                                             *)

describe_instances ==
  /\ pc = "list"
  /\ todo' = {i \in live : place[i] = aws.region}
  /\ Goto("terminate") /\ UNCHANGED aws
  /\ UNCHANGED <<cfg, account>>

terminate_instances(i) ==
  /\ pc = "terminate"
  /\ i \in todo
  /\ live' = live \ {i}
  /\ gone' = gone \cup {i}
  /\ assoc' = [e \in Eips |-> IF assoc[e] = i THEN NoInstance ELSE assoc[e]]
  /\ \/ Goto("terminate") /\ todo' = todo \ {i} /\ UNCHANGED aws
     \/ End("failed")
  /\ UNCHANGED <<cfg, place, groups, open, keys, tag>>

AfterTerminate ==
  CASE task.kind = "change_ip" -> "group"
    [] task.kind = "change_region" -> "set_region"
    [] task.kind = "reset" -> "reset"

(* Mutation: one instance is enough.                                       *)
terminate_instance_some ==
  /\ pc = "terminate"
  /\ cfg' = [region |-> aws.region, instanceid |-> NoInstance]
  /\ todo' = {}
  /\ Goto(AfterTerminate) /\ UNCHANGED aws
  /\ UNCHANGED account

(* set_value(instanceId, "") and write_changes.                            *)
terminate_instance ==
  /\ pc = "terminate"
  /\ todo = {}
  /\ cfg' = [region |-> aws.region, instanceid |-> NoInstance]
  /\ Goto(AfterTerminate)
  /\ UNCHANGED <<account, aws, todo>>

(* ConfigLoader.change_region on RunTask.config: the section as it was     *)
(* before terminate_instance cleared instanceid comes back, with the new   *)
(* region.                                                                 *)
change_region ==
  /\ pc = "set_region"
  /\ cfg' = [region |-> task.new_region, instanceid |-> self_config.instanceid]
  /\ Goto("relogin")
  /\ UNCHANGED <<account, aws, todo>>

(* A second Aws object, on the new region.                                 *)
login_new_region ==
  /\ pc = "relogin"
  /\ cfg.region \in OptedIn
  /\ aws' = cfg
  /\ Goto("group") /\ UNCHANGED todo
  /\ UNCHANGED <<cfg, account>>

(* Mutation: the values of two keys are swapped.                           *)
reset_swapped ==
  /\ pc = "reset"
  /\ cfg' = [region |-> NoInstance, instanceid |-> HomeRegion]
  /\ Goto("finish")
  /\ UNCHANGED <<account, aws, todo>>

(* RunTask.reset after terminate_instance: a new ConfigLoader, the         *)
(* defaults, write_changes.                                                *)
reset ==
  /\ pc = "reset"
  /\ cfg' = [region |-> HomeRegion, instanceid |-> NoInstance]
  /\ Goto("finish")
  /\ UNCHANGED <<account, aws, todo>>

-----------------------------------------------------------------------------
(* launch_instance.  Its search for an instance to reuse finds none        *)
(* (hasattr on a dictionary does not look at its keys).                    *)

(* Mutation: the rule is added only to a group that was just created.      *)
create_security_group_new ==
  /\ pc = "group"
  /\ groups' = groups \cup {aws.region}
  /\ Answered(IF aws.region \in groups THEN "keypair" ELSE "ingress")
  /\ UNCHANGED <<cfg, live, gone, place, open, keys, tag, assoc>>

create_security_group ==
  /\ pc = "group"
  /\ groups' = groups \cup {aws.region}
  /\ Answered("ingress")
  /\ UNCHANGED <<cfg, live, gone, place, open, keys, tag, assoc>>

authorize_security_group_ingress ==
  /\ pc = "ingress"
  /\ open' = open \cup {aws.region}
  /\ Answered("keypair")
  /\ UNCHANGED <<cfg, live, gone, place, groups, keys, tag, assoc>>

set_keypair ==
  /\ pc = "keypair"
  /\ keys' = keys \cup {aws.region}
  /\ Answered("create")
  /\ UNCHANGED <<cfg, live, gone, place, groups, open, tag, assoc>>

(* create_instances, with the id in the answer, or the answer lost.        *)
create_instances(i) ==
  /\ pc = "create"
  /\ i \notin live \cup gone
  /\ live' = live \cup {i}
  /\ place' = [place EXCEPT ![i] = aws.region]
  /\ \/ Goto("wait") /\ todo' = {i} /\ UNCHANGED aws
     \/ End("failed")
  /\ UNCHANGED <<cfg, gone, groups, open, keys, tag, assoc>>

instance_running ==
  /\ pc = "wait"
  /\ Goto("record")
  /\ UNCHANGED <<cfg, account, aws, todo>>

(* Mutation: the new id is written nowhere but in memory.                  *)
launch_instance_unsaved ==
  \E i \in todo :
    /\ pc = "record"
    /\ aws' = [aws EXCEPT !.instanceid = i]
    /\ todo' = {}
    /\ Goto("new_address")
    /\ UNCHANGED <<cfg, account>>

(* The new id is written, and kept in aws_config.                          *)
launch_instance ==
  \E i \in todo :
    /\ pc = "record"
    /\ cfg' = [region |-> aws.region, instanceid |-> i]
    /\ aws' = [aws EXCEPT !.instanceid = i]
    /\ todo' = {}
    /\ Goto("new_address")
    /\ UNCHANGED account

(* The rest of the task (wireguard, services, verification) returns        *)
(* "success" or raises (CallRaises).                                       *)
finish ==
  /\ pc = "finish"
  /\ End("success")
  /\ UNCHANGED <<cfg, account>>

-----------------------------------------------------------------------------
Rotate ==
  \/ get_instance_address
  \/ \E e \in Eips : disassociate_and_release_ip(e)
  \/ released_all
  \/ \E e \in Eips : allocate_address(e) \/ allocate_address_lost(e)
  \/ associate_address
  \/ get_new_address

Remove ==
  \/ describe_instances
  \/ \E i \in Instances : terminate_instances(i)
  \/ terminate_instance
  \/ change_region
  \/ login_new_region
  \/ reset

Launch ==
  \/ create_security_group
  \/ authorize_security_group_ingress
  \/ set_keypair
  \/ \E i \in Instances : create_instances(i)
  \/ instance_running
  \/ launch_instance

Next ==
  \/ \E k \in Kinds, r \in Regions : Start(k, r)
  \/ RequestRefused
  \/ CallRaises
  \/ Crash
  \/ login
  \/ Rotate
  \/ Remove
  \/ Launch
  \/ finish

Spec == Init /\ [][Next]_vars

-----------------------------------------------------------------------------
(* Types of the section, of the account and of the task thread.            *)
TypeOK ==
  /\ cfg \in Section
  /\ live \subseteq Instances /\ gone \subseteq Instances
  /\ place \in [Instances -> Regions]
  /\ groups \subseteq Regions /\ open \subseteq Regions /\ keys \subseteq Regions
  /\ tag \in [Eips -> Ids]
  /\ assoc \in [Eips -> Ids]
  /\ pc \in Pcs
  /\ task \in Task
  /\ self_config \in Section
  /\ aws \in Section
  /\ todo \subseteq Instances \cup Eips
  /\ result \in Results
  /\ slipped \in BOOLEAN

(* Whatever calls fail, answers are lost or crashes happen, the account    *)
(* never runs more than one instance (terminate_instance comes before      *)
(* every launch_instance).                                                 *)
AtMostOneInstance == \A i, j \in live : i = j

(* Every instance that runs is in the region of config.conf, where the     *)
(* next terminate_instance will look for it: none is left running in a     *)
(* region that change_region or reset moved away from.                     *)
LiveInRegion == \A i \in live : place[i] = cfg.region

(* A task reports success only when the account and the file agree: after  *)
(* change_ip and change_region the recorded instance is the one that runs, *)
(* after reset none runs and the section is back to its defaults.          *)
SuccessMeansRecorded ==
  result = "success" =>
    IF task.kind = "reset"
    THEN live = {} /\ cfg = [region |-> HomeRegion, instanceid |-> NoInstance]
    ELSE live = {cfg.instanceid}

(* A successful change_ip in which no release failed leaves the account    *)
(* without elastic addresses of its instance, those that earlier failed    *)
(* tasks left behind included (disassociate_and_release_ip).               *)
AddressesReleased ==
  result = "success" /\ task.kind = "change_ip" /\ ~slipped =>
    \A e \in Eips : tag[e] # cfg.instanceid

(* A config that change_region moved to a region the account cannot use    *)
(* (every later request fails at its login) at least runs nothing there.   *)
UnusableRegionIsEmpty == cfg.region \notin OptedIn => live = {}

(* Every instance that runs was launched into a group with its ingress     *)
(* rule and a registered key, also when an earlier launch died between the *)
(* two calls of create_security_group.                                     *)
LiveIsReachable == \A i \in live : place[i] \in open \cap keys

(* No step of change_ip loses the recorded instance: while it runs, it     *)
(* goes on running and stays recorded, whatever fails (get_new_ip).        *)
ChangeIpKeepsInstance ==
  [][pc # "idle" /\ task.kind = "change_ip" /\ cfg.instanceid \in live
       => cfg' = cfg /\ live' = live]_vars

One == INSTANCE OneInstance WITH home <- cfg.region

(* The tasks implement the promise of OneInstance.                         *)
ImplementsOneInstance == One!Spec
=============================================================================
