------------------------------ MODULE Rotation ------------------------------
(***************************************************************************)
(* What change_ip, change_region and change_auth (functions/run.py) do     *)
(* around and after the AWS calls, for one config: the files under         *)
(* profile_config/ (functions/main.py), the instance, set up over SSH      *)
(* (functions/ssh_setup.py), and the unit iprotate@..., which reads the    *)
(* files when it starts (functions/service.py).                            *)
(*                                                                         *)
(* The credentials stand for the keys user and pass; the content of a      *)
(* file is the value it was generated from.  wg0.conf of the peer depends  *)
(* on neither address nor credentials.  change_ip and change_region of a   *)
(* config exclude each other (check_task_status, module TaskManager);      *)
(* nothing keeps change_auth apart from them.  Calls of systemctl return   *)
(* when the unit has started or stopped.                                   *)
(***************************************************************************)
EXTENDS Naturals

CONSTANTS
  Threads,     \* task threads
  Auths,       \* values of user and pass
  NoAuth,      \* ... both empty
  Addresses,   \* public addresses of instances
  NoAddress,
  Tries        \* how often SSHSetup.connect tries (10 in the code)

ASSUME NoAuthAssumption == NoAuth \in Auths
ASSUME NoAddressAssumption == NoAddress \notin Addresses
ASSUME TriesAssumption == Tries \in Nat \ {0}

VARIABLES
  auth,        \* the credentials in config.conf
  files,       \* what the wireguard, 3proxy and shadowsocks files hold
  address,     \* the address of the instance, as AWS has it
  host,        \* the instance: package, /etc/wireguard/wg0.conf, tunnel wg0
  unit,        \* the unit: is it running, and the files it has read
  up,          \* the program runs
  pc, kind,    \* per thread: next step, and its task
  creds,       \* per thread: the credentials in its ConfigLoader
  aws,         \* per thread: the credentials in its Aws object's loader
  tries,       \* per thread: failed attempts of connect
  (* history variables *)
  promised,    \* the credentials change_auth saved last
  torn,        \* a task ended after its first write and before a start of
               \* the unit, and the unit has not read the files since
  served,      \* the unit was started since the program was
  rotated,     \* the last change_ip or change_region ended in success
  slipped      \* a remote command of the last setup failed unnoticed

threads == <<pc, kind, creds, aws, tries>>
remote  == <<address, host>>
history == <<promised, torn, served, rotated, slipped>>
vars == <<auth, files, remote, unit, up, threads, history>>

-----------------------------------------------------------------------------
Rotators == {"change_ip", "change_region"}
Files    == [endpoint : Addresses \cup {NoAddress}, http : Auths, socks : Auths]
NoFiles  == [endpoint |-> NoAddress, http |-> NoAuth, socks |-> NoAuth]
NewHost  == [wireguard |-> FALSE, conf |-> "none", tunnel |-> "down"]

(* A command over SSH waits for its output without a time limit.           *)
Remote   == {"packages", "copy_to_host", "execute_script", "enable_service",
             "restart_service"}
(* Something has been written and the unit has not been started yet.       *)
Unapplied == {"3proxy", "shadowsocks", "peer", "connect", "unconnected", "stop",
              "restart", "start"} \cup Remote
Pcs == {"idle", "hung", "aws", "change_region", "relogin", "launch", "profile",
        "verify"} \cup Unapplied

Running(t) == pc[t] \notin {"idle", "hung"}
Quiet == \A t \in Threads : ~Running(t)

Init ==
  /\ auth \in Auths /\ promised = auth
  /\ files = NoFiles
  /\ address = NoAddress /\ host = NewHost
  /\ unit = [running |-> FALSE, loaded |-> NoFiles]
  /\ up = TRUE
  /\ pc = [t \in Threads |-> "idle"]
  /\ kind = [t \in Threads |-> "none"]
  /\ creds = [t \in Threads |-> NoAuth]
  /\ aws = [t \in Threads |-> NoAuth]
  /\ tries = [t \in Threads |-> 0]
  /\ torn = FALSE /\ served = FALSE /\ rotated = FALSE /\ slipped = FALSE

At(t, step) == pc[t] = step
Goto(t, step) == pc' = [pc EXCEPT ![t] = step] /\ UNCHANGED <<kind, creds, aws, tries>>
Return(t) ==
  /\ pc' = [pc EXCEPT ![t] = "idle"]
  /\ kind' = [kind EXCEPT ![t] = "none"]
  /\ creds' = [creds EXCEPT ![t] = NoAuth]
  /\ aws' = [aws EXCEPT ![t] = NoAuth]
  /\ tries' = [tries EXCEPT ![t] = 0]

-----------------------------------------------------------------------------
(* The tasks begin.                                                        *)

(* The Aws object and the ConfigLoader, which live as long as the task.    *)
Rotate(t, k) ==
  /\ up /\ At(t, "idle")
  /\ \A u \in Threads : kind[u] \notin Rotators
  /\ pc' = [pc EXCEPT ![t] = "aws"]
  /\ kind' = [kind EXCEPT ![t] = k]
  /\ creds' = [creds EXCEPT ![t] = auth]
  /\ aws' = [aws EXCEPT ![t] = auth]
  /\ rotated' = FALSE
  /\ UNCHANGED <<auth, files, remote, unit, up, tries, promised, torn, served, slipped>>

ChangeAuth(t, a, loaded) ==
  /\ up /\ At(t, "idle")
  /\ auth' = a /\ promised' = a
  /\ pc' = [pc EXCEPT ![t] = "3proxy"]
  /\ kind' = [kind EXCEPT ![t] = "change_auth"]
  /\ creds' = [creds EXCEPT ![t] = loaded]
  /\ UNCHANGED <<files, remote, unit, up, aws, tries, torn, served, rotated, slipped>>

(* Mutation: the files come from a loader that has not got the new values. *)
change_auth_old_loader(t, a) == ChangeAuth(t, a, auth)

(* set_value and write_changes on the loader the files come from.          *)
change_auth(t, a) == ChangeAuth(t, a, a)

-----------------------------------------------------------------------------
(* The AWS calls (module Account), as far as they matter here.             *)

(* change_ip with an instance: it gets another address.                    *)
get_new_ip(t, a) ==
  /\ At(t, "aws") /\ kind[t] = "change_ip"
  /\ address # NoAddress /\ a # address
  /\ address' = a
  /\ Goto(t, "profile")
  /\ UNCHANGED <<auth, files, host, unit, up, history>>

(* The section is written back with the credentials the Aws object read.   *)
terminate_instance(t) ==
  /\ At(t, "aws")
  /\ kind[t] = "change_ip" => address = NoAddress
  /\ auth' = aws[t]
  /\ address' = NoAddress /\ host' = NewHost
  /\ Goto(t, IF kind[t] = "change_ip" THEN "launch" ELSE "change_region")
  /\ UNCHANGED <<files, unit, up, history>>

(* ... and again by ConfigLoader.change_region, on RunTask's loader, which *)
(* is as old as that of the task.                                          *)
change_region(t) ==
  /\ At(t, "change_region")
  /\ auth' = creds[t]
  /\ Goto(t, "relogin")
  /\ UNCHANGED <<files, remote, unit, up, history>>

(* A new Aws object, on the new region.                                    *)
login_new_region(t) ==
  /\ At(t, "relogin")
  /\ aws' = [aws EXCEPT ![t] = auth]
  /\ pc' = [pc EXCEPT ![t] = "launch"]
  /\ UNCHANGED <<auth, files, remote, unit, up, kind, creds, tries, history>>

(* The Aws object writes its section once more, minutes later.             *)
launch_instance(t, a) ==
  /\ At(t, "launch")
  /\ auth' = aws[t]
  /\ address' = a
  /\ Goto(t, "profile")
  /\ UNCHANGED <<files, host, unit, up, history>>

-----------------------------------------------------------------------------
(* The generated files.                                                    *)

Generate(t, generated, next) ==
  /\ files' = generated
  /\ Goto(t, next)
  /\ UNCHANGED <<auth, remote, unit, up, history>>

generate_profile_config(t) ==
  At(t, "profile") /\ Generate(t, [files EXCEPT !.endpoint = address], "3proxy")

generate_3proxy_config(t) ==
  At(t, "3proxy") /\ Generate(t, [files EXCEPT !.http = creds[t]], "shadowsocks")

generate_shadowsocks_config(t) ==
  At(t, "shadowsocks") /\ Generate(t, [files EXCEPT !.socks = creds[t]],
                                   IF kind[t] = "change_auth" THEN "stop" ELSE "peer")

(* The firewall (module Firewall), whose errors are caught, and wg0.conf.  *)
generate_peer_config(t) ==
  /\ At(t, "peer")
  /\ Goto(t, "connect")
  /\ UNCHANGED <<auth, files, remote, unit, up, history>>

-----------------------------------------------------------------------------
(* SetupHost.  connect returns False when it gives up, login ignores it,   *)
(* and the first command of setup raises.                                  *)

Attempt(t, n, next) ==
  /\ At(t, "connect")
  /\ tries' = [tries EXCEPT ![t] = n]
  /\ pc' = [pc EXCEPT ![t] = next]
  /\ UNCHANGED <<auth, files, remote, unit, up, kind, creds, aws, history>>

(* Mutation: the attempts start over instead of ending.                    *)
connect_fails_endless(t) == Attempt(t, (tries[t] + 1) % Tries, "connect")
(* Mutation: the last attempt is not recognised as the last.               *)
connect_fails_one_more(t) ==
  Attempt(t, tries[t] + 1, IF tries[t] = Tries THEN "unconnected" ELSE "connect")
(* Mutation: setup is skipped when there is no connection.                 *)
connect_fails_skips(t) ==
  Attempt(t, tries[t] + 1, IF tries[t] + 1 = Tries THEN "restart" ELSE "connect")

connect_fails(t) ==
  Attempt(t, tries[t] + 1, IF tries[t] + 1 = Tries THEN "unconnected" ELSE "connect")

connect(t) ==
  /\ At(t, "connect")
  /\ slipped' = FALSE
  /\ Goto(t, "packages")
  /\ UNCHANGED <<auth, files, remote, unit, up, promised, torn, served, rotated>>

(* One remote command: it leads to the host h, or fails on the instance,   *)
(* and setup does not look at its result.                                  *)
RemoteCommand(t, step, h, next) ==
  /\ At(t, step)
  /\ \/ host' = h /\ UNCHANGED slipped
     \/ slipped' = TRUE /\ UNCHANGED host
  /\ Goto(t, next)
  /\ UNCHANGED <<auth, files, address, unit, up, promised, torn, served, rotated>>

(* unattended-upgrades goes, wireguard comes, forwarding is allowed.       *)
install_package(t) ==
  RemoteCommand(t, "packages", [host EXCEPT !.wireguard = TRUE], "copy_to_host")

(* /etc/wireguard exists only with the package.                            *)
copy_to_host(t) ==
  RemoteCommand(t, "copy_to_host",
                IF host.wireguard THEN [host EXCEPT !.conf = "copied"] ELSE host,
                "execute_script")

(* change_eth.sh puts the name of the interface into wg0.conf.             *)
execute_script(t) ==
  RemoteCommand(t, "execute_script",
                IF host.conf = "none" THEN host ELSE [host EXCEPT !.conf = "patched"],
                "enable_service")

(* systemctl start does nothing for a tunnel that is up.                   *)
enable_service(t) ==
  RemoteCommand(t, "enable_service",
                IF host.conf = "none" \/ host.tunnel # "down" THEN host
                ELSE [host EXCEPT !.tunnel = host.conf],
                "restart_service")

(* systemctl restart reads wg0.conf again.                                 *)
restart_service(t) ==
  RemoteCommand(t, "restart_service",
                [host EXCEPT !.tunnel = IF host.conf = "none" THEN "down" ELSE host.conf],
                IF kind[t] = "change_ip" THEN "stop" ELSE "restart")

-----------------------------------------------------------------------------
(* ServiceManager and the end of a task.                                   *)

AfterStop(t) == IF kind[t] = "change_auth" THEN "start" ELSE "restart"

(* Mutation: the unit is left running.                                     *)
stop_dropped(t) ==
  /\ At(t, "stop")
  /\ Goto(t, AfterStop(t))
  /\ UNCHANGED <<auth, files, remote, unit, up, history>>

(* change_ip goes on when stop raises.                                     *)
stop(t) ==
  /\ At(t, "stop")
  /\ \/ unit' = [unit EXCEPT !.running = FALSE]
     \/ kind[t] = "change_ip" /\ UNCHANGED unit
  /\ Goto(t, AfterStop(t))
  /\ UNCHANGED <<auth, files, remote, up, history>>

(* The start script reads the files.                                       *)
Load(t) ==
  /\ unit' = [running |-> TRUE, loaded |-> files]
  /\ torn' = FALSE /\ served' = TRUE
  /\ Goto(t, "verify")
  /\ UNCHANGED <<auth, files, remote, up, promised, rotated, slipped>>

restart_iprotate_service(t) == At(t, "restart") /\ Load(t)

(* systemctl start, which does nothing for a unit that is running.         *)
start(t) ==
  /\ At(t, "start")
  /\ IF unit.running
     THEN /\ Goto(t, "verify")
          /\ UNCHANGED <<auth, files, remote, unit, up, history>>
     ELSE Load(t)

(* Up to five requests through the proxy; "success" whatever they return.  *)
get_external_ip(t) ==
  /\ At(t, "verify")
  /\ rotated' = (rotated \/ kind[t] \in Rotators)
  /\ Return(t)
  /\ UNCHANGED <<auth, files, remote, unit, up, promised, torn, served, slipped>>

(* What calls cut short leave of the address: disassociate and associate,  *)
(* another one for an instance that has one; terminate_instance, none.     *)
Readdressed == IF address # NoAddress THEN Addresses ELSE {}
Terminated == {NoAddress}
AfterCut(t) == {address} \cup (IF At(t, "aws") THEN Readdressed \cup Terminated ELSE {})

(* A step raises: the task answers "failed".                               *)
Raises(t) ==
  /\ Running(t) /\ ~At(t, "verify")
  /\ address' \in AfterCut(t)
  /\ torn' = (torn \/ pc[t] \in Unapplied)
  /\ Return(t)
  /\ UNCHANGED <<auth, files, host, unit, up, promised, served, rotated, slipped>>

(* A remote command never ends.                                            *)
Hang(t) ==
  /\ pc[t] \in Remote
  /\ torn' = TRUE
  /\ Goto(t, "hung")
  /\ UNCHANGED <<auth, files, remote, unit, up, promised, served, rotated, slipped>>

(* The process ends; files, instance and unit stay as they are.            *)
Crash ==
  /\ up /\ up' = FALSE
  /\ pc' = [t \in Threads |-> "idle"]
  /\ kind' = [t \in Threads |-> "none"]
  /\ creds' = [t \in Threads |-> NoAuth]
  /\ aws' = [t \in Threads |-> NoAuth]
  /\ tries' = [t \in Threads |-> 0]
  /\ address' \in {address} \cup UNION {AfterCut(t) : t \in Threads}
  /\ served' = FALSE /\ rotated' = FALSE
  /\ UNCHANGED <<auth, files, host, unit, promised, torn, slipped>>

(* The program starts again (pm2): app.py stops every unit.                *)
reset_all ==
  /\ ~up /\ up' = TRUE
  /\ unit' = [unit EXCEPT !.running = FALSE]
  /\ UNCHANGED <<auth, files, remote, threads, history>>

Setup(t) ==
  \/ connect_fails(t) \/ connect(t) \/ install_package(t) \/ copy_to_host(t)
  \/ execute_script(t) \/ enable_service(t) \/ restart_service(t)

Step(t) ==
  \/ \E a \in Addresses : get_new_ip(t, a) \/ launch_instance(t, a)
  \/ terminate_instance(t) \/ change_region(t) \/ login_new_region(t)
  \/ generate_profile_config(t) \/ generate_3proxy_config(t)
  \/ generate_shadowsocks_config(t) \/ generate_peer_config(t)
  \/ Setup(t)
  \/ stop(t) \/ restart_iprotate_service(t) \/ start(t) \/ get_external_ip(t)
  \/ Raises(t)

Next ==
  \/ \E t \in Threads :
       \/ \E k \in Rotators : Rotate(t, k)
       \/ \E a \in Auths : change_auth(t, a)
       \/ Step(t) \/ Hang(t)
  \/ Crash \/ reset_all

Spec == Init /\ [][Next]_vars

(* Every task thread keeps running; nothing is assumed about requests.     *)
FairSpec == Spec /\ \A t \in Threads : WF_vars(Step(t))

-----------------------------------------------------------------------------
(* Type invariant.                                                         *)
TypeOK ==
  /\ auth \in Auths /\ promised \in Auths
  /\ files \in Files
  /\ address \in Addresses \cup {NoAddress}
  /\ host \in [wireguard : BOOLEAN, conf : {"none", "copied", "patched"},
               tunnel : {"down", "copied", "patched"}]
  /\ unit \in [running : BOOLEAN, loaded : Files]
  /\ pc \in [Threads -> Pcs]
  /\ kind \in [Threads -> Rotators \cup {"change_auth", "none"}]
  /\ creds \in [Threads -> Auths] /\ aws \in [Threads -> Auths]
  /\ tries \in [Threads -> 0 .. Tries]
  /\ up \in BOOLEAN /\ torn \in BOOLEAN /\ served \in BOOLEAN
  /\ rotated \in BOOLEAN /\ slipped \in BOOLEAN

(* Whatever tasks ran side by side, when the last one has ended (and none  *)
(* of them gave up between its writes and the start of the unit) the unit  *)
(* runs, with the files that are on disk: a start that does nothing        *)
(* because another task has started the unit loses no file.                *)
QuietIsServed ==
  up /\ served /\ Quiet /\ ~torn => unit.running /\ unit.loaded = files

(* After change_ip or change_region answered "success" the unit connects   *)
(* to the address the instance has, and the tunnel at the other end is up  *)
(* with the patched wg0.conf unless a remote command failed unnoticed: no  *)
(* success without a connection to the host, whatever connect returned,    *)
(* and with change_auth stopping and starting the unit in between.         *)
TunnelMatchesInstance ==
  up /\ Quiet /\ ~torn /\ rotated =>
    /\ unit.running /\ unit.loaded.endpoint = address /\ address # NoAddress
    /\ ~slipped => host.tunnel = "patched"

(* After tasks that ended well, one after the other, both proxies ask for  *)
(* the credentials that change_auth saved last, and config.conf has them   *)
(* still, for the tasks to come: neither the older loaders of a task nor   *)
(* the sections that the AWS calls write back undo them.                   *)
AuthServed ==
  up /\ served /\ Quiet /\ ~torn =>
    unit.loaded.http = promised /\ unit.loaded.socks = promised /\ auth = promised

(* Every task ends, or hangs in a remote command: the attempts of connect  *)
(* are limited and no task waits for another one.                          *)
TaskEnds == \A t \in Threads : Running(t) ~> ~Running(t)
=============================================================================
