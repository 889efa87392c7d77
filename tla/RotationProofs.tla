--------------------------- MODULE RotationProofs ---------------------------
(***************************************************************************)
(* Proofs about Rotation, for any number of task threads, credentials,     *)
(* addresses and attempts.  Inv carries what every interleaving keeps;     *)
(* AuthInv what is kept as well when change_auth begins while no other     *)
(* task runs.                                                              *)
(***************************************************************************)
EXTENDS Rotation, TLAPS

(* The steps between a task's first write and its last action on the unit. *)
Dirty == Unapplied \ {"start"}

(* Which task is at which step, that rotations exclude each other, and     *)
(* what the program's end clears.                                          *)
Control ==
  /\ ~up => Quiet /\ \A t \in Threads : kind[t] = "none"
  /\ served \/ rotated => up
  /\ up /\ unit.running => served
  /\ \A t \in Threads :
       /\ pc[t] = "idle" <=> kind[t] = "none"
       /\ kind[t] = "change_auth" =>
            pc[t] \in {"3proxy", "shadowsocks", "stop", "start", "verify"}
       /\ pc[t] = "start" => kind[t] = "change_auth"
       /\ pc[t] = "verify" => served
       /\ pc[t] # "unconnected" => tries[t] < Tries
  /\ \A t, u \in Threads : kind[t] \in Rotators /\ kind[u] \in Rotators => t = u

(* A unit that runs has read the files, unless a task still has to stop or *)
(* restart it; it runs, unless a task still has to start it.               *)
Loaded ==
  served /\ ~torn =>
    /\ (\A t \in Threads : pc[t] \notin Dirty) => (unit.running => unit.loaded = files)
    /\ (\A t \in Threads : pc[t] \notin Unapplied) => unit.running

(* What a rotation has achieved when it is at a step.                      *)
Achieved(t) ==
  /\ pc[t] \notin {"idle", "aws", "change_region", "relogin", "launch"} =>
       address # NoAddress
  /\ pc[t] \in Unapplied \cup {"verify"} => files.endpoint = address
  /\ ~slipped =>
       /\ pc[t] = "copy_to_host" => host.wireguard
       /\ pc[t] = "execute_script" => host.conf # "none"
       /\ pc[t] \in {"enable_service", "restart_service"} => host.conf = "patched"
       /\ pc[t] \in {"stop", "restart", "verify"} => host.tunnel = "patched"

Progress ==
  /\ \A t \in Threads : kind[t] \in Rotators => Achieved(t)
  /\ rotated =>
       /\ \A t \in Threads : kind[t] \notin Rotators
       /\ served
       /\ address # NoAddress /\ files.endpoint = address
       /\ ~slipped => host.tunnel = "patched"

Inv == TypeOK /\ Control /\ Loaded /\ Progress

-----------------------------------------------------------------------------
LEMMA InitInv == Init => Inv
<1> SUFFICES ASSUME Init
             PROVE  Inv
  OBVIOUS
<1>1. TypeOK
  <2>1. NoFiles \in Files
    BY NoAuthAssumption DEF NoFiles, Files
  <2>2. /\ pc \in [Threads -> Pcs]
        /\ kind \in [Threads -> Rotators \cup {"change_auth", "none"}]
        /\ creds \in [Threads -> Auths] /\ aws \in [Threads -> Auths]
        /\ tries \in [Threads -> 0 .. Tries]
    BY NoAuthAssumption, TriesAssumption DEF Init, Pcs, Rotators
  <2>3. up \in BOOLEAN /\ torn \in BOOLEAN /\ served \in BOOLEAN
        /\ rotated \in BOOLEAN /\ slipped \in BOOLEAN
    BY Zenon DEF Init
  <2>4. QED  BY <2>1, <2>2, <2>3 DEF Init, TypeOK, NewHost
<1>2. Control
  BY TriesAssumption DEF Init, Control, Rotators, Running, Quiet
<1>3. Loaded /\ Progress
  BY DEF Init, Loaded, Progress, Rotators
<1>4. QED  BY <1>1, <1>2, <1>3 DEF Inv

LEMMA Rotate_Inv ==
  ASSUME Inv, NEW t \in Threads, NEW k \in Rotators, Rotate(t, k)
  PROVE  Inv'
<1> USE DEF Rotate, remote, history, At
<1>1. TypeOK'
  <2>1. /\ pc' \in [Threads -> Pcs]
        /\ kind' \in [Threads -> Rotators \cup {"change_auth", "none"}]
        /\ creds' \in [Threads -> Auths] /\ aws' \in [Threads -> Auths]
    BY DEF Inv, TypeOK, Pcs
  <2>2. rotated' \in BOOLEAN
    BY Zenon
  <2>3. QED  BY <2>1, <2>2 DEF Inv, TypeOK
<1>2. Control'
  BY DEF Inv, TypeOK, Control, Quiet, Running, Rotators, Remote
<1>3. Loaded'
  BY DEF Inv, TypeOK, Control, Loaded, Dirty, Unapplied, Remote, Files, Rotators, Running
<1>4. Progress'
  BY DEF Inv, TypeOK, Control, Progress, Achieved, Rotators, Unapplied, Remote, Files, Running
<1>5. QED  BY <1>1, <1>2, <1>3, <1>4 DEF Inv

LEMMA change_auth_Inv ==
  ASSUME Inv, NEW t \in Threads, NEW a \in Auths, change_auth(t, a)
  PROVE  Inv'
<1> USE DEF change_auth, ChangeAuth, remote, history, At
<1>1. TypeOK'
  BY DEF Inv, TypeOK, Files, Pcs, Unapplied, Remote, Rotators
<1>2. Control'
  BY DEF Inv, TypeOK, Control, Quiet, Running, Rotators, Remote
<1>3. Loaded'
  BY DEF Inv, TypeOK, Control, Loaded, Dirty, Unapplied, Remote, Files, Rotators, Running
<1>4. Progress'
  BY DEF Inv, TypeOK, Control, Progress, Achieved, Rotators, Unapplied, Remote, Files, Running
<1>5. QED  BY <1>1, <1>2, <1>3, <1>4 DEF Inv

LEMMA get_new_ip_Inv ==
  ASSUME Inv, NEW t \in Threads, NEW a \in Addresses, get_new_ip(t, a)
  PROVE  Inv'
<1> USE DEF get_new_ip, Goto, remote, history, At
<1>1. TypeOK'
  BY DEF Inv, TypeOK, Files, Pcs, Unapplied, Remote, Rotators
<1>2. Control'
  BY DEF Inv, TypeOK, Control, Quiet, Running, Rotators, Remote
<1>3. Loaded'
  BY DEF Inv, TypeOK, Control, Loaded, Dirty, Unapplied, Remote, Files, Rotators, Running
<1>4. Progress'
  BY NoAddressAssumption DEF Inv, TypeOK, Control, Progress, Achieved, Rotators, Unapplied, Remote, Files, Running
<1>5. QED  BY <1>1, <1>2, <1>3, <1>4 DEF Inv

LEMMA terminate_instance_Inv ==
  ASSUME Inv, NEW t \in Threads, terminate_instance(t)
  PROVE  Inv'
<1> USE DEF terminate_instance, Goto, remote, history, At
<1>1. TypeOK'
  BY DEF Inv, TypeOK, Files, Pcs, Unapplied, Remote, Rotators, NewHost
<1>2. Control'
  BY DEF Inv, TypeOK, Control, Quiet, Running, Rotators, Remote
<1>3. Loaded'
  BY DEF Inv, TypeOK, Control, Loaded, Dirty, Unapplied, Remote, Files, Rotators, Running
<1>4. Progress'
  BY DEF Inv, TypeOK, Control, Progress, Achieved, Rotators, Unapplied, Remote, Files, Running
<1>5. QED  BY <1>1, <1>2, <1>3, <1>4 DEF Inv

LEMMA change_region_Inv ==
  ASSUME Inv, NEW t \in Threads, change_region(t)
  PROVE  Inv'
<1> USE DEF change_region, Goto, remote, history, At
<1>1. TypeOK'
  BY DEF Inv, TypeOK, Files, Pcs, Unapplied, Remote, Rotators
<1>2. Control'
  BY DEF Inv, TypeOK, Control, Quiet, Running, Rotators, Remote
<1>3. Loaded'
  BY DEF Inv, TypeOK, Control, Loaded, Dirty, Unapplied, Remote, Files, Rotators, Running
<1>4. Progress'
  BY DEF Inv, TypeOK, Control, Progress, Achieved, Rotators, Unapplied, Remote, Files, Running
<1>5. QED  BY <1>1, <1>2, <1>3, <1>4 DEF Inv

LEMMA login_new_region_Inv ==
  ASSUME Inv, NEW t \in Threads, login_new_region(t)
  PROVE  Inv'
<1> USE DEF login_new_region, remote, history, At
<1>1. TypeOK'
  BY DEF Inv, TypeOK, Files, Pcs, Unapplied, Remote, Rotators
<1>2. Control'
  BY DEF Inv, TypeOK, Control, Quiet, Running, Rotators, Remote
<1>3. Loaded'
  BY DEF Inv, TypeOK, Control, Loaded, Dirty, Unapplied, Remote, Files, Rotators, Running
<1>4. Progress'
  BY DEF Inv, TypeOK, Control, Progress, Achieved, Rotators, Unapplied, Remote, Files, Running
<1>5. QED  BY <1>1, <1>2, <1>3, <1>4 DEF Inv

LEMMA launch_instance_Inv ==
  ASSUME Inv, NEW t \in Threads, NEW a \in Addresses, launch_instance(t, a)
  PROVE  Inv'
<1> USE DEF launch_instance, Goto, remote, history, At
<1>1. TypeOK'
  BY DEF Inv, TypeOK, Files, Pcs, Unapplied, Remote, Rotators
<1>2. Control'
  BY DEF Inv, TypeOK, Control, Quiet, Running, Rotators, Remote
<1>3. Loaded'
  BY DEF Inv, TypeOK, Control, Loaded, Dirty, Unapplied, Remote, Files, Rotators, Running
<1>4. Progress'
  BY NoAddressAssumption DEF Inv, TypeOK, Control, Progress, Achieved, Rotators, Unapplied, Remote, Files, Running
<1>5. QED  BY <1>1, <1>2, <1>3, <1>4 DEF Inv

LEMMA generate_profile_config_Inv ==
  ASSUME Inv, NEW t \in Threads, generate_profile_config(t)
  PROVE  Inv'
<1> USE DEF generate_profile_config, Generate, Goto, remote, history, At
<1>1. TypeOK'
  BY DEF Inv, TypeOK, Files, Pcs, Unapplied, Remote, Rotators
<1>2. Control'
  BY DEF Inv, TypeOK, Control, Quiet, Running, Rotators, Remote
<1>3. Loaded'
  BY DEF Inv, TypeOK, Control, Loaded, Dirty, Unapplied, Remote, Files, Rotators, Running
<1>4. Progress'
  BY DEF Inv, TypeOK, Control, Progress, Achieved, Rotators, Unapplied, Remote, Files, Running
<1>5. QED  BY <1>1, <1>2, <1>3, <1>4 DEF Inv

LEMMA generate_3proxy_config_Inv ==
  ASSUME Inv, NEW t \in Threads, generate_3proxy_config(t)
  PROVE  Inv'
<1> USE DEF generate_3proxy_config, Generate, Goto, remote, history, At
<1>1. TypeOK'
  BY DEF Inv, TypeOK, Files, Pcs, Unapplied, Remote, Rotators
<1>2. Control'
  BY DEF Inv, TypeOK, Control, Quiet, Running, Rotators, Remote
<1>3. Loaded'
  BY DEF Inv, TypeOK, Control, Loaded, Dirty, Unapplied, Remote, Files, Rotators, Running
<1>4. Progress'
  BY DEF Inv, TypeOK, Control, Progress, Achieved, Rotators, Unapplied, Remote, Files, Running
<1>5. QED  BY <1>1, <1>2, <1>3, <1>4 DEF Inv

LEMMA generate_shadowsocks_config_Inv ==
  ASSUME Inv, NEW t \in Threads, generate_shadowsocks_config(t)
  PROVE  Inv'
<1> USE DEF generate_shadowsocks_config, Generate, Goto, remote, history, At
<1>1. TypeOK'
  BY DEF Inv, TypeOK, Files, Pcs, Unapplied, Remote, Rotators
<1>2. Control'
  BY DEF Inv, TypeOK, Control, Quiet, Running, Rotators, Remote
<1>3. Loaded'
  BY DEF Inv, TypeOK, Control, Loaded, Dirty, Unapplied, Remote, Files, Rotators, Running
<1>4. Progress'
  BY DEF Inv, TypeOK, Control, Progress, Achieved, Rotators, Unapplied, Remote, Files, Running
<1>5. QED  BY <1>1, <1>2, <1>3, <1>4 DEF Inv

LEMMA generate_peer_config_Inv ==
  ASSUME Inv, NEW t \in Threads, generate_peer_config(t)
  PROVE  Inv'
<1> USE DEF generate_peer_config, Goto, remote, history, At
<1>1. TypeOK'
  BY DEF Inv, TypeOK, Files, Pcs, Unapplied, Remote, Rotators
<1>2. Control'
  BY DEF Inv, TypeOK, Control, Quiet, Running, Rotators, Remote
<1>3. Loaded'
  BY DEF Inv, TypeOK, Control, Loaded, Dirty, Unapplied, Remote, Files, Rotators, Running
<1>4. Progress'
  BY DEF Inv, TypeOK, Control, Progress, Achieved, Rotators, Unapplied, Remote, Files, Running
<1>5. QED  BY <1>1, <1>2, <1>3, <1>4 DEF Inv

LEMMA connect_fails_Inv ==
  ASSUME Inv, NEW t \in Threads, connect_fails(t)
  PROVE  Inv'
<1> USE DEF connect_fails, Attempt, remote, history, At
<1>1. TypeOK'
  BY TriesAssumption DEF Inv, TypeOK, Files, Pcs, Unapplied, Remote, Rotators, Control
<1>2. Control'
  BY TriesAssumption DEF Inv, TypeOK, Control, Quiet, Running, Rotators, Remote
<1>3. Loaded'
  BY DEF Inv, TypeOK, Control, Loaded, Dirty, Unapplied, Remote, Files, Rotators, Running
<1>4. Progress'
  BY DEF Inv, TypeOK, Control, Progress, Achieved, Rotators, Unapplied, Remote, Files, Running
<1>5. QED  BY <1>1, <1>2, <1>3, <1>4 DEF Inv

LEMMA connect_Inv ==
  ASSUME Inv, NEW t \in Threads, connect(t)
  PROVE  Inv'
<1> USE DEF connect, Goto, remote, history, At
<1>1. TypeOK'
  <2>1. slipped' \in BOOLEAN
    OBVIOUS
  <2>2. pc' \in [Threads -> Pcs]
    BY DEF Inv, TypeOK, Pcs, Unapplied, Remote
  <2>3. QED  BY <2>1, <2>2 DEF Inv, TypeOK
<1>2. Control'
  BY DEF Inv, TypeOK, Control, Quiet, Running, Rotators, Remote
<1>3. Loaded'
  BY DEF Inv, TypeOK, Control, Loaded, Dirty, Unapplied, Remote, Files, Rotators, Running
<1>4. Progress'
  BY DEF Inv, TypeOK, Control, Progress, Achieved, Rotators, Unapplied, Remote, Files, Running
<1>5. QED  BY <1>1, <1>2, <1>3, <1>4 DEF Inv

LEMMA install_package_Inv ==
  ASSUME Inv, NEW t \in Threads, install_package(t)
  PROVE  Inv'
<1> USE DEF install_package, RemoteCommand, Goto, remote, history, At
<1>1. TypeOK'
  <2>1. host' \in [wireguard : BOOLEAN, conf : {"none", "copied", "patched"},
                   tunnel : {"down", "copied", "patched"}]
    BY DEF Inv, TypeOK
  <2>2. slipped' \in BOOLEAN
    BY DEF Inv, TypeOK
  <2>3. pc' \in [Threads -> Pcs]
    BY DEF Inv, TypeOK, Pcs, Unapplied, Remote
  <2>4. QED  BY <2>1, <2>2, <2>3 DEF Inv, TypeOK
<1>2. Control'
  BY DEF Inv, TypeOK, Control, Quiet, Running, Rotators, Remote
<1>3. Loaded'
  BY DEF Inv, TypeOK, Control, Loaded, Dirty, Unapplied, Remote, Files, Rotators, Running
<1>4. Progress'
  BY DEF Inv, TypeOK, Control, Progress, Achieved, Rotators, Unapplied, Remote, Files, Running
<1>5. QED  BY <1>1, <1>2, <1>3, <1>4 DEF Inv

LEMMA copy_to_host_Inv ==
  ASSUME Inv, NEW t \in Threads, copy_to_host(t)
  PROVE  Inv'
<1> USE DEF copy_to_host, RemoteCommand, Goto, remote, history, At
<1>1. TypeOK'
  <2>1. host' \in [wireguard : BOOLEAN, conf : {"none", "copied", "patched"},
                   tunnel : {"down", "copied", "patched"}]
    BY DEF Inv, TypeOK
  <2>2. slipped' \in BOOLEAN
    BY DEF Inv, TypeOK
  <2>3. pc' \in [Threads -> Pcs]
    BY DEF Inv, TypeOK, Pcs, Unapplied, Remote
  <2>4. QED  BY <2>1, <2>2, <2>3 DEF Inv, TypeOK
<1>2. Control'
  BY DEF Inv, TypeOK, Control, Quiet, Running, Rotators, Remote
<1>3. Loaded'
  BY DEF Inv, TypeOK, Control, Loaded, Dirty, Unapplied, Remote, Files, Rotators, Running
<1>4. Progress'
  BY DEF Inv, TypeOK, Control, Progress, Achieved, Rotators, Unapplied, Remote, Files, Running
<1>5. QED  BY <1>1, <1>2, <1>3, <1>4 DEF Inv

LEMMA execute_script_Inv ==
  ASSUME Inv, NEW t \in Threads, execute_script(t)
  PROVE  Inv'
<1> USE DEF execute_script, RemoteCommand, Goto, remote, history, At
<1>1. TypeOK'
  <2>1. host' \in [wireguard : BOOLEAN, conf : {"none", "copied", "patched"},
                   tunnel : {"down", "copied", "patched"}]
    BY DEF Inv, TypeOK
  <2>2. slipped' \in BOOLEAN
    BY DEF Inv, TypeOK
  <2>3. pc' \in [Threads -> Pcs]
    BY DEF Inv, TypeOK, Pcs, Unapplied, Remote
  <2>4. QED  BY <2>1, <2>2, <2>3 DEF Inv, TypeOK
<1>2. Control'
  BY DEF Inv, TypeOK, Control, Quiet, Running, Rotators, Remote
<1>3. Loaded'
  BY DEF Inv, TypeOK, Control, Loaded, Dirty, Unapplied, Remote, Files, Rotators, Running
<1>4. Progress'
  BY DEF Inv, TypeOK, Control, Progress, Achieved, Rotators, Unapplied, Remote, Files, Running
<1>5. QED  BY <1>1, <1>2, <1>3, <1>4 DEF Inv

LEMMA enable_service_Inv ==
  ASSUME Inv, NEW t \in Threads, enable_service(t)
  PROVE  Inv'
<1> USE DEF enable_service, RemoteCommand, Goto, remote, history, At
<1>1. TypeOK'
  <2>1. host' \in [wireguard : BOOLEAN, conf : {"none", "copied", "patched"},
                   tunnel : {"down", "copied", "patched"}]
    BY DEF Inv, TypeOK
  <2>2. slipped' \in BOOLEAN
    BY DEF Inv, TypeOK
  <2>3. pc' \in [Threads -> Pcs]
    BY DEF Inv, TypeOK, Pcs, Unapplied, Remote
  <2>4. QED  BY <2>1, <2>2, <2>3 DEF Inv, TypeOK
<1>2. Control'
  BY DEF Inv, TypeOK, Control, Quiet, Running, Rotators, Remote
<1>3. Loaded'
  BY DEF Inv, TypeOK, Control, Loaded, Dirty, Unapplied, Remote, Files, Rotators, Running
<1>4. Progress'
  BY DEF Inv, TypeOK, Control, Progress, Achieved, Rotators, Unapplied, Remote, Files, Running
<1>5. QED  BY <1>1, <1>2, <1>3, <1>4 DEF Inv

LEMMA restart_service_Inv ==
  ASSUME Inv, NEW t \in Threads, restart_service(t)
  PROVE  Inv'
<1> USE DEF restart_service, RemoteCommand, Goto, remote, history, At
<1>1. TypeOK'
  <2>1. host' \in [wireguard : BOOLEAN, conf : {"none", "copied", "patched"},
                   tunnel : {"down", "copied", "patched"}]
    BY DEF Inv, TypeOK
  <2>2. slipped' \in BOOLEAN
    BY DEF Inv, TypeOK
  <2>3. pc' \in [Threads -> Pcs]
    BY DEF Inv, TypeOK, Pcs, Unapplied, Remote
  <2>4. QED  BY <2>1, <2>2, <2>3 DEF Inv, TypeOK
<1>2. Control'
  BY DEF Inv, TypeOK, Control, Quiet, Running, Rotators, Remote
<1>3. Loaded'
  BY DEF Inv, TypeOK, Control, Loaded, Dirty, Unapplied, Remote, Files, Rotators, Running
<1>4. Progress'
  BY DEF Inv, TypeOK, Control, Progress, Achieved, Rotators, Unapplied, Remote, Files, Running
<1>5. QED  BY <1>1, <1>2, <1>3, <1>4 DEF Inv

LEMMA stop_Inv ==
  ASSUME Inv, NEW t \in Threads, stop(t)
  PROVE  Inv'
<1> USE DEF stop, AfterStop, Goto, remote, history, At
<1>1. TypeOK'
  <2>1. unit' \in [running : BOOLEAN, loaded : Files]
    BY DEF Inv, TypeOK
  <2>2. pc' \in [Threads -> Pcs]
    BY DEF Inv, TypeOK, Pcs, Unapplied
  <2>3. QED  BY <2>1, <2>2 DEF Inv, TypeOK
<1>2. Control'
  BY DEF Inv, TypeOK, Control, Quiet, Running, Rotators, Remote
<1>3. Loaded'
  BY DEF Inv, TypeOK, Control, Loaded, Dirty, Unapplied, Remote, Files, Rotators, Running
<1>4. Progress'
  BY DEF Inv, TypeOK, Control, Progress, Achieved, Rotators, Unapplied, Remote, Files, Running
<1>5. QED  BY <1>1, <1>2, <1>3, <1>4 DEF Inv

LEMMA restart_Inv ==
  ASSUME Inv, NEW t \in Threads, restart_iprotate_service(t)
  PROVE  Inv'
<1> USE DEF restart_iprotate_service, Load, Goto, remote, history, At
<1>1. TypeOK'
  BY DEF Inv, TypeOK, Files, Pcs, Unapplied, Remote, Rotators
<1>2. Control'
  BY DEF Inv, TypeOK, Control, Quiet, Running, Rotators, Remote
<1>3. Loaded'
  BY DEF Inv, TypeOK, Control, Loaded, Dirty, Unapplied, Remote, Files, Rotators, Running
<1>4. Progress'
  BY DEF Inv, TypeOK, Control, Progress, Achieved, Rotators, Unapplied, Remote, Files, Running
<1>5. QED  BY <1>1, <1>2, <1>3, <1>4 DEF Inv

LEMMA start_Inv ==
  ASSUME Inv, NEW t \in Threads, start(t)
  PROVE  Inv'
<1> USE DEF At, Goto, remote, history
<1>1. CASE unit.running
  <2>1. TypeOK'
    BY <1>1 DEF start, Inv, TypeOK, Files, Pcs, Unapplied, Remote, Rotators
  <2>2. Control'
    <3>1. served
      BY <1>1 DEF start, Inv, Control, Quiet, Running
    <3>2. QED
      BY <1>1, <3>1 DEF start, Inv, TypeOK, Control, Quiet, Running, Rotators, Remote
  <2>3. Loaded'
    BY <1>1 DEF start, Inv, TypeOK, Control, Loaded, Dirty, Unapplied, Remote, Files, Rotators, Running
  <2>4. Progress'
    BY <1>1 DEF start, Inv, TypeOK, Control, Progress, Achieved, Rotators, Unapplied, Remote, Files, Running
  <2>5. QED  BY <2>1, <2>2, <2>3, <2>4 DEF Inv
<1>2. CASE ~unit.running
  <2>1. TypeOK'
    <3>1. unit' \in [running : BOOLEAN, loaded : Files]
      <4>1. unit' = [running |-> TRUE, loaded |-> files]
        BY <1>2 DEF start, Load
      <4>2. files \in Files
        BY DEF Inv, TypeOK
      <4>3. QED  BY <4>1, <4>2
    <3>2. pc' \in [Threads -> Pcs]
      BY <1>2 DEF start, Load, Inv, TypeOK, Pcs
    <3>3. torn' \in BOOLEAN /\ served' \in BOOLEAN
      BY <1>2, Zenon DEF start, Load
    <3>4. QED  BY <1>2, <3>1, <3>2, <3>3 DEF start, Load, Inv, TypeOK
  <2>2. Control'
    BY <1>2 DEF start, Load, Inv, TypeOK, Control, Quiet, Running, Rotators, Remote
  <2>3. Loaded'
    BY <1>2 DEF start, Load, Inv, TypeOK, Control, Loaded, Dirty, Unapplied, Remote, Files, Rotators, Running
  <2>4. Progress'
    BY <1>2 DEF start, Load, Inv, TypeOK, Control, Progress, Achieved, Rotators, Unapplied, Remote, Files, Running
  <2>5. QED  BY <2>1, <2>2, <2>3, <2>4 DEF Inv
<1>3. QED  BY <1>1, <1>2

LEMMA get_external_ip_Inv ==
  ASSUME Inv, NEW t \in Threads, get_external_ip(t)
  PROVE  Inv'
<1> USE DEF get_external_ip, Return, remote, history, At
<1>1. TypeOK'
  BY NoAuthAssumption, TriesAssumption DEF Inv, TypeOK, Files, Pcs, Unapplied, Remote, Rotators
<1>2. Control'
  BY TriesAssumption DEF Inv, TypeOK, Control, Quiet, Running, Rotators, Remote
<1>3. Loaded'
  BY DEF Inv, TypeOK, Control, Loaded, Dirty, Unapplied, Remote, Files, Rotators, Running
<1>4. Progress'
  BY DEF Inv, TypeOK, Control, Progress, Achieved, Rotators, Unapplied, Remote, Files, Running
<1>5. QED  BY <1>1, <1>2, <1>3, <1>4 DEF Inv

LEMMA Raises_Inv ==
  ASSUME Inv, NEW t \in Threads, Raises(t)
  PROVE  Inv'
<1> USE DEF Raises, Return, remote, history, At
<1>0. /\ address' \in Addresses \cup {NoAddress}
      /\ address' = address \/ kind[t] \in Rotators
  BY DEF AfterCut, Readdressed, Terminated, Inv, TypeOK, Control, Rotators
<1>1. TypeOK'
  BY <1>0, NoAuthAssumption, TriesAssumption DEF Inv, TypeOK, Files, Pcs, Unapplied, Remote, Rotators
<1>2. Control'
  BY TriesAssumption DEF Inv, TypeOK, Control, Quiet, Running, Rotators, Remote
<1>3. Loaded'
  BY DEF Inv, TypeOK, Control, Loaded, Dirty, Unapplied, Remote, Files, Rotators, Running
<1>4. Progress'
  BY <1>0 DEF Inv, TypeOK, Control, Progress, Achieved, Rotators, Unapplied, Remote, Files, Running
<1>5. QED  BY <1>1, <1>2, <1>3, <1>4 DEF Inv

LEMMA Hang_Inv ==
  ASSUME Inv, NEW t \in Threads, Hang(t)
  PROVE  Inv'
<1> USE DEF Hang, Goto, remote, history, At
<1>1. TypeOK'
  BY DEF Inv, TypeOK, Files, Pcs, Unapplied, Remote, Rotators
<1>2. Control'
  BY DEF Inv, TypeOK, Control, Quiet, Running, Rotators, Remote
<1>3. Loaded'
  BY DEF Inv, TypeOK, Control, Loaded, Dirty, Unapplied, Remote, Files, Rotators, Running
<1>4. Progress'
  BY DEF Inv, TypeOK, Control, Progress, Achieved, Rotators, Unapplied, Remote, Files, Running
<1>5. QED  BY <1>1, <1>2, <1>3, <1>4 DEF Inv

LEMMA Crash_Inv ==
  ASSUME Inv, Crash
  PROVE  Inv'
<1> USE DEF Crash, remote
<1>1. TypeOK'
  <2>1. /\ pc' \in [Threads -> Pcs]
        /\ kind' \in [Threads -> Rotators \cup {"change_auth", "none"}]
        /\ creds' \in [Threads -> Auths] /\ aws' \in [Threads -> Auths]
        /\ tries' \in [Threads -> 0 .. Tries]
    BY NoAuthAssumption, TriesAssumption DEF Pcs, Rotators
  <2>2. up' \in BOOLEAN /\ served' \in BOOLEAN /\ rotated' \in BOOLEAN
    BY Zenon
  <2>3. address' \in Addresses \cup {NoAddress}
    BY DEF AfterCut, Readdressed, Terminated, Inv, TypeOK
  <2>4. QED  BY <2>1, <2>2, <2>3 DEF Inv, TypeOK
<1>2. Control'
  BY TriesAssumption DEF Control, Quiet, Running, Rotators
<1>3. Loaded'
  BY DEF Loaded
<1>4. Progress'
  BY DEF Progress, Rotators
<1>5. QED  BY <1>1, <1>2, <1>3, <1>4 DEF Inv

LEMMA reset_all_Inv ==
  ASSUME Inv, reset_all
  PROVE  Inv'
<1> USE DEF reset_all, remote, threads, history
<1>1. TypeOK'
  BY DEF Inv, TypeOK
<1>2. Control'
  BY DEF Inv, Control, Quiet, Running
<1>3. Loaded'
  BY DEF Inv, Control, Loaded
<1>4. Progress'
  BY DEF Inv, Control, Progress, Rotators
<1>5. QED  BY <1>1, <1>2, <1>3, <1>4 DEF Inv

LEMMA Stutter_Inv ==
  ASSUME Inv, UNCHANGED vars
  PROVE  Inv'
  BY DEF vars, remote, threads, history, Inv, TypeOK, Control, Loaded, Progress,
     Achieved, Quiet, Running

LEMMA NextInv == Inv /\ [Next]_vars => Inv'
<1> SUFFICES ASSUME Inv, [Next]_vars
             PROVE  Inv'
  OBVIOUS
<1>1. ASSUME NEW t \in Threads, Step(t)
      PROVE  Inv'
  <2>1. CASE Setup(t)
    BY <2>1, connect_fails_Inv, connect_Inv, install_package_Inv, copy_to_host_Inv,
       execute_script_Inv, enable_service_Inv, restart_service_Inv DEF Setup
  <2>2. CASE ~Setup(t)
    BY <1>1, <2>2, get_new_ip_Inv, launch_instance_Inv, terminate_instance_Inv,
       change_region_Inv, login_new_region_Inv, generate_profile_config_Inv,
       generate_3proxy_config_Inv, generate_shadowsocks_config_Inv,
       generate_peer_config_Inv, stop_Inv, restart_Inv, start_Inv, get_external_ip_Inv,
       Raises_Inv DEF Step
  <2>3. QED  BY <2>1, <2>2
<1>2. QED
  BY <1>1, Rotate_Inv, change_auth_Inv, Hang_Inv, Crash_Inv, reset_all_Inv, Stutter_Inv
  DEF Next

(* The inductive invariant above holds of every behaviour.                 *)
THEOREM Invariant == Spec => []Inv
  BY InitInv, NextInv, PTL DEF Spec

-----------------------------------------------------------------------------
(* Rotation's state keeps its types: in particular connect never makes     *)
(* more than Tries attempts.                                               *)
THEOREM TypeCorrect == Spec => []TypeOK
<1>1. Inv => TypeOK  BY DEF Inv
<1>2. QED  BY <1>1, Invariant, PTL

LEMMA InvServed == Inv => QuietIsServed
  BY DEF Inv, TypeOK, Loaded, QuietIsServed, Quiet, Running, Dirty, Unapplied, Remote

(* When no task is running and none ended between its writes and the start *)
(* of the unit, the unit runs with the files on disk.                      *)
THEOREM QuietServed == Spec => []QuietIsServed
  BY InvServed, Invariant, PTL

(* After a successful rotation the unit connects to the instance's address *)
(* and, unless a remote command failed unnoticed, the instance's tunnel is *)
(* up with the patched file.                                               *)
THEOREM TunnelMatches == Spec => []TunnelMatchesInstance
<1>1. Inv => TunnelMatchesInstance
  BY InvServed DEF Inv, Progress, QuietIsServed, TunnelMatchesInstance
<1>2. QED  BY <1>1, Invariant, PTL

-----------------------------------------------------------------------------
(* The credentials.  change_auth is the only task that changes what is     *)
(* promised; where it begins while no other task runs, every loader of a   *)
(* running task holds the promised values, and so does every file such a   *)
(* task has written.                                                       *)

(* The steps after the generation of the 3proxy file, and after that of    *)
(* the shadowsocks file.                                                   *)
HttpWritten  == (Unapplied \ {"3proxy"}) \cup {"verify"}
SocksWritten == HttpWritten \ {"shadowsocks"}

Holds(t) ==
  /\ Running(t) => creds[t] = promised
  /\ Running(t) /\ kind[t] \in Rotators => aws[t] = promised
  /\ pc[t] \in HttpWritten => files.http = promised
  /\ pc[t] \in SocksWritten => files.socks = promised

(* Between the writes of a task that did not give up, the unit may have    *)
(* been started; then the files held what was promised.                    *)
Writing == {"3proxy", "shadowsocks"}
Written ==
  served /\ ~torn /\ (\A t \in Threads : pc[t] \notin Writing) =>
    files.http = promised /\ files.socks = promised

AuthInv == auth = promised /\ (\A t \in Threads : Holds(t)) /\ Written

(* change_auth begins only when no other task runs.                        *)
ChangesAlone == \A t \in Threads, a \in Auths : change_auth(t, a) => Quiet

LEMMA InitAuth == Init => AuthInv
  BY DEF Init, AuthInv, Holds, Written, Running, HttpWritten, SocksWritten, Unapplied,
  Remote

(* Steps that write neither config.conf nor a file with credentials, and   *)
(* do not enter or leave the writing of these files.                       *)
Region(step) ==
  IF step \in {"idle", "hung"} THEN "out"
  ELSE IF step \in {"aws", "change_region", "relogin", "launch", "profile"} THEN "before"
  ELSE IF step \in Writing THEN step ELSE "after"

LEMMA SameRegion ==
  ASSUME Inv, AuthInv, NEW t \in Threads, NEW next \in Pcs,
         Region(next) = Region(pc[t]), pc' = [pc EXCEPT ![t] = next],
         UNCHANGED <<auth, kind, creds, aws, promised>>,
         files'.http = files.http, files'.socks = files.socks,
         served' /\ ~torn' =>
           (served /\ ~torn) \/ (files.http = promised /\ files.socks = promised)
  PROVE  AuthInv'
  <1> pc \in [Threads -> Pcs]
    BY DEF Inv, TypeOK
  <1> USE DEF Region, Writing, HttpWritten, SocksWritten, Unapplied, Remote, Pcs, Running
  <1>1. \A u \in Threads : Holds(u)'
    BY DEF AuthInv, Holds
  <1>2. Written'
    BY DEF AuthInv, Written
  <1>3. QED
    BY <1>1, <1>2 DEF AuthInv

(* The AWS calls: what they write back to config.conf is what is promised, *)
(* because the loaders they write from are not older.                      *)
LEMMA AwsCalls ==
  ASSUME Inv, AuthInv, NEW t \in Threads,
         \/ \E a \in Addresses : get_new_ip(t, a) \/ launch_instance(t, a)
         \/ terminate_instance(t) \/ change_region(t)
  PROVE  AuthInv'
  <1>1. /\ pc[t] \in {"aws", "launch", "change_region"}
        /\ auth' \in {auth, aws[t], creds[t]}
        /\ UNCHANGED <<files, kind, creds, aws, promised, served, torn>>
    BY DEF get_new_ip, launch_instance, terminate_instance, change_region, At, Goto,
    history
  <1>2. PICK next \in {"profile", "launch", "change_region", "relogin"} :
          pc' = [pc EXCEPT ![t] = next]
    BY DEF get_new_ip, launch_instance, terminate_instance, change_region, Goto
  <1>3. kind[t] \in Rotators
    BY <1>1 DEF Inv, TypeOK, Control, Rotators
  <1>4. auth' = auth
    BY <1>1, <1>3 DEF AuthInv, Holds, Running
  <1>5. next \in Pcs /\ Region(next) = Region(pc[t])
    BY <1>1 DEF Pcs, Region
  <1>6. QED
    BY <1>1, <1>2, <1>4, <1>5, SameRegion

(* A new Aws object reads config.conf, which has them.                     *)
LEMMA LoginAuth ==
  ASSUME Inv, AuthInv, NEW t \in Threads, login_new_region(t)
  PROVE  AuthInv'
  <1>1. /\ pc[t] = "relogin" /\ pc' = [pc EXCEPT ![t] = "launch"]
        /\ aws' = [aws EXCEPT ![t] = auth]
        /\ UNCHANGED <<auth, files, kind, creds, promised, served, torn>>
    BY DEF login_new_region, At, history
  <1>2. \A u \in Threads : Holds(u)'
    BY <1>1 DEF Inv, TypeOK, AuthInv, Holds, Running, HttpWritten, SocksWritten,
    Unapplied, Remote
  <1>3. Written'
    BY <1>1 DEF Inv, TypeOK, AuthInv, Written, Writing
  <1>4. QED
    BY <1>1, <1>2, <1>3 DEF AuthInv

(* The three files: the endpoint is no credential, and the task's loader   *)
(* holds what is promised.                                                 *)
LEMMA GenerateAuth ==
  ASSUME Inv, AuthInv, NEW t \in Threads,
         \/ generate_profile_config(t) \/ generate_3proxy_config(t)
         \/ generate_shadowsocks_config(t)
  PROVE  AuthInv'
  <1>1. /\ UNCHANGED <<auth, kind, creds, aws, promised, served, torn>>
        /\ \/ /\ pc[t] = "profile" /\ pc' = [pc EXCEPT ![t] = "3proxy"]
              /\ files'.http = files.http /\ files'.socks = files.socks
           \/ /\ pc[t] = "3proxy" /\ pc' = [pc EXCEPT ![t] = "shadowsocks"]
              /\ files'.http = creds[t] /\ files'.socks = files.socks
           \/ /\ pc[t] = "shadowsocks"
              /\ pc' = [pc EXCEPT ![t] = "stop"] \/ pc' = [pc EXCEPT ![t] = "peer"]
              /\ files'.http = files.http /\ files'.socks = creds[t]
    BY DEF Inv, TypeOK, Files, generate_profile_config, generate_3proxy_config,
    generate_shadowsocks_config, Generate, Goto, At, history
  <1>2. creds[t] = promised
    BY <1>1 DEF AuthInv, Holds, Running
  <1>3. \A u \in Threads : Holds(u)'
    BY <1>1, <1>2 DEF Inv, TypeOK, AuthInv, Holds, Running, HttpWritten, SocksWritten,
    Unapplied, Remote
  <1>4. Written'
    BY <1>1, <1>2 DEF Inv, TypeOK, AuthInv, Written, Writing, Holds, HttpWritten,
    SocksWritten, Unapplied, Remote
  <1>5. QED
    BY <1>1, <1>3, <1>4 DEF AuthInv

(* The setup of the host and the stop of the unit.                         *)
LEMMA SetupAuth ==
  ASSUME Inv, AuthInv, NEW t \in Threads,
         generate_peer_config(t) \/ Setup(t) \/ stop(t)
  PROVE  AuthInv'
  <1> DEFINE Later == {"connect", "unconnected", "stop", "restart", "start"} \cup Remote
  <1>1. /\ pc[t] \in {"peer"} \cup Later
        /\ UNCHANGED <<auth, files, kind, creds, aws, promised, served, torn>>
    BY DEF generate_peer_config, Setup, stop, connect_fails, Attempt, connect,
    install_package, copy_to_host, execute_script, enable_service, restart_service,
    RemoteCommand, Remote, At, Goto, history
  <1>2. PICK next \in Later : pc' = [pc EXCEPT ![t] = next]
    BY DEF generate_peer_config, Setup, stop, connect_fails, Attempt, connect,
    install_package, copy_to_host, execute_script, enable_service, restart_service,
    RemoteCommand, Remote, Goto, AfterStop
  <1>3. next \in Pcs /\ Region(next) = Region(pc[t])
    BY <1>1 DEF Pcs, Unapplied, Remote, Region, Writing
  <1>4. QED
    BY <1>1, <1>2, <1>3, SameRegion

(* A start of the unit, when both files are written.                       *)
LEMMA LoadAuth ==
  ASSUME Inv, AuthInv, NEW t \in Threads, restart_iprotate_service(t) \/ start(t)
  PROVE  AuthInv'
  <1>1. /\ pc[t] \in {"restart", "start"} /\ pc' = [pc EXCEPT ![t] = "verify"]
        /\ UNCHANGED <<auth, files, kind, creds, aws, promised>>
    BY DEF restart_iprotate_service, start, Load, At, Goto, history
  <1>2. files.http = promised /\ files.socks = promised
    BY <1>1 DEF AuthInv, Holds, HttpWritten, SocksWritten, Unapplied
  <1>3. "verify" \in Pcs /\ Region("verify") = Region(pc[t])
    BY <1>1 DEF Pcs, Region, Writing
  <1>4. QED
    BY <1>1, <1>2, <1>3, SameRegion

(* The task leaves: what it wrote is promised, or it leaves a torn set of  *)
(* files behind.                                                           *)
LEMMA LeaveAuth ==
  ASSUME Inv, AuthInv, NEW t \in Threads,
         get_external_ip(t) \/ Raises(t) \/ Hang(t)
  PROVE  AuthInv'
  <1>1. /\ UNCHANGED <<auth, files, promised, served>>
        /\ \A u \in Threads \ {t} : /\ pc'[u] = pc[u] /\ kind'[u] = kind[u]
                                     /\ creds'[u] = creds[u] /\ aws'[u] = aws[u]
        /\ pc'[t] \in {"idle", "hung"}
        /\ torn => torn'
        /\ pc[t] \in Writing => torn'
    BY DEF Inv, TypeOK, get_external_ip, Raises, Hang, Return, Goto, At, Writing,
    Unapplied, Remote
  <1>2. \A u \in Threads : Holds(u)'
    BY <1>1 DEF AuthInv, Holds, Running, HttpWritten, SocksWritten, Unapplied, Remote
  <1>3. Written'
    BY <1>1 DEF AuthInv, Written, Writing
  <1>4. QED
    BY <1>1, <1>2, <1>3 DEF AuthInv

(* A rotation begins with two loaders that read config.conf.               *)
LEMMA RotateAuth ==
  ASSUME Inv, AuthInv, NEW t \in Threads, NEW k \in Rotators, Rotate(t, k)
  PROVE  AuthInv'
  <1>1. /\ pc[t] = "idle" /\ pc' = [pc EXCEPT ![t] = "aws"]
        /\ creds' = [creds EXCEPT ![t] = auth] /\ aws' = [aws EXCEPT ![t] = auth]
        /\ kind' = [kind EXCEPT ![t] = k]
        /\ UNCHANGED <<auth, files, promised, served, torn>>
    BY DEF Rotate, At
  <1>2. \A u \in Threads : Holds(u)'
    BY <1>1 DEF Inv, TypeOK, AuthInv, Holds, Running, HttpWritten, SocksWritten,
    Unapplied, Remote
  <1>3. Written'
    BY <1>1 DEF Inv, TypeOK, AuthInv, Written, Writing
  <1>4. QED
    BY <1>1, <1>2, <1>3 DEF AuthInv

(* change_auth changes the promise, where nobody holds an older one.       *)
LEMMA ChangeAuthAlone ==
  ASSUME Inv, AuthInv, NEW t \in Threads, NEW a \in Auths, change_auth(t, a), Quiet
  PROVE  AuthInv'
  <1>1. /\ pc' = [pc EXCEPT ![t] = "3proxy"]
        /\ creds' = [creds EXCEPT ![t] = a]
        /\ kind' = [kind EXCEPT ![t] = "change_auth"]
        /\ auth' = a /\ promised' = a
    BY DEF change_auth, ChangeAuth
  <1>2. \A u \in Threads : Holds(u)'
    BY <1>1 DEF Inv, TypeOK, Holds, Quiet, Running, Rotators, HttpWritten,
    SocksWritten, Unapplied, Remote
  <1>3. Written'
    BY <1>1 DEF Inv, TypeOK, Written, Writing
  <1>4. QED
    BY <1>1, <1>2, <1>3 DEF AuthInv

(* The process ends, and starts again.                                     *)
LEMMA CrashAuth ==
  ASSUME Inv, AuthInv, Crash \/ reset_all
  PROVE  AuthInv'
  <1>1. CASE Crash
    <2>1. \A u \in Threads : Holds(u)'
      BY <1>1 DEF Crash, Holds, Running, HttpWritten, SocksWritten, Unapplied, Remote
    <2>2. Written' /\ auth' = promised'
      BY <1>1 DEF Crash, AuthInv, Written
    <2>3. QED
      BY <2>1, <2>2 DEF AuthInv
  <1>2. CASE reset_all
    BY <1>2 DEF reset_all, threads, history, AuthInv, Holds, Written, Running
  <1>3. QED
    BY <1>1, <1>2

LEMMA StepAuth == Inv /\ AuthInv /\ [Next]_vars /\ [ChangesAlone]_vars => AuthInv'
  <1> SUFFICES ASSUME Inv, AuthInv, [Next]_vars, [ChangesAlone]_vars PROVE AuthInv'
    OBVIOUS
  <1>1. CASE UNCHANGED vars
    BY <1>1 DEF vars, remote, threads, history, AuthInv, Holds, Written, Running
  <1>2. CASE ChangesAlone /\ Next
    <2>1. ASSUME NEW t \in Threads, Step(t) PROVE AuthInv'
      BY <2>1, AwsCalls, LoginAuth, GenerateAuth, SetupAuth, LoadAuth, LeaveAuth DEF Step
    <2>2. ASSUME NEW t \in Threads, NEW a \in Auths, change_auth(t, a) PROVE AuthInv'
      BY <1>2, <2>2, ChangeAuthAlone DEF ChangesAlone
    <2>3. QED
      BY <1>2, <2>1, <2>2, RotateAuth, LeaveAuth, CrashAuth DEF Next
  <1>3. QED
    BY <1>1, <1>2

LEMMA AuthServedFrom == Inv /\ AuthInv => AuthServed
  BY InvServed DEF Inv, TypeOK, AuthInv, Written, AuthServed, QuietIsServed, Quiet,
  Running, Writing, Files

(* If change_auth only ever begins while no other task of the config runs, *)
(* both proxies ask for the credentials it saved last and config.conf has  *)
(* them still, whatever rotations run side by side, fail or are cut by a   *)
(* crash: only a task that change_auth overtakes can bring older ones      *)
(* back.                                                                   *)
THEOREM AuthKept == Spec => ([][ChangesAlone]_vars => []AuthServed)
  BY Invariant, InitAuth, StepAuth, AuthServedFrom, PTL DEF Spec

(* That is so in particular where the config has one task at a time.       *)
THEOREM AuthKeptInTurn ==
  ASSUME \A t, u \in Threads : t = u
  PROVE  Spec => []AuthServed
  <1>1. [Next]_vars => [ChangesAlone]_vars
    BY DEF ChangesAlone, change_auth, ChangeAuth, At, Quiet, Running
  <1>2. QED
    BY <1>1, AuthKept, PTL DEF Spec
=============================================================================
