---------------------------- MODULE TaskManager ----------------------------
(***************************************************************************)
(* The request handlers of app.py and the TaskManager they share           *)
(* (functions/task_manager.py).  Flask runs every request in a thread of   *)
(* its own; an accepted request starts one more thread, which executes     *)
(* TaskManager.set_start_task.  All of them read and write                 *)
(* TaskManager.profile without a lock.  Each assignment to an entry of the *)
(* dictionary is one step here (the interpreter makes it atomic), and the  *)
(* steps of different threads interleave.                                  *)
(*                                                                         *)
(* Not actions, because they leave the profile alone: /get_task, and the   *)
(* requests refused before the profile is touched (wrong key, unknown      *)
(* section, config.conf unreadable).  check_last_task and execute_task     *)
(* have no caller.                                                         *)
(***************************************************************************)
EXTENDS FiniteSets

CONSTANTS
  Configs,     \* the sections of config.conf
  Registered,  \* those that were in the file when the program started
  Handlers,    \* request threads
  Workers,     \* task threads (a bound on how many are alive at once)
  Requests     \* the endpoints that receive requests

Checked   == {"change_ip", "change_region"}
Unchecked == {"reset", "change_auth", "change_whitelist"}
Reads     == {"get_config", "get_available_region"}
Kinds     == Checked \cup Unchecked

ASSUME RegisteredAssumption == Registered \subseteq Configs
ASSUME RequestsAssumption   == Requests \subseteq Kinds \cup Reads

VARIABLES
  profile,     \* TaskManager.profile
  hpc, req,    \* request threads: next step, and the request they answer
  wpc, job,    \* task threads: next step; the task and what it returned
  (* history variables *)
  abandoned,   \* a task thread ended or hangs without its outcome, and no
               \* later write has made the profile idle
  exposed,     \* two tasks were let onto the config (see below)
  ended        \* per config: the task that ended last, and its outcome

handlers == <<hpc, req>>
workers  == <<wpc, job>>
history  == <<abandoned, exposed, ended>>
vars     == <<profile, handlers, workers, history>>

-----------------------------------------------------------------------------
Statuses == {"idle", "busy"}
Outcomes == {"none", "success", "failed"}
(* change_region's query: the region as README.md spells the parameter,    *)
(* or new_region with the region in use, or with another one.              *)
RegionArgs == {"region", "same", "other"}
Args(k) == IF k = "change_region" THEN RegionArgs ELSE {"none"}

Profile == [known : BOOLEAN, status : Statuses, current : Kinds \cup {"None"},
            task : Kinds \cup {"none"}, outcome : Outcomes]
Request == [kind : Kinds \cup Reads, config : Configs, arg : RegionArgs \cup {"none"}]
Job     == [kind : Kinds, config : Configs, res : Outcomes]
NoRequest == [kind |-> "none", config |-> "none", arg |-> "none"]
NoJob     == [kind |-> "none", config |-> "none", res |-> "none"]

(* The dictionary register_profile and __init__ build: idle, no            *)
(* current_task key, an empty last_task.                                   *)
Fresh == [known |-> TRUE, status |-> "idle", current |-> "None",
          task |-> "none", outcome |-> "none"]

(* A config without an entry in the dictionary.                            *)
NoProfile == [Fresh EXCEPT !.known = FALSE]

HandlerPcs == {"idle", "not_provided", "register", "assign", "last_task", "login",
               "check", "spawn", "stop_status", "stop_current", "stop_outcome"}
Marking   == {"current", "task", "construct", "run", "stop_status"}
WorkerPcs == {"free", "status", "stop_current", "stop_outcome", "reload"} \cup Marking

Serving(h, c) == hpc[h] # "idle" /\ req[h].config = c
Active(w, c)  == wpc[w] # "free" /\ job[w].config = c
(* The thread has set status to "busy" and has not yet set it back.        *)
Marked(w, c)  == wpc[w] \in Marking /\ job[w].config = c
Pending(h, c) == hpc[h] = "spawn" /\ req[h].config = c

(* A task of c is executing or about to, and its status is not "busy": the *)
(* thread is not yet started, has not marked the profile, or has cleared   *)
(* it and not yet returned from reload_profile.                            *)
Unseen(c) ==
  \/ \E h \in Handlers : Pending(h, c)
  \/ \E w \in Workers : Active(w, c) /\ ~Marked(w, c)
SomeTask(c) ==
  \/ \E h \in Handlers : Pending(h, c)
  \/ \E w \in Workers : Active(w, c)

Init ==
  /\ profile = [c \in Configs |-> IF c \in Registered THEN Fresh ELSE NoProfile]
  /\ hpc = [h \in Handlers |-> "idle"]
  /\ req = [h \in Handlers |-> NoRequest]
  /\ wpc = [w \in Workers |-> "free"]
  /\ job = [w \in Workers |-> NoJob]
  /\ abandoned = [c \in Configs |-> FALSE]
  /\ exposed = [c \in Configs |-> FALSE]
  /\ ended = [c \in Configs |-> [task |-> "none", outcome |-> "none"]]

-----------------------------------------------------------------------------
(* Request threads.                                                        *)

GoTo(h, pc) == hpc' = [hpc EXCEPT ![h] = pc] /\ UNCHANGED req
Reply(h) ==
  /\ hpc' = [hpc EXCEPT ![h] = "idle"]
  /\ req' = [req EXCEPT ![h] = NoRequest]

(* History: the exposed configs are those where some event let two tasks   *)
(* run side by side.                                                       *)
Expose(c, condition) == exposed' = [exposed EXCEPT ![c] = @ \/ condition]

(* The assignments of set_stop_task.                                       *)
StopStatus(c) ==
  /\ profile' = [profile EXCEPT ![c].status = "idle"]
  /\ abandoned' = [abandoned EXCEPT ![c] = FALSE]
StopCurrent(c) == profile' = [profile EXCEPT ![c].current = "None"]
(* Mutation: the outcome is stored under the wrong key.                    *)
StopOutcome_wrong_key(c, outcome) == profile' = [profile EXCEPT ![c].current = outcome]
StopOutcome(c, outcome) == profile' = [profile EXCEPT ![c].outcome = outcome]

FirstStep(k, a) ==
  CASE k = "change_ip" -> "register"
    [] k = "change_region" -> IF a = "region" THEN "not_provided" ELSE "last_task"
    [] OTHER -> "login"

(* A request with a valid key for a section of the file arrives.           *)
Receive(h, k, c, a) ==
  /\ hpc[h] = "idle"
  /\ k # "change_whitelist"
  /\ req' = [req EXCEPT ![h] = [kind |-> k, config |-> c, arg |-> a]]
  /\ hpc' = [hpc EXCEPT ![h] = FirstStep(k, a)]
  /\ UNCHANGED <<profile, workers, history>>

(* change_whitelist neither logs in nor looks at the profile.              *)
change_whitelist(h, c) ==
  /\ hpc[h] = "idle"
  /\ "change_whitelist" \in Requests
  /\ req' = [req EXCEPT ![h] = [kind |-> "change_whitelist", config |-> c,
                                arg |-> "none"]]
  /\ hpc' = [hpc EXCEPT ![h] = "spawn"]
  /\ Expose(c, SomeTask(c))
  /\ UNCHANGED <<profile, workers, abandoned, ended>>

(* "New region is not provided".                                           *)
get_change_region_declined(h) ==
  /\ hpc[h] = "not_provided"
  /\ Reply(h)
  /\ UNCHANGED <<profile, workers, history>>

(* get_start_process calls register_profile whatever the profile holds     *)
(* (hasattr on a dictionary does not look at its keys), and that assigns a *)
(* new profile if it found none.                                           *)
register_profile(h) ==
  /\ hpc[h] = "register"
  /\ GoTo(h, IF profile[req[h].config].known THEN "login" ELSE "assign")
  /\ UNCHANGED <<profile, workers, history>>

register_profile_assign(h) ==
  LET c == req[h].config IN
  /\ hpc[h] = "assign"
  /\ profile' = [profile EXCEPT ![c] = Fresh]
  /\ abandoned' = [abandoned EXCEPT ![c] = FALSE]
  /\ Expose(c, \E w \in Workers : Active(w, c))
  /\ GoTo(h, "login")
  /\ UNCHANGED <<workers, ended>>

(* get_change_region reads the profile before anything registers it: a     *)
(* KeyError ends the request of an unregistered config.                    *)
get_change_region_last_task(h) ==
  /\ hpc[h] = "last_task"
  /\ profile[req[h].config].known
  /\ GoTo(h, "login")
  /\ UNCHANGED <<profile, workers, history>>

get_change_region_raises(h) ==
  /\ hpc[h] = "last_task"
  /\ ~profile[req[h].config].known
  /\ Reply(h)
  /\ UNCHANGED <<profile, workers, history>>

(* Building a ConfigLoader raises (in register_profile or in Aws()), or    *)
(* describing the regions does after the login: the reply is an error.     *)
HandlerRaises(h) ==
  /\ hpc[h] \in {"register", "login"}
  /\ Reply(h)
  /\ UNCHANGED <<profile, workers, history>>

(* Aws.login() succeeds: a read is answered, and an equal region refused.  *)
SameRegion(h) == req[h].kind = "change_region" /\ req[h].arg = "same"

login_then_reply(h) ==
  /\ hpc[h] = "login"
  /\ req[h].kind \in Reads \/ SameRegion(h)
  /\ Reply(h)
  /\ UNCHANGED <<profile, workers, history>>

(* change_ip and change_region look at the status of the config.           *)
login_then_check(h) ==
  /\ hpc[h] = "login"
  /\ req[h].kind \in Checked /\ ~SameRegion(h)
  /\ GoTo(h, "check")
  /\ UNCHANGED <<profile, workers, history>>

(* reset and change_auth do not.                                           *)
login_then_start(h) ==
  /\ hpc[h] = "login"
  /\ req[h].kind \in Unchecked
  /\ GoTo(h, "spawn")
  /\ Expose(req[h].config, SomeTask(req[h].config))
  /\ UNCHANGED <<profile, workers, abandoned, ended>>

login_fails(h) ==
  /\ hpc[h] = "login"
  /\ GoTo(h, "stop_status")
  /\ UNCHANGED <<profile, workers, history>>

(* set_stop_task, called by a handler whose login failed, whatever task is *)
(* running.                                                                *)
handler_stop_status(h) ==
  LET c == req[h].config IN
  /\ hpc[h] = "stop_status"
  /\ profile[c].known
  /\ StopStatus(c)
  /\ Expose(c, \E w \in Workers : Marked(w, c))
  /\ GoTo(h, "stop_current")
  /\ UNCHANGED <<workers, ended>>

(* A KeyError ends it if the config is not registered.                     *)
handler_stop_status_raises(h) ==
  /\ hpc[h] = "stop_status"
  /\ ~profile[req[h].config].known
  /\ Reply(h)
  /\ UNCHANGED <<profile, workers, history>>

handler_stop_current(h) ==
  /\ hpc[h] = "stop_current"
  /\ StopCurrent(req[h].config)
  /\ GoTo(h, "stop_outcome")
  /\ UNCHANGED <<workers, history>>

handler_stop_outcome(h) ==
  /\ hpc[h] = "stop_outcome"
  /\ StopOutcome(req[h].config, "failed")
  /\ Reply(h)
  /\ UNCHANGED <<workers, history>>

(* check_task_status finds "busy": "Process is busy".                      *)
check_task_status_busy(h) ==
  /\ hpc[h] = "check"
  /\ profile[req[h].config].status = "busy"
  /\ Reply(h)
  /\ UNCHANGED <<profile, workers, history>>

(* Mutation: the status is not looked at.                                  *)
check_task_status_skipped(h) ==
  /\ hpc[h] = "check"
  /\ GoTo(h, "spawn")
  /\ Expose(req[h].config, Unseen(req[h].config))
  /\ UNCHANGED <<profile, workers, abandoned, ended>>

(* It does not, and the handler goes on to start the thread.               *)
check_task_status_idle(h) ==
  /\ hpc[h] = "check"
  /\ profile[req[h].config].status # "busy"
  /\ GoTo(h, "spawn")
  /\ Expose(req[h].config, Unseen(req[h].config))
  /\ UNCHANGED <<profile, workers, abandoned, ended>>

(* threading.Thread(target=task.set_start_task, kwargs=kwargs).start()     *)
start_thread(h, w) ==
  /\ hpc[h] = "spawn"
  /\ wpc[w] = "free"
  /\ wpc' = [wpc EXCEPT ![w] = "status"]
  /\ job' = [job EXCEPT ![w] = [kind |-> req[h].kind, config |-> req[h].config,
                                res |-> "none"]]
  /\ Reply(h)
  /\ UNCHANGED <<profile, history>>

-----------------------------------------------------------------------------
(* Task threads: set_start_task.                                           *)

Step(w, from, to) ==
  /\ wpc[w] = from
  /\ wpc' = [wpc EXCEPT ![w] = to]
  /\ UNCHANGED <<handlers, job>>
Exit(w) ==
  /\ wpc' = [wpc EXCEPT ![w] = "free"]
  /\ job' = [job EXCEPT ![w] = NoJob]
  /\ UNCHANGED handlers

start_status(w) ==
  LET c == job[w].config IN
  /\ Step(w, "status", "current")
  /\ profile[c].known
  /\ profile' = [profile EXCEPT ![c].status = "busy"]
  /\ UNCHANGED history

(* A KeyError ends the thread: the config is not registered (its request   *)
(* was one that does not register it).                                     *)
start_status_raises(w) ==
  /\ wpc[w] = "status"
  /\ ~profile[job[w].config].known
  /\ Exit(w)
  /\ UNCHANGED <<profile, history>>

start_current(w) ==
  /\ Step(w, "current", "task")
  /\ profile' = [profile EXCEPT ![job[w].config].current = job[w].kind]
  /\ UNCHANGED history

(* Mutation: last_task keeps the previous task_type.                       *)
start_task_skipped(w) ==
  /\ Step(w, "task", "construct")
  /\ UNCHANGED <<profile, history>>

start_task(w) ==
  /\ Step(w, "task", "construct")
  /\ profile' = [profile EXCEPT ![job[w].config].task = job[w].kind]
  /\ UNCHANGED history

RunTask(w) ==
  /\ Step(w, "construct", "run")
  /\ UNCHANGED <<profile, history>>

(* RunTask() raises (config.conf is unreadable at that moment), outside    *)
(* any try, and the thread ends; or the method never returns, because a    *)
(* command on the remote host does not (no command has a timeout).  That   *)
(* is a failed task, and nothing tells last_task so.                       *)
Abandon(w) ==
  LET c == job[w].config IN
  /\ wpc[w] \in {"construct", "run"}
  /\ Exit(w)
  /\ abandoned' = [abandoned EXCEPT ![c] = TRUE]
  /\ ended' = [ended EXCEPT ![c] = [task |-> job[w].kind, outcome |-> "failed"]]
  /\ UNCHANGED <<profile, exposed>>

(* The method of RunTask returns; it catches every exception.              *)
task_method(w, res) ==
  LET c == job[w].config IN
  /\ wpc[w] = "run"
  /\ wpc' = [wpc EXCEPT ![w] = "stop_status"]
  /\ job' = [job EXCEPT ![w].res = res]
  /\ ended' = [ended EXCEPT ![c] = [task |-> job[w].kind, outcome |-> res]]
  /\ UNCHANGED <<profile, handlers, abandoned, exposed>>

(* Mutation: a failed task is left marked.                                 *)
set_stop_task_if_success(w) ==
  /\ Step(w, "stop_status", "stop_current")
  /\ IF job[w].res = "success" THEN StopStatus(job[w].config)
                               ELSE UNCHANGED <<profile, abandoned>>
  /\ UNCHANGED <<exposed, ended>>

set_stop_task_status(w) ==
  /\ Step(w, "stop_status", "stop_current")
  /\ StopStatus(job[w].config)
  /\ UNCHANGED <<exposed, ended>>

(* Mutation: current_task is left to the next task.                        *)
set_stop_task_current_kept(w) ==
  /\ Step(w, "stop_current", "stop_outcome")
  /\ UNCHANGED <<profile, history>>

set_stop_task_current(w) ==
  /\ Step(w, "stop_current", "stop_outcome")
  /\ StopCurrent(job[w].config)
  /\ UNCHANGED history

set_stop_task_outcome(w) ==
  /\ Step(w, "stop_outcome", "reload")
  /\ StopOutcome(job[w].config, job[w].res)
  /\ UNCHANGED history

(* reload_profile replaces the dictionary by an idle one that keeps        *)
(* last_task, whoever has marked it in the meantime.                       *)
reload_profile(w) ==
  LET c == job[w].config IN
  /\ wpc[w] = "reload"
  /\ Exit(w)
  /\ profile' = [profile EXCEPT ![c].status = "idle", ![c].current = "None"]
  /\ abandoned' = [abandoned EXCEPT ![c] = FALSE]
  /\ UNCHANGED <<exposed, ended>>

(* Its ConfigLoader raises, and the thread ends.                           *)
reload_profile_raises(w) ==
  /\ wpc[w] = "reload"
  /\ Exit(w)
  /\ UNCHANGED <<profile, history>>

-----------------------------------------------------------------------------
HandlerStep(h) ==
  \/ get_change_region_declined(h)
  \/ register_profile(h)
  \/ register_profile_assign(h)
  \/ get_change_region_last_task(h)
  \/ get_change_region_raises(h)
  \/ HandlerRaises(h)
  \/ login_then_reply(h)
  \/ login_then_check(h)
  \/ login_then_start(h)
  \/ login_fails(h)
  \/ handler_stop_status(h)
  \/ handler_stop_status_raises(h)
  \/ handler_stop_current(h)
  \/ handler_stop_outcome(h)
  \/ check_task_status_busy(h)
  \/ check_task_status_idle(h)
  \/ \E w \in Workers : start_thread(h, w)

WorkerStep(w) ==
  \/ start_status(w)
  \/ start_status_raises(w)
  \/ start_current(w)
  \/ start_task(w)
  \/ RunTask(w)
  \/ Abandon(w)
  \/ \E res \in {"success", "failed"} : task_method(w, res)
  \/ set_stop_task_status(w)
  \/ set_stop_task_current(w)
  \/ set_stop_task_outcome(w)
  \/ reload_profile(w)
  \/ reload_profile_raises(w)

Next ==
  \/ \E h \in Handlers, k \in Requests, c \in Configs :
       \E a \in Args(k) : Receive(h, k, c, a)
  \/ \E h \in Handlers, c \in Configs : change_whitelist(h, c)
  \/ \E h \in Handlers : HandlerStep(h)
  \/ \E w \in Workers : WorkerStep(w)

Spec == Init /\ [][Next]_vars

(* The interpreter and the operating system run every thread; nothing is   *)
(* assumed about when requests arrive.                                     *)
FairSpec == Spec /\ \A w \in Workers : WF_vars(WorkerStep(w))

-----------------------------------------------------------------------------
(* Types of the shared dictionary, of both kinds of threads and of the     *)
(* history.                                                                *)
TypeOK ==
  /\ profile \in [Configs -> Profile]
  /\ hpc \in [Handlers -> HandlerPcs]
  /\ req \in [Handlers -> Request \cup {NoRequest}]
  /\ \A h \in Handlers : hpc[h] # "idle" => req[h] \in Request
  /\ wpc \in [Workers -> WorkerPcs]
  /\ job \in [Workers -> Job \cup {NoJob}]
  /\ \A w \in Workers : wpc[w] # "free" => job[w] \in Job
  /\ abandoned \in [Configs -> BOOLEAN]
  /\ exposed \in [Configs -> BOOLEAN]
  /\ ended \in [Configs -> [task : Kinds \cup {"none"}, outcome : Outcomes]]

(* A config shown as busy has a thread that will clear it, unless the      *)
(* thread that marked it ended in RunTask() or hangs: no interleaving of   *)
(* handlers and tasks leaves "busy" behind (set_start_task,                *)
(* set_stop_task, reload_profile).                                         *)
BusyHasWorker ==
  \A c \in Configs :
    profile[c].status = "busy" => abandoned[c] \/ \E w \in Workers : Marked(w, c)

(* When no thread works on a config, its profile shows no task, unless one *)
(* was abandoned: the writes of set_start_task, set_stop_task and          *)
(* reload_profile cannot mix into an idle profile with a current task.     *)
IdleWhenQuiet ==
  \A c \in Configs :
    \/ SomeTask(c) \/ abandoned[c] \/ \E h \in Handlers : Serving(h, c)
    \/ profile[c].status = "idle" /\ profile[c].current = "None"

(* Two tasks of one config run side by side only after one of these: a     *)
(* change_ip or change_region passed the check while a task was unseen by  *)
(* it; a reset, change_auth or change_whitelist started although a task    *)
(* was there; a failed login or a second registration made the profile     *)
(* idle under a running task.  With none of them, the check of app.py is   *)
(* enough.                                                                 *)
OneTaskPerConfig ==
  \A c \in Configs : ~exposed[c] =>
    \A v, w \in Workers : Active(v, c) /\ Active(w, c) => v = w

(* The last_task of a config registered at run time is as the second of    *)
(* two registrations left it, or a failed login after that.                *)
Erased(c) ==
  c \notin Registered /\ profile[c].task = "none" /\ profile[c].outcome \in {"none", "failed"}

(* When no thread works on a config, last_task names the task that ended   *)
(* last, and its outcome or "failed" (a failed login writes that over any  *)
(* outcome): the writes of set_start_task and set_stop_task do not pair a  *)
(* task with the outcome of another one.  Excepted are tasks side by side, *)
(* the second registration of a new config, which forgets the task, and an *)
(* abandoned task: its task_type is written before RunTask() is built, and *)
(* beside it stays the status of the task before, which may be "success".  *)
(* A thread that ends before it has marked the profile is no task.         *)
LastTaskReported ==
  \A c \in Configs :
    \/ exposed[c] \/ abandoned[c] \/ SomeTask(c) \/ \E h \in Handlers : Serving(h, c)
    \/ /\ profile[c].task = ended[c].task
       /\ profile[c].outcome \in {ended[c].outcome, "failed"}
    \/ Erased(c)

(* A busy config becomes idle again, whatever requests arrive meanwhile,   *)
(* unless its task was abandoned (set_stop_task).                          *)
BusyClears ==
  \A c \in Configs :
    profile[c].status = "busy" ~> (profile[c].status = "idle" \/ abandoned[c])
=============================================================================
