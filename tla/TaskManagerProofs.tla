------------------------- MODULE TaskManagerProofs -------------------------
(***************************************************************************)
(* The invariants of TaskManager for any number of configs and threads.    *)
(*                                                                         *)
(* BusyHasWorker is inductive given the types.  IdleWhenQuiet needs to     *)
(* know who will clear current_task (CurrentHasOwner); OneTaskPerConfig    *)
(* needs that a task which marked its profile still finds it marked, which *)
(* is what makes the check of app.py refuse a second one (Exclusive).      *)
(* LastTaskReported follows the last task through the thread that reports  *)
(* it (Reported), and rests on Exclusive for that thread to be alone.      *)
(***************************************************************************)
EXTENDS TaskManager, TLAPS

(* A current task belongs to a thread that will clear it.                  *)
Owning == {"task", "construct", "run", "stop_status", "stop_current"}
Owns(w, c)   == wpc[w] \in Owning /\ job[w].config = c
Clears(h, c) == hpc[h] = "stop_current" /\ req[h].config = c
CurrentHasOwner ==
  \A c \in Configs : profile[c].current # "None" =>
    \/ abandoned[c]
    \/ \E w \in Workers : Owns(w, c)
    \/ \E h \in Handlers : Clears(h, c)

(* On a config that is not exposed there is one task at most, counting the *)
(* one whose thread is about to start, and the profile shows it while it   *)
(* is marked.                                                              *)
ExclusiveOn(c) ==
  /\ \A v, w \in Workers : Active(v, c) /\ Active(w, c) => v = w
  /\ \A g, h \in Handlers : Pending(g, c) /\ Pending(h, c) => g = h
  /\ \A h \in Handlers, w \in Workers : ~(Pending(h, c) /\ Active(w, c))
  /\ \A w \in Workers : Marked(w, c) => profile[c].status = "busy"
Exclusive == \A c \in Configs : ~exposed[c] => ExclusiveOn(c)

(* Only requests for a task reach the start of a thread.                   *)
ThreadsAreTasks ==
  \A h \in Handlers : hpc[h] \in {"check", "spawn"} => req[h].kind \in Kinds

Invariant ==
  /\ TypeOK /\ ThreadsAreTasks
  /\ BusyHasWorker /\ CurrentHasOwner /\ Exclusive

-----------------------------------------------------------------------------
(* Types.                                                                  *)
TypeProfile  == profile \in [Configs -> Profile]
TypeHandlers ==
  /\ hpc \in [Handlers -> HandlerPcs]
  /\ req \in [Handlers -> Request \cup {NoRequest}]
  /\ \A h \in Handlers : hpc[h] # "idle" => req[h] \in Request
TypeWorkers ==
  /\ wpc \in [Workers -> WorkerPcs]
  /\ job \in [Workers -> Job \cup {NoJob}]
  /\ \A w \in Workers : wpc[w] # "free" => job[w] \in Job
TypeHistory ==
  /\ abandoned \in [Configs -> BOOLEAN]
  /\ exposed \in [Configs -> BOOLEAN]
  /\ ended \in [Configs -> [task : Kinds \cup {"none"}, outcome : Outcomes]]

(* The type invariant is the conjunction of the types of its parts.        *)
LEMMA TypeParts ==
  TypeOK <=> TypeProfile /\ TypeHandlers /\ TypeWorkers /\ TypeHistory
  BY DEF TypeOK, TypeProfile, TypeHandlers, TypeWorkers, TypeHistory

(* The dictionaries that register_profile and __init__ build are profiles. *)
LEMMA FreshTyped == Fresh \in Profile /\ NoProfile \in Profile
  BY DEF Fresh, NoProfile, Profile, Statuses, Outcomes

(* A thread at work has a job.                                             *)
LEMMA JobTyped ==
  ASSUME TypeOK, NEW w \in Workers, wpc[w] # "free"
  PROVE  job[w].config \in Configs /\ job[w].kind \in Kinds /\ job[w].res \in Outcomes
  BY DEF TypeOK, Job

(* A request being served has a config.                                    *)
LEMMA RequestTyped ==
  ASSUME TypeOK, NEW h \in Handlers, hpc[h] # "idle"
  PROVE  req[h].config \in Configs /\ req[h].kind \in Kinds \cup Reads
  BY DEF TypeOK, Request

(* Init establishes the types.                                             *)
LEMMA TypeInit == Init => TypeOK
  <1> SUFFICES ASSUME Init PROVE TypeOK
    OBVIOUS
  <1>1. TypeProfile
    BY FreshTyped DEF Init, TypeProfile
  <1>2. TypeHandlers
    BY DEF Init, TypeHandlers, HandlerPcs
  <1>3. TypeWorkers
    BY DEF Init, TypeWorkers, WorkerPcs
  <1>4. TypeHistory
    BY DEF Init, TypeHistory, Outcomes
  <1>5. QED
    BY <1>1, <1>2, <1>3, <1>4, TypeParts

(* A handler at work replies or goes on to its next step, and only with a  *)
(* request for a task to the check and to the start of a thread.           *)
LEMMA HandlerMoves ==
  ASSUME TypeOK, ThreadsAreTasks, NEW h \in Handlers, HandlerStep(h)
  PROVE  /\ hpc[h] # "idle"
         /\ \/ Reply(h)
            \/ \E pc \in HandlerPcs \ {"idle"} :
                 /\ GoTo(h, pc)
                 /\ pc \in {"check", "spawn"} => req[h].kind \in Kinds
  <1> DEFINE Moves(pc) == /\ GoTo(h, pc)
                          /\ pc \in {"check", "spawn"} => req[h].kind \in Kinds
  <1>1. hpc[h] # "idle"
    BY DEF HandlerStep, get_change_region_declined, register_profile,
    register_profile_assign, get_change_region_last_task,
    get_change_region_raises, HandlerRaises, login_then_reply, login_then_check,
    login_then_start, login_fails, handler_stop_status,
    handler_stop_status_raises, handler_stop_current, handler_stop_outcome,
    check_task_status_busy, check_task_status_idle, start_thread
  <1>2. \/ Reply(h) \/ Moves("login") \/ Moves("assign") \/ Moves("check")
        \/ Moves("spawn") \/ Moves("stop_status") \/ Moves("stop_current")
        \/ Moves("stop_outcome")
    BY DEF HandlerStep, ThreadsAreTasks, Kinds, Checked, Unchecked,
    get_change_region_declined, register_profile, register_profile_assign,
    get_change_region_last_task, get_change_region_raises, HandlerRaises,
    login_then_reply, login_then_check, login_then_start, login_fails,
    handler_stop_status, handler_stop_status_raises, handler_stop_current,
    handler_stop_outcome, check_task_status_busy, check_task_status_idle,
    start_thread
  <1>3. QED
    BY <1>1, <1>2 DEF HandlerPcs

(* A task thread ends or goes on to its next step, with the same task.     *)
LEMMA WorkerMoves ==
  ASSUME TypeOK, NEW w \in Workers, WorkerStep(w)
  PROVE  /\ wpc[w] # "free" /\ UNCHANGED handlers
         /\ \/ Exit(w)
            \/ /\ \E pc \in WorkerPcs \ {"free"} : wpc' = [wpc EXCEPT ![w] = pc]
               /\ \/ UNCHANGED job
                  \/ \E res \in Outcomes : job' = [job EXCEPT ![w].res = res]
  BY DEF WorkerStep, WorkerPcs, Marking, Outcomes, Step, start_status,
    start_status_raises, start_current, start_task, RunTask, Abandon, task_method,
    set_stop_task_status, set_stop_task_current, set_stop_task_outcome,
    reload_profile, reload_profile_raises, Exit

(* Every step keeps the types of the handlers.                             *)
LEMMA TypeHandlersStep ==
  TypeOK /\ ThreadsAreTasks /\ [Next]_vars => TypeHandlers' /\ ThreadsAreTasks'
  <1> SUFFICES ASSUME TypeOK, ThreadsAreTasks, [Next]_vars
               PROVE  TypeHandlers' /\ ThreadsAreTasks'
    OBVIOUS
  <1> TypeHandlers
    BY TypeParts
  <1> USE DEF TypeHandlers, ThreadsAreTasks
  <1>1. CASE \E h \in Handlers, k \in Requests, c \in Configs :
               \E a \in Args(k) : Receive(h, k, c, a)
    BY <1>1, RequestsAssumption
    DEF Receive, FirstStep, Args, HandlerPcs, Request, RegionArgs
  <1>2. CASE \E h \in Handlers, c \in Configs : change_whitelist(h, c)
    BY <1>2 DEF change_whitelist, HandlerPcs, Request, Kinds, Unchecked
  <1>3. CASE \E h \in Handlers : HandlerStep(h)
    <2> PICK h \in Handlers : HandlerStep(h)
      BY <1>3
    <2>1. CASE Reply(h)
      BY <2>1 DEF Reply, HandlerPcs
    <2>2. CASE ~Reply(h)
      BY <2>2, HandlerMoves DEF GoTo
    <2>3. QED
      BY <2>1, <2>2
  <1>4. CASE \E w \in Workers : WorkerStep(w)
    BY <1>4, WorkerMoves DEF handlers
  <1>5. CASE UNCHANGED vars
    BY <1>5 DEF vars, handlers
  <1>6. QED
    BY <1>1, <1>2, <1>3, <1>4, <1>5 DEF Next

(* Every step keeps the types of the task threads.                         *)
LEMMA TypeWorkersStep ==
  TypeOK /\ ThreadsAreTasks /\ [Next]_vars => TypeWorkers'
  <1> SUFFICES ASSUME TypeOK, ThreadsAreTasks, [Next]_vars PROVE TypeWorkers'
    OBVIOUS
  <1> TypeWorkers
    BY TypeParts
  <1>1. CASE \E h \in Handlers, w \in Workers : start_thread(h, w)
    <2> PICK h \in Handlers, w \in Workers : start_thread(h, w)
      BY <1>1
    <2>1. req[h].config \in Configs /\ req[h].kind \in Kinds
      BY RequestTyped DEF start_thread, ThreadsAreTasks
    <2>2. QED
      BY <2>1 DEF start_thread, TypeWorkers, WorkerPcs, Job, Outcomes
  <1>2. CASE \E w \in Workers : WorkerStep(w)
    <2> PICK w \in Workers : WorkerStep(w)
      BY <1>2
    <2>1. CASE Exit(w)
      BY <2>1 DEF Exit, TypeWorkers, WorkerPcs
    <2>2. CASE ~Exit(w)
      BY <2>2, WorkerMoves DEF TypeWorkers, Job
    <2>3. QED
      BY <2>1, <2>2
  <1>3. CASE UNCHANGED workers
    BY <1>3 DEF TypeWorkers, workers
  <1>4. QED
    BY <1>1, <1>2, <1>3
    DEF Next, HandlerStep, vars, workers, Receive, change_whitelist,
    get_change_region_declined, register_profile, register_profile_assign,
    get_change_region_last_task, get_change_region_raises, HandlerRaises,
    login_then_reply, login_then_check, login_then_start, login_fails,
    handler_stop_status, handler_stop_status_raises, handler_stop_current,
    handler_stop_outcome, check_task_status_busy, check_task_status_idle

(* The profiles keep their type: what is written into them is a status, a  *)
(* kind of task or an outcome.                                             *)
LEMMA TypeProfileStep ==
  TypeOK /\ [Next]_vars => TypeProfile'
  <1> SUFFICES ASSUME TypeOK, [Next]_vars PROVE TypeProfile'
    OBVIOUS
  <1> TypeProfile
    BY TypeParts
  <1> USE DEF TypeProfile, Profile, Statuses, Outcomes, StopStatus, StopCurrent,
          StopOutcome
  <1>1. CASE \E h \in Handlers : register_profile_assign(h)
    BY <1>1, FreshTyped DEF register_profile_assign
  <1>2. CASE \E h \in Handlers : \/ handler_stop_status(h) \/ handler_stop_current(h)
                                 \/ handler_stop_outcome(h)
    <2>1. CASE \E h \in Handlers : handler_stop_status(h)
      <3>1. PICK h \in Handlers : handler_stop_status(h)
        BY <2>1
      <3>2. req[h].config \in Configs
        BY <3>1, RequestTyped DEF handler_stop_status
      <3>3. QED
        BY <3>1, <3>2 DEF handler_stop_status
    <2>2. CASE \E h \in Handlers : handler_stop_current(h)
      <3>1. PICK h \in Handlers : handler_stop_current(h)
        BY <2>2
      <3>2. req[h].config \in Configs
        BY <3>1, RequestTyped DEF handler_stop_current
      <3>3. QED
        BY <3>1, <3>2 DEF handler_stop_current
    <2>3. CASE \E h \in Handlers : handler_stop_outcome(h)
      <3>1. PICK h \in Handlers : handler_stop_outcome(h)
        BY <2>3
      <3>2. req[h].config \in Configs
        BY <3>1, RequestTyped DEF handler_stop_outcome
      <3>3. QED
        BY <3>1, <3>2 DEF handler_stop_outcome
    <2>4. QED
      BY <1>2, <2>1, <2>2, <2>3
  <1>3. CASE \E w \in Workers : \/ start_status(w) \/ start_current(w) \/ start_task(w)
                                \/ set_stop_task_status(w) \/ set_stop_task_current(w)
                                \/ set_stop_task_outcome(w) \/ reload_profile(w)
    <2>1. PICK w \in Workers : \/ start_status(w) \/ start_current(w) \/ start_task(w)
                               \/ set_stop_task_status(w) \/ set_stop_task_current(w)
                               \/ set_stop_task_outcome(w) \/ reload_profile(w)
      BY <1>3
    <2>2. job[w].kind \in Kinds /\ job[w].res \in {"none", "success", "failed"}
      BY <2>1, JobTyped
      DEF start_status, start_current, start_task, set_stop_task_status,
      set_stop_task_current, set_stop_task_outcome, reload_profile, Step
    <2>3. QED
      BY <2>1, <2>2
      DEF start_status, start_current, start_task, set_stop_task_status,
      set_stop_task_current, set_stop_task_outcome, reload_profile
  <1>4. CASE UNCHANGED profile
    BY <1>4
  <1>5. QED
    BY <1>1, <1>2, <1>3, <1>4
    DEF Next, HandlerStep, WorkerStep, vars, Receive, change_whitelist,
    get_change_region_declined, register_profile, get_change_region_last_task,
    get_change_region_raises, HandlerRaises, login_then_reply, login_then_check,
    login_then_start, login_fails, handler_stop_status_raises,
    check_task_status_busy, check_task_status_idle, start_thread,
    start_status_raises, RunTask, Abandon, reload_profile_raises, task_method

(* So does the history.                                                    *)
LEMMA TypeHistoryStep ==
  TypeOK /\ [Next]_vars => TypeHistory'
  <1> SUFFICES ASSUME TypeOK, [Next]_vars PROVE TypeHistory'
    OBVIOUS
  <1> TypeHistory
    BY TypeParts
  <1> USE DEF TypeHistory, Expose, StopStatus, Outcomes
  <1>1. CASE \E h \in Handlers, c \in Configs : change_whitelist(h, c)
    BY <1>1 DEF change_whitelist
  <1>2. CASE \E h \in Handlers : register_profile_assign(h)
    <2>1. PICK h \in Handlers : register_profile_assign(h)
      BY <1>2
    <2>2. ended' \in [Configs -> [task : Kinds \cup {"none"}, outcome : Outcomes]]
      BY <2>1 DEF register_profile_assign
    <2>3. abandoned' \in [Configs -> BOOLEAN] /\ exposed' \in [Configs -> BOOLEAN]
      BY <2>1 DEF register_profile_assign
    <2>4. QED
      BY <2>2, <2>3
  <1>3. CASE \E h \in Handlers : \/ login_then_start(h) \/ handler_stop_status(h)
                                 \/ check_task_status_idle(h)
    BY <1>3 DEF login_then_start, handler_stop_status, check_task_status_idle
  <1>4. CASE \E w \in Workers : Abandon(w)
    BY <1>4, JobTyped DEF Abandon
  <1>5. CASE \E w \in Workers, res \in {"success", "failed"} : task_method(w, res)
    BY <1>5, JobTyped DEF task_method
  <1>6. CASE \E w \in Workers : set_stop_task_status(w) \/ reload_profile(w)
    BY <1>6 DEF set_stop_task_status, reload_profile
  <1>7. CASE UNCHANGED history
    BY <1>7 DEF history
  <1>8. QED
    BY <1>1, <1>2, <1>3, <1>4, <1>5, <1>6, <1>7
    DEF Next, HandlerStep, WorkerStep, vars, history, Receive,
    get_change_region_declined, register_profile, get_change_region_last_task,
    get_change_region_raises, HandlerRaises, login_then_reply, login_then_check,
    login_fails, handler_stop_status_raises, handler_stop_current,
    handler_stop_outcome, check_task_status_busy, start_thread, start_status,
    start_status_raises, start_current, start_task, RunTask,
    set_stop_task_current, set_stop_task_outcome, reload_profile_raises

(* Every step keeps the types.                                             *)
LEMMA TypeStep ==
  TypeOK /\ ThreadsAreTasks /\ [Next]_vars => TypeOK' /\ ThreadsAreTasks'
  BY TypeParts, TypeProfileStep, TypeHandlersStep, TypeWorkersStep,
  TypeHistoryStep, PTL

-----------------------------------------------------------------------------
(* The steps that matter to none of the three invariants.                  *)
Quiet ==
  /\ \A c \in Configs : /\ profile'[c].status = profile[c].status
                        /\ profile'[c].current = profile[c].current
  /\ abandoned' = abandoned /\ exposed' = exposed
  /\ \A h \in Handlers, c \in Configs :
       (Pending(h, c)' <=> Pending(h, c)) /\ (Clears(h, c)' <=> Clears(h, c))
  /\ \A w \in Workers, c \in Configs :
       /\ Active(w, c)' <=> Active(w, c)
       /\ Marked(w, c)' <=> Marked(w, c)
       /\ Owns(w, c)' <=> Owns(w, c)

(* They preserve all of them.                                              *)
LEMMA QuietStep ==
  ASSUME Invariant, Quiet
  PROVE  BusyHasWorker' /\ CurrentHasOwner' /\ Exclusive'
  <1>1. BusyHasWorker'
    BY DEF Invariant, BusyHasWorker, Quiet
  <1>2. CurrentHasOwner'
    BY DEF Invariant, CurrentHasOwner, Quiet
  <1>3. Exclusive'
    BY DEF Invariant, Exclusive, ExclusiveOn, Quiet
  <1>4. QED
    BY <1>1, <1>2, <1>3

(* The handlers' steps before and after the parts where they start a       *)
(* thread or write the status or the current task.                         *)
LEMMA QuietHandler ==
  ASSUME TypeOK, NEW h \in Handlers,
         \/ \E k \in Requests, c \in Configs : \E a \in Args(k) : Receive(h, k, c, a)
         \/ get_change_region_declined(h) \/ register_profile(h)
         \/ get_change_region_last_task(h) \/ get_change_region_raises(h)
         \/ HandlerRaises(h) \/ login_then_reply(h) \/ login_then_check(h)
         \/ login_fails(h) \/ handler_stop_status_raises(h)
         \/ handler_stop_outcome(h) \/ check_task_status_busy(h)
  PROVE  Quiet
  <1>1. /\ hpc[h] \notin {"spawn", "stop_current"}
        /\ hpc'[h] \notin {"spawn", "stop_current"}
        /\ \A g \in Handlers \ {h} : hpc'[g] = hpc[g] /\ req'[g] = req[g]
    BY DEF TypeOK, Receive, FirstStep, GoTo, Reply, get_change_region_declined,
    register_profile, get_change_region_last_task, get_change_region_raises,
    HandlerRaises, login_then_reply, login_then_check, login_fails,
    handler_stop_status_raises, handler_stop_outcome, check_task_status_busy
  <1>2. \/ profile' = profile
        \/ handler_stop_outcome(h)
    BY DEF Receive, get_change_region_declined, register_profile,
    get_change_region_last_task, get_change_region_raises, HandlerRaises,
    login_then_reply, login_then_check, login_fails, handler_stop_status_raises,
    check_task_status_busy
  <1>3. UNCHANGED <<workers, history>>
    BY DEF Receive, get_change_region_declined, register_profile,
    get_change_region_last_task, get_change_region_raises, HandlerRaises,
    login_then_reply, login_then_check, login_fails, handler_stop_status_raises,
    handler_stop_outcome, check_task_status_busy
  <1>4. ASSUME NEW c \in Configs, handler_stop_outcome(h)
        PROVE  /\ profile'[c].status = profile[c].status
               /\ profile'[c].current = profile[c].current
    BY <1>4 DEF TypeOK, Profile, handler_stop_outcome, StopOutcome
  <1>5. QED
    BY <1>1, <1>2, <1>3, <1>4
    DEF Quiet, Pending, Clears, Active, Marked, Owns, workers, history

(* The task threads' steps while the profile is marked, and the last write *)
(* of set_stop_task.                                                       *)
LEMMA QuietWorker ==
  ASSUME TypeOK, NEW w \in Workers,
         \/ start_task(w) \/ RunTask(w) \/ set_stop_task_outcome(w)
         \/ \E res \in {"success", "failed"} : task_method(w, res)
  PROVE  Quiet
  <1>1. /\ \A v \in Workers \ {w} : wpc'[v] = wpc[v] /\ job'[v] = job[v]
        /\ job'[w].config = job[w].config
        /\ wpc[w] # "free" /\ wpc'[w] # "free"
        /\ wpc[w] \in Marking <=> wpc'[w] \in Marking
        /\ wpc[w] \in Owning <=> wpc'[w] \in Owning
    BY JobTyped DEF TypeOK, Job, Step, Marking, Owning, start_task, RunTask,
    set_stop_task_outcome, task_method
  <1>2. \/ profile' = profile
        \/ start_task(w) \/ set_stop_task_outcome(w)
    BY DEF RunTask, task_method
  <1>3. UNCHANGED <<handlers, abandoned, exposed>>
    BY DEF Step, start_task, RunTask, set_stop_task_outcome, task_method, history
  <1>4. ASSUME NEW c \in Configs, start_task(w)
        PROVE  /\ profile'[c].status = profile[c].status
               /\ profile'[c].current = profile[c].current
    BY <1>4 DEF TypeOK, Profile, start_task
  <1>5. ASSUME NEW c \in Configs, set_stop_task_outcome(w)
        PROVE  /\ profile'[c].status = profile[c].status
               /\ profile'[c].current = profile[c].current
    BY <1>5 DEF TypeOK, Profile, set_stop_task_outcome, StopOutcome
  <1>6. QED
    BY <1>1, <1>2, <1>3, <1>4, <1>5
    DEF Quiet, Pending, Clears, Active, Marked, Owns, handlers

-----------------------------------------------------------------------------
(* The other steps, one by one.                                            *)

(* A change_whitelist starts without a look at the profile: the config is  *)
(* exposed if a task was there.                                            *)
LEMMA ChangeWhitelistKeeps ==
  ASSUME Invariant, TypeOK', NEW h \in Handlers, NEW d \in Configs,
         change_whitelist(h, d)
  PROVE  BusyHasWorker' /\ CurrentHasOwner' /\ Exclusive'
  <1> USE DEF Invariant, TypeOK
  <1>1. BusyHasWorker'
    BY DEF change_whitelist, Expose, SomeTask, BusyHasWorker, Marked, Marking,
    Profile, handlers, workers, history
  <1>2. CurrentHasOwner'
    BY DEF change_whitelist, Expose, SomeTask, CurrentHasOwner, Owns, Owning,
    Clears, Profile, handlers, workers, history
  <1>3. Exclusive'
    <2> SUFFICES ASSUME NEW e \in Configs, ~exposed'[e]
                 PROVE  ExclusiveOn(e)'
      BY DEF Exclusive
    <2>1. ~exposed[e] /\ (e = d => ~SomeTask(d))
      <3>1. exposed' = [exposed EXCEPT ![d] = @ \/ SomeTask(d)]
        BY DEF change_whitelist, Expose
      <3>2. CASE e = d
        BY <3>1, <3>2, Zenon
      <3>3. CASE e # d
        BY <3>1, <3>3
      <3>4. QED
        BY <3>2, <3>3
    <2>2. \A w \in Workers : wpc'[w] = wpc[w] /\ job'[w] = job[w]
      BY DEF change_whitelist, workers
    <2>3. \A g \in Handlers : Pending(g, e)' => Pending(g, e) \/ (g = h /\ e = d)
      BY DEF change_whitelist, GoTo, Pending
    <2>4. e = d => ~\E g \in Handlers : Pending(g, e)
      BY <2>1 DEF SomeTask
    <2>5. e = d => ~\E w \in Workers : Active(w, e)
      BY <2>1 DEF SomeTask
    <2>6. profile' = profile
      BY DEF change_whitelist
    <2>7. QED
      BY <2>1, <2>2, <2>3, <2>4, <2>5, <2>6 DEF Exclusive, ExclusiveOn, Active, Marked
  <1>4. QED
    BY <1>1, <1>2, <1>3

(* A second registration makes the profile idle: the config is exposed if  *)
(* a task was running.                                                     *)
LEMMA RegisterProfileAssignKeeps ==
  ASSUME Invariant, TypeOK', NEW h \in Handlers, register_profile_assign(h)
  PROVE  BusyHasWorker' /\ CurrentHasOwner' /\ Exclusive'
  <1> USE DEF Invariant, TypeOK
  <1>0. req[h].config \in Configs
    BY RequestTyped DEF register_profile_assign, Expose, Fresh, GoTo
  <1>1. BusyHasWorker'
    BY <1>0 DEF register_profile_assign, Expose, Fresh, GoTo, BusyHasWorker,
    Marked, Marking, Profile, handlers, workers, history
  <1>2. CurrentHasOwner'
    BY <1>0 DEF register_profile_assign, Expose, Fresh, GoTo, CurrentHasOwner,
    Owns, Owning, Clears, Profile, handlers, workers, history
  <1>3. Exclusive'
    <2> SUFFICES ASSUME NEW e \in Configs, ~exposed'[e]
                 PROVE  ExclusiveOn(e)'
      BY DEF Exclusive
    <2>1. /\ ~exposed[e]
          /\ e = req[h].config => ~(\E w \in Workers : Active(w, req[h].config))
      <3>1. exposed' = [exposed EXCEPT ![req[h].config] =
                          @ \/ (\E w \in Workers : Active(w, req[h].config))]
        BY DEF register_profile_assign, Expose
      <3>2. CASE e = req[h].config
        BY <1>0, <3>1, <3>2, Zenon
      <3>3. CASE e # req[h].config
        BY <1>0, <3>1, <3>3
      <3>4. QED
        BY <3>2, <3>3
    <2>2. \A w \in Workers : wpc'[w] = wpc[w] /\ job'[w] = job[w]
      BY DEF register_profile_assign, workers
    <2>3. \A g \in Handlers : Pending(g, e)' => Pending(g, e)
      BY DEF register_profile_assign, GoTo, Pending
    <2>4. e # req[h].config => profile'[e] = profile[e]
      BY DEF register_profile_assign
    <2>5. e = req[h].config => \A w \in Workers : ~Marked(w, e)
      BY <2>1 DEF Active, Marked, Marking
    <2>6. QED
      BY <2>1, <2>2, <2>3, <2>4, <2>5 DEF Exclusive, ExclusiveOn, Pending, Active, Marked
  <1>4. QED
    BY <1>1, <1>2, <1>3

(* reset and change_auth start without a check: as change_whitelist.       *)
LEMMA LoginThenStartKeeps ==
  ASSUME Invariant, TypeOK', NEW h \in Handlers, login_then_start(h)
  PROVE  BusyHasWorker' /\ CurrentHasOwner' /\ Exclusive'
  <1> USE DEF Invariant, TypeOK
  <1>0. req[h].config \in Configs
    BY RequestTyped DEF login_then_start, Expose, SomeTask, GoTo
  <1>1. BusyHasWorker'
    BY <1>0 DEF login_then_start, Expose, SomeTask, GoTo, BusyHasWorker,
    Marked, Marking, Profile, handlers, workers, history
  <1>2. CurrentHasOwner'
    BY <1>0 DEF login_then_start, Expose, SomeTask, GoTo, CurrentHasOwner,
    Owns, Owning, Clears, Profile, handlers, workers, history
  <1>3. Exclusive'
    <2> SUFFICES ASSUME NEW e \in Configs, ~exposed'[e]
                 PROVE  ExclusiveOn(e)'
      BY DEF Exclusive
    <2>1. ~exposed[e] /\ (e = req[h].config => ~SomeTask(req[h].config))
      <3>1. exposed' = [exposed EXCEPT ![req[h].config] = @ \/ SomeTask(req[h].config)]
        BY DEF login_then_start, Expose
      <3>2. CASE e = req[h].config
        BY <1>0, <3>1, <3>2, Zenon
      <3>3. CASE e # req[h].config
        BY <1>0, <3>1, <3>3
      <3>4. QED
        BY <3>2, <3>3
    <2>2. \A w \in Workers : wpc'[w] = wpc[w] /\ job'[w] = job[w]
      BY DEF login_then_start, workers
    <2>3. \A g \in Handlers :
            Pending(g, e)' => Pending(g, e) \/ (g = h /\ e = req[h].config)
      BY DEF login_then_start, GoTo, Pending
    <2>4. e = req[h].config => ~\E g \in Handlers : Pending(g, e)
      BY <2>1 DEF SomeTask
    <2>5. e = req[h].config => ~\E w \in Workers : Active(w, e)
      BY <2>1 DEF SomeTask
    <2>6. profile' = profile
      BY DEF login_then_start
    <2>7. QED
      BY <2>1, <2>2, <2>3, <2>4, <2>5, <2>6 DEF Exclusive, ExclusiveOn, Active, Marked
  <1>4. QED
    BY <1>1, <1>2, <1>3

(* A failed login makes the profile idle: the config is exposed if a task  *)
(* had marked it.                                                          *)
LEMMA HandlerStopStatusKeeps ==
  ASSUME Invariant, TypeOK', NEW h \in Handlers, handler_stop_status(h)
  PROVE  BusyHasWorker' /\ CurrentHasOwner' /\ Exclusive'
  <1> USE DEF Invariant, TypeOK
  <1>0. req[h].config \in Configs
    BY RequestTyped DEF handler_stop_status, StopStatus, Expose, GoTo
  <1>1. BusyHasWorker'
    BY <1>0 DEF handler_stop_status, StopStatus, Expose, GoTo, BusyHasWorker,
    Marked, Marking, Profile, handlers, workers, history
  <1>2. CurrentHasOwner'
    BY <1>0 DEF handler_stop_status, StopStatus, Expose, GoTo,
    CurrentHasOwner, Owns, Owning, Clears, Profile, handlers, workers, history
  <1>3. Exclusive'
    BY <1>0 DEF handler_stop_status, StopStatus, Expose, GoTo, Exclusive,
    ExclusiveOn, Active, Marked, Marking, Pending, Profile, handlers, workers,
    history
  <1>4. QED
    BY <1>1, <1>2, <1>3

(* It then clears the current task, whosever it is.                        *)
LEMMA HandlerStopCurrentKeeps ==
  ASSUME Invariant, TypeOK', NEW h \in Handlers, handler_stop_current(h)
  PROVE  BusyHasWorker' /\ CurrentHasOwner' /\ Exclusive'
  <1> USE DEF Invariant, TypeOK
  <1>0. req[h].config \in Configs
    BY RequestTyped DEF handler_stop_current, StopCurrent, GoTo
  <1>1. BusyHasWorker'
    BY <1>0 DEF handler_stop_current, StopCurrent, GoTo, BusyHasWorker,
    Marked, Marking, Profile, handlers, workers, history
  <1>2. CurrentHasOwner'
    BY <1>0 DEF handler_stop_current, StopCurrent, GoTo, CurrentHasOwner,
    Owns, Owning, Clears, Profile, handlers, workers, history
  <1>3. Exclusive'
    BY <1>0 DEF handler_stop_current, StopCurrent, GoTo, Exclusive,
    ExclusiveOn, Active, Marked, Marking, Pending, Profile, handlers, workers,
    history
  <1>4. QED
    BY <1>1, <1>2, <1>3

(* The check passes: with no unseen task the profile shows every task, so  *)
(* there is none.                                                          *)
LEMMA CheckTaskStatusIdleKeeps ==
  ASSUME Invariant, TypeOK', NEW h \in Handlers, check_task_status_idle(h)
  PROVE  BusyHasWorker' /\ CurrentHasOwner' /\ Exclusive'
  <1> USE DEF Invariant, TypeOK
  <1>0. req[h].config \in Configs
    BY RequestTyped DEF check_task_status_idle, Expose, Unseen, GoTo
  <1>1. BusyHasWorker'
    BY <1>0 DEF check_task_status_idle, Expose, Unseen, GoTo, BusyHasWorker,
    Marked, Marking, Profile, handlers, workers, history
  <1>2. CurrentHasOwner'
    BY <1>0 DEF check_task_status_idle, Expose, Unseen, GoTo, CurrentHasOwner,
    Owns, Owning, Clears, Profile, handlers, workers, history
  <1>3. Exclusive'
    <2> SUFFICES ASSUME NEW e \in Configs, ~exposed'[e]
                 PROVE  ExclusiveOn(e)'
      BY DEF Exclusive
    <2>1. ~exposed[e] /\ (e = req[h].config => ~Unseen(req[h].config))
      <3>1. exposed' = [exposed EXCEPT ![req[h].config] = @ \/ Unseen(req[h].config)]
        BY DEF check_task_status_idle, Expose
      <3>2. CASE e = req[h].config
        BY <1>0, <3>1, <3>2, Zenon
      <3>3. CASE e # req[h].config
        BY <1>0, <3>1, <3>3
      <3>4. QED
        BY <3>2, <3>3
    <2>2. \A w \in Workers : wpc'[w] = wpc[w] /\ job'[w] = job[w]
      BY DEF check_task_status_idle, workers
    <2>3. \A g \in Handlers :
            Pending(g, e)' => Pending(g, e) \/ (g = h /\ e = req[h].config)
      BY DEF check_task_status_idle, GoTo, Pending
    <2>4. e = req[h].config => \A w \in Workers : ~Active(w, e)
      BY <2>1 DEF check_task_status_idle, Exclusive, ExclusiveOn, Unseen
    <2>5. e = req[h].config => \A g \in Handlers : ~Pending(g, e)
      BY <2>1 DEF Unseen
    <2>6. QED
      BY <2>1, <2>2, <2>3, <2>4, <2>5
      DEF check_task_status_idle, Exclusive, ExclusiveOn, Pending, Active, Marked
  <1>4. QED
    BY <1>1, <1>2, <1>3

(* The handler's thread becomes a task thread.                             *)
LEMMA StartThreadKeeps ==
  ASSUME Invariant, TypeOK', NEW h \in Handlers, NEW w \in Workers, start_thread(h, w)
  PROVE  BusyHasWorker' /\ CurrentHasOwner' /\ Exclusive'
  <1> USE DEF Invariant, TypeOK
  <1>0. req[h].config \in Configs
    BY RequestTyped DEF start_thread, Reply
  <1>1. BusyHasWorker'
    BY <1>0 DEF start_thread, Reply, BusyHasWorker, Marked, Marking, Profile,
    handlers, workers, history
  <1>2. CurrentHasOwner'
    BY <1>0 DEF start_thread, Reply, CurrentHasOwner, Owns, Owning, Clears,
    Profile, handlers, workers, history
  <1>3. Exclusive'
    BY <1>0 DEF start_thread, Reply, Exclusive, ExclusiveOn, Active, Marked,
    Marking, Pending, Profile, handlers, workers, history
  <1>4. QED
    BY <1>1, <1>2, <1>3

(* The thread marks the profile.                                           *)
LEMMA StartStatusKeeps ==
  ASSUME Invariant, TypeOK', NEW w \in Workers, start_status(w)
  PROVE  BusyHasWorker' /\ CurrentHasOwner' /\ Exclusive'
  <1> USE DEF Invariant, TypeOK
  <1>0. job[w].config \in Configs
    BY JobTyped DEF start_status, Step
  <1>1. BusyHasWorker'
    BY <1>0 DEF start_status, Step, BusyHasWorker, Marked, Marking, Profile,
    handlers, workers, history
  <1>2. CurrentHasOwner'
    BY <1>0, SMTT(30) DEF start_status, Step, CurrentHasOwner, Owns, Owning, Clears,
    Profile, handlers, workers, history
  <1>3. Exclusive'
    BY <1>0 DEF start_status, Step, Exclusive, ExclusiveOn, Active, Marked,
    Marking, Pending, Profile, handlers, workers, history
  <1>4. QED
    BY <1>1, <1>2, <1>3

(* The thread of an unregistered config ends before it marks anything.     *)
LEMMA StartStatusRaisesKeeps ==
  ASSUME Invariant, TypeOK', NEW w \in Workers, start_status_raises(w)
  PROVE  BusyHasWorker' /\ CurrentHasOwner' /\ Exclusive'
  <1> USE DEF Invariant, TypeOK
  <1>0. job[w].config \in Configs
    BY JobTyped DEF start_status_raises, Exit
  <1>1. BusyHasWorker'
    BY <1>0 DEF start_status_raises, Exit, BusyHasWorker, Marked, Marking,
    Profile, handlers, workers, history
  <1>2. CurrentHasOwner'
    BY <1>0 DEF start_status_raises, Exit, CurrentHasOwner, Owns, Owning,
    Clears, Profile, handlers, workers, history
  <1>3. Exclusive'
    BY <1>0 DEF start_status_raises, Exit, Exclusive, ExclusiveOn, Active,
    Marked, Marking, Pending, Profile, handlers, workers, history
  <1>4. QED
    BY <1>1, <1>2, <1>3

(* The thread becomes an owner of the current task it writes.              *)
LEMMA StartCurrentKeeps ==
  ASSUME Invariant, TypeOK', NEW w \in Workers, start_current(w)
  PROVE  BusyHasWorker' /\ CurrentHasOwner' /\ Exclusive'
  <1> USE DEF Invariant, TypeOK
  <1>0. job[w].config \in Configs
    BY JobTyped DEF start_current, Step
  <1>1. BusyHasWorker'
    BY <1>0 DEF start_current, Step, BusyHasWorker, Marked, Marking, Profile,
    handlers, workers, history
  <1>2. CurrentHasOwner'
    BY <1>0 DEF start_current, Step, CurrentHasOwner, Owns, Owning, Clears,
    Profile, handlers, workers, history
  <1>3. Exclusive'
    BY <1>0 DEF start_current, Step, Exclusive, ExclusiveOn, Active, Marked,
    Marking, Pending, Profile, handlers, workers, history
  <1>4. QED
    BY <1>1, <1>2, <1>3

(* A thread that ends or hangs in the task leaves the config abandoned.    *)
LEMMA AbandonKeeps ==
  ASSUME Invariant, TypeOK', NEW w \in Workers, Abandon(w)
  PROVE  BusyHasWorker' /\ CurrentHasOwner' /\ Exclusive'
  <1> USE DEF Invariant, TypeOK
  <1>0. job[w].config \in Configs
    BY JobTyped DEF Abandon, Exit
  <1>1. BusyHasWorker'
    BY <1>0 DEF Abandon, Exit, BusyHasWorker, Marked, Marking, Profile,
    handlers, workers, history
  <1>2. CurrentHasOwner'
    BY <1>0 DEF Abandon, Exit, CurrentHasOwner, Owns, Owning, Clears, Profile,
    handlers, workers, history
  <1>3. Exclusive'
    BY <1>0 DEF Abandon, Exit, Exclusive, ExclusiveOn, Active, Marked,
    Marking, Pending, Profile, handlers, workers, history
  <1>4. QED
    BY <1>1, <1>2, <1>3

(* The thread clears its mark, and from then on it no longer needs one.    *)
LEMMA SetStopTaskStatusKeeps ==
  ASSUME Invariant, TypeOK', NEW w \in Workers, set_stop_task_status(w)
  PROVE  BusyHasWorker' /\ CurrentHasOwner' /\ Exclusive'
  <1> USE DEF Invariant, TypeOK
  <1>0. job[w].config \in Configs
    BY JobTyped DEF set_stop_task_status, Step, StopStatus
  <1>1. BusyHasWorker'
    BY <1>0 DEF set_stop_task_status, Step, StopStatus, BusyHasWorker, Marked,
    Marking, Profile, handlers, workers, history
  <1>2. CurrentHasOwner'
    BY <1>0 DEF set_stop_task_status, Step, StopStatus, CurrentHasOwner, Owns,
    Owning, Clears, Profile, handlers, workers, history
  <1>3. Exclusive'
    BY <1>0 DEF set_stop_task_status, Step, StopStatus, Exclusive,
    ExclusiveOn, Active, Marked, Marking, Pending, Profile, handlers, workers,
    history
  <1>4. QED
    BY <1>1, <1>2, <1>3

(* The thread clears the current task it owned.                            *)
LEMMA SetStopTaskCurrentKeeps ==
  ASSUME Invariant, TypeOK', NEW w \in Workers, set_stop_task_current(w)
  PROVE  BusyHasWorker' /\ CurrentHasOwner' /\ Exclusive'
  <1> USE DEF Invariant, TypeOK
  <1>0. job[w].config \in Configs
    BY JobTyped DEF set_stop_task_current, Step, StopCurrent
  <1>1. BusyHasWorker'
    BY <1>0, SMTT(30) DEF set_stop_task_current, Step, StopCurrent, BusyHasWorker,
    Marked, Marking, Profile, handlers, workers, history
  <1>2. CurrentHasOwner'
    BY <1>0 DEF set_stop_task_current, Step, StopCurrent, CurrentHasOwner,
    Owns, Owning, Clears, Profile, handlers, workers, history
  <1>3. Exclusive'
    BY <1>0 DEF set_stop_task_current, Step, StopCurrent, Exclusive,
    ExclusiveOn, Active, Marked, Marking, Pending, Profile, handlers, workers,
    history
  <1>4. QED
    BY <1>1, <1>2, <1>3

(* The new dictionary is idle and has no current task.                     *)
LEMMA ReloadProfileKeeps ==
  ASSUME Invariant, TypeOK', NEW w \in Workers, reload_profile(w)
  PROVE  BusyHasWorker' /\ CurrentHasOwner' /\ Exclusive'
  <1> USE DEF Invariant, TypeOK
  <1>0. job[w].config \in Configs
    BY JobTyped DEF reload_profile, Exit
  <1>1. BusyHasWorker'
    BY <1>0 DEF reload_profile, Exit, BusyHasWorker, Marked, Marking, Profile,
    handlers, workers, history
  <1>2. CurrentHasOwner'
    BY <1>0 DEF reload_profile, Exit, CurrentHasOwner, Owns, Owning, Clears,
    Profile, handlers, workers, history
  <1>3. Exclusive'
    BY <1>0, SMTT(30) DEF reload_profile, Exit, Exclusive, ExclusiveOn, Active, Marked,
    Marking, Pending, Profile, handlers, workers, history
  <1>4. QED
    BY <1>1, <1>2, <1>3

(* A thread that ends in reload_profile has cleared both before.           *)
LEMMA ReloadProfileRaisesKeeps ==
  ASSUME Invariant, TypeOK', NEW w \in Workers, reload_profile_raises(w)
  PROVE  BusyHasWorker' /\ CurrentHasOwner' /\ Exclusive'
  <1> USE DEF Invariant, TypeOK
  <1>0. job[w].config \in Configs
    BY JobTyped DEF reload_profile_raises, Exit
  <1>1. BusyHasWorker'
    BY <1>0 DEF reload_profile_raises, Exit, BusyHasWorker, Marked, Marking,
    Profile, handlers, workers, history
  <1>2. CurrentHasOwner'
    BY <1>0 DEF reload_profile_raises, Exit, CurrentHasOwner, Owns, Owning,
    Clears, Profile, handlers, workers, history
  <1>3. Exclusive'
    BY <1>0 DEF reload_profile_raises, Exit, Exclusive, ExclusiveOn, Active,
    Marked, Marking, Pending, Profile, handlers, workers, history
  <1>4. QED
    BY <1>1, <1>2, <1>3
-----------------------------------------------------------------------------
(* Init establishes the invariant: no thread runs and every profile is     *)
(* idle.                                                                   *)
LEMMA InitInvariant == Init => Invariant
  <1> SUFFICES ASSUME Init PROVE Invariant
    OBVIOUS
  <1>1. TypeOK
    BY TypeInit
  <1>2. ThreadsAreTasks
    BY DEF Init, ThreadsAreTasks
  <1>3. BusyHasWorker /\ CurrentHasOwner
    BY DEF Init, BusyHasWorker, CurrentHasOwner, Fresh, NoProfile
  <1>4. Exclusive
    BY DEF Init, Exclusive, ExclusiveOn, Active, Pending, Marked, Marking
  <1>5. QED
    BY <1>1, <1>2, <1>3, <1>4 DEF Invariant

(* Every step of a handler or of a task thread preserves it.               *)
LEMMA StepInvariant == Invariant /\ [Next]_vars => Invariant'
  <1> SUFFICES ASSUME Invariant, [Next]_vars PROVE Invariant'
    OBVIOUS
  <1> DEFINE Goal == BusyHasWorker' /\ CurrentHasOwner' /\ Exclusive'
  <1>1. TypeOK /\ TypeOK' /\ ThreadsAreTasks'
    BY TypeStep DEF Invariant
  <1>2. ASSUME NEW h \in Handlers, NEW k \in Requests, NEW c \in Configs,
               NEW a \in Args(k), Receive(h, k, c, a)
        PROVE  Goal
    BY <1>1, <1>2, QuietHandler, QuietStep
  <1>3. ASSUME NEW h \in Handlers, NEW c \in Configs, change_whitelist(h, c)
        PROVE  Goal
    BY <1>1, <1>3, ChangeWhitelistKeeps
  <1>4. ASSUME NEW h \in Handlers, HandlerStep(h)
        PROVE  Goal
    <2>1. CASE \E w \in Workers : start_thread(h, w)
      BY <1>1, <2>1, StartThreadKeeps
    <2>2. CASE \/ register_profile_assign(h) \/ login_then_start(h)
               \/ handler_stop_status(h) \/ handler_stop_current(h)
               \/ check_task_status_idle(h)
      BY <1>1, <2>2, RegisterProfileAssignKeeps, LoginThenStartKeeps,
      HandlerStopStatusKeeps, HandlerStopCurrentKeeps, CheckTaskStatusIdleKeeps
    <2>3. QED
      BY <1>1, <1>4, <2>1, <2>2, QuietHandler, QuietStep DEF HandlerStep
  <1>5. ASSUME NEW w \in Workers, WorkerStep(w)
        PROVE  Goal
    BY <1>1, <1>5, QuietWorker, QuietStep, StartStatusKeeps,
    StartStatusRaisesKeeps, StartCurrentKeeps, AbandonKeeps,
    SetStopTaskStatusKeeps, SetStopTaskCurrentKeeps, ReloadProfileKeeps,
    ReloadProfileRaisesKeeps DEF WorkerStep
  <1>6. CASE UNCHANGED vars
    <2>1. Quiet
      BY <1>6 DEF Quiet, Pending, Clears, Active, Marked, Owns, vars, handlers,
      workers, history
    <2>2. QED
      BY <1>1, <2>1, QuietStep DEF Invariant
  <1>7. QED
    BY <1>1, <1>2, <1>3, <1>4, <1>5, <1>6 DEF Next, Invariant

(* The invariant holds in every behaviour of the threads.                  *)
LEMMA InvariantHolds == Spec => []Invariant
  BY InitInvariant, StepInvariant, PTL DEF Spec

(* Requests, profiles and task threads keep their types, whatever the      *)
(* handlers and set_start_task interleave to.                              *)
THEOREM TypeCorrect == Spec => []TypeOK
  <1>1. Invariant => TypeOK
    BY DEF Invariant
  <1>2. QED
    BY <1>1, InvariantHolds, PTL

(* "busy" is never left behind by an interleaving of set_start_task,       *)
(* set_stop_task and reload_profile: a thread will clear it, or the thread *)
(* that would have was abandoned.                                          *)
THEOREM BusyIsTracked == Spec => []BusyHasWorker
  <1>1. Invariant => BusyHasWorker
    BY DEF Invariant
  <1>2. QED
    BY <1>1, InvariantHolds, PTL

(* A config no thread works on is shown idle and without a current task.   *)
THEOREM QuietIsIdle == Spec => []IdleWhenQuiet
  <1>1. Invariant => IdleWhenQuiet
    <2> SUFFICES ASSUME Invariant, NEW c \in Configs, ~SomeTask(c), ~abandoned[c],
                        ~\E h \in Handlers : Serving(h, c)
                 PROVE  profile[c].status = "idle" /\ profile[c].current = "None"
      BY DEF IdleWhenQuiet
    <2>1. profile[c].status \in {"idle", "busy"}
      BY DEF Invariant, TypeOK, Profile, Statuses
    <2>2. ~\E w \in Workers : Marked(w, c) \/ Owns(w, c)
      BY DEF SomeTask, Active, Marked, Marking, Owns, Owning
    <2>3. ~\E h \in Handlers : Clears(h, c)
      BY DEF Serving, Clears
    <2>4. QED
      BY <2>1, <2>2, <2>3 DEF Invariant, BusyHasWorker, CurrentHasOwner
  <1>2. QED
    BY <1>1, InvariantHolds, PTL

(* Without one of the events recorded in exposed, the unlocked check of    *)
(* app.py lets at most one task of a config run at a time.                 *)
THEOREM OneTask == Spec => []OneTaskPerConfig
  <1>1. Invariant => OneTaskPerConfig
    BY DEF Invariant, Exclusive, ExclusiveOn, OneTaskPerConfig
  <1>2. QED
    BY <1>1, InvariantHolds, PTL

-----------------------------------------------------------------------------
(* last_task.  On a config that is not exposed, it names the task of the   *)
(* only thread from start_task on and the task that ended last otherwise,  *)
(* unless a second registration erased it; its outcome is that task's,     *)
(* from the last write of set_stop_task on, unless the task was abandoned  *)
(* and no later set_stop_task has come to its last write.                  *)
Named == {"construct", "run", "stop_status", "stop_current", "stop_outcome", "reload"}
Over  == {"stop_status", "stop_current", "stop_outcome", "reload"}

Working(c)  == \E w \in Workers : Active(w, c) /\ wpc[w] \in Named
Stopping(c) ==
  \E h \in Handlers : hpc[h] \in {"stop_current", "stop_outcome"} /\ req[h].config = c
OutcomeTold(c) == profile[c].outcome \in {ended[c].outcome, "failed"}

ReportedOn(c) ==
  /\ \A w \in Workers : Active(w, c) /\ wpc[w] \in Named =>
       profile[c].task = job[w].kind
  /\ \A w \in Workers : Active(w, c) /\ wpc[w] \in Over =>
       ended[c].task = job[w].kind /\ ended[c].outcome = job[w].res
  /\ \A w \in Workers : Active(w, c) /\ wpc[w] = "reload" => OutcomeTold(c)
  /\ \/ Working(c) \/ Erased(c)
     \/ /\ profile[c].task = ended[c].task
        /\ abandoned[c] \/ Stopping(c) \/ OutcomeTold(c)
Reported == \A c \in Configs : ~exposed[c] => ReportedOn(c)

(* Only a config that came after the start is registered by a handler.     *)
Newcomers ==
  /\ \A c \in Registered : profile[c].known
  /\ \A h \in Handlers : hpc[h] = "assign" => req[h].config \notin Registered

(* A config that was exposed remains so.                                   *)
LEMMA ExposedStays ==
  ASSUME TypeOK, [Next]_vars, NEW e \in Configs, ~exposed'[e]
  PROVE  ~exposed[e]
  <1> USE DEF TypeOK
  <1>1. CASE UNCHANGED exposed
    BY <1>1
  <1>2. ASSUME NEW c \in Configs, NEW x, Expose(c, x)
        PROVE  ~exposed[e]
    <2>1. CASE e = c
      BY <1>2, <2>1, Zenon DEF Expose
    <2>2. CASE e # c
      BY <1>2, <2>2 DEF Expose
    <2>3. QED
      BY <2>1, <2>2
  <1>3. CASE \E h \in Handlers, c \in Configs : change_whitelist(h, c)
    BY <1>2, <1>3 DEF change_whitelist
  <1>4. CASE \E h \in Handlers : \/ register_profile_assign(h) \/ login_then_start(h)
                                 \/ handler_stop_status(h) \/ check_task_status_idle(h)
    <2>1. PICK h \in Handlers : \/ register_profile_assign(h) \/ login_then_start(h)
                                \/ handler_stop_status(h) \/ check_task_status_idle(h)
      BY <1>4
    <2>2. req[h].config \in Configs
      BY <2>1, RequestTyped DEF register_profile_assign, login_then_start,
      handler_stop_status, check_task_status_idle
    <2>3. QED
      BY <1>2, <2>1, <2>2 DEF register_profile_assign, login_then_start,
      handler_stop_status, check_task_status_idle
  <1>5. QED
    BY <1>1, <1>3, <1>4
    DEF Next, HandlerStep, WorkerStep, vars, history, Receive,
    get_change_region_declined, register_profile, get_change_region_last_task,
    get_change_region_raises, HandlerRaises, login_then_reply, login_then_check,
    login_fails, handler_stop_status_raises, handler_stop_current,
    handler_stop_outcome, check_task_status_busy, start_thread, start_status,
    start_status_raises, start_current, start_task, RunTask, Abandon, task_method,
    set_stop_task_status, set_stop_task_current, set_stop_task_outcome,
    reload_profile, reload_profile_raises

(* Every step keeps Newcomers: no step takes a config out of the profile.  *)
LEMMA StepNewcomers == Invariant /\ Newcomers /\ [Next]_vars => Newcomers'
  <1> SUFFICES ASSUME Invariant, Newcomers, [Next]_vars
               PROVE  Newcomers'
    OBVIOUS
  <1> USE RegisteredAssumption DEF Invariant, TypeOK, Newcomers
  <1>1. CASE \E h \in Handlers, k \in Requests, c \in Configs :
               \E a \in Args(k) : Receive(h, k, c, a)
    BY <1>1 DEF Receive, FirstStep
  <1>2. CASE \E h \in Handlers, c \in Configs : change_whitelist(h, c)
    BY <1>2 DEF change_whitelist
  <1>3. ASSUME NEW h \in Handlers, HandlerStep(h)
        PROVE  Newcomers'
    <2>1. \A g \in Handlers \ {h} : hpc'[g] = hpc[g] /\ req'[g] = req[g]
      BY <1>3, HandlerMoves DEF GoTo, Reply
    <2>2. hpc'[h] = "assign" => register_profile(h)
      BY <1>3 DEF HandlerStep, GoTo, Reply,
      get_change_region_declined, register_profile, register_profile_assign,
      get_change_region_last_task, get_change_region_raises, HandlerRaises,
      login_then_reply, login_then_check, login_then_start, login_fails,
      handler_stop_status, handler_stop_status_raises, handler_stop_current,
      handler_stop_outcome, check_task_status_busy, check_task_status_idle,
      start_thread
    <2>3. ASSUME register_profile(h), hpc'[h] = "assign"
          PROVE  req'[h].config \notin Registered
      BY <2>3 DEF register_profile, GoTo
    <2>4. \A c \in Registered : profile'[c].known
      <3>1. CASE UNCHANGED profile
        BY <3>1
      <3>2. CASE register_profile_assign(h)
        BY <3>2, RequestTyped DEF register_profile_assign, Fresh
      <3>3. CASE handler_stop_status(h) \/ handler_stop_current(h) \/ handler_stop_outcome(h)
        <4>1. req[h].config \in Configs
          BY <3>3, RequestTyped
          DEF handler_stop_status, handler_stop_current, handler_stop_outcome
        <4>2. ASSUME NEW c \in Configs
              PROVE  profile'[c].known = profile[c].known
          <5>1. CASE handler_stop_status(h)
            BY <4>1, <5>1 DEF handler_stop_status, StopStatus, Profile
          <5>2. CASE handler_stop_current(h)
            BY <4>1, <5>2 DEF handler_stop_current, StopCurrent, Profile
          <5>3. CASE handler_stop_outcome(h)
            BY <4>1, <5>3 DEF handler_stop_outcome, StopOutcome, Profile
          <5>4. QED
            BY <3>3, <5>1, <5>2, <5>3
        <4>3. QED
          BY <4>2
      <3>4. QED
        BY <1>3, <3>1, <3>2, <3>3 DEF HandlerStep,
        get_change_region_declined, register_profile, get_change_region_last_task,
        get_change_region_raises, HandlerRaises, login_then_reply, login_then_check,
        login_then_start, login_fails, handler_stop_status_raises,
        check_task_status_busy, check_task_status_idle, start_thread
    <2>5. QED
      BY <2>1, <2>2, <2>3, <2>4
  <1>4. ASSUME NEW w \in Workers, WorkerStep(w)
        PROVE  Newcomers'
    <2>1. UNCHANGED handlers
      BY <1>4 DEF WorkerStep, Step, Exit, start_status, start_status_raises,
      start_current, start_task, RunTask, Abandon, task_method, set_stop_task_status,
      set_stop_task_current, set_stop_task_outcome, reload_profile,
      reload_profile_raises
    <2>2. wpc[w] # "free" /\ job[w].config \in Configs
      BY <1>4, WorkerMoves, JobTyped
    <2>3. ASSUME NEW c \in Configs
          PROVE  profile'[c].known = profile[c].known
      <3>1. CASE start_status(w) \/ start_current(w) \/ start_task(w)
        BY <2>2, <3>1 DEF start_status, start_current, start_task, Profile
      <3>2. CASE set_stop_task_status(w)
        BY <2>2, <3>2 DEF set_stop_task_status, StopStatus, Profile
      <3>3. CASE set_stop_task_current(w)
        BY <2>2, <3>3 DEF set_stop_task_current, StopCurrent, Profile
      <3>4. CASE set_stop_task_outcome(w)
        BY <2>2, <3>4 DEF set_stop_task_outcome, StopOutcome, Profile
      <3>5. CASE reload_profile(w)
        BY <2>2, <3>5 DEF reload_profile, Profile
      <3>6. CASE UNCHANGED profile
        BY <3>6
      <3>7. QED
        BY <1>4, <3>1, <3>2, <3>3, <3>4, <3>5, <3>6 DEF WorkerStep,
        start_status_raises, RunTask, Abandon, task_method, reload_profile_raises
    <2>4. QED
      BY <2>1, <2>3 DEF handlers
  <1>5. CASE UNCHANGED vars
    BY <1>5 DEF vars, handlers
  <1>6. QED
    BY <1>1, <1>2, <1>3, <1>4, <1>5 DEF Next

(* The steps of a handler that leave last_task and the task threads alone. *)
LEMMA ReportHandler ==
  ASSUME Invariant, NEW e \in Configs, ReportedOn(e),
         UNCHANGED workers, ended'[e] = ended[e],
         profile'[e].task = profile[e].task,
         profile'[e].outcome \in {profile[e].outcome, "failed"},
         abandoned[e] => abandoned'[e] \/ Stopping(e)',
         Stopping(e) => Stopping(e)' \/ profile'[e].outcome = "failed"
  PROVE  ReportedOn(e)'
  BY DEF ReportedOn, Active, workers, Working, OutcomeTold, Erased

(* Every step of a handler keeps ReportedOn.                               *)
LEMMA HandlerReports ==
  ASSUME Invariant, Newcomers, NEW h \in Handlers, HandlerStep(h),
         NEW e \in Configs, ~exposed'[e], ReportedOn(e)
  PROVE  ReportedOn(e)'
  <1> USE DEF Invariant
  <1>0. /\ \A g \in Handlers \ {h} : hpc'[g] = hpc[g] /\ req'[g] = req[g]
        /\ hpc[h] \notin {"stop_current", "stop_outcome"} =>
             (Stopping(e) => Stopping(e)')
    <2>1. \A g \in Handlers \ {h} : hpc'[g] = hpc[g] /\ req'[g] = req[g]
      BY HandlerMoves DEF GoTo, Reply, TypeOK
    <2>2. QED
      BY <2>1 DEF Stopping
  <1>1. CASE register_profile_assign(h)
    <2>1. /\ req[h].config \in Configs /\ req[h].config \notin Registered
          /\ Stopping(e) => Stopping(e)'
      BY <1>0, <1>1, RequestTyped DEF register_profile_assign, Newcomers
    <2>2. CASE e # req[h].config
      <3>1. /\ profile'[e] = profile[e] /\ ended'[e] = ended[e] /\ UNCHANGED workers
            /\ abandoned'[e] = abandoned[e]
        BY <1>1, <2>1, <2>2 DEF TypeOK, register_profile_assign
      <3>2. QED
        BY <2>1, <3>1, ReportHandler
    <2>3. CASE e = req[h].config
      <3>1. ~\E w \in Workers : Active(w, e)
        BY <1>1, <2>1, <2>3, Zenon DEF TypeOK, register_profile_assign, Expose
      <3>2. profile'[e] = Fresh /\ wpc' = wpc /\ job' = job
        BY <1>1, <2>1, <2>3 DEF TypeOK, register_profile_assign, workers
      <3>3. Erased(e)'
        BY <2>1, <2>3, <3>2 DEF Erased, Fresh
      <3>4. QED
        BY <3>1, <3>2, <3>3 DEF ReportedOn, Active
    <2>4. QED
      BY <2>2, <2>3
  <1>2. CASE handler_stop_status(h) \/ handler_stop_current(h) \/ handler_stop_outcome(h)
    <2>1. req[h].config \in Configs
      BY <1>2, RequestTyped
      DEF handler_stop_status, handler_stop_current, handler_stop_outcome
    <2>2. /\ profile'[e].task = profile[e].task
          /\ profile'[e].outcome \in {profile[e].outcome, "failed"}
          /\ abandoned[e] => abandoned'[e] \/ Stopping(e)'
          /\ Stopping(e) => Stopping(e)' \/ profile'[e].outcome = "failed"
      <3>1. CASE handler_stop_status(h)
        <4>1. /\ profile'[e].task = profile[e].task
              /\ profile'[e].outcome = profile[e].outcome
          BY <2>1, <3>1 DEF TypeOK, Profile, handler_stop_status, StopStatus
        <4>2. Stopping(e) => Stopping(e)'
          BY <1>0, <3>1 DEF handler_stop_status
        <4>3. hpc'[h] = "stop_current" /\ req' = req
          BY <3>1 DEF handler_stop_status, GoTo, TypeOK
        <4>4. CASE e = req[h].config
          BY <4>1, <4>2, <4>3, <4>4 DEF Stopping
        <4>5. CASE e # req[h].config
          <5>1. abandoned'[e] = abandoned[e]
            BY <2>1, <3>1, <4>5 DEF TypeOK, handler_stop_status, StopStatus
          <5>2. QED
            BY <4>1, <4>2, <5>1
        <4>6. QED
          BY <4>4, <4>5
      <3>2. CASE handler_stop_current(h)
        <4>1. /\ profile'[e].task = profile[e].task
              /\ profile'[e].outcome = profile[e].outcome /\ abandoned' = abandoned
          BY <2>1, <3>2 DEF TypeOK, Profile, handler_stop_current, StopCurrent, history
        <4>2. hpc'[h] = "stop_outcome" /\ req' = req
          BY <3>2 DEF handler_stop_current, GoTo, TypeOK
        <4>3. Stopping(e) => Stopping(e)'
          BY <1>0, <4>2 DEF Stopping
        <4>4. QED
          BY <4>1, <4>3
      <3>3. CASE handler_stop_outcome(h)
        <4>1. /\ profile'[e].task = profile[e].task
              /\ profile'[e].outcome \in {profile[e].outcome, "failed"}
              /\ e = req[h].config => profile'[e].outcome = "failed"
              /\ abandoned' = abandoned
          BY <2>1, <3>3 DEF TypeOK, Profile, handler_stop_outcome, StopOutcome, history
        <4>2. CASE e # req[h].config
          BY <1>0, <4>1, <4>2 DEF Stopping
        <4>3. QED
          BY <4>1, <4>2
      <3>4. QED
        BY <1>2, <3>1, <3>2, <3>3
    <2>3. UNCHANGED <<workers, ended>>
      BY <1>2 DEF handler_stop_status, handler_stop_current, handler_stop_outcome, history
    <2>4. QED
      BY <2>2, <2>3, ReportHandler
  <1>3. CASE \E w \in Workers : start_thread(h, w)
    <2> PICK w \in Workers : start_thread(h, w)
      BY <1>3
    <2>1. /\ profile' = profile /\ ended' = ended /\ abandoned' = abandoned
          /\ wpc[w] = "free" /\ wpc'[w] = "status"
          /\ \A v \in Workers \ {w} : wpc'[v] = wpc[v] /\ job'[v] = job[v]
      BY DEF TypeOK, start_thread, history
    <2>2. Stopping(e) => Stopping(e)'
      BY <1>0 DEF start_thread
    <2>3. (\A v \in Workers : Active(v, e)' /\ wpc'[v] \in Named =>
             Active(v, e) /\ wpc'[v] = wpc[v] /\ job'[v] = job[v])
          /\ (Working(e) => Working(e)')
      BY <2>1 DEF Active, Named, Working
    <2>4. QED
      BY <2>1, <2>2, <2>3 DEF ReportedOn, Erased, OutcomeTold, Named, Over
  <1>4. CASE /\ UNCHANGED <<profile, workers, abandoned, ended>>
             /\ hpc[h] \notin {"stop_current", "stop_outcome"}
    BY <1>0, <1>4, ReportHandler
  <1>5. QED
    BY <1>1, <1>2, <1>3, <1>4
    DEF HandlerStep, history,
    get_change_region_declined, register_profile, get_change_region_last_task,
    get_change_region_raises, HandlerRaises, login_then_reply, login_then_check,
    login_then_start, login_fails, handler_stop_status_raises,
    check_task_status_busy, check_task_status_idle

(* A step of a task thread on a config concerns the others' threads and    *)
(* profiles in nothing.                                                    *)
LEMMA OtherConfigs ==
  ASSUME Invariant, NEW w \in Workers, WorkerStep(w),
         NEW e \in Configs, job[w].config # e
  PROVE  /\ profile'[e] = profile[e] /\ ended'[e] = ended[e]
         /\ abandoned'[e] = abandoned[e] /\ UNCHANGED handlers
         /\ \A v \in Workers : Active(v, e)' <=> Active(v, e)
         /\ \A v \in Workers : Active(v, e) => wpc'[v] = wpc[v] /\ job'[v] = job[v]
  <1> USE DEF Invariant, TypeOK
  <1>1. wpc[w] # "free" /\ job[w].config \in Configs
    BY WorkerMoves, JobTyped
  <1>2. profile'[e] = profile[e]
    BY <1>1 DEF WorkerStep, start_status, start_status_raises, start_current,
    start_task, RunTask, Abandon, task_method, set_stop_task_status,
    set_stop_task_current, set_stop_task_outcome, reload_profile,
    reload_profile_raises, StopStatus, StopCurrent, StopOutcome
  <1>3. ended'[e] = ended[e] /\ abandoned'[e] = abandoned[e]
    BY <1>1 DEF WorkerStep, start_status, start_status_raises, start_current,
    start_task, RunTask, Abandon, task_method, set_stop_task_status,
    set_stop_task_current, set_stop_task_outcome, reload_profile,
    reload_profile_raises, history,
    StopStatus
  <1>4. /\ \A v \in Workers \ {w} : wpc'[v] = wpc[v] /\ job'[v] = job[v]
        /\ wpc'[w] # "free" => job'[w].config = job[w].config
    BY <1>1, WorkerMoves DEF Exit, Job
  <1>5. UNCHANGED handlers
    BY WorkerMoves
  <1>6. QED
    BY <1>1, <1>2, <1>3, <1>4, <1>5 DEF Active

(* A step of the only task thread of a config leaves it the only one.      *)
LEMMA OnlyThread ==
  ASSUME Invariant, NEW w \in Workers, WorkerStep(w),
         NEW e \in Configs, job[w].config = e, ExclusiveOn(e)
  PROVE  /\ Active(w, e)
         /\ \A v \in Workers \ {w} : ~Active(v, e) /\ ~Active(v, e)'
         /\ wpc'[w] # "free" => Active(w, e)' /\ job'[w].kind = job[w].kind
  <1> USE DEF Invariant, TypeOK
  <1>1. Active(w, e)
    BY WorkerMoves DEF Active
  <1>2. /\ \A v \in Workers \ {w} : wpc'[v] = wpc[v] /\ job'[v] = job[v]
        /\ wpc'[w] # "free" => job'[w].config = job[w].config /\ job'[w].kind = job[w].kind
    BY <1>1, WorkerMoves DEF Exit, Job, Active
  <1>3. QED
    BY <1>1, <1>2 DEF Active, ExclusiveOn

(* Every step of a task thread keeps ReportedOn.                           *)
LEMMA WorkerReports ==
  ASSUME Invariant, NEW w \in Workers, WorkerStep(w),
         NEW e \in Configs, ~exposed[e], ReportedOn(e)
  PROVE  ReportedOn(e)'
  <1> USE DEF Invariant, TypeOK
  <1>0. Stopping(e)' <=> Stopping(e)
    BY WorkerMoves DEF Stopping, handlers
  <1>1. CASE job[w].config # e
    BY <1>0, <1>1, OtherConfigs DEF ReportedOn, Working, Erased, OutcomeTold
  <1>2. CASE job[w].config = e
    <2>1. ExclusiveOn(e)
      BY DEF Exclusive
    <2>2. /\ Active(w, e)
          /\ \A v \in Workers \ {w} : ~Active(v, e) /\ ~Active(v, e)'
          /\ wpc'[w] # "free" => Active(w, e)' /\ job'[w].kind = job[w].kind
      BY <1>2, <2>1, OnlyThread
    <2> USE <1>0, <1>2, <2>2 DEF ReportedOn, Named, Over, Working, OutcomeTold
    <2>3. CASE start_status(w) \/ start_status_raises(w) \/ start_current(w)
      <3>1. /\ profile'[e].task = profile[e].task
            /\ profile'[e].outcome = profile[e].outcome
            /\ ended' = ended /\ abandoned' = abandoned
        BY <2>3 DEF start_status, start_status_raises, start_current, Profile, history
      <3>2. /\ wpc[w] \in {"status", "current"}
            /\ wpc'[w] \in {"free", "current", "task"}
        BY <2>3 DEF start_status, start_status_raises, start_current, Step, Exit
      <3>3. QED
        BY <3>1, <3>2 DEF Active, Erased
    <2>4. CASE start_task(w)
      <3>1. /\ profile'[e].task = job[w].kind
            /\ wpc[w] = "task" /\ wpc'[w] = "construct"
        BY <2>4 DEF start_task, Step, Profile
      <3>2. QED
        BY <3>1 DEF Active
    <2>5. CASE RunTask(w)
      <3>1. profile'[e] = profile[e] /\ wpc[w] = "construct" /\ wpc'[w] = "run"
        BY <2>5 DEF RunTask, Step
      <3>2. QED
        BY <3>1 DEF Active
    <2>6. CASE Abandon(w)
      <3>1. /\ profile'[e] = profile[e] /\ ended'[e].task = job[w].kind
            /\ abandoned'[e] = TRUE
            /\ wpc[w] \in {"construct", "run"} /\ wpc'[w] = "free"
        BY <2>6 DEF Abandon, Exit
      <3>2. QED
        BY <3>1 DEF Active
    <2>7. CASE \E res \in {"success", "failed"} : task_method(w, res)
      <3>1. /\ profile'[e] = profile[e] /\ ended'[e].task = job[w].kind
            /\ ended'[e].outcome = job'[w].res
            /\ wpc[w] = "run" /\ wpc'[w] = "stop_status"
        BY <2>7 DEF task_method, Job, Active
      <3>2. QED
        BY <3>1 DEF Active
    <2>8. CASE set_stop_task_status(w) \/ set_stop_task_current(w)
      <3>1. /\ profile'[e].task = profile[e].task /\ ended' = ended
            /\ wpc[w] \in {"stop_status", "stop_current"}
            /\ wpc'[w] \in {"stop_current", "stop_outcome"} /\ job' = job
        BY <2>8 DEF set_stop_task_status, set_stop_task_current, StopStatus, StopCurrent,
        Step, Profile, history
      <3>2. QED
        BY <3>1 DEF Active
    <2>9. CASE set_stop_task_outcome(w)
      <3>1. /\ profile'[e].task = profile[e].task
            /\ profile'[e].outcome = job[w].res /\ ended' = ended
            /\ wpc[w] = "stop_outcome" /\ wpc'[w] = "reload" /\ job' = job
        BY <2>9 DEF set_stop_task_outcome, StopOutcome, Step, Profile, history
      <3>2. QED
        BY <3>1 DEF Active
    <2>10. CASE reload_profile(w) \/ reload_profile_raises(w)
      <3>1. /\ profile'[e].task = profile[e].task
            /\ profile'[e].outcome = profile[e].outcome /\ ended' = ended
            /\ wpc[w] = "reload" /\ wpc'[w] = "free"
        BY <2>10 DEF reload_profile, reload_profile_raises, Exit, Profile, history
      <3>2. QED
        BY <3>1 DEF Active
    <2>11. QED
      BY <2>3, <2>4, <2>5, <2>6, <2>7, <2>8, <2>9, <2>10 DEF WorkerStep
  <1>3. QED
    BY <1>1, <1>2

(* Every step keeps Reported.                                              *)
LEMMA StepReported ==
  Invariant /\ Newcomers /\ Reported /\ [Next]_vars => Reported'
  <1> SUFFICES ASSUME Invariant, Newcomers, Reported, [Next]_vars,
                      NEW e \in Configs, ~exposed'[e]
               PROVE  ReportedOn(e)'
    BY DEF Reported
  <1>1. ~exposed[e] /\ ReportedOn(e)
    BY ExposedStays DEF Invariant, Reported
  <1>2. CASE \E h \in Handlers : HandlerStep(h)
    BY <1>1, <1>2, HandlerReports
  <1>3. CASE \E w \in Workers : WorkerStep(w)
    BY <1>1, <1>3, WorkerReports
  <1>4. CASE /\ UNCHANGED <<profile, workers, abandoned, ended>>
             /\ Stopping(e) => Stopping(e)'
    BY <1>1, <1>4, ReportHandler
  <1>5. CASE \E h \in Handlers, k \in Requests, c \in Configs :
               \E a \in Args(k) : Receive(h, k, c, a)
    <2>1. Stopping(e) => Stopping(e)'
      BY <1>5 DEF Receive, Stopping, Invariant, TypeOK
    <2>2. QED
      BY <1>4, <1>5, <2>1 DEF Receive, history
  <1>6. CASE \E h \in Handlers, c \in Configs : change_whitelist(h, c)
    <2>1. Stopping(e) => Stopping(e)'
      BY <1>6 DEF change_whitelist, Stopping, Invariant, TypeOK
    <2>2. QED
      BY <1>4, <1>6, <2>1 DEF change_whitelist
  <1>7. CASE UNCHANGED vars
    BY <1>4, <1>7 DEF vars, handlers, history, Stopping
  <1>8. QED
    BY <1>2, <1>3, <1>5, <1>6, <1>7 DEF Next

(* When no thread works on a config, last_task tells which task ended last *)
(* and its outcome, or "failed", unless tasks ran side by side, that task  *)
(* was abandoned, or a second registration forgot it: whatever handlers    *)
(* and task threads write, and in whatever order.                          *)
THEOREM LastTaskTrue == Spec => []LastTaskReported
  <1>1. Init => Newcomers /\ Reported
    BY RegisteredAssumption
    DEF Init, Newcomers, Reported, ReportedOn, Active, Fresh, NoProfile, OutcomeTold
  <1>2. Reported => LastTaskReported
    <2> SUFFICES ASSUME Reported, NEW c \in Configs, ~exposed[c], ~abandoned[c],
                        ~SomeTask(c), ~\E h \in Handlers : Serving(h, c), ~Erased(c)
                 PROVE  /\ profile[c].task = ended[c].task
                        /\ profile[c].outcome \in {ended[c].outcome, "failed"}
      BY DEF LastTaskReported
    <2>1. ~Working(c) /\ ~Stopping(c)
      BY DEF Working, SomeTask, Stopping, Serving
    <2>2. QED
      BY <2>1 DEF Reported, ReportedOn, OutcomeTold
  <1>3. QED
    BY <1>1, <1>2, StepNewcomers, StepReported, InvariantHolds, PTL DEF Spec
=============================================================================
