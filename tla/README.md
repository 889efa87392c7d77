# A TLA+ model of cloud-iprotate

cloud-iprotate is a Flask program that rotates the public address of proxies. Each
section of `config.conf` other than `[api]` is a *config*: one AWS account, one
instance in it, one wireguard tunnel and one set of proxy ports on the host. HTTP
requests start tasks (change the address, move to another region, reset, change the
credentials or the whitelist); a task runs for minutes in a thread of its own.

This directory models the parts in which threads, the shared file, the EC2 API, the
firewall, the instance and the units of systemd can get into each other's way.

## 1. Inventory

| component | source | state | operations |
|---|---|---|---|
| ConfigLoader | `functions/main.py` | `config.conf`, `config.conf.lock`, each object's snapshot | constructor (`load_api_config`, `load_all_aws_config`: reset and renumber `order`, two rewrites per section), `set_value`, `write_changes`, `change_region` |
| HTTP handlers | `app.py` | none of their own; the thread of the request | nine endpoints: check the key, log in to AWS, look at or change the profile, start a thread |
| TaskManager | `functions/task_manager.py` | `profile`: per config `status`, `current_task`, `last_task` | `register_profile`, `set_start_task`, `set_stop_task`, `reload_profile` |
| RunTask | `functions/run.py` | a `ConfigLoader` taken when the task starts | `change_ip`, `change_region`, `reset`, `change_auth`, `change_whitelist` |
| Aws | `functions/aws.py` | a second snapshot of the section; EC2 keeps instances, groups, keys, elastic addresses | `login`, `get_new_ip`, `terminate_instance`, `launch_instance`, `create_security_group`, `set_keypair` |
| generated files | `functions/main.py` from line 117 | files under `profile_config/`: wireguard, 3proxy, shadowsocks | `generate_profile_config`, `generate_3proxy_config`, `generate_shadowsocks_config`, `generate_peer_config` |
| Firewall, Socks5 | `functions/connection.py` | the numbered rules of ufw, one list for the host | `delete_rules`, `apply_whitelist`; one HTTP request through the proxy |
| SSHSetup, SetupHost | `functions/ssh_setup.py`, `change_eth.sh` | on the instance: the package, `wg0.conf`, the tunnel | `connect` with ten tries; install, copy, patch, enable, restart |
| ServiceManager, start-up | `functions/service.py`, `app.py` | units of systemd | start, stop, restart, `reset_all` |
| service scripts | `start_iprotate.sh`, `stop_iprotate.sh`, `iprotate@.service` | wireguard interfaces, routes | run by systemd when a unit starts or stops |

How they interact. A handler builds a `ConfigLoader`, an `Aws` object (which builds
another one), reads or writes `task.profile`, and starts a thread with
`set_start_task`. That thread marks the profile, builds `RunTask` (another loader),
runs the task (at least one more loader per `Aws`, `Firewall`, ...), clears the
profile and reloads it (another loader). The threads therefore share `config.conf`,
`task.profile`, the AWS account, the rules of ufw, and per config the generated files
and the unit. None is protected by a lock except the body of `write_changes`.

What is hard here:

* **The file.** Building a loader rewrites the whole file, so requests that only
  read it are writers too. `open(..., "w")` empties the file before the text arrives.
* **The profile.** The status is checked in one thread and set in another, three
  endpoints do not check it, and a failed login of any request clears it.
* **The account.** Calls take effect and lose their answer, the process dies between
  a call and the write that records it, and objects write back sections they read
  minutes ago. A reset does not wait for a rotation.
* **The firewall.** Rules are deleted by numbers that move when another task deletes,
  and nobody looks whether a `ufw` command worked.
* **The files and the unit.** Two tasks write the files of one config and start or
  stop its unit; `systemctl start` does nothing for a unit that is running.
* **The instance.** `connect` gives up after ten tries and its caller ignores that;
  remote commands have no time limit and their results are not looked at.
* **Numbers and names.** Ports come from the place of a section in a file the operator
  edits; the scripts cut the interface's name out of the unit's name, and may find the
  interface of another config.

What makes each part correct:

* file: sections and their numbering survive every interleaving; saved values stay;
* profile: "busy" goes away again, an idle config shows no task, the check keeps
  tasks of one config apart when nothing by-passes it, the last task is shown with its
  own outcome;
* account: one instance at most, where the file says, and success only when the file
  and the account agree;
* firewall: a config admits its whitelist, a listed address is never shut out, a task
  touches its own config's rules alone;
* rotation: at rest the unit runs with the files on disk, after a success both ends of
  the tunnel fit, saved credentials are asked for, every task ends or hangs remotely;
* units: running units share no port, a tunnel follows its unit.

## 2. The modules

    OneInstance <--implements-- Account <---- AccountProofs
                                   ^--------- MCAccount
                                   ^--------- ResetRace (two instances of Account)
    TaskManager <---- TaskManagerProofs,  MCTaskManager
    ConfigFile  <---- ConfigFileProofs,   MCConfigFile
    Rotation    <---- RotationProofs,     MCRotation
    Units       <---- UnitsProofs,        MCUnits
    Firewall    <---- FirewallProofs,     MCFirewall

### ConfigFile

One *loader* is one `ConfigLoader` object, whoever owns it. `disk` is `config.conf`,
abstracted to: does it parse, does it have `[api]`, the list of other sections, and per
section its `order` and its optional keys. `mem[l]` is `self.config`, `temp[l]` is
`temp_config` of a `write_changes` in progress, `lock` is `config.conf.lock`.

A rewrite is two steps, truncate and close. If somebody else's text has arrived in
between, the second text is laid over the first (`Written`); where the first was
longer the result may not parse any more. The constructor is `ConfigLoader`, then for
each section `reset_aws_config_order`, its close, `reorder_aws_config`, its close;
`write_changes` is take the lock and read, truncate, write and unlock. `Crash` ends the
process anywhere; a `write_changes` it cuts has promised nothing. `dirty` and `saved` are
history variables: which values were given to `set_value` and saved.

Most of what one would like to say of the file is true only while loaders do not
overlap. `SerialKeepsValues` and `SerialKeepsSections` say it in that form: `[]Serial =>
[](...)`. What holds in every interleaving is `ApiImpliesAllSections` and `OrderStable`.

Assumptions about the environment: the file fits in one buffer (8 KiB), so its text
arrives in one write; `[api]` is its first section, as in `config.conf.example`.

### TaskManager

`profile` is `TaskManager.profile`, each assignment to one of its entries a step.
Request threads (`hpc`, `req`) follow the handlers of `app.py`; task threads (`wpc`,
`job`) follow `set_start_task` line by line. `Abandon` is a thread that ends in
`RunTask()` (outside any `try`) or whose task never returns (no remote command has a
timeout). History variables: `abandoned`; `ended`, the task that ended last and its
outcome, "failed" for an abandoned one; `exposed`, set by each event after which two tasks of one config may run side by side:

* `change_ip` or `change_region` passes `check_task_status` while a thread was started
  and has not written "busy", or has cleared it and not returned from `reload_profile`;
* `reset`, `change_auth` or `change_whitelist` starts although a task is there;
* a handler's failed login calls `set_stop_task` under a running task;
* the second of two concurrent `register_profile` calls replaces the profile under a
  running task.

`LastTaskReported` excepts these and two more cases: an abandoned task, whose `task_type`
stands beside the status of the task before it, and a second registration that comes
after the task (`Erased`).

### Account

One config, one task thread (the case `OneTaskPerConfig` describes), the section's
`region` and `instanceid`, and the account as EC2 keeps it: running and terminated
instances and their regions, security groups, ingress rules, keys, elastic addresses
with their tag and association. Each EC2 call that changes something is a step that
may also take effect and lose its answer; `CallRaises` is any call that fails without
effect, `Crash` the end of the process. The two snapshots are variables, because the
code writes them back whole: `self_config` (`RunTask.config`) and `aws`. Steps after
the AWS calls (wireguard, services, verification) are `finish` or `CallRaises` here and
modelled in `Rotation`.

Two things the code looks as if it did and does not, which the model follows:
`launch_instance` never reuses an instance, and `get_start_process` always calls
`register_profile`, because `hasattr` on a dictionary does not look at its keys.

### OneInstance

The promise `Account` is shown to implement: launch only when nothing runs and only in
the home region, terminated instances stay terminated, the home region moves only when
nothing runs.

### ResetRace

The composition of `Account` with itself: the file and the account are shared, one
instance of the module is the task of `/change_ip` or `/change_region`, the other one
that of `/reset`, which starts without a look at the status. It has one property,
`BothSuccessesTrue`, which fails (section 5).

### Firewall

`rules` is ufw's list; `Allowed(c, s)` is ufw's first-match decision, `With` its
replacement of a rule for the same profile and address. A task reads its whitelist
(`Firewall`), reads the numbers of its rules (`delete_rules`), deletes them from the
last to the first (`ufw_delete`), adds an allow rule per entry (`apply_entry`; entries
that are no address are skipped), and ends with a reject or allow rule for everybody
(`apply_last`). A `ufw` command may fail unnoticed (`slipped`), and a task may end at any
step (`Raises`): `generate_peer_config` catches that and goes on. History variables:
`settled` and `enforced`, what was applied to the end; `stale`, a number that has moved;
`crossed`, a stale number was used, or two tasks of one config met here.

### Rotation

One config: `change_ip`, `change_region` and `change_auth` around and after the AWS calls.
`files` are the generated files, by the values they were made from; `unit.loaded` is what
the unit read when it was started; `host` is the instance. A task has two old copies of
the credentials, `creds` in its `ConfigLoader` and `aws` in its `Aws` object, and three
AWS steps write the section back with one of them. Then follow the steps of the code:
the files, `connect` with `Tries` attempts, the five remote stages, stop, restart or
start, verification. `change_auth` has a shorter path through the same files and the
same unit. `Hang` is a remote command that never ends, `Raises` any exception, `Crash`
and `reset_all` the end and the start of the program. History: `promised`, the last
saved credentials; `torn`, a task ended between its writes and the start of the unit;
`served`, `rotated`, `slipped`.

Rotations of one config exclude each other here: that is `OneTaskPerConfig` of
`TaskManager`. The loaders a task builds at its start are one snapshot.

### Units

`sections` is the list in `config.conf`, which the operator edits; a unit is an order
and a name; `wg` is the state of the interface of each unit's own name: down, down with a
rule of `PostUp` left, up with all of `PostUp`, up with `PreDown` run, or up with no peer
or that of another config. `start_script` and `stop_script` are the two shell scripts.
`Asked(u)` is the unit whose interface they look for: `cut -f2,3` and `cut -d.` leave
`ip_<order>_aws` of `aws`, `aws_us` and `aws.1` alike (`First`). If it is there
(`Shown`), a start is `wg syncconf` on that interface, with the file of the unit that
starts or, for a name with an underscore, with no file (`HasFile`); a stop is `wg-quick
down` of the unit's own file. `wg_quick` may fail at each of its parts and is cut short
after two seconds when it stops (`spoiled`). `reset_all`, `reset_all_stop` and
`run` are the start of the program. `Ports` are the ports of an order.

## 3. The runs

| run | instance | distinct states | shows |
|---|---|---|---|
| `account` | 3 regions (2 usable), 3 instance ids, 2 elastic addresses | 39,620 | all properties of `Account`, and that it implements `OneInstance` |
| `task_threads` | 1 registered config, 2 request threads, 2 task threads, `change_ip` and `reset` | 1,582,963 | type, `BusyHasWorker`, `IdleWhenQuiet`, `OneTaskPerConfig`, `LastTaskReported` |
| `task_new_config` | 1 config that was not there at the start, `change_ip` and `change_whitelist` | 1,277,089 | the same hazards with `register_profile` and its race, and `LastTaskReported` |
| `task_liveness` | 2 configs, one of them unregistered, 1 request and 2 task threads, `change_region` and `get_config` | 70,719 | `BusyClears` |
| `config_races` | 2 loaders, 2 sections, 1 key, crashes | 911,144 | `ApiImpliesAllSections`, `OrderStable` in every interleaving; `SerialKeepsValues`, `SerialKeepsSections` |
| `firewall` | 2 configs, 2 tasks, 2 addresses, 3 whitelists | 772,376 | `WhitelistEnforced`, `NeverLockedOut`, `OwnRulesOnly` |
| `rotation` | 2 tasks, 2 credentials, 2 addresses, 2 tries, crashes | 3,628,336 | `QuietIsServed`, `TunnelMatchesInstance` |
| `rotation_serial` | 1 task at a time, 3 credentials, fair | 717,969 | `AuthServed`, `TaskEnds` |
| `units` | 3 names, plain and cut to it, 2 sections at most, 1 spoiled interface at a time | 1,201,427 | `NoPortClash`, `TunnelFollowsUnit` |
| `config_lost_update`, `firewall_wrong_rule`, `reset_race` | 2 loaders; as `firewall`; 2 regions, 3 ids | until violated | findings, section 5 |

Why the bounds are enough to be interesting:

* account: two ids are used up by a launch that is not recorded and the one that
  replaces it, the third allows one more region change; two addresses let one stay
  behind from a failed task while the next one is allocated; the region outside
  `OptedIn` is needed for the config that cannot log in any more;
* threads: every race listed in section 2 takes two requests and two tasks of one
  config; one endpoint that checks the status and one that does not cover both entries.
  Configs share nothing in the profile, so one is enough for safety; liveness uses two
  so that traffic for one cannot starve the other;
* file: a lost update, an overlaid text and a file rebuilt around one section take two
  loaders; two sections are the least with an order to mix up;
* firewall: two tasks of two configs are needed for a number to move; with two
  addresses a whitelist can lose one and keep the other, and the third whitelist has an
  entry that is no address. States after `crossed` are cut off (`Uncrossed`), because
  the properties of that run say nothing about them;
* rotation: two tasks can interleave their writes, stops and starts; two addresses, so
  that an endpoint can be outdated; two tries reach the first failure, the last one and
  a success after a failure. One task at a time needs three credentials to tell the
  saved one, the one before and the empty default apart;
* units: two sections and three names allow a config to take the place, and so the
  ports, of another one of any kind, and an underscored or dotted one to come upon the
  running plain one. `OneSpoiled` cuts off states with two interfaces that wg-quick
  spoiled; `TunnelFollowsUnit` says nothing of those units, and its proof has no such bound.

The number of instance ids, addresses and task threads bounds the runs: when ids are
used up EC2 refuses (`CallRaises`), which is also a real answer. No counter needs a cap.

**Fairness.** Only `BusyClears` and `TaskEnds` need it: weak fairness of each task thread
(`FairSpec` of `TaskManager` and of `Rotation`), because the interpreter and the operating
system let every thread run. Nothing is assumed about when requests arrive, about
request threads, or that an attempt to connect ever succeeds. A task that never returns
is not excluded by fairness: it is `Abandon` in one module and `Hang` in the other, and
both properties say so.

## 4. Proofs

TLAPS checks these for every value of the constants. The assumptions are the ASSUMEs of
the modules: `NoInstance` and `NoLoader` are no members of the sets they are outside
of, section names are distinct and there is one at least, the home region is usable,
the default is a value, `connect` makes one attempt at least, 60000 plus the number
of sections is a port, and the first part of a name (`First`) has no underscore and no
dot and is the whole of a name without them.

**AccountProofs.** `TypeCorrect`, `NeverTwoInstances`, `NoneLeftBehind`,
`SuccessIsTrue`, `NoAddressLeft`, `UnusableEmpty`, `Reachable`, `ChangeIpSafe` and
`Refinement`.
None of these properties is inductive: that `create_instances` is safe depends on what
the task did before. `Invariant` adds, per step of the task, what has been established:
`StepsOfTasks` (which task is where), `Snapshots` (how the objects relate to the
file), `InstancesAtStep` (nothing runs from the end of `terminate_instance` to
`create_instances`), `SetupAtStep`, `AddressesAtStep`.

**TaskManagerProofs.** `TypeCorrect`, `BusyIsTracked`, `QuietIsIdle`, `OneTask` and
`LastTaskTrue`.
The invariant adds that only requests for a task reach the start of a thread
(`ThreadsAreTasks`), that a current task has an owner who will clear it
(`CurrentHasOwner`), and that on a config that is not exposed the task threads and
the requests about to start one exclude each other, and the profile shows the task
while it is marked (`Exclusive`). Steps that leave the profile alone are
handled once by lemmas about quiet steps; every other action has a lemma of its own.
`LastTaskTrue` needs a second invariant on top of the first, `Reported`: from the write of
`last_task` to its end the only thread of a config is the one `last_task` names, and when
it comes to `reload_profile` the outcome is its own; when there is no such thread
(`Working`), `last_task` names the task that ended last (`ended`) with its outcome, unless
that task was abandoned, a handler is in the middle of `set_stop_task` (`Stopping`), or a
registration erased it. Handlers write there as well, but on a config that is not exposed
only the outcome "failed". `Newcomers` says that only configs that came after the start are
ever registered by a handler.

**ConfigFileProofs.** `TypeCorrect`, `ApiMeansWhole`, `OrderNeverMoves`, `SerialValues` and
`SerialSections`, all with crashes. The invariant adds that every loader past its constructor's first step holds
all sections (`MemWhole`), that a text under composition has `[api]` only together with
all sections (`TempWhole`), how far the numbering has got in the loop (`Numbered`), and
that values under way are values (`DirtyHaveValues`).
The two `Serial` theorems have the form `CrashSpec => ([]Serial => []P)`: while every state
of the behaviour has at most one live loader, `SerialInv` is inductive. It follows a saved
value on its way: it is in the file outside a rewrite, in the loader's memory while the
constructor has the file truncated, in `temp_config` while `write_changes` has; and a crash
leaves the file either empty or with every saved value.

**FirewallProofs.** `TypeCorrect`, `OwnRules`, `Enforced` and `AlwaysAdmitted`, for any
number of configs, tasks and addresses and a rule list of any length. `Base` holds in every
interleaving: the numbers a task holds, unless they are stale, are numbers of its own
config's rules (`Numbers`), a profile has one rule per address (`Unique`), and only the
rule for everybody rejects (`Rejecting`). So a deletion by a number that is not stale takes
one of the task's own rules, and lemmas about `RemoveAt`, `Append` and `With` show that the
rules of all other configs stay what they are and in their order. That is why the two
properties about one config follow from the steps of its own task, in `Apart`, which holds
until tasks have crossed: the rejection of everybody comes last among the config's rules,
after a rule for every address of the whitelist applied last (`Fenced`), because
`apply_whitelist` adds it last and `delete_rules` starts with the last rule; `Adding` says
what a task has added when it gets there. The greatest and the least of a task's numbers
(`Max`, `Min`) exist because the order of the naturals is well-founded; the library's
theorem about minimal elements takes no operator and can be cited.

**RotationProofs.** `TypeCorrect`, `QuietServed`, `TunnelMatches`, `AuthKept` and
`AuthKeptInTurn`, for any number of tasks, credentials and attempts. The invariant has three parts besides the types:
`Control` (which task can be at which step, rotations exclude each other, what a crash
clears), `Loaded` (a running unit has read the files unless some task has yet to stop or
restart it, and it runs unless some task has yet to start it) and `Progress` (what a
rotation has achieved on the instance and in the files when it is at a step). `Loaded` is
the argument for the start that does nothing: whoever wrote last has yet to stop the
unit, so a unit that runs when `start` looks at it was started after that stop.
`AuthServed` is no theorem of the specification: tasks side by side break it (section 5).
`AuthKept` says which ones. It assumes only that `change_auth` never begins while another
task of the config runs (`ChangesAlone`); rotations may begin beside a `change_auth`, fail,
hang or be cut by a crash. Its invariant `AuthInv`: `config.conf` and all copies that
running tasks hold are what was promised, and so is each file such a task has written.
`AuthKeptInTurn` is the case of one task at a time, which `rotation_serial` checks.

**UnitsProofs.** `TypeCorrect`, `PortsApart` and `TunnelFollows`, for any names and up to
5535 sections. The invariant adds that while the program starts every unit that
`reset_all` can stop is still on its list (`Listed`), and that afterwards those that run
are units of the present numbering (`Numbered`). `TunnelFollows` rests on `Numbered`: a
start that finds the interface of a running unit of another name has that unit's order,
and two units of the present numbering never share one, so the file was edited. Two lemmas show that inserting a new
name into a sequence, or removing one, keeps the names distinct.

Every safety property and every action property that a passing run checks is stated by a
theorem. Only model-checked: `BusyClears` and `TaskEnds`, because liveness under fairness
is out of the prover's reach. The three runs that expect a violation have nothing to prove.

## 5. Findings

1. `config_lost_update`: `write_changes` takes a lock "to prevent race conditions"
   (`functions/main.py:26`), but every constructor rewrites the file without it, from
   an older snapshot. A saved whitelist, region or instance id is lost.
2. `firewall_wrong_rule`: `delete_rules` logs "removing rule {rule} on index {index}"
   (`functions/connection.py:69`) and deletes by that index. When another config's task
   has deleted a rule with a lower number since, a rule of another config goes, possibly
   the one that closes its ports.
3. `reset_race`: `/reset` starts beside a rotation. Both answer success, and an instance
   runs that `config.conf` does not name, perhaps in a region it does not name either.

What the proofs say next to finding 1: even so, no loader ever works with a part of the
sections or with another numbering. The damage is lost values, or a file that nobody
accepts, never a config that silently gets another config's ports.

Further observations from the models, which explain why some properties above are
restricted:

* Overlapping loaders can also lose sections: `write_changes` may read the file while
  another loader has it truncated, and leave its own section alone, without `[api]`.
  Every later `ConfigLoader()` raises. Hence `Serial` in `SerialKeepsSections`.
* Two `change_auth` of one config, or one beside a `change_ip` with its older loader, write
  the two proxy files alternately: both answer success, 3proxy asks for one set of
  credentials and shadowsocks for the other. The AWS steps also write the older
  credentials back to `config.conf`. Hence one task at a time in `rotation_serial`.
* A section name with an underscore gets a unit without a tunnel, because
  `start_iprotate.sh` looks for a file of a shortened name; with a dot the stop script
  leaves the tunnel up, unless a unit of the shortened name runs, and `reset_all` stops a
  unit that does not exist. Hence `Plain` in `TunnelFollowsUnit` and `Dotted` in
  `NoPortClash`.
* The shortened name may be that of another config. When the operator's edit gives
  `aws_us` or `aws.1` the number of a unit of `aws` that still runs, the start of the new
  unit finds `ip_<order>_aws` and runs `wg syncconf` on it: the running unit's tunnel
  loses its peer or gets another config's, until it is stopped and started. Hence `edited`
  in `TunnelFollowsUnit`.
* A task whose `RunTask()` raises (`config.conf` is unreadable at that moment) has written
  its `task_type` already: the profile stays busy with it, and `last_task` shows it with
  the status of the task before, which may be "success". Hence `abandoned` in
  `BusyHasWorker`, `IdleWhenQuiet` and `LastTaskReported`.
* README.md documents `change_region?...&region=...`; the handler reads `new_region` and
  answers "New region is not provided".
* A change of region to one the account has not opted into is written before the login
  fails, after which every login of the config fails (`UnusableRegionIsEmpty`).

## 6. Not modelled

* The text of the generated wireguard, 3proxy and shadowsocks files, of the replies and
  of the logs; the API key check (a request with a wrong key changes nothing).
* The result of `Socks5.get_external_ip`: the loop around it ends in success whatever it
  returns. It installs a global opener, so that the request of one config may go
  through the proxy of another; nothing depends on that.
* `order` as a routing table and as a byte of an address: tables 253 to 255 are
  reserved and 256 is no byte. The code sets no limit on the number of sections.
* What a reset does to files and unit while a rotation runs (`Rotation` has no reset; its
  effect on the account is in `ResetRace`, that on the whitelist in `Firewall`).
* `systemctl` calls that return before the unit has started or stopped.
* `reload_iprotate.sh` (`iprotate@.service` names it under a key that systemd ignores),
  `wg_reload`, and methods of `SSHSetup` without a caller.
* `/get_task`, `check_last_task`, `execute_task`, `reload_config`: they do not change the
  shared state, or nobody calls them.
* `garbage/`, `ansible/`, media: not imported by the program. More than 450 of the
  repository's lines of Python are in `garbage/`.

## 7. Plan

Done: all modules of section 2, and proofs of every safety property the passing runs
check. What is left:

1. **ResetRace**: which property of `Account` survives a reset beside a rotation, and an
   invariant for it; `BothSuccessesTrue` shows that the agreement of file and account does
   not.
2. **TaskManager and Rotation**: `Rotation` assumes of its tasks what `OneTaskPerConfig`
   promises; a module that states the promise once, as an abstract specification both
   refer to, would make the composition a theorem.
3. **Steps towards liveness**: that each step of `connect` brings the attempts nearer to
   `Tries`, and the like for the loops of `ConfigFile`, as action properties.
