------------------------------ MODULE Firewall ------------------------------
(***************************************************************************)
(* The whitelist of each config and the rules of ufw that enforce it       *)
(* (functions/connection.py).  Every change_ip, change_region and          *)
(* change_whitelist deletes the rules of its config by their numbers and   *)
(* adds them again, in a thread of its own; the rule list belongs to the   *)
(* host and all configs share it.                                          *)
(*                                                                         *)
(* The application profile of a config (iprotate_<order>, its two proxy    *)
(* ports) is named by the config here.  ufw keeps one rule per profile and *)
(* address, applies the first rule that matches and allows what no rule    *)
(* matches (app.py sets that default).                                     *)
(***************************************************************************)
EXTENDS Naturals, Sequences, SequencesExt, FiniteSetsExt

CONSTANTS
  Configs,     \* the sections of config.conf
  Threads,     \* task threads
  Sources,     \* addresses of clients
  Junk,        \* an entry of a whitelist that is no address
  Anywhere,    \* "from any"
  Whitelists   \* the values of the key whitelist; {} is the empty string

ASSUME SourcesAssumption == Junk \notin Sources /\ Anywhere \notin Sources \cup {Junk}
ASSUME WhitelistsAssumption ==
  {} \in Whitelists /\ Whitelists \subseteq SUBSET (Sources \cup {Junk})

VARIABLES
  whitelist,   \* per config: the key whitelist in config.conf
  rules,       \* the rules of ufw, in order
  pc, config,  \* per thread: its next step, and config_name
  snapshot,    \* per thread: self.whitelist
  entries,     \* per thread: the part of it still to be applied
  indices,     \* per thread: the numbers of the rules still to be deleted
  (* history variables *)
  enforced,    \* per config: the last whitelist that was applied to its end
  settled,     \* per config: it was applied, and nothing has changed since
  slipped,     \* per config: a ufw command of it failed, which nobody notices
  stale,       \* per thread: a rule whose number it holds has moved
  crossed      \* a stale number was used, or a whitelist changed under a task

threads == <<pc, config, snapshot, entries, indices>>
history == <<enforced, settled, slipped, stale, crossed>>
vars == <<whitelist, rules, threads, history>>

-----------------------------------------------------------------------------
Rule == [app : Configs, action : {"allow", "reject"}, from : Sources \cup {Anywhere}]

Serving(t, c) == pc[t] # "idle" /\ config[t] = c
Permits(W, s) == W = {} \/ s \in W

(* What ufw does with a connection from s to a port of c.                  *)
Allowed(c, s) ==
  LET matching == {i \in DOMAIN rules : rules[i].app = c /\ rules[i].from \in {s, Anywhere}}
  IN  matching = {} \/ rules[Min(matching)].action = "allow"

(* `ufw allow` and `ufw reject`: a rule for the same profile and address   *)
(* is replaced where it stands, otherwise the new one goes to the end.     *)
With(r) ==
  LET same == {i \in DOMAIN rules : rules[i].app = r.app /\ rules[i].from = r.from}
  IN  IF same = {} THEN Append(rules, r) ELSE [rules EXCEPT ![Min(same)] = r]

Init ==
  /\ whitelist = [c \in Configs |-> {}]
  /\ rules = <<>>
  /\ pc = [t \in Threads |-> "idle"]
  /\ config \in [Threads -> Configs]
  /\ snapshot = [t \in Threads |-> {}]
  /\ entries = [t \in Threads |-> {}]
  /\ indices = [t \in Threads |-> {}]
  /\ enforced = [c \in Configs |-> {}]
  /\ settled = [c \in Configs |-> TRUE]
  /\ slipped = [c \in Configs |-> FALSE]
  /\ stale = [t \in Threads |-> FALSE]
  /\ crossed = FALSE

-----------------------------------------------------------------------------
(* A task of c arrives at its firewall part.                               *)
Begin(t, c) ==
  /\ pc[t] = "idle"
  /\ pc' = [pc EXCEPT ![t] = "Firewall"]
  /\ config' = [config EXCEPT ![t] = c]
  /\ settled' = [settled EXCEPT ![c] = FALSE]
  /\ crossed' = (crossed \/ \E u \in Threads : Serving(u, c))
  /\ UNCHANGED <<rules, snapshot, entries, indices, enforced, slipped, stale>>

(* RunTask.change_whitelist saves the new value before.                    *)
change_whitelist(t, c, W) ==
  /\ Begin(t, c)
  /\ whitelist' = [whitelist EXCEPT ![c] = W]

(* change_ip and change_region come here with the value of the file.       *)
generate_peer_config(t, c) == Begin(t, c) /\ UNCHANGED whitelist

(* RunTask.reset empties the key and leaves the rules as they are.         *)
reset(c) ==
  /\ whitelist' = [whitelist EXCEPT ![c] = {}]
  /\ settled' = [settled EXCEPT ![c] = FALSE]
  /\ crossed' = (crossed \/ \E u \in Threads : Serving(u, c))
  /\ UNCHANGED <<rules, threads, enforced, slipped, stale>>

(* Mutation: another config's section is read.                             *)
Firewall_other_section(t) ==
  /\ pc[t] = "Firewall"
  /\ pc' = [pc EXCEPT ![t] = "status"]
  /\ \E c \in Configs : snapshot' = [snapshot EXCEPT ![t] = whitelist[c]]
  /\ UNCHANGED <<whitelist, rules, config, entries, indices, history>>

(* Firewall(): read the whitelist, write the application profile.          *)
Firewall(t) ==
  /\ pc[t] = "Firewall"
  /\ pc' = [pc EXCEPT ![t] = "status"]
  /\ snapshot' = [snapshot EXCEPT ![t] = whitelist[config[t]]]
  /\ UNCHANGED <<whitelist, rules, config, entries, indices, history>>

(* Mutation: the rules are numbered from zero.                             *)
delete_rules_from_zero(t) ==
  /\ pc[t] = "status"
  /\ pc' = [pc EXCEPT ![t] = "delete"]
  /\ indices' = [indices EXCEPT ![t] = {i - 1 : i \in {j \in DOMAIN rules :
                                                         rules[j].app = config[t]}}]
  /\ UNCHANGED <<whitelist, rules, config, snapshot, entries, history>>

(* ufw.status(): the numbers of the rules of this config.                  *)
delete_rules(t) ==
  /\ pc[t] = "status"
  /\ pc' = [pc EXCEPT ![t] = "delete"]
  /\ indices' = [indices EXCEPT ![t] = {i \in DOMAIN rules : rules[i].app = config[t]}]
  /\ UNCHANGED <<whitelist, rules, config, snapshot, entries, history>>

(* ufw deletes what has number i now, and the later rules move up.         *)
Delete(t, i) ==
  /\ i \in DOMAIN rules
  /\ rules' = RemoveAt(rules, i)
  /\ indices' = [indices EXCEPT ![t] = @ \ {i}]
  /\ crossed' = (crossed \/ stale[t])
  /\ stale' = [u \in Threads |-> stale[u] \/ (u # t /\ \E j \in indices[u] : i <= j)]
  /\ UNCHANGED <<whitelist, pc, config, snapshot, entries, enforced, settled, slipped>>

(* Mutation: the rules are deleted from the first to the last.             *)
ufw_delete_forward(t) == indices[t] # {} /\ Delete(t, Min(indices[t]))

(* for index, rule in reversed(...): ufw.delete(index).                    *)
ufw_delete(t) == indices[t] # {} /\ Delete(t, Max(indices[t]))

(* All are deleted.                                                        *)
apply_whitelist(t) ==
  /\ pc[t] = "delete" /\ indices[t] = {}
  /\ pc' = [pc EXCEPT ![t] = "apply"]
  /\ entries' = [entries EXCEPT ![t] = snapshot[t]]
  /\ slipped' = [slipped EXCEPT ![config[t]] = FALSE]
  /\ UNCHANGED <<whitelist, rules, config, snapshot, indices, enforced, settled,
                 stale, crossed>>

(* os.system("ufw ..."): nobody looks at its exit status.                  *)
Command(t, action, from) ==
  LET c == config[t] IN
  \/ /\ rules' = With([app |-> c, action |-> action, from |-> from])
     /\ UNCHANGED slipped
  \/ /\ slipped' = [slipped EXCEPT ![c] = TRUE]
     /\ UNCHANGED rules

(* An address is allowed; ip_network raises on anything else (continue).   *)
apply_entry(t, e) ==
  /\ e \in entries[t]
  /\ IF e \in Sources THEN Command(t, "allow", e) ELSE UNCHANGED <<rules, slipped>>
  /\ entries' = [entries EXCEPT ![t] = @ \ {e}]
  /\ UNCHANGED <<whitelist, pc, config, snapshot, indices, enforced, settled, stale,
                 crossed>>

Return(t) ==
  /\ pc' = [pc EXCEPT ![t] = "idle"]
  /\ snapshot' = [snapshot EXCEPT ![t] = {}]
  /\ entries' = [entries EXCEPT ![t] = {}]
  /\ indices' = [indices EXCEPT ![t] = {}]
  /\ stale' = [stale EXCEPT ![t] = FALSE]
  /\ UNCHANGED <<whitelist, config, crossed>>

Close(t) ==
  /\ pc[t] = "apply"
  /\ Command(t, IF snapshot[t] = {} THEN "allow" ELSE "reject", Anywhere)
  /\ enforced' = [enforced EXCEPT ![config[t]] = snapshot[t]]
  /\ settled' = [settled EXCEPT ![config[t]] = TRUE]
  /\ Return(t)

(* Mutation: the closing rule does not wait for the addresses.             *)
apply_last_early(t) == Close(t)

(* The closing rule: reject everybody else or, without a whitelist, allow  *)
(* everybody.                                                              *)
apply_last(t) == entries[t] = {} /\ Close(t)

(* ufw has no rule of that number, another step raises, or the process     *)
(* dies; change_whitelist reports it, generate_peer_config logs it and     *)
(* goes on.  The rules stay as they are.                                   *)
Raises(t) ==
  /\ pc[t] # "idle"
  /\ Return(t)
  /\ UNCHANGED <<rules, enforced, settled, slipped>>

Next ==
  \/ \E c \in Configs : reset(c)
  \/ \E t \in Threads :
       \/ \E c \in Configs : generate_peer_config(t, c)
       \/ \E c \in Configs, W \in Whitelists : change_whitelist(t, c, W)
       \/ Firewall(t) \/ delete_rules(t) \/ ufw_delete(t) \/ apply_whitelist(t)
       \/ \E e \in Sources \cup {Junk} : apply_entry(t, e)
       \/ apply_last(t) \/ Raises(t)

Spec == Init /\ [][Next]_vars

-----------------------------------------------------------------------------
(* Type invariant.                                                         *)
TypeOK ==
  /\ whitelist \in [Configs -> Whitelists]
  /\ rules \in Seq(Rule)
  /\ pc \in [Threads -> {"idle", "Firewall", "status", "delete", "apply"}]
  /\ config \in [Threads -> Configs]
  /\ snapshot \in [Threads -> Whitelists]
  /\ entries \in [Threads -> SUBSET (Sources \cup {Junk})]
  /\ indices \in [Threads -> SUBSET (Nat \ {0})]
  /\ enforced \in [Configs -> Whitelists]
  /\ settled \in [Configs -> BOOLEAN]
  /\ slipped \in [Configs -> BOOLEAN]
  /\ stale \in [Threads -> BOOLEAN]
  /\ crossed \in BOOLEAN

(* Once its last task has run delete_rules and apply_whitelist to the end, *)
(* a config admits exactly the addresses of its whitelist, whatever the    *)
(* tasks of other configs are doing to the rule list: provided that no     *)
(* ufw command failed unnoticed and no stale number was used.              *)
WhitelistEnforced ==
  \A c \in Configs, s \in Sources :
    settled[c] /\ ~slipped[c] /\ ~crossed => (Allowed(c, s) <=> Permits(whitelist[c], s))

(* An address of the whitelist that was applied last is admitted until the *)
(* closing rule of the next one, at every moment of its task and wherever  *)
(* that fails: the order of deletions and of additions opens the ports,    *)
(* never shuts them.                                                       *)
NeverLockedOut ==
  \A c \in Configs, s \in Sources :
    ~slipped[c] /\ ~crossed /\ Permits(enforced[c], s) => Allowed(c, s)

(* The rules of a config in the list rs, each with itself and with the     *)
(* rules of the config that come after it.  There is one rule per address, *)
(* so this holds what they are and the order they are in.                  *)
RulesOf(c, rs) ==
  LET own == {i \in DOMAIN rs : rs[i].app = c}
  IN  {<<rs[p[1]], rs[p[2]]>> : p \in {q \in own \X own : q[1] <= q[2]}}
Steps(t) == <<pc[t], entries[t], indices[t]>>' # <<pc[t], entries[t], indices[t]>>
(* The rules of a config change only in a step of a task of that config.   *)
ChangedByOwner ==
  \A c \in Configs : RulesOf(c, rules') # RulesOf(c, rules)
                     => \E t \in Threads : Serving(t, c) /\ Steps(t)

(* Deleting by number, a task touches the rules of its own config alone,   *)
(* as long as no other task deletes a rule between its ufw.status() and    *)
(* its last ufw.delete().                                                  *)
OwnRulesOnly == [][~crossed' => ChangedByOwner]_vars

(* What delete_rules logs, "removing rule ... on index ...": the rule it   *)
(* removes is one it found under the name of its own profile.              *)
RemovesLoggedRule == [][ChangedByOwner]_vars
=============================================================================
