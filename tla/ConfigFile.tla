----------------------------- MODULE ConfigFile -----------------------------
(***************************************************************************)
(* config.conf and the ConfigLoader objects that share it                  *)
(* (functions/main.py).  Every request handler, every task and every       *)
(* helper of a task (Aws, Firewall, RunTask, TaskManager.reload_profile)   *)
(* builds a ConfigLoader of its own.  Building one is not a read: for each *)
(* section, load_all_aws_config rewrites the WHOLE file twice from the     *)
(* snapshot the constructor took, without the lock that write_changes      *)
(* holds.                                                                  *)
(*                                                                         *)
(* A loader stands for one such object, whichever thread owns it: the      *)
(* loaders of two threads, and two loaders of one thread, interleave here  *)
(* in the same way.                                                        *)
(*                                                                         *)
(* open("config.conf", "w") truncates the file at once; the text reaches   *)
(* it when the file object is closed, in one write (the file is smaller    *)
(* than the 8 KiB buffer).  A rewrite is therefore two steps, and a reader *)
(* in between sees an empty file.                                          *)
(***************************************************************************)
EXTENDS Naturals, Sequences

CONSTANTS
  Loaders,    \* the ConfigLoader objects that may be alive at once
  Sections,   \* names of the sections other than [api], in file order
  Keys,       \* the keys load_aws_config has a default for
  Vals,       \* the values of those keys
  Default,    \* the default load_aws_config supplies
  Absent,     \* "the section has no such key"
  NoLoader    \* "nobody holds config.conf.lock"

Config == {Sections[i] : i \in DOMAIN Sections}

ASSUME SectionsAssumption ==
  /\ Sections \in Seq(Config) /\ Sections # <<>>
  /\ \A i, j \in DOMAIN Sections : Sections[i] = Sections[j] => i = j

ASSUME ValsAssumption == Default \in Vals /\ Absent \notin Vals

ASSUME NoLoaderAssumption == NoLoader \notin Loaders

VARIABLES
  disk,       \* config.conf
  mem,        \* per loader: the sections of self.config
  pc,         \* per loader: the next step of the method it executes
  pos,        \* per loader: counter of load_all_aws_config
  temp,       \* per loader: temp_config of the write_changes in progress
  lock,       \* the holder of config.conf.lock
  (* history variables: what the callers of write_changes were promised *)
  dirty,      \* per loader: the keys given to set_value since they were saved
  saved       \* per section and key: the value last saved by write_changes

objects == <<mem, pc, pos, temp>>
history == <<dirty, saved>>
vars == <<disk, objects, lock, history>>

-----------------------------------------------------------------------------
(* A section has its order (0 stands for the empty string that             *)
(* reset_aws_config_order writes) and its keys.                            *)
Orders == 0 .. Len(Sections)
Section == [order : Orders, keys : [Keys -> Vals \cup {Absent}]]
NoSection == [order |-> 0, keys |-> [k \in Keys |-> Absent]]

(* What a file holds: whether configparser can parse it, whether it has    *)
(* [api], and the other sections in order.                                 *)
Image == [parses : BOOLEAN, api : BOOLEAN, names : Seq(Config),
          body : [Config -> Section]]
Empty == [parses |-> TRUE, api |-> FALSE, names |-> <<>>,
          body |-> [c \in Config |-> NoSection]]
Corrupt == [Empty EXCEPT !.parses = FALSE]

Has(img, c) == \E i \in DOMAIN img.names : img.names[i] = c

(* What is left of a loader whose owner has returned or died.              *)
NoObject == [names |-> <<>>, body |-> Empty.body]

(* The text a loader would write: all its sections, [api] included (no     *)
(* loader exists without [api], see ConfigLoader).                         *)
Text(l) == [parses |-> TRUE, api |-> TRUE, names |-> mem[l].names,
            body |-> mem[l].body]

(* Closing a file opened for writing.  If somebody else's text has arrived *)
(* since the file was truncated, this text is laid over it from offset 0;  *)
(* where the other one was longer its tail remains, and the result may or  *)
(* may not parse.  ([api] is the first section, so no tail restores it.)   *)
Written(img) == IF disk \in {Empty, img} THEN {img} ELSE {img, Corrupt}

(* Keys of o where it has them, of b elsewhere (configparser's update).    *)
Merge(o, b) ==
  [order |-> o.order,
   keys |-> [k \in Keys |-> IF o.keys[k] = Absent THEN b.keys[k] ELSE o.keys[k]]]

Effective(v) == IF v = Absent THEN Default ELSE v

-----------------------------------------------------------------------------
(* The operator's file has every section; some optional keys may be        *)
(* missing.                                                                *)
Init ==
  /\ \E ks \in [Config -> [Keys -> Vals \cup {Absent}]] :
       /\ disk = [parses |-> TRUE, api |-> TRUE, names |-> Sections,
                  body |-> [c \in Config |-> [order |-> 0, keys |-> ks[c]]]]
       /\ saved = [c \in Config |-> [k \in Keys |-> Effective(ks[c][k])]]
  /\ mem = [l \in Loaders |-> NoObject]
  /\ pc = [l \in Loaders |-> "none"]
  /\ pos = [l \in Loaders |-> 1]
  /\ temp = [l \in Loaders |-> Empty]
  /\ lock = NoLoader
  /\ dirty = [l \in Loaders |-> {}]

(* The step after which load_all_aws_config has seen n sections.           *)
AfterSection(l, n) == IF n < Len(mem[l].names) THEN "reset" ELSE "ready"

(* Mutation: the constructor does not need [api].                          *)
ConfigLoader_AnyFile(l) ==
  /\ pc[l] = "none"
  /\ disk.parses
  /\ mem' = [mem EXCEPT ![l] = [names |-> disk.names, body |-> disk.body]]
  /\ pc' = [pc EXCEPT ![l] = IF disk.names = <<>> THEN "ready" ELSE "reset"]
  /\ pos' = [pos EXCEPT ![l] = 1]
  /\ UNCHANGED <<disk, temp, lock, history>>

(* ConfigLoader(): read the file; load_api_config needs [api].             *)
ConfigLoader(l) ==
  /\ pc[l] = "none"
  /\ disk.parses /\ disk.api
  /\ mem' = [mem EXCEPT ![l] = [names |-> disk.names, body |-> disk.body]]
  /\ pc' = [pc EXCEPT ![l] = IF disk.names = <<>> THEN "ready" ELSE "reset"]
  /\ pos' = [pos EXCEPT ![l] = 1]
  /\ UNCHANGED <<disk, temp, lock, history>>

(* ConfigLoader() on a file that does not parse or has no [api] raises.    *)
ConfigLoaderRaises(l) ==
  /\ pc[l] = "none"
  /\ ~disk.parses \/ ~disk.api
  /\ UNCHANGED vars

(* set_value(c, "order", n) and open("config.conf", "w"), shared by        *)
(* reset_aws_config_order and reorder_aws_config.                          *)
OpenWithOrder(l, n) ==
  /\ mem' = [mem EXCEPT ![l].body[mem[l].names[pos[l]]].order = n]
  /\ disk' = Empty
  /\ UNCHANGED <<pos, temp, lock, history>>

reset_aws_config_order(l) ==
  /\ pc[l] = "reset"
  /\ pc' = [pc EXCEPT ![l] = "resetOpen"]
  /\ OpenWithOrder(l, 0)

reset_aws_config_order_close(l) ==
  /\ pc[l] = "resetOpen"
  /\ disk' \in Written(Text(l))
  /\ pc' = [pc EXCEPT ![l] = "reorder"]
  /\ UNCHANGED <<mem, pos, temp, lock, history>>

(* Mutation: the counter is advanced before it is used.                    *)
reorder_aws_config_late(l) ==
  /\ pc[l] = "reorder"
  /\ pc' = [pc EXCEPT ![l] = "reorderOpen"]
  /\ OpenWithOrder(l, pos[l] + 1)

reorder_aws_config(l) ==
  /\ pc[l] = "reorder"
  /\ pc' = [pc EXCEPT ![l] = "reorderOpen"]
  /\ OpenWithOrder(l, pos[l])

(* Mutation: the defaults are assigned without looking at has_option.      *)
WithDefaults_always(s) == [s EXCEPT !.keys = [k \in Keys |-> Default]]

(* load_aws_config: a missing optional key gets its default, in memory.    *)
WithDefaults(s) == [s EXCEPT !.keys = [k \in Keys |-> Effective(s.keys[k])]]

(* The second rewrite of a section ends, load_aws_config is called for it, *)
(* and the loop goes on.                                                   *)
reorder_aws_config_close(l) ==
  LET c == mem[l].names[pos[l]] IN
  /\ pc[l] = "reorderOpen"
  /\ disk' \in Written(Text(l))
  /\ mem' = [mem EXCEPT ![l].body[c] = WithDefaults(mem[l].body[c])]
  /\ pos' = [pos EXCEPT ![l] = IF pos[l] < Len(mem[l].names) THEN pos[l] + 1 ELSE 1]
  /\ pc' = [pc EXCEPT ![l] = AfterSection(l, pos[l])]
  /\ UNCHANGED <<temp, lock, history>>

-----------------------------------------------------------------------------
(* The methods of a loader that exists.                                    *)

set_value(l, c, k, v) ==
  /\ pc[l] = "ready"
  /\ mem' = [mem EXCEPT ![l].body[c].keys[k] = v]
  /\ dirty' = [dirty EXCEPT ![l] = @ \cup {<<c, k>>}]
  /\ UNCHANGED <<disk, pc, pos, temp, lock, saved>>

(* TaskManager calls load_all_aws_config a second time on the object it    *)
(* has just built: every section is rewritten once more.                   *)
load_all_aws_config(l) ==
  /\ pc[l] = "ready" /\ dirty[l] = {}
  /\ mem[l].names # <<>>
  /\ pc' = [pc EXCEPT ![l] = "reset"]
  /\ UNCHANGED <<disk, mem, pos, temp, lock, history>>

(* The owner returns or an exception ends it, and the object is collected. *)
Discard(l) ==
  /\ pc[l] = "ready"
  /\ pc' = [pc EXCEPT ![l] = "none"]
  /\ mem' = [mem EXCEPT ![l] = NoObject]
  /\ dirty' = [dirty EXCEPT ![l] = {}]
  /\ UNCHANGED <<disk, pos, temp, lock, saved>>

(* Mutation: a missing section is added together with [api].               *)
WithTarget_api(img, c, s) ==
  [parses |-> TRUE, api |-> TRUE,
   names |-> IF Has(img, c) THEN img.names ELSE Append(img.names, c),
   body |-> [img.body EXCEPT ![c] = Merge(s, img.body[c])]]

(* Mutation: temp_config is not filled from the file first.                *)
WithTarget_alone(img, c, s) ==
  [Empty EXCEPT !.names = <<c>>, !.body[c] = s]

(* The target section is created if the file has none, and every key of    *)
(* the loader's section is copied into it.                                 *)
WithTarget(img, c, s) ==
  [parses |-> TRUE, api |-> img.api,
   names |-> IF Has(img, c) THEN img.names ELSE Append(img.names, c),
   body |-> [img.body EXCEPT ![c] = Merge(s, img.body[c])]]

(* write_changes(c), first part: take the lock, read the file and update   *)
(* the target section of what was read.                                    *)
write_changes(l, c) ==
  LET ks == {k \in Keys : <<c, k>> \in dirty[l]} IN
  /\ pc[l] = "ready"
  /\ lock = NoLoader
  /\ disk.parses
  /\ lock' = l
  /\ temp' = [temp EXCEPT ![l] = WithTarget(disk, c, mem[l].body[c])]
  /\ pc' = [pc EXCEPT ![l] = "locked"]
  /\ saved' = [saved EXCEPT ![c] =
       [k \in Keys |-> IF k \in ks THEN mem[l].body[c].keys[k] ELSE saved[c][k]]]
  /\ dirty' = [dirty EXCEPT ![l] = @ \ {<<c, k>> : k \in ks}]
  /\ UNCHANGED <<disk, mem, pos>>

(* Reading a file that does not parse raises; `with` releases the lock and *)
(* the exception ends the owner's use of the loader.                       *)
write_changes_raises(l) ==
  /\ lock = NoLoader
  /\ ~disk.parses
  /\ Discard(l)

write_changes_open(l) ==
  /\ pc[l] = "locked"
  /\ disk' = Empty
  /\ pc' = [pc EXCEPT ![l] = "writeOpen"]
  /\ UNCHANGED <<mem, pos, temp, lock, history>>

(* The text arrives and the lock is released.                              *)
write_changes_close(l) ==
  /\ pc[l] = "writeOpen"
  /\ disk' \in Written(temp[l])
  /\ lock' = NoLoader
  /\ temp' = [temp EXCEPT ![l] = Empty]
  /\ pc' = [pc EXCEPT ![l] = "ready"]
  /\ UNCHANGED <<mem, pos, history>>

-----------------------------------------------------------------------------
Construct(l) ==
  \/ ConfigLoader(l)
  \/ ConfigLoaderRaises(l)
  \/ reset_aws_config_order(l)
  \/ reset_aws_config_order_close(l)
  \/ reorder_aws_config(l)
  \/ reorder_aws_config_close(l)

Use(l) ==
  \/ \E c \in Config, k \in Keys, v \in Vals : set_value(l, c, k, v)
  \/ load_all_aws_config(l)
  \/ \E c \in Config : write_changes(l, c)
  \/ write_changes_raises(l)
  \/ write_changes_open(l)
  \/ write_changes_close(l)
  \/ Discard(l)

(* The process dies: its loaders and its lock are gone, the file stays as  *)
(* it is.  A write_changes that was cut promised nothing: what the file    *)
(* holds then counts as saved.                                             *)
Crash ==
  /\ mem' = [l \in Loaders |-> NoObject]
  /\ pc' = [l \in Loaders |-> "none"]
  /\ pos' = [l \in Loaders |-> 1]
  /\ temp' = [l \in Loaders |-> Empty]
  /\ lock' = NoLoader
  /\ dirty' = [l \in Loaders |-> {}]
  /\ saved' = IF lock = NoLoader THEN saved
              ELSE [c \in Config |-> [k \in Keys |-> Effective(disk.body[c].keys[k])]]
  /\ UNCHANGED disk

Next == \E l \in Loaders : Construct(l) \/ Use(l)

Spec == Init /\ [][Next]_vars

CrashSpec == Init /\ [][Next \/ Crash]_vars

-----------------------------------------------------------------------------
PcValues == {"none", "reset", "resetOpen", "reorder", "reorderOpen", "ready",
             "locked", "writeOpen"}

(* Types of the file, of the loaders and of the lock; the loop counter of  *)
(* load_all_aws_config stays within the sections the loader read.          *)
TypeOK ==
  /\ disk \in Image
  /\ mem \in [Loaders -> [names : Seq(Config), body : [Config -> Section]]]
  /\ pc \in [Loaders -> PcValues]
  /\ pos \in [Loaders -> 1 .. Len(Sections)]
  /\ temp \in [Loaders -> Image]
  /\ lock \in Loaders \cup {NoLoader}
  /\ dirty \in [Loaders -> SUBSET (Config \X Keys)]
  /\ saved \in [Config -> [Keys -> Vals]]

(* A file that still has [api] still has every section, in the operator's  *)
(* order: write_changes may rebuild the file around its own section alone, *)
(* after reading it inside somebody's truncate window, but such a file     *)
(* never passes load_api_config.                                           *)
ApiImpliesAllSections ==
  disk.api => disk.names = Sections

(* Whatever the interleaving of rewrites and crashes, a loader that was    *)
(* built numbers the sections as the operator's file lists them, so the    *)
(* ports, addresses and directories derived from order never move to       *)
(* another config (load_all_aws_config).                                   *)
OrderStable ==
  \A l \in Loaders : pc[l] = "ready" =>
    /\ mem[l].names = Sections
    /\ \A i \in DOMAIN Sections : mem[l].body[Sections[i]].order = i

Quiet == \A l \in Loaders : pc[l] \in {"none", "ready"}

(* In a file every loader accepts, a value saved by write_changes stays    *)
(* until another write_changes saves a new one: what the lock of           *)
(* write_changes is for ("Use a lock file to prevent race conditions").    *)
SavedValuesKept ==
  Quiet /\ disk.parses /\ disk.api =>
    \A c \in Config, k \in Keys : Effective(disk.body[c].keys[k]) = saved[c][k]

(* The loaders live one after the other.                                   *)
Serial == \A l, m \in Loaders : pc[l] # "none" /\ pc[m] # "none" => l = m

(* One loader after the other keeps every saved value, through all the     *)
(* rewrites of its constructor, the defaults of load_aws_config and        *)
(* crashes: what the overlap of two loaders takes away.                    *)
SerialKeepsValues == []Serial => []SavedValuesKept

(* One loader after the other leaves the file whole, or empty when the     *)
(* process died inside a rewrite: never with a part of its sections, and   *)
(* never rebuilt by write_changes around one of them.                      *)
SerialKeepsSections ==
  []Serial => [](Quiet => IF disk.api THEN disk.parses /\ disk.names = Sections
                          ELSE disk.names = <<>>)
=============================================================================
