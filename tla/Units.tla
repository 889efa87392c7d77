------------------------------- MODULE Units -------------------------------
(***************************************************************************)
(* The units iprotate@iprotate_<order>_<name> of systemd, the start and    *)
(* stop scripts they run, and the start of the program, which stops them   *)
(* all (functions/service.py, app.py, *.sh).  A unit's ports come from its *)
(* order, and the order of a config is its place in config.conf, which the *)
(* operator edits and every ConfigLoader numbers again.                    *)
(*                                                                         *)
(* The scripts cut the name of the wireguard interface out of the name of  *)
(* the unit, by "_" and by ".": a unit whose config has either in its name *)
(* asks for the interface of another config.  systemd runs one job of a    *)
(* unit at a time, and runs ExecStop also when the main process ends by    *)
(* itself.                                                                 *)
(***************************************************************************)
EXTENDS Naturals, Sequences, SequencesExt

CONSTANTS
  Names,        \* names of sections
  Underscored,  \* those with an underscore
  Dotted,       \* those with a dot
  First,        \* per name: its part before the first underscore or dot
  MaxSections   \* bound on the sections of config.conf

ASSUME KindsAssumption == Underscored \subseteq Names /\ Dotted \subseteq Names
(* A name with neither is its own first part, and no first part has one.   *)
ASSUME FirstAssumption ==
  \A n \in Names :
    /\ n \notin Underscored \cup Dotted => First[n] = n
    /\ First[n] \notin Underscored \cup Dotted
(* 60000 + order is a port.                                                *)
ASSUME MaxSectionsAssumption == MaxSections \in 1 .. 5535

VARIABLES
  sections,    \* config.conf: its sections, in order, without [api]
  phase,       \* of the program: "down", "starting" (reset_all), "up"
  todo,        \* the running services reset_all has listed and not handled
  running,     \* the units that are running
  wg,          \* per unit: the interface of its own name
  (* history variables *)
  edited,      \* the operator edited config.conf since the program was up
  spoiled      \* the units whose wg-quick was cut short or failed, until it
               \* takes their interface down completely

vars == <<sections, phase, todo, running, wg, edited, spoiled>>

-----------------------------------------------------------------------------
Orders == 1 .. MaxSections
Unit == [order : Orders, name : Names]
Plain == {u \in Unit : u.name \notin Underscored \cup Dotted}

(* An interface is down; down, but a rule of PostUp is left in the routing *)
(* table; up with all that PostUp sets; up without its `allowed-ips        *)
(* 0.0.0.0/0`; or up with no peer or the peer of another config.           *)
Interface == {"down", "stray", "full", "narrow", "foreign"}
IsUp(i) == i \notin {"down", "stray"}

(* Of ssserver, wireguard, sslocal and 3proxy.                             *)
Ports(o) == {30000 + o, 40000 + o, 50000 + o, 60000 + o}

Init ==
  /\ sections \in {s \in UNION {[1 .. n -> Names] : n \in 0 .. MaxSections} : IsInjective(s)}
  /\ phase = "down"
  /\ todo = {} /\ running = {}
  /\ wg = [u \in Unit |-> "down"]
  /\ edited = FALSE /\ spoiled = {}

-----------------------------------------------------------------------------
(* The unit whose interface the scripts ask for: `cut` leaves of the name  *)
(* what comes before the first underscore or dot.                          *)
Asked(u) == [order |-> u.order, name |-> First[u.name]]
(* `wg show $interface_name` finds it.                                     *)
Shown(u) == Asked(u) \in Unit /\ IsUp(wg[Asked(u)])
(* $wg_config is the unit's file, unless an underscore has shortened it.   *)
HasFile(u) == u.name \notin Underscored

(* wg-quick leaves the interface as one of these, and then it has failed   *)
(* or was cut short unless it did what it was to do.                       *)
wg_quick(u, outcomes, done) ==
  \E i \in outcomes :
    /\ wg' = [wg EXCEPT ![u] = i]
    /\ spoiled' = IF i # done THEN spoiled \cup {u}
                  ELSE IF done = "down" THEN spoiled \ {u} ELSE spoiled

(* start_iprotate.sh.  syncconf gives the interface that is shown the peer *)
(* and the AllowedIPs of the unit's file, or no peer without a file, and   *)
(* runs no PostUp; wg-quick up runs it, unless the interface is there      *)
(* already.  The proxies start in any case.                                *)
start_script(u) ==
  CASE Shown(u) ->
         /\ wg' = [wg EXCEPT ![Asked(u)] = IF u \in Plain THEN "narrow" ELSE "foreign"]
         /\ UNCHANGED spoiled
    [] ~Shown(u) /\ HasFile(u) /\ ~IsUp(wg[u]) ->
         wg_quick(u, {"full", "stray", wg[u]}, "full")
    [] OTHER -> UNCHANGED <<wg, spoiled>>

(* Mutation: the tunnel stays when the unit stops.                         *)
stop_script_keeps(u) == UNCHANGED <<wg, spoiled>>

(* stop_iprotate.sh: wg-quick down of the unit's file, if the script finds *)
(* the interface it asks for.  It runs PreDown, deletes the interface and  *)
(* runs PostDown; it may fail at each, and after two seconds               *)
(* (TimeoutStopSec) the script is cut short.                               *)
stop_script(u) ==
  IF Shown(u) /\ HasFile(u) /\ IsUp(wg[u])
  THEN wg_quick(u, {"down", "stray", "narrow", wg[u]}, "down")
  ELSE UNCHANGED <<wg, spoiled>>

Stop(u) ==
  /\ u \in running
  /\ running' = running \ {u}
  /\ stop_script(u)

(* ServiceManager.stop, or the end of the unit's main process.             *)
stop(u) == Stop(u) /\ UNCHANGED <<sections, phase, todo, edited>>

(* The units of the configs, by the order and the name a task reads.       *)
Current == {[order |-> o, name |-> sections[o]] : o \in DOMAIN sections}

(* ServiceManager.start; restart_iprotate_service is stop and start.       *)
start(u) ==
  /\ phase = "up" /\ u \in Current \ running
  /\ running' = running \cup {u}
  /\ start_script(u)
  /\ UNCHANGED <<sections, phase, todo, edited>>

-----------------------------------------------------------------------------
(* reset_all lists the units whose state is "running" ...                  *)
reset_all ==
  /\ phase = "down"
  /\ phase' = "starting" /\ todo' = running
  /\ UNCHANGED <<sections, running, wg, edited, spoiled>>

(* ... and stops one after the other.  service.split(".")[0] shortens a    *)
(* name with a dot: a unit that does not run is stopped instead.           *)
reset_all_stop(u) ==
  /\ phase = "starting" /\ u \in todo
  /\ todo' = todo \ {u}
  /\ IF u \in running /\ u.name \notin Dotted
     THEN Stop(u)
     ELSE UNCHANGED <<running, wg, spoiled>>
  /\ UNCHANGED <<sections, phase, edited>>

(* Mutation: requests are served while units are still being stopped.      *)
run_early ==
  /\ phase = "starting"
  /\ phase' = "up" /\ edited' = FALSE
  /\ UNCHANGED <<sections, todo, running, wg, spoiled>>

(* app.run.                                                                *)
run ==
  /\ phase = "starting" /\ todo = {}
  /\ phase' = "up" /\ edited' = FALSE
  /\ UNCHANGED <<sections, todo, running, wg, spoiled>>

(* The process ends, or stop raises in reset_all.                          *)
Crash ==
  /\ phase # "down"
  /\ phase' = "down" /\ todo' = {}
  /\ UNCHANGED <<sections, running, wg, edited, spoiled>>

(* Mutation: a section may come twice (a parser that is not strict).       *)
add_section_twice(n, i) ==
  /\ Len(sections) < MaxSections
  /\ sections' = InsertAt(sections, i, n)
  /\ edited' = TRUE
  /\ UNCHANGED <<phase, todo, running, wg, spoiled>>

(* The operator edits config.conf, at any time.  A second section of the   *)
(* same name would be refused by configparser.                             *)
add_section(n, i) ==
  /\ Len(sections) < MaxSections
  /\ \A j \in DOMAIN sections : sections[j] # n
  /\ sections' = InsertAt(sections, i, n)
  /\ edited' = TRUE
  /\ UNCHANGED <<phase, todo, running, wg, spoiled>>

remove_section(i) ==
  /\ sections' = RemoveAt(sections, i)
  /\ edited' = TRUE
  /\ UNCHANGED <<phase, todo, running, wg, spoiled>>

Next ==
  \/ \E u \in Unit : start(u) \/ stop(u) \/ reset_all_stop(u)
  \/ reset_all \/ run \/ Crash
  \/ \E n \in Names, i \in 1 .. Len(sections) + 1 : add_section(n, i)
  \/ \E i \in DOMAIN sections : remove_section(i)

Spec == Init /\ [][Next]_vars

-----------------------------------------------------------------------------
(* Type invariant.                                                         *)
TypeOK ==
  /\ sections \in Seq(Names) /\ Len(sections) <= MaxSections /\ IsInjective(sections)
  /\ phase \in {"down", "starting", "up"}
  /\ todo \subseteq Unit /\ running \subseteq Unit /\ spoiled \subseteq Unit
  /\ wg \in [Unit -> Interface]
  /\ edited \in BOOLEAN

(* Two running units share a port only when config.conf was edited while   *)
(* the program was up, or a name has a dot: every start of the program     *)
(* stops the units that have another config's number by now, before a task *)
(* can start that config's own unit.                                       *)
NoPortClash ==
  phase = "up" /\ ~edited =>
    \A u, v \in running :
      u # v /\ {u.name, v.name} \cap Dotted = {} =>
        Ports(u.order) \cap Ports(v.order) = {}

(* The tunnel of a plain name is down while its unit is, and up with all   *)
(* its routes while it runs, unless wg-quick failed or was cut short: a    *)
(* start never finds the interface of the run before, whoever stopped it.  *)
(* Only after an edit under a running program can a unit whose name begins *)
(* the same, with an underscore or a dot behind it, get the number of a    *)
(* running one and change its tunnel (start and stop scripts).             *)
TunnelFollowsUnit ==
  \A u \in Plain \ spoiled :
    /\ u \notin running => wg[u] = "down"
    /\ u \in running =>
         \/ wg[u] = "full"
         \/ /\ wg[u] = "foreign" /\ edited
            /\ \E n \in Names \ {u.name} : First[n] = u.name
=============================================================================
