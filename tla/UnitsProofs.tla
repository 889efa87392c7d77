----------------------------- MODULE UnitsProofs -----------------------------
(***************************************************************************)
(* Proofs about Units, for every set of names and every number of sections *)
(* whose orders are still ports.                                           *)
(***************************************************************************)
EXTENDS Units, SequenceTheorems, TLAPS

(* A unit that reset_all stops by its full name.                           *)
Stoppable == {u \in running : u.name \notin Dotted}

(* While the program starts, every such unit that runs is still on the     *)
(* list.                                                                   *)
Listed == phase = "starting" => Stoppable \subseteq todo

(* Once it is up they are units of the configs, by their present orders.   *)
Numbered == phase = "up" /\ ~edited => Stoppable \subseteq Current

Inv == TypeOK /\ Listed /\ Numbered /\ TunnelFollowsUnit

-----------------------------------------------------------------------------
(* The operator's edits keep the names different.                          *)

LEMMA InsertAtType ==
  ASSUME NEW s \in Seq(Names), IsInjective(s), NEW n \in Names,
         NEW i \in 1 .. Len(s) + 1, \A j \in DOMAIN s : s[j] # n
  PROVE  /\ InsertAt(s, i, n) \in Seq(Names)
         /\ Len(InsertAt(s, i, n)) = Len(s) + 1
         /\ IsInjective(InsertAt(s, i, n))
<1> DEFINE a == SubSeq(s, 1, i - 1)
           b == SubSeq(s, i, Len(s))
           t == (a \o <<n>>) \o b
<1>0. Len(s) \in Nat /\ DOMAIN s = 1 .. Len(s) /\ i \in Int /\ i - 1 \in Int
  OBVIOUS
<1>1. /\ a \in Seq(Names) /\ Len(a) = i - 1
      /\ \A k \in 1 .. i - 1 : a[k] = s[k]
  <2>1. \A k \in 1 .. i - 1 : s[k] \in Names  BY <1>0
  <2>2. QED  BY <1>0, <2>1, SubSeqProperties, SMT
<1>2. /\ b \in Seq(Names) /\ Len(b) = Len(s) - i + 1
      /\ \A k \in 1 .. Len(s) - i + 1 : b[k] = s[i + k - 1]
  <2>1. \A k \in i .. Len(s) : s[k] \in Names  BY <1>0
  <2>2. QED  BY <1>0, <2>1, SubSeqProperties, SMT
<1>3. /\ a \o <<n>> \in Seq(Names) /\ Len(a \o <<n>>) = i
      /\ \A k \in 1 .. i : (a \o <<n>>)[k] = IF k < i THEN s[k] ELSE n
  <2>1. <<n>> \in Seq(Names) /\ Len(<<n>>) = 1 /\ <<n>>[1] = n  OBVIOUS
  <2> HIDE DEF a
  <2>2. QED  BY <1>0, <1>1, <2>1, ConcatProperties, SMT
<1>4. /\ t \in Seq(Names) /\ Len(t) = Len(s) + 1
      /\ \A k \in 1 .. Len(s) + 1 :
           t[k] = IF k < i THEN s[k] ELSE IF k = i THEN n ELSE s[k - 1]
  <2> DEFINE c == a \o <<n>>
  <2>1. c \in Seq(Names) /\ Len(c) = i
        /\ \A k \in 1 .. i : c[k] = IF k < i THEN s[k] ELSE n
    BY <1>3
  <2> HIDE DEF b, c
  <2>2. /\ c \o b \in Seq(Names) /\ Len(c \o b) = Len(c) + Len(b)
        /\ \A k \in 1 .. Len(c) + Len(b) :
             (c \o b)[k] = IF k <= Len(c) THEN c[k] ELSE b[k - Len(c)]
    BY <2>1, <1>2, ConcatProperties
  <2>3. /\ c \o b \in Seq(Names) /\ Len(c \o b) = Len(s) + 1
        /\ \A k \in 1 .. Len(s) + 1 :
             (c \o b)[k] = IF k < i THEN s[k] ELSE IF k = i THEN n ELSE s[k - 1]
    <3>1. ASSUME NEW k \in 1 .. Len(s) + 1, k <= i
          PROVE  (c \o b)[k] = IF k < i THEN s[k] ELSE n
      BY <2>1, <2>2, <3>1, <1>0, <1>2
    <3>2. ASSUME NEW k \in 1 .. Len(s) + 1, k > i
          PROVE  (c \o b)[k] = s[k - 1]
      <4>1. (c \o b)[k] = b[k - i]  BY <2>1, <2>2, <3>2, <1>0, <1>2
      <4>2. k - i \in 1 .. Len(s) - i + 1  BY <3>2, <1>0
      <4>3. b[k - i] = s[i + (k - i) - 1]  BY <4>2, <1>2
      <4>4. i + (k - i) - 1 = k - 1  BY <3>2, <1>0
      <4>5. QED  BY <4>1, <4>3, <4>4
    <3>3. QED  BY <2>1, <2>2, <3>1, <3>2, <1>0, <1>2
  <2>4. QED  BY <2>3 DEF c
<1>5. InsertAt(s, i, n) = t
  BY DEF InsertAt
<1>6. IsInjective(t)
  <2>1. \A j, k \in 1 .. Len(s) : s[j] = s[k] => j = k
    BY <1>0 DEF IsInjective
  <2>2. \A j \in 1 .. Len(s) : s[j] # n
    BY <1>0
  <2> HIDE DEF t
  <2>3. DOMAIN t = 1 .. Len(s) + 1
    BY <1>4
  <2>4. \A j, k \in 1 .. Len(s) + 1 : t[j] = t[k] => j = k
    BY <1>0, <1>4, <2>1, <2>2, SMTT(30)
  <2>5. QED  BY <2>3, <2>4 DEF IsInjective
<1>7. QED  BY <1>4, <1>5, <1>6

LEMMA RemoveAtType ==
  ASSUME NEW s \in Seq(Names), IsInjective(s), NEW i \in DOMAIN s
  PROVE  /\ RemoveAt(s, i) \in Seq(Names)
         /\ Len(RemoveAt(s, i)) = Len(s) - 1
         /\ IsInjective(RemoveAt(s, i))
<1> DEFINE a == SubSeq(s, 1, i - 1)
           b == SubSeq(s, i + 1, Len(s))
           t == a \o b
<1>0. Len(s) \in Nat /\ DOMAIN s = 1 .. Len(s) /\ i \in 1 .. Len(s)
  OBVIOUS
<1>1. /\ a \in Seq(Names) /\ Len(a) = i - 1
      /\ \A k \in 1 .. i - 1 : a[k] = s[k]
  <2>1. \A k \in 1 .. i - 1 : s[k] \in Names  BY <1>0
  <2>2. QED  BY <1>0, <2>1, SubSeqProperties, SMT
<1>2. /\ b \in Seq(Names) /\ Len(b) = Len(s) - i
      /\ \A k \in 1 .. Len(s) - i : b[k] = s[i + k]
  <2>1. \A k \in i + 1 .. Len(s) : s[k] \in Names  BY <1>0
  <2>2. QED  BY <1>0, <2>1, SubSeqProperties, SMT
<1>3. /\ t \in Seq(Names) /\ Len(t) = Len(s) - 1
      /\ \A k \in 1 .. Len(s) - 1 : t[k] = IF k < i THEN s[k] ELSE s[k + 1]
  <2> HIDE DEF a, b
  <2>1. /\ a \o b \in Seq(Names) /\ Len(a \o b) = Len(a) + Len(b)
        /\ \A k \in 1 .. Len(a) + Len(b) :
             (a \o b)[k] = IF k <= Len(a) THEN a[k] ELSE b[k - Len(a)]
    BY <1>1, <1>2, ConcatProperties
  <2>2. ASSUME NEW k \in 1 .. Len(s) - 1, k < i
        PROVE  (a \o b)[k] = s[k]
    BY <2>1, <2>2, <1>0, <1>1, <1>2
  <2>3. ASSUME NEW k \in 1 .. Len(s) - 1, k >= i
        PROVE  (a \o b)[k] = s[k + 1]
    <3>1. ~(k <= Len(a)) /\ k \in 1 .. Len(a) + Len(b) /\ k - Len(a) = k - (i - 1)
      BY <2>3, <1>0, <1>1, <1>2
    <3>6. (a \o b)[k] = b[k - (i - 1)]  BY <2>1, <3>1
    <3>2. k - (i - 1) \in 1 .. Len(s) - i  BY <2>3, <1>0
    <3>3. b[k - (i - 1)] = s[i + (k - (i - 1))]  BY <3>2, <1>2
    <3>4. i + (k - (i - 1)) = k + 1  BY <2>3, <1>0
    <3>5. QED  BY <3>6, <3>3, <3>4
  <2>4. QED  BY <2>1, <2>2, <2>3, <1>0, <1>1, <1>2
<1>4. RemoveAt(s, i) = t
  BY DEF RemoveAt
<1>5. IsInjective(t)
  <2>1. \A j, k \in 1 .. Len(s) : s[j] = s[k] => j = k
    BY <1>0 DEF IsInjective
  <2> HIDE DEF t
  <2>2. DOMAIN t = 1 .. Len(s) - 1
    BY <1>3
  <2>3. \A j, k \in 1 .. Len(s) - 1 : t[j] = t[k] => j = k
    BY <1>0, <1>3, <2>1, SMTT(30)
  <2>4. QED  BY <2>2, <2>3 DEF IsInjective
<1>6. QED  BY <1>3, <1>4, <1>5

-----------------------------------------------------------------------------
LEMMA InitInv == Init => Inv
<1> SUFFICES ASSUME Init
             PROVE  Inv
  OBVIOUS
<1>1. sections \in Seq(Names) /\ Len(sections) <= MaxSections /\ IsInjective(sections)
  <2>1. PICK n \in 0 .. MaxSections : sections \in [1 .. n -> Names] /\ IsInjective(sections)
    BY DEF Init
  <2>2. sections \in Seq(Names) /\ Len(sections) = n
    BY <2>1, MaxSectionsAssumption
  <2>3. QED  BY <2>1, <2>2, MaxSectionsAssumption
<1>2. wg \in [Unit -> Interface]
  BY DEF Init, Interface
<1>3. TypeOK
  BY <1>1, <1>2 DEF Init, TypeOK
<1>4. Listed /\ Numbered
  BY DEF Init, Listed, Numbered
<1>5. TunnelFollowsUnit
  BY DEF Init, TunnelFollowsUnit, Plain
<1>6. QED  BY <1>3, <1>4, <1>5 DEF Inv

(* A plain name has a file and asks for its own interface.                 *)
LEMMA PlainAsksItself ==
  ASSUME NEW u \in Plain
  PROVE  Asked(u) = u /\ HasFile(u) /\ (Shown(u) <=> IsUp(wg[u]))
<1>1. u \in Unit /\ First[u.name] = u.name
  BY FirstAssumption DEF Plain, Unit
<1>2. Asked(u) = u
  BY <1>1 DEF Asked, Unit
<1>3. QED  BY <1>1, <1>2 DEF HasFile, Shown, Plain

LEMMA Outcome ==
  ASSUME TypeOK, NEW u \in Unit, NEW outcomes \in SUBSET Interface,
         NEW done \in {"full", "down"}, wg_quick(u, outcomes, done)
  PROVE  /\ wg' \in [Unit -> Interface] /\ spoiled' \subseteq Unit
         /\ \A v \in Unit \ {u} : wg'[v] = wg[v] /\ (v \in spoiled' <=> v \in spoiled)
         /\ u \notin spoiled' => wg'[u] = done
<1>1. PICK i \in outcomes :
        /\ wg' = [wg EXCEPT ![u] = i]
        /\ spoiled' = IF i # done THEN spoiled \cup {u}
                      ELSE IF done = "down" THEN spoiled \ {u} ELSE spoiled
  BY DEF wg_quick
<1>2. i \in Interface  OBVIOUS
<1>3. wg' \in [Unit -> Interface] /\ wg'[u] = i
  BY <1>1, <1>2 DEF TypeOK
<1>4. \A v \in Unit \ {u} : wg'[v] = wg[v]
  BY <1>1 DEF TypeOK
<1>5. /\ spoiled' \subseteq Unit
      /\ \A v \in Unit \ {u} : v \in spoiled' <=> v \in spoiled
      /\ u \notin spoiled' => i = done
  BY <1>1 DEF TypeOK
<1>6. QED  BY <1>3, <1>4, <1>5

(* A stop takes one unit out of the running ones, and brings the tunnel of *)
(* a plain name down unless wg-quick fails or is cut short.                *)
LEMMA StopKeeps ==
  ASSUME TypeOK, TunnelFollowsUnit, NEW u \in Unit, Stop(u), UNCHANGED edited
  PROVE  /\ wg' \in [Unit -> Interface]
         /\ running' = running \ {u} /\ spoiled' \subseteq Unit
         /\ TunnelFollowsUnit'
<1>1. running' = running \ {u} /\ u \in running /\ stop_script(u)
  BY DEF Stop
<1>2. CASE Shown(u) /\ HasFile(u) /\ IsUp(wg[u])
  <2>1. wg_quick(u, {"down", "stray", "narrow", wg[u]}, "down")
    BY <1>1, <1>2 DEF stop_script
  <2>2. {"down", "stray", "narrow", wg[u]} \in SUBSET Interface
    BY DEF TypeOK, Interface
  <2>3. /\ wg' \in [Unit -> Interface] /\ spoiled' \subseteq Unit
        /\ \A v \in Unit \ {u} : wg'[v] = wg[v] /\ (v \in spoiled' <=> v \in spoiled)
        /\ u \notin spoiled' => wg'[u] = "down"
    BY <2>1, <2>2, Outcome
  <2>4. TunnelFollowsUnit'
    BY <2>3, <1>1 DEF TunnelFollowsUnit, Plain
  <2>5. QED  BY <2>3, <2>4, <1>1
<1>3. CASE ~(Shown(u) /\ HasFile(u) /\ IsUp(wg[u]))
  <2>1. UNCHANGED <<wg, spoiled>>
    BY <1>1, <1>3 DEF stop_script
  <2>2. u \in Plain => u \in spoiled
    BY <1>1, <1>3, PlainAsksItself DEF TunnelFollowsUnit, IsUp
  <2>3. TunnelFollowsUnit'
    BY <2>1, <2>2, <1>1 DEF TunnelFollowsUnit
  <2>4. QED  BY <2>1, <2>3, <1>1 DEF TypeOK
<1>4. QED  BY <1>2, <1>3

LEMMA stop_Inv ==
  ASSUME Inv, NEW u \in Unit, stop(u)
  PROVE  Inv'
<1>1. /\ wg' \in [Unit -> Interface]
      /\ running' = running \ {u} /\ spoiled' \subseteq Unit /\ TunnelFollowsUnit'
  BY StopKeeps DEF Inv, stop
<1>2. TypeOK' /\ Listed' /\ Numbered'
  BY <1>1 DEF Inv, stop, TypeOK, Listed, Numbered, Stoppable, Current
<1>3. QED  BY <1>1, <1>2 DEF Inv

(* Unless config.conf was edited, a start never finds the interface of     *)
(* another unit that runs: both would be the config of the same number.    *)
LEMMA start_Shown ==
  ASSUME Inv, NEW u \in Unit, start(u), Shown(u), Asked(u) \notin spoiled
  PROVE  /\ Asked(u) \in running /\ Asked(u) # u
         /\ edited /\ u.name \in Names \ {Asked(u).name}
<1> DEFINE v == Asked(u)
<1>1. v \in Plain /\ IsUp(wg[v])
  BY FirstAssumption DEF Shown, Asked, Plain, Unit
<1>2. v \in running
  BY <1>1 DEF Inv, TunnelFollowsUnit, IsUp
<1>3. v # u /\ u \in Current
  BY <1>2 DEF start
<1>4. v.order = u.order /\ v.name # u.name
  BY <1>3 DEF Asked, Unit
<1>5. edited
  <2> SUFFICES ASSUME ~edited PROVE FALSE
    BY DEF Inv, TypeOK
  <2>1. v \in Current
    BY <1>1, <1>2 DEF Inv, Numbered, Stoppable, Plain, start
  <2>2. QED  BY <2>1, <1>3, <1>4 DEF Current
<1>6. QED  BY <1>2, <1>3, <1>4, <1>5 DEF Unit

LEMMA start_Inv ==
  ASSUME Inv, NEW u \in Unit, start(u)
  PROVE  Inv'
<1>0. /\ running' = running \cup {u} /\ u \notin running
      /\ start_script(u) /\ UNCHANGED <<sections, phase, todo, edited>>
  BY DEF start
<1>1. /\ wg' \in [Unit -> Interface] /\ spoiled' \subseteq Unit
      /\ TunnelFollowsUnit'
  <2>1. CASE Shown(u)
    <3>1. /\ wg' = [wg EXCEPT ![Asked(u)] =
                            IF u \in Plain THEN "narrow" ELSE "foreign"]
          /\ spoiled' = spoiled
      BY <1>0, <2>1 DEF start_script
    <3>2. wg' \in [Unit -> Interface]
      BY <3>1 DEF Inv, TypeOK, Interface
    <3>3. ASSUME NEW v \in Plain, v \notin spoiled, v = Asked(u)
          PROVE  /\ v \in running' /\ wg'[v] = "foreign" /\ edited'
                 /\ \E n \in Names \ {v.name} : First[n] = v.name
      <4>1. /\ v \in running /\ v # u /\ edited
            /\ u.name \in Names \ {v.name}
        BY <2>1, <3>3, start_Shown
      <4>2. u \notin Plain /\ v \in Unit
        BY <3>3, <4>1, PlainAsksItself DEF Plain
      <4>3. First[u.name] = v.name
        BY <3>3 DEF Asked
      <4>4. QED  BY <4>1, <4>2, <4>3, <3>1, <3>3, <1>0 DEF Inv, TypeOK
    <3>4. ASSUME NEW v \in Plain, v \notin spoiled, v # Asked(u)
          PROVE  wg'[v] = wg[v] /\ (v \in running' <=> v \in running)
      <4>1. v # u  BY <3>4, PlainAsksItself
      <4>2. QED  BY <4>1, <3>1, <3>4, <1>0 DEF Plain, Inv, TypeOK
    <3>5. TunnelFollowsUnit'
      BY <3>1, <3>3, <3>4, <1>0 DEF Inv, TunnelFollowsUnit
    <3>6. QED  BY <3>1, <3>2, <3>5 DEF Inv, TypeOK
  <2>2. CASE ~Shown(u) /\ HasFile(u) /\ ~IsUp(wg[u])
    <3>1. wg_quick(u, {"full", "stray", wg[u]}, "full")
      BY <1>0, <2>2 DEF start_script
    <3>2. {"full", "stray", wg[u]} \in SUBSET Interface
      BY DEF Inv, TypeOK, Interface
    <3>3. /\ wg' \in [Unit -> Interface] /\ spoiled' \subseteq Unit
          /\ \A v \in Unit \ {u} : wg'[v] = wg[v] /\ (v \in spoiled' <=> v \in spoiled)
          /\ u \notin spoiled' => wg'[u] = "full"
      BY <3>1, <3>2, Outcome DEF Inv
    <3>4. TunnelFollowsUnit'
      BY <3>3, <1>0 DEF Inv, TunnelFollowsUnit, Plain
    <3>5. QED  BY <3>3, <3>4
  <2>3. CASE ~Shown(u) /\ ~(HasFile(u) /\ ~IsUp(wg[u]))
    <3>1. UNCHANGED <<wg, spoiled>>
      BY <1>0, <2>3 DEF start_script
    <3>2. u \notin Plain
      BY <2>3, PlainAsksItself
    <3>3. TunnelFollowsUnit'
      BY <3>1, <3>2, <1>0 DEF Inv, TunnelFollowsUnit
    <3>4. QED  BY <3>1, <3>3 DEF Inv, TypeOK
  <2>4. QED  BY <2>1, <2>2, <2>3
<1>2. TypeOK'
  BY <1>0, <1>1 DEF Inv, TypeOK
<1>3. Listed' /\ Numbered'
  BY DEF start, Inv, Listed, Numbered, Stoppable, Current
<1>4. QED  BY <1>1, <1>2, <1>3 DEF Inv

LEMMA reset_all_stop_Inv ==
  ASSUME Inv, NEW u \in Unit, reset_all_stop(u)
  PROVE  Inv'
<1>1. CASE u \in running /\ u.name \notin Dotted
  <2>1. /\ wg' \in [Unit -> Interface]
        /\ running' = running \ {u} /\ spoiled' \subseteq Unit /\ TunnelFollowsUnit'
    BY <1>1, StopKeeps DEF Inv, reset_all_stop
  <2>2. TypeOK' /\ Listed' /\ Numbered'
    BY <2>1 DEF Inv, reset_all_stop, TypeOK, Listed, Numbered, Stoppable, Current
  <2>3. QED  BY <2>1, <2>2 DEF Inv
<1>2. CASE ~(u \in running /\ u.name \notin Dotted)
  BY <1>2 DEF Inv, reset_all_stop, TypeOK, Listed, Numbered, Stoppable, Current,
     TunnelFollowsUnit
<1>3. QED  BY <1>1, <1>2

LEMMA Program_Inv ==
  ASSUME Inv, reset_all \/ run \/ Crash
  PROVE  Inv'
<1>1. TypeOK'
  BY DEF Inv, TypeOK, reset_all, run, Crash
<1>2. Listed' /\ Numbered'
  BY DEF Inv, reset_all, run, Crash, Listed, Numbered, Stoppable
<1>3. TunnelFollowsUnit'
  <2>1. CASE run
    <3>1. \A u \in Plain : u \notin running
      BY <2>1 DEF run, Inv, Listed, Stoppable, Plain
    <3>2. QED  BY <2>1, <3>1 DEF run, Inv, TunnelFollowsUnit
  <2>2. CASE reset_all \/ Crash
    BY <2>2 DEF reset_all, Crash, Inv, TunnelFollowsUnit
  <2>3. QED  BY <2>1, <2>2
<1>4. QED  BY <1>1, <1>2, <1>3 DEF Inv

LEMMA Edit_Inv ==
  ASSUME Inv,
         \/ \E n \in Names, i \in 1 .. Len(sections) + 1 : add_section(n, i)
         \/ \E i \in DOMAIN sections : remove_section(i)
  PROVE  Inv'
<1> DEFINE Valid(s) == s \in Seq(Names) /\ Len(s) <= MaxSections /\ IsInjective(s)
<1>1. Valid(sections')
  <2>1. ASSUME NEW n \in Names, NEW i \in 1 .. Len(sections) + 1, add_section(n, i)
        PROVE  Valid(sections')
    BY <2>1, InsertAtType, MaxSectionsAssumption DEF add_section, Inv, TypeOK
  <2>2. ASSUME NEW i \in DOMAIN sections, remove_section(i)
        PROVE  Valid(sections')
    BY <2>2, RemoveAtType, MaxSectionsAssumption DEF remove_section, Inv, TypeOK
  <2>3. QED  BY <2>1, <2>2
<1>2. edited' = TRUE /\ UNCHANGED <<phase, todo, running, wg, spoiled>>
  BY DEF add_section, remove_section
<1>3. TypeOK'
  BY <1>1, <1>2 DEF Inv, TypeOK
<1>4. Listed' /\ Numbered' /\ TunnelFollowsUnit'
  BY <1>2 DEF Inv, Listed, Numbered, Stoppable, TunnelFollowsUnit
<1>5. QED  BY <1>3, <1>4 DEF Inv

LEMMA NextInv == Inv /\ [Next]_vars => Inv'
<1> SUFFICES ASSUME Inv, [Next]_vars
             PROVE  Inv'
  OBVIOUS
<1>1. CASE Next
  BY <1>1, start_Inv, stop_Inv, reset_all_stop_Inv, Program_Inv, Edit_Inv DEF Next
<1>2. CASE UNCHANGED vars
  BY <1>2 DEF vars, Inv, TypeOK, Listed, Numbered, Stoppable, Current, TunnelFollowsUnit
<1>3. QED  BY <1>1, <1>2

LEMMA Invariant == Spec => []Inv
  BY InitInv, NextInv, PTL DEF Spec

-----------------------------------------------------------------------------
(* The state keeps its types: the operator's edits keep the sections of    *)
(* config.conf different, whatever the order in which they come and go.    *)
THEOREM TypeCorrect == Spec => []TypeOK
<1>1. Inv => TypeOK  BY DEF Inv
<1>2. QED  BY <1>1, Invariant, PTL

(* Units whose orders differ use different ports: the four ranges do not   *)
(* meet as long as 60000 + order is a port.                                *)
LEMMA PortsDiffer ==
  ASSUME NEW o \in Orders, NEW p \in Orders, o # p
  PROVE  Ports(o) \cap Ports(p) = {}
  BY MaxSectionsAssumption DEF Orders, Ports

(* Two running units share a port only when config.conf was edited while   *)
(* the program was up, or a name has a dot (reset_all and the orders of    *)
(* ConfigLoader).                                                          *)
THEOREM PortsApart == Spec => []NoPortClash
<1>1. Inv => NoPortClash
  <2> SUFFICES ASSUME Inv, phase = "up", ~edited,
                      NEW u \in running, NEW v \in running, u # v,
                      {u.name, v.name} \cap Dotted = {}
               PROVE  Ports(u.order) \cap Ports(v.order) = {}
    BY DEF NoPortClash
  <2>1. u \in Current /\ v \in Current
    BY DEF Inv, Numbered, Stoppable
  <2>2. PICK o \in DOMAIN sections : u = [order |-> o, name |-> sections[o]]
    BY <2>1 DEF Current
  <2>3. PICK p \in DOMAIN sections : v = [order |-> p, name |-> sections[p]]
    BY <2>1 DEF Current
  <2>4. o # p /\ o \in Orders /\ p \in Orders
    BY <2>2, <2>3, MaxSectionsAssumption DEF Inv, TypeOK, Orders
  <2>5. QED  BY <2>2, <2>3, <2>4, PortsDiffer
<1>2. QED  BY <1>1, Invariant, PTL

(* The tunnel of a plain name follows its unit, unless wg-quick failed or  *)
(* was cut short; and while config.conf is as it was when the program came *)
(* up, no unit whose name begins the same changes it (the start and stop   *)
(* scripts).                                                               *)
THEOREM TunnelFollows == Spec => []TunnelFollowsUnit
<1>1. Inv => TunnelFollowsUnit  BY DEF Inv
<1>2. QED  BY <1>1, Invariant, PTL
=============================================================================
