--------------------------- MODULE FirewallProofs ---------------------------
(***************************************************************************)
(* Proofs about Firewall, for any number of configs, threads and addresses *)
(* and any length of the rule list.                                        *)
(*                                                                         *)
(* The numbers a task holds are those of rules of its own config (Base,    *)
(* which holds whatever the tasks do to each other), so it changes no      *)
(* other config's rules; what the rules of a config let in then follows    *)
(* from the steps of its own task alone (Apart): the rejection is added    *)
(* last, after every address of the whitelist, and deleted first.          *)
(***************************************************************************)
EXTENDS Firewall, SequenceTheorems, WellFoundedInduction, TLAPS

(* Least and greatest elements.  The order of the naturals is well-founded *)
(* (a theorem of the library), so every set of them has a least element.   *)

LEMMA LeastExists ==
  ASSUME NEW T \in SUBSET Nat, T # {}
  PROVE  \E x \in T : \A y \in T : x <= y
  <1> DEFINE R == {ss \in Nat \X Nat : ss[1] < ss[2]}
  <1>1. IsWellFoundedOn(R, Nat)
    BY NatLessThanWellFounded DEF OpToRel
  <1>2. PICK x \in T : \A y \in T : <<y, x>> \notin R
    <2> HIDE DEF R
    <2>1. QED
      BY <1>1, WFMin
  <1>3. ASSUME NEW y \in T PROVE x <= y
    <2>1. x \in Nat /\ y \in Nat
      OBVIOUS
    <2>2. ~(y < x)
      BY <1>2, <2>1
    <2>3. QED
      BY <2>1, <2>2
  <1>4. QED
    BY <1>3

LEMMA MinIsLeast ==
  ASSUME NEW T \in SUBSET Nat, T # {}
  PROVE  Min(T) \in T /\ \A y \in T : Min(T) <= y
  <1>1. \E x \in T : \A y \in T : x =< y
    BY LeastExists
  <1>2. QED
    BY <1>1, Zenon DEF Min

LEMMA GreatestExists ==
  ASSUME NEW n \in Nat, NEW T \in SUBSET (1 .. n), T # {}
  PROVE  \E x \in T : \A y \in T : x >= y
  <1> DEFINE U == {m \in Nat : n - m \in T}
  <1>1. ASSUME NEW x \in T PROVE n - x \in U
    <2>1. n - x \in Nat /\ n - (n - x) = x
      OBVIOUS
    <2>2. QED
      BY <2>1
  <1>2. PICK u \in U : \A v \in U : u <= v
    <2>1. U \in SUBSET Nat /\ U # {}
      BY <1>1
    <2> HIDE DEF U
    <2>2. QED
      BY <2>1, LeastExists
  <1>3. ASSUME NEW y \in T PROVE n - u >= y
    <2>1. y \in 1 .. n /\ u \in Nat /\ u <= n - y
      BY <1>1, <1>2
    <2>2. QED
      BY <2>1
  <1>4. QED
    BY <1>3

LEMMA MaxIsGreatest ==
  ASSUME NEW n \in Nat, NEW T \in SUBSET (1 .. n), T # {}
  PROVE  Max(T) \in T /\ \A y \in T : y <= Max(T)
  <1>1. \E x \in T : \A y \in T : x >= y
    BY GreatestExists
  <1>2. Max(T) \in T /\ \A y \in T : Max(T) >= y
    BY <1>1, Zenon DEF Max
  <1>3. QED
    BY <1>2

-----------------------------------------------------------------------------
(* What ufw's commands do to the list.                                     *)

(* `ufw delete i`: the later rules move up by one.                         *)
LEMMA RemoveAtIs ==
  ASSUME NEW S, NEW s \in Seq(S), NEW i \in DOMAIN s
  PROVE  /\ RemoveAt(s, i) \in Seq(S)
         /\ DOMAIN RemoveAt(s, i) = 1 .. Len(s) - 1
         /\ \A k \in 1 .. Len(s) - 1 :
              RemoveAt(s, i)[k] = IF k < i THEN s[k] ELSE s[k + 1]
  <1> DEFINE a == SubSeq(s, 1, i - 1)
             b == SubSeq(s, i + 1, Len(s))
  <1>0. Len(s) \in Nat /\ DOMAIN s = 1 .. Len(s) /\ i \in 1 .. Len(s)
    OBVIOUS
  <1>1. /\ a \in Seq(S) /\ Len(a) = i - 1
        /\ \A k \in 1 .. i - 1 : a[k] = s[k]
    <2>1. \A k \in 1 .. i - 1 : s[k] \in S
      BY <1>0
    <2>2. QED
      BY <1>0, <2>1, SubSeqProperties, SMT
  <1>2. /\ b \in Seq(S) /\ Len(b) = Len(s) - i
        /\ \A k \in 1 .. Len(s) - i : b[k] = s[i + k]
    <2>1. \A k \in i + 1 .. Len(s) : s[k] \in S
      BY <1>0
    <2>2. QED
      BY <1>0, <2>1, SubSeqProperties, SMT
  <1> HIDE DEF a, b
  <1>3. /\ a \o b \in Seq(S) /\ Len(a \o b) = Len(a) + Len(b)
        /\ \A k \in 1 .. Len(a) + Len(b) :
             (a \o b)[k] = IF k <= Len(a) THEN a[k] ELSE b[k - Len(a)]
    BY <1>1, <1>2, ConcatProperties
  <1>4. Len(a \o b) = Len(s) - 1
    BY <1>0, <1>1, <1>2, <1>3
  <1>5. ASSUME NEW k \in 1 .. Len(s) - 1
        PROVE  (a \o b)[k] = IF k < i THEN s[k] ELSE s[k + 1]
    <2>1. CASE k < i
      BY <1>0, <1>1, <1>2, <1>3, <2>1
    <2>2. CASE ~(k < i)
      <3>1. (a \o b)[k] = b[k - (i - 1)]
        BY <1>0, <1>1, <1>2, <1>3, <2>2
      <3>2. k - (i - 1) \in 1 .. Len(s) - i /\ i + (k - (i - 1)) = k + 1
        BY <1>0, <2>2
      <3>3. QED
        BY <1>2, <2>2, <3>1, <3>2
    <2>3. QED
      BY <2>1, <2>2
  <1>6. RemoveAt(s, i) = a \o b
    BY DEF RemoveAt, a, b
  <1>7. QED
    BY <1>3, <1>4, <1>5, <1>6

(* The pairs of RulesOf are pairs of positions.                            *)
LEMMA RulesOfIs ==
  ASSUME NEW c, NEW rs, NEW q, NEW r
  PROVE  <<q, r>> \in RulesOf(c, rs) <=>
           \E i, j \in DOMAIN rs : /\ i <= j /\ rs[i] = q /\ rs[j] = r
                                   /\ q.app = c /\ r.app = c
  <1> DEFINE own == {i \in DOMAIN rs : rs[i].app = c}
             pairs == {p \in own \X own : p[1] <= p[2]}
  <1>1. RulesOf(c, rs) = {<<rs[p[1]], rs[p[2]]>> : p \in pairs}
    BY DEF RulesOf
  <1>2. ASSUME <<q, r>> \in RulesOf(c, rs)
        PROVE  \E i, j \in DOMAIN rs : /\ i <= j /\ rs[i] = q /\ rs[j] = r
                                       /\ q.app = c /\ r.app = c
    <2>1. PICK p \in pairs : <<q, r>> = <<rs[p[1]], rs[p[2]]>>
      BY <1>1, <1>2
    <2>2. p[1] \in own /\ p[2] \in own /\ p[1] <= p[2]
      OBVIOUS
    <2>3. QED
      BY <2>1, <2>2
  <1>3. ASSUME NEW i \in DOMAIN rs, NEW j \in DOMAIN rs, i <= j, rs[i] = q, rs[j] = r,
               q.app = c, r.app = c
        PROVE  <<q, r>> \in RulesOf(c, rs)
    <2>1. <<i, j>> \in pairs
      BY <1>3
    <2>2. <<rs[<<i, j>>[1]], rs[<<i, j>>[2]]>> = <<q, r>>
      BY <1>3
    <2>3. QED
      BY <1>1, <2>1, <2>2
  <1>4. QED
    BY <1>2, <1>3

(* Deleting a rule of another config leaves the rules of c as they are.    *)
LEMMA RulesOfRemoveAt ==
  ASSUME NEW rs \in Seq(Rule), NEW k \in DOMAIN rs, NEW c, rs[k].app # c
  PROVE  RulesOf(c, RemoveAt(rs, k)) = RulesOf(c, rs)
  <1> DEFINE new == RemoveAt(rs, k)
  <1>0. Len(rs) \in Nat /\ DOMAIN rs = 1 .. Len(rs) /\ k \in 1 .. Len(rs)
    OBVIOUS
  <1>1. /\ DOMAIN new = 1 .. Len(rs) - 1
        /\ \A i \in 1 .. Len(rs) - 1 : new[i] = IF i < k THEN rs[i] ELSE rs[i + 1]
    BY RemoveAtIs
  <1> HIDE DEF new
  <1>2. ASSUME NEW q, NEW r, <<q, r>> \in RulesOf(c, new)
        PROVE  <<q, r>> \in RulesOf(c, rs)
    <2>1. PICK i, j \in DOMAIN new : /\ i <= j /\ new[i] = q /\ new[j] = r
                                     /\ q.app = c /\ r.app = c
      BY <1>2, RulesOfIs
    <2> DEFINE up(x) == IF x < k THEN x ELSE x + 1
    <2>2. ASSUME NEW x \in DOMAIN new
          PROVE  up(x) \in DOMAIN rs /\ rs[up(x)] = new[x]
      BY <1>0, <1>1
    <2>3. up(i) <= up(j)
      BY <1>0, <1>1, <2>1
    <2>4. QED
      BY <2>1, <2>2, <2>3, RulesOfIs
  <1>3. ASSUME NEW q, NEW r, <<q, r>> \in RulesOf(c, rs)
        PROVE  <<q, r>> \in RulesOf(c, new)
    <2>1. PICK i, j \in DOMAIN rs : /\ i <= j /\ rs[i] = q /\ rs[j] = r
                                    /\ q.app = c /\ r.app = c
      BY <1>3, RulesOfIs
    <2> DEFINE down(x) == IF x < k THEN x ELSE x - 1
    <2>2. ASSUME NEW x \in 1 .. Len(rs), x # k
          PROVE  down(x) \in DOMAIN new /\ new[down(x)] = rs[x]
      BY <1>0, <1>1, <2>2
    <2>3. i # k /\ j # k
      BY <2>1
    <2>4. down(i) <= down(j)
      BY <1>0, <2>1, <2>3
    <2>5. QED
      BY <1>0, <2>1, <2>2, <2>3, <2>4, RulesOfIs
  <1>4. \A x : x \in RulesOf(c, new) <=> x \in RulesOf(c, rs)
    <2>1. \A S : \A x \in RulesOf(c, S) : \E q, r : x = <<q, r>>
      BY DEF RulesOf
    <2>2. QED
      BY <1>2, <1>3, <2>1
  <1>5. QED
    BY <1>4 DEF new

(* The two effects of `ufw allow` and `ufw reject`.                        *)
Same(r) == {i \in DOMAIN rules : rules[i].app = r.app /\ rules[i].from = r.from}

LEMMA WithIs ==
  ASSUME rules \in Seq(Rule), NEW r \in Rule
  PROVE  /\ With(r) \in Seq(Rule)
         /\ \/ /\ Same(r) = {}
               /\ DOMAIN With(r) = 1 .. Len(rules) + 1
               /\ With(r)[Len(rules) + 1] = r
               /\ \A i \in DOMAIN rules : With(r)[i] = rules[i]
            \/ \E m \in Same(r) : /\ DOMAIN With(r) = DOMAIN rules
                                  /\ With(r)[m] = r
                                  /\ \A i \in DOMAIN rules \ {m} : With(r)[i] = rules[i]
  <1>1. CASE Same(r) = {}
    <2>1. With(r) = Append(rules, r)
      BY <1>1 DEF With, Same
    <2>2. QED
      BY <1>1, <2>1, AppendProperties
  <1>2. CASE Same(r) # {}
    <2>1. With(r) = [rules EXCEPT ![Min(Same(r))] = r]
      BY <1>2 DEF With, Same
    <2>2. Min(Same(r)) \in Same(r)
      <3>1. Same(r) \in SUBSET Nat
        BY DEF Same
      <3>2. QED
        BY <1>2, <3>1, MinIsLeast
    <2>3. With(r) \in Seq(Rule) /\ DOMAIN With(r) = DOMAIN rules
      BY <2>1, <2>2, ExceptSeq DEF Same
    <2>4. QED
      BY <2>1, <2>2, <2>3 DEF Same
  <1>3. QED
    BY <1>1, <1>2

(* Neither concerns the rules of another config.                           *)
LEMMA RulesOfWith ==
  ASSUME rules \in Seq(Rule), NEW r \in Rule, NEW c, r.app # c
  PROVE  RulesOf(c, With(r)) = RulesOf(c, rules)
  <1>0. Len(rules) \in Nat /\ DOMAIN rules = 1 .. Len(rules)
    OBVIOUS
  <1>1. ASSUME NEW p, NEW q
        PROVE  <<p, q>> \in RulesOf(c, With(r)) <=> <<p, q>> \in RulesOf(c, rules)
    <2>1. <<p, q>> \in RulesOf(c, With(r)) <=>
            \E i, j \in DOMAIN With(r) : /\ i <= j /\ With(r)[i] = p /\ With(r)[j] = q
                                         /\ p.app = c /\ q.app = c
      BY RulesOfIs
    <2>2. <<p, q>> \in RulesOf(c, rules) <=>
            \E i, j \in DOMAIN rules : /\ i <= j /\ rules[i] = p /\ rules[j] = q
                                       /\ p.app = c /\ q.app = c
      BY RulesOfIs
    <2>3. CASE /\ DOMAIN With(r) = 1 .. Len(rules) + 1
               /\ With(r)[Len(rules) + 1] = r
               /\ \A i \in DOMAIN rules : With(r)[i] = rules[i]
      BY <1>0, <2>1, <2>2, <2>3
    <2>4. CASE \E m \in Same(r) : /\ DOMAIN With(r) = DOMAIN rules
                                  /\ With(r)[m] = r
                                  /\ \A i \in DOMAIN rules \ {m} : With(r)[i] = rules[i]
      BY <1>0, <2>1, <2>2, <2>4 DEF Same
    <2>5. QED
      BY <2>3, <2>4, WithIs
  <1>2. \A S : \A x \in RulesOf(c, S) : \E p, q : x = <<p, q>>
    BY DEF RulesOf
  <1>3. \A x : x \in RulesOf(c, With(r)) <=> x \in RulesOf(c, rules)
    BY <1>1, <1>2
  <1>4. QED
    BY <1>3

-----------------------------------------------------------------------------
(* Types.                                                                  *)

LEMMA TypeInit == Init => TypeOK
  <1> SUFFICES ASSUME Init PROVE TypeOK
    OBVIOUS
  <1>1. rules \in Seq(Rule)
    BY DEF Init
  <1>2. QED
    BY <1>1, WhitelistsAssumption DEF Init, TypeOK

(* A command of ufw, whether it works or not.                              *)
LEMMA CommandTyped ==
  ASSUME TypeOK, NEW t \in Threads, NEW action \in {"allow", "reject"},
         NEW from \in Sources \cup {Anywhere}, Command(t, action, from)
  PROVE  /\ [app |-> config[t], action |-> action, from |-> from] \in Rule
         /\ rules' \in Seq(Rule) /\ slipped' \in [Configs -> BOOLEAN]
  <1>1. [app |-> config[t], action |-> action, from |-> from] \in Rule
    BY DEF TypeOK, Rule
  <1>2. rules' \in Seq(Rule)
    BY <1>1, WithIs DEF Command, TypeOK
  <1>3. slipped' \in [Configs -> BOOLEAN]
    BY DEF Command, TypeOK
  <1>4. QED
    BY <1>1, <1>2, <1>3

(* Every step keeps the types.                                             *)
LEMMA TypeStep == TypeOK /\ [Next]_vars => TypeOK'
  <1> SUFFICES ASSUME TypeOK, [Next]_vars PROVE TypeOK'
    OBVIOUS
  <1>1. CASE \E c \in Configs : reset(c)
    BY <1>1, WhitelistsAssumption DEF reset, TypeOK, threads
  <1>2. ASSUME NEW t \in Threads, NEW c \in Configs,
               generate_peer_config(t, c) \/ \E W \in Whitelists : change_whitelist(t, c, W)
        PROVE  TypeOK'
    <2>1. Begin(t, c) /\ whitelist' \in [Configs -> Whitelists]
      BY <1>2 DEF generate_peer_config, change_whitelist, TypeOK
    <2>2. crossed' \in BOOLEAN
      BY <2>1 DEF Begin, TypeOK
    <2>3. QED
      BY <2>1, <2>2 DEF Begin, TypeOK
  <1>3. ASSUME NEW t \in Threads, Firewall(t)
        PROVE  TypeOK'
    BY <1>3 DEF Firewall, TypeOK, history
  <1>4. ASSUME NEW t \in Threads, delete_rules(t)
        PROVE  TypeOK'
    <2>1. {i \in DOMAIN rules : rules[i].app = config[t]} \in SUBSET (Nat \ {0})
      BY DEF TypeOK
    <2>2. QED
      BY <1>4, <2>1 DEF delete_rules, TypeOK, history
  <1>5. ASSUME NEW t \in Threads, ufw_delete(t)
        PROVE  TypeOK'
    <2>1. PICK i \in DOMAIN rules : Delete(t, i)
      BY <1>5 DEF ufw_delete, Delete
    <2>2. rules' \in Seq(Rule)
      BY <2>1, RemoveAtIs DEF Delete, TypeOK
    <2>3. stale' \in [Threads -> BOOLEAN] /\ crossed' \in BOOLEAN
      BY <2>1 DEF Delete, TypeOK
    <2>4. QED
      BY <2>1, <2>2, <2>3 DEF Delete, TypeOK
  <1>6. ASSUME NEW t \in Threads, apply_whitelist(t)
        PROVE  TypeOK'
    BY <1>6, WhitelistsAssumption DEF apply_whitelist, TypeOK
  <1>7. ASSUME NEW t \in Threads, NEW e, apply_entry(t, e)
        PROVE  TypeOK'
    <2>1. rules' \in Seq(Rule) /\ slipped' \in [Configs -> BOOLEAN]
      BY <1>7, CommandTyped DEF apply_entry, TypeOK
    <2>2. QED
      BY <1>7, <2>1 DEF apply_entry, TypeOK
  <1>8. ASSUME NEW t \in Threads, apply_last(t)
        PROVE  TypeOK'
    <2>1. rules' \in Seq(Rule) /\ slipped' \in [Configs -> BOOLEAN]
      BY <1>8, CommandTyped DEF apply_last, Close, TypeOK
    <2>2. QED
      BY <1>8, <2>1, WhitelistsAssumption DEF apply_last, Close, Return, TypeOK
  <1>9. ASSUME NEW t \in Threads, Raises(t)
        PROVE  TypeOK'
    BY <1>9, WhitelistsAssumption DEF Raises, Return, TypeOK
  <1>10. CASE UNCHANGED vars
    BY <1>10 DEF vars, threads, history, TypeOK
  <1>11. QED
    BY <1>1, <1>2, <1>3, <1>4, <1>5, <1>6, <1>7, <1>8, <1>9, <1>10 DEF Next

-----------------------------------------------------------------------------
(* The rule list, whatever the tasks do to each other.                     *)

(* ufw keeps one rule per profile and address.                             *)
Unique ==
  \A i, j \in DOMAIN rules :
    rules[i].app = rules[j].app /\ rules[i].from = rules[j].from => i = j

(* Only "from any" is ever rejected.                                       *)
Rejecting == \A i \in DOMAIN rules : rules[i].action = "reject" => rules[i].from = Anywhere

(* What a thread holds belongs to the step it is at, and the numbers it    *)
(* holds, as long as they are not stale, are those of rules of its config. *)
Numbers ==
  \A t \in Threads :
    /\ indices[t] # {} => pc[t] = "delete"
    /\ entries[t] # {} => pc[t] = "apply"
    /\ stale[t] => pc[t] \in {"delete", "apply"}
    /\ ~stale[t] => \A j \in indices[t] : j \in DOMAIN rules /\ rules[j].app = config[t]

Base == TypeOK /\ Unique /\ Rejecting /\ Numbers

LEMMA RemoveAtKeeps ==
  ASSUME TypeOK, Unique, Rejecting, NEW k \in DOMAIN rules, rules' = RemoveAt(rules, k)
  PROVE  Unique' /\ Rejecting'
  <1>0. Len(rules) \in Nat /\ DOMAIN rules = 1 .. Len(rules) /\ k \in 1 .. Len(rules)
    BY DEF TypeOK
  <1>1. /\ DOMAIN rules' = 1 .. Len(rules) - 1
        /\ \A i \in 1 .. Len(rules) - 1 : rules'[i] = IF i < k THEN rules[i] ELSE rules[i + 1]
    BY RemoveAtIs DEF TypeOK
  <1>2. Unique'
    <2> DEFINE up(x) == IF x < k THEN x ELSE x + 1
    <2>1. ASSUME NEW x \in DOMAIN rules'
          PROVE  up(x) \in DOMAIN rules /\ rules'[x] = rules[up(x)]
      BY <1>0, <1>1
    <2>2. \A x, y \in DOMAIN rules' : up(x) = up(y) => x = y
      BY <1>0, <1>1
    <2> HIDE DEF up
    <2>3. QED
      BY <2>1, <2>2 DEF Unique
  <1>3. Rejecting'
    BY <1>0, <1>1 DEF Rejecting
  <1>4. QED
    BY <1>2, <1>3

LEMMA WithKeeps ==
  ASSUME TypeOK, Unique, Rejecting, NEW r \in Rule, rules' = With(r),
         r.action = "reject" => r.from = Anywhere
  PROVE  /\ Unique' /\ Rejecting'
         /\ \A i \in DOMAIN rules : i \in DOMAIN rules' /\ rules'[i].app = rules[i].app
  <1>0. Len(rules) \in Nat /\ DOMAIN rules = 1 .. Len(rules)
    BY DEF TypeOK
  <1>1. CASE /\ Same(r) = {}
             /\ DOMAIN With(r) = 1 .. Len(rules) + 1
             /\ With(r)[Len(rules) + 1] = r
             /\ \A i \in DOMAIN rules : With(r)[i] = rules[i]
    BY <1>0, <1>1 DEF Unique, Rejecting, Same
  <1>2. CASE \E m \in Same(r) : /\ DOMAIN With(r) = DOMAIN rules
                                /\ With(r)[m] = r
                                /\ \A i \in DOMAIN rules \ {m} : With(r)[i] = rules[i]
    BY <1>0, <1>2 DEF Unique, Rejecting, Same
  <1>3. QED
    BY <1>1, <1>2, WithIs DEF TypeOK

LEMMA CommandKeeps ==
  ASSUME TypeOK, Unique, Rejecting, NEW t \in Threads, NEW action \in {"allow", "reject"},
         NEW from \in Sources \cup {Anywhere}, Command(t, action, from),
         action = "reject" => from = Anywhere
  PROVE  /\ Unique' /\ Rejecting'
         /\ \A i \in DOMAIN rules : i \in DOMAIN rules' /\ rules'[i].app = rules[i].app
  <1>1. CASE UNCHANGED rules
    BY <1>1 DEF Unique, Rejecting
  <1>2. CASE rules' = With([app |-> config[t], action |-> action, from |-> from])
    BY <1>2, CommandTyped, WithKeeps
  <1>3. QED
    BY <1>1, <1>2 DEF Command

(* What every step of apply_whitelist does to the rule list.               *)
LEMMA EntryCommand ==
  ASSUME TypeOK, NEW t \in Threads, NEW e, apply_entry(t, e)
  PROVE  \/ e \in Sources /\ Command(t, "allow", e)
         \/ e \notin Sources /\ UNCHANGED <<rules, slipped>>
  BY DEF apply_entry

(* Every step keeps Unique, Rejecting and Numbers.                         *)
LEMMA BaseStep == Base /\ [Next]_vars => Base'
  <1> SUFFICES ASSUME Base, [Next]_vars PROVE Base'
    OBVIOUS
  <1>0. TypeOK /\ TypeOK'
    BY TypeStep DEF Base
  <1>1. CASE UNCHANGED <<rules, indices, entries, stale>>
             /\ (\E t \in Threads : pc[t] \notin {"delete", "apply"}
                   /\ \A u \in Threads \ {t} : pc'[u] = pc[u] /\ config'[u] = config[u])
    <2>1. Unique' /\ Rejecting'
      BY <1>1 DEF Base, Unique, Rejecting
    <2>2. PICK t \in Threads : pc[t] \notin {"delete", "apply"}
                   /\ \A u \in Threads \ {t} : pc'[u] = pc[u] /\ config'[u] = config[u]
      BY <1>1
    <2>3. indices[t] = {} /\ entries[t] = {} /\ ~stale[t]
      BY <2>2 DEF Base, Numbers
    <2>4. Numbers'
      BY <1>1, <2>2, <2>3 DEF Base, Numbers
    <2>5. QED
      BY <1>0, <2>1, <2>4 DEF Base
  <1>2. CASE UNCHANGED <<rules, threads, stale>>
    BY <1>0, <1>2 DEF Base, Unique, Rejecting, Numbers, threads
  <1>3. CASE \E t \in Threads : delete_rules(t)
    <2>1. PICK t \in Threads : delete_rules(t)
      BY <1>3
    <2>2. Unique' /\ Rejecting'
      BY <2>1 DEF delete_rules, Base, Unique, Rejecting
    <2>3. indices'[t] = {i \in DOMAIN rules : rules[i].app = config[t]}
      BY <1>0, <2>1 DEF delete_rules, TypeOK
    <2>4. Numbers'
      BY <1>0, <2>1, <2>3 DEF delete_rules, Base, Numbers, TypeOK, history
    <2>5. QED
      BY <1>0, <2>2, <2>4 DEF Base
  <1>4. CASE \E t \in Threads : ufw_delete(t)
    <2>1. PICK t \in Threads : ufw_delete(t)
      BY <1>4
    <2> DEFINE i == Max(indices[t])
    <2>2. indices[t] # {} /\ i \in DOMAIN rules /\ Delete(t, i)
      BY <2>1 DEF ufw_delete, Delete
    <2>3. Unique' /\ Rejecting'
      BY <1>0, <2>2, RemoveAtKeeps DEF Base, Delete
    <2>4. ~stale[t] => \A j \in indices[t] : j <= i
      <3> SUFFICES ASSUME ~stale[t] PROVE \A j \in indices[t] : j <= i
        OBVIOUS
      <3>1. indices[t] \in SUBSET (1 .. Len(rules)) /\ Len(rules) \in Nat
        BY <1>0 DEF Base, Numbers, TypeOK
      <3>2. QED
        BY <2>2, <3>1, MaxIsGreatest
    <2> HIDE DEF i
    <2>5. Len(rules) \in Nat /\ DOMAIN rules = 1 .. Len(rules) /\ i \in 1 .. Len(rules)
      BY <1>0, <2>2 DEF TypeOK
    <2>6. /\ DOMAIN rules' = 1 .. Len(rules) - 1
          /\ \A k \in 1 .. Len(rules) - 1 :
               rules'[k] = IF k < i THEN rules[k] ELSE rules[k + 1]
      BY <1>0, <2>2, RemoveAtIs DEF Delete, TypeOK
    <2>7. ASSUME NEW u \in Threads, ~stale'[u], NEW j \in indices'[u]
          PROVE  j \in DOMAIN rules' /\ rules'[j].app = config'[u]
      <3>1. ~stale[u] /\ j \in indices[u] /\ (u # t => ~(i <= j)) /\ config' = config
        BY <1>0, <2>2, <2>7 DEF Delete, TypeOK
      <3>2. j \in 1 .. Len(rules) /\ rules[j].app = config[u]
        BY <2>5, <3>1 DEF Base, Numbers
      <3>3. j < i
        <4>1. CASE u # t
          BY <2>5, <3>1, <3>2, <4>1
        <4>2. CASE u = t
          <5>1. j # i
            BY <1>0, <2>2, <2>7, <4>2 DEF Delete, TypeOK
          <5>2. QED
            BY <2>4, <2>5, <3>1, <3>2, <4>2, <5>1
        <4>3. QED
          BY <4>1, <4>2
      <3>4. QED
        BY <2>5, <2>6, <3>1, <3>2, <3>3
    <2>8. ASSUME NEW u \in Threads
          PROVE  /\ indices'[u] # {} => pc'[u] = "delete"
                 /\ entries'[u] # {} => pc'[u] = "apply"
                 /\ stale'[u] => pc'[u] \in {"delete", "apply"}
      BY <1>0, <2>2 DEF Delete, Base, Numbers, TypeOK
    <2>9. QED
      BY <1>0, <2>3, <2>7, <2>8 DEF Base, Numbers
  <1>5. CASE \E t \in Threads : apply_whitelist(t)
    <2>1. PICK t \in Threads : apply_whitelist(t)
      BY <1>5
    <2>2. Unique' /\ Rejecting'
      BY <2>1 DEF apply_whitelist, Base, Unique, Rejecting
    <2>3. Numbers'
      BY <1>0, <2>1 DEF apply_whitelist, Base, Numbers, TypeOK
    <2>4. QED
      BY <1>0, <2>2, <2>3 DEF Base
  <1>6. CASE \E t \in Threads, e \in Sources \cup {Junk} : apply_entry(t, e)
    <2>1. PICK t \in Threads, e \in Sources \cup {Junk} : apply_entry(t, e)
      BY <1>6
    <2>2. /\ Unique' /\ Rejecting'
          /\ \A i \in DOMAIN rules : i \in DOMAIN rules' /\ rules'[i].app = rules[i].app
      <3>1. CASE e \in Sources /\ Command(t, "allow", e)
        BY <1>0, <3>1, CommandKeeps DEF Base
      <3>2. CASE UNCHANGED rules
        BY <3>2 DEF Base, Unique, Rejecting
      <3>3. QED
        BY <1>0, <2>1, <3>1, <3>2, EntryCommand
    <2>3. Numbers'
      BY <1>0, <2>1, <2>2 DEF apply_entry, Base, Numbers, TypeOK
    <2>4. QED
      BY <1>0, <2>2, <2>3 DEF Base
  <1>7. ASSUME NEW t \in Threads, Return(t), Unique', Rejecting',
               \A i \in DOMAIN rules : i \in DOMAIN rules' /\ rules'[i].app = rules[i].app
        PROVE  Base'
    <2>1. Numbers'
      BY <1>0, <1>7 DEF Return, Base, Numbers, TypeOK
    <2>2. QED
      BY <1>0, <1>7, <2>1 DEF Base
  <1>8. CASE \E t \in Threads : apply_last(t)
    <2>1. PICK t \in Threads : apply_last(t)
      BY <1>8
    <2>2. /\ Unique' /\ Rejecting'
          /\ \A i \in DOMAIN rules : i \in DOMAIN rules' /\ rules'[i].app = rules[i].app
      BY <1>0, <2>1, CommandKeeps DEF apply_last, Close, Base
    <2>3. QED
      BY <1>7, <2>1, <2>2 DEF apply_last, Close
  <1>9. CASE \E t \in Threads : Raises(t)
    <2>1. Unique' /\ Rejecting'
      BY <1>9 DEF Raises, Base, Unique, Rejecting
    <2>2. QED
      BY <1>7, <1>9, <2>1 DEF Raises
  <1>10. ASSUME NEW t \in Threads, NEW c \in Configs, Begin(t, c)
         PROVE  Base'
    BY <1>0, <1>1, <1>10 DEF Begin, TypeOK
  <1>11. ASSUME NEW t \in Threads, Firewall(t)
         PROVE  Base'
    BY <1>0, <1>1, <1>11 DEF Firewall, TypeOK, history
  <1>12. QED
    BY <1>2, <1>3, <1>4, <1>5, <1>6, <1>8, <1>9, <1>10, <1>11
    DEF Next, reset, generate_peer_config, change_whitelist, vars, history, threads

LEMMA InitBase == Init => Base
  <1> SUFFICES ASSUME Init PROVE Base
    OBVIOUS
  <1>1. DOMAIN rules = {}
    BY DEF Init
  <1>2. QED
    BY <1>1, TypeInit DEF Init, Base, Unique, Rejecting, Numbers

LEMMA BaseHolds == Spec => []Base
  BY InitBase, BaseStep, PTL DEF Spec

(* The state of the firewall tasks and of the rule list keeps its types.   *)
THEOREM TypeCorrect == Spec => []TypeOK
  <1>1. Base => TypeOK
    BY DEF Base
  <1>2. QED
    BY <1>1, BaseHolds, PTL

-----------------------------------------------------------------------------
(* Whose rules a step changes.                                             *)

(* A task that holds no stale number deletes the last rule of its config.  *)
LEMMA DeletesLast ==
  ASSUME Base, NEW t \in Threads, ufw_delete(t), ~stale[t]
  PROVE  \E i \in indices[t] : /\ Delete(t, i) /\ i \in DOMAIN rules
                               /\ rules[i].app = config[t]
                               /\ \A j \in indices[t] : j <= i
  <1>1. indices[t] \in SUBSET (1 .. Len(rules)) /\ Len(rules) \in Nat
    BY DEF Base, Numbers, TypeOK
  <1>2. indices[t] # {} /\ Delete(t, Max(indices[t]))
    BY DEF ufw_delete
  <1>3. Max(indices[t]) \in indices[t] /\ \A j \in indices[t] : j <= Max(indices[t])
    BY <1>1, <1>2, MaxIsGreatest
  <1>4. QED
    BY <1>2, <1>3 DEF Base, Numbers

(* It leaves the rules of the other configs alone, and so do the commands  *)
(* of apply_whitelist.                                                     *)
LEMMA OthersKept ==
  ASSUME Base, NEW t \in Threads, NEW c, config[t] # c,
         \/ ufw_delete(t) /\ ~stale[t]
         \/ \E e \in Sources \cup {Junk} : apply_entry(t, e)
         \/ apply_last(t)
  PROVE  RulesOf(c, rules') = RulesOf(c, rules)
  <1>0. TypeOK
    BY DEF Base
  <1>1. CASE ufw_delete(t) /\ ~stale[t]
    BY <1>0, <1>1, DeletesLast, RulesOfRemoveAt DEF Delete, TypeOK
  <1>2. ASSUME NEW action \in {"allow", "reject"}, NEW from \in Sources \cup {Anywhere},
               Command(t, action, from)
        PROVE  RulesOf(c, rules') = RulesOf(c, rules)
    <2>1. [app |-> config[t], action |-> action, from |-> from].app # c
      OBVIOUS
    <2>2. CASE UNCHANGED rules
      BY <2>2
    <2>3. CASE rules' = With([app |-> config[t], action |-> action, from |-> from])
      BY <1>0, <1>2, <2>1, <2>3, CommandTyped, RulesOfWith DEF TypeOK
    <2>4. QED
      BY <1>2, <2>2, <2>3 DEF Command
  <1>3. CASE \E e \in Sources \cup {Junk} : apply_entry(t, e)
    BY <1>0, <1>2, <1>3, EntryCommand
  <1>4. CASE apply_last(t)
    BY <1>2, <1>4 DEF apply_last, Close
  <1>5. QED
    BY <1>1, <1>3, <1>4

(* The steps that change the rule list.                                    *)
Rewrites(t) == \/ ufw_delete(t)
               \/ \E e \in Sources \cup {Junk} : apply_entry(t, e)
               \/ apply_last(t)

LEMMA RewritesOnly ==
  ASSUME [Next]_vars
  PROVE  UNCHANGED rules \/ \E t \in Threads : Rewrites(t)
  BY DEF Next, Rewrites, vars, reset, generate_peer_config, change_whitelist, Begin,
  Firewall, delete_rules, apply_whitelist, Raises

(* The rules of a config change only in a step of a task of that config,   *)
(* unless a stale number is used: ufw.delete removes what has the number,  *)
(* and the numbers were read by the task itself.                           *)
LEMMA ChangedByOwnerStep ==
  ASSUME Base, [Next]_vars, ~crossed'
  PROVE  ChangedByOwner
  <1> SUFFICES ASSUME NEW c \in Configs, RulesOf(c, rules') # RulesOf(c, rules)
               PROVE  \E t \in Threads : Serving(t, c) /\ Steps(t)
    BY DEF ChangedByOwner
  <1>0. TypeOK
    BY DEF Base
  <1>1. PICK t \in Threads : Rewrites(t)
    BY RewritesOnly
  <1>2. ufw_delete(t) => ~stale[t]
    BY DEF ufw_delete, Delete
  <1>3. config[t] = c
    BY <1>1, <1>2, OthersKept DEF Rewrites
  <1>4. CASE ufw_delete(t)
    <2>1. PICK i \in indices[t] : Delete(t, i)
      BY <1>2, <1>4, DeletesLast
    <2>2. indices'[t] # indices[t] /\ pc[t] = "delete"
      BY <1>0, <2>1 DEF Delete, TypeOK, Base, Numbers
    <2>3. QED
      BY <1>3, <2>2 DEF Serving, Steps
  <1>5. CASE \E e \in Sources \cup {Junk} : apply_entry(t, e)
    <2>1. entries'[t] # entries[t] /\ pc[t] = "apply"
      BY <1>0, <1>5 DEF apply_entry, TypeOK, Base, Numbers
    <2>2. QED
      BY <1>3, <2>1 DEF Serving, Steps
  <1>6. CASE apply_last(t)
    <2>1. pc[t] = "apply" /\ pc'[t] = "idle"
      BY <1>0, <1>6 DEF apply_last, Close, Return, TypeOK
    <2>2. QED
      BY <1>3, <2>1 DEF Serving, Steps
  <1>7. QED
    BY <1>1, <1>4, <1>5, <1>6 DEF Rewrites

(* delete_rules and apply_whitelist touch the rules of their own config    *)
(* alone, in any list of rules and among any number of other tasks, as     *)
(* long as no rule below was deleted since ufw.status().                   *)
THEOREM OwnRules == Spec => OwnRulesOnly
  <1>1. Base /\ [Next]_vars => [~crossed' => ChangedByOwner]_vars
    BY ChangedByOwnerStep
  <1>2. QED
    BY <1>1, BaseHolds, PTL DEF Spec, OwnRulesOnly

-----------------------------------------------------------------------------
(* What the rules of a config let in.  P is the RulesOf of a config.       *)
Members(P) == {r \in Rule : <<r, r>> \in P}

(* Who is on the whitelist W comes before the rejection of all others.     *)
Fence(P, W) ==
  \A r \in Members(P) : r.action = "reject" =>
    /\ W # {}
    /\ \A q \in Members(P) : <<q, r>> \in P
    /\ \A s \in W \cap Sources : \E q \in Members(P) : q.from = s

(* All others are rejected, if W is not empty.                             *)
Shut(P, W) ==
  W # {} => /\ \E r \in Members(P) : r.action = "reject"
            /\ \A q \in Members(P) : q.from \in W \cup {Anywhere}

(* Exactly the addresses of D have a rule.                                 *)
Filled(P, D) ==
  /\ \A q \in Members(P) : q.from \in D \cap Sources
  /\ \A s \in D \cap Sources : \E q \in Members(P) : q.from = s

LEMMA MembersIs ==
  ASSUME NEW c, NEW rs \in Seq(Rule), NEW r
  PROVE  r \in Members(RulesOf(c, rs)) <=> \E i \in DOMAIN rs : rs[i] = r /\ r.app = c
  <1>1. <<r, r>> \in RulesOf(c, rs) <=>
          \E i, j \in DOMAIN rs : /\ i <= j /\ rs[i] = r /\ rs[j] = r
                                  /\ r.app = c /\ r.app = c
    BY RulesOfIs
  <1>2. ASSUME NEW i \in DOMAIN rs
        PROVE  i <= i /\ rs[i] \in Rule
    OBVIOUS
  <1>3. QED
    BY <1>1, <1>2 DEF Members

(* A fence admits who is on the whitelist.                                 *)
LEMMA FenceAdmits ==
  ASSUME Base, NEW c \in Configs, NEW W, Fence(RulesOf(c, rules), W),
         NEW s \in Sources, Permits(W, s)
  PROVE  Allowed(c, s)
  <1> DEFINE P == RulesOf(c, rules)
             matching == {i \in DOMAIN rules :
                            rules[i].app = c /\ rules[i].from \in {s, Anywhere}}
             m == Min(matching)
  <1>0. rules \in Seq(Rule) /\ s # Anywhere
    BY SourcesAssumption DEF Base, TypeOK
  <1> SUFFICES ASSUME matching # {}, rules[m].action # "allow"
               PROVE  FALSE
    BY DEF Allowed
  <1>1. m \in matching /\ \A i \in matching : m <= i
    <2>1. matching \in SUBSET Nat
      BY <1>0
    <2> HIDE DEF matching
    <2>2. QED
      BY <2>1, MinIsLeast
  <1> HIDE DEF m
  <1>2. rules[m] \in Rule /\ rules[m].action = "reject" /\ rules[m].from = Anywhere
    <2>1. m \in DOMAIN rules /\ rules[m] \in Rule
      BY <1>0, <1>1
    <2>2. rules[m].action \in {"allow", "reject"}
      BY <2>1 DEF Rule
    <2>3. QED
      BY <2>1, <2>2 DEF Base, Rejecting
  <1>3. rules[m] \in Members(P)
    BY <1>0, <1>1, MembersIs
  <1>4. W # {} /\ s \in W \cap Sources
    BY <1>2, <1>3 DEF Fence, Permits
  <1>5. PICK q \in Members(P) : q.from = s /\ <<q, rules[m]>> \in P
    BY <1>2, <1>3, <1>4 DEF Fence
  <1>6. PICK i, j \in DOMAIN rules : i <= j /\ rules[i] = q /\ rules[j] = rules[m]
                                     /\ q.app = c
    BY <1>5, RulesOfIs
  <1>7. j = m
    BY <1>1, <1>6 DEF Base, Unique
  <1>8. i \in matching
    BY <1>5, <1>6
  <1>9. i = m
    <2>1. i \in Nat /\ m \in Nat /\ i <= m /\ m <= i
      BY <1>0, <1>1, <1>6, <1>7, <1>8
    <2>2. QED
      BY <2>1
  <1>10. QED
    BY <1>0, <1>2, <1>5, <1>6, <1>9

(* A fence that is shut refuses all others.                                *)
LEMMA ShutRefuses ==
  ASSUME Base, NEW c \in Configs, NEW W, Shut(RulesOf(c, rules), W),
         NEW s \in Sources, ~Permits(W, s)
  PROVE  ~Allowed(c, s)
  <1> DEFINE P == RulesOf(c, rules)
             matching == {i \in DOMAIN rules :
                            rules[i].app = c /\ rules[i].from \in {s, Anywhere}}
  <1>0. rules \in Seq(Rule) /\ s # Anywhere /\ W # {} /\ s \notin W
    BY SourcesAssumption DEF Base, TypeOK, Permits
  <1>1. PICK r \in Members(P) : r.action = "reject"
    BY <1>0 DEF Shut
  <1>2. PICK k \in DOMAIN rules : rules[k] = r /\ r.app = c
    BY <1>0, <1>1, MembersIs
  <1>3. r.from = Anywhere
    BY <1>1, <1>2 DEF Base, Rejecting
  <1>4. ASSUME NEW i \in matching PROVE i = k
    <2>1. rules[i] \in Members(P)
      BY <1>0, MembersIs
    <2>2. rules[i].from = Anywhere
      BY <1>0, <2>1 DEF Shut
    <2>3. QED
      BY <1>2, <1>3, <2>2 DEF Base, Unique
  <1>5. k \in matching
    BY <1>2, <1>3
  <1>6. Min(matching) = k
    <2>1. matching \in SUBSET Nat /\ matching # {}
      BY <1>0, <1>5
    <2>2. \A i \in matching : i = k
      BY <1>4
    <2> HIDE DEF matching
    <2>3. QED
      BY <2>1, <2>2, MinIsLeast
  <1>7. rules[k].action # "allow"
    BY <1>1, <1>2
  <1>8. QED
    BY <1>5, <1>6, <1>7 DEF Allowed

(* The last rule of a fence is the rejection: deleted first, it takes the  *)
(* fence away.                                                             *)
LEMMA FenceOpened ==
  ASSUME Base, NEW c \in Configs, NEW W, Fence(RulesOf(c, rules), W),
         NEW k \in DOMAIN rules, rules[k].app = c,
         \A j \in DOMAIN rules : rules[j].app = c => j <= k,
         rules' = RemoveAt(rules, k)
  PROVE  /\ \A j \in DOMAIN rules' : rules'[j].app = c =>
              j \in DOMAIN rules /\ j < k /\ rules[j] = rules'[j]
         /\ \A r \in Members(RulesOf(c, rules')) : r.action # "reject"
  <1>0. /\ rules \in Seq(Rule) /\ Len(rules) \in Nat /\ DOMAIN rules = 1 .. Len(rules)
        /\ k \in 1 .. Len(rules)
    BY DEF Base, TypeOK
  <1>1. /\ rules' \in Seq(Rule) /\ DOMAIN rules' = 1 .. Len(rules) - 1
        /\ \A i \in 1 .. Len(rules) - 1 : rules'[i] = IF i < k THEN rules[i] ELSE rules[i + 1]
    BY <1>0, RemoveAtIs
  <1>2. ASSUME NEW j \in DOMAIN rules', rules'[j].app = c
        PROVE  j \in DOMAIN rules /\ j < k /\ rules[j] = rules'[j]
    <2>1. CASE j < k
      BY <1>0, <1>1, <2>1
    <2>2. CASE ~(j < k)
      <3>1. rules[j + 1].app = c /\ j + 1 \in DOMAIN rules
        BY <1>0, <1>1, <1>2, <2>2
      <3>2. QED
        BY <1>0, <1>1, <2>2, <3>1
    <2>3. QED
      BY <2>1, <2>2
  <1>3. ASSUME NEW r \in Members(RulesOf(c, rules')), r.action = "reject"
        PROVE  FALSE
    <2>1. PICK j \in DOMAIN rules' : rules'[j] = r /\ r.app = c
      BY <1>1, <1>3, MembersIs
    <2>2. j \in DOMAIN rules /\ j < k /\ rules[j] = r
      BY <1>2, <2>1
    <2>3. r \in Members(RulesOf(c, rules)) /\ rules[k] \in Members(RulesOf(c, rules))
      BY <1>0, <2>1, <2>2, MembersIs
    <2>4. <<rules[k], r>> \in RulesOf(c, rules)
      BY <1>3, <2>3 DEF Fence
    <2>5. PICK a, b \in DOMAIN rules : a <= b /\ rules[a] = rules[k] /\ rules[b] = r
      BY <2>4, RulesOfIs
    <2>6. a = k /\ b = j
      BY <2>1, <2>2, <2>5 DEF Base, Unique
    <2>7. QED
      BY <1>0, <2>2, <2>5, <2>6
  <1>4. QED
    BY <1>2, <1>3

(* A rule for an address that has none comes last.                         *)
LEMMA AddedLast ==
  ASSUME Base, NEW r \in Rule, rules' = With(r),
         \A q \in Members(RulesOf(r.app, rules)) : q.from # r.from
  PROVE  /\ Members(RulesOf(r.app, rules')) = Members(RulesOf(r.app, rules)) \cup {r}
         /\ \A q \in Members(RulesOf(r.app, rules')) : <<q, r>> \in RulesOf(r.app, rules')
  <1>0. rules \in Seq(Rule) /\ Len(rules) \in Nat /\ DOMAIN rules = 1 .. Len(rules)
    BY DEF Base, TypeOK
  <1>1. Same(r) = {}
    BY <1>0, MembersIs DEF Same
  <1>2. /\ rules' \in Seq(Rule) /\ DOMAIN rules' = 1 .. Len(rules) + 1
        /\ rules'[Len(rules) + 1] = r
        /\ \A i \in DOMAIN rules : rules'[i] = rules[i]
    BY <1>0, <1>1, WithIs
  <1>3. ASSUME NEW q
        PROVE  q \in Members(RulesOf(r.app, rules')) <=>
                 q \in Members(RulesOf(r.app, rules)) \/ q = r
    <2>1. q \in Members(RulesOf(r.app, rules')) <=>
            \E i \in DOMAIN rules' : rules'[i] = q /\ q.app = r.app
      BY <1>2, MembersIs
    <2>2. q \in Members(RulesOf(r.app, rules)) <=>
            \E i \in DOMAIN rules : rules[i] = q /\ q.app = r.app
      BY <1>0, MembersIs
    <2>3. QED
      BY <1>0, <1>2, <2>1, <2>2
  <1>4. ASSUME NEW q \in Members(RulesOf(r.app, rules'))
        PROVE  <<q, r>> \in RulesOf(r.app, rules')
    <2>1. PICK i \in DOMAIN rules' : rules'[i] = q /\ q.app = r.app
      BY <1>2, MembersIs
    <2>2. i <= Len(rules) + 1 /\ Len(rules) + 1 \in DOMAIN rules'
      BY <1>0, <1>2
    <2>3. QED
      BY <1>2, <2>1, <2>2, RulesOfIs
  <1>5. QED
    BY <1>3, <1>4

-----------------------------------------------------------------------------
(* As long as no tasks have crossed.                                       *)

(* One task per config at most.                                            *)
Alone ==
  \A t, u \in Threads : pc[t] # "idle" /\ pc[u] # "idle" /\ config[t] = config[u] => t = u

(* A deleting task holds the number of every rule of its config, and a     *)
(* stale one has not used the numbers it has.                              *)
NumbersAll ==
  \A t \in Threads :
    /\ stale[t] => indices[t] # {}
    /\ pc[t] = "delete" /\ ~stale[t] =>
         \A j \in DOMAIN rules : rules[j].app = config[t] => j \in indices[t]

(* A task applies the whitelist that is in config.conf.                    *)
Snapshots ==
  \A t \in Threads :
    /\ pc[t] \in {"status", "delete", "apply"} => snapshot[t] = whitelist[config[t]]
    /\ entries[t] \subseteq snapshot[t]

(* A settled config is at rest, and its whitelist was applied.             *)
Rests ==
  \A c \in Configs : settled[c] =>
    whitelist[c] = enforced[c] /\ \A t \in Threads : ~Serving(t, c)

(* The rules of a config, unless a command has failed: a fence at every    *)
(* moment, shut when the config is settled.                                *)
Fenced ==
  \A c \in Configs : ~slipped[c] =>
    /\ Fence(RulesOf(c, rules), enforced[c])
    /\ settled[c] => Shut(RulesOf(c, rules), enforced[c])

(* While a task adds rules, there are those it has added.                  *)
Adding ==
  \A t \in Threads : pc[t] = "apply" /\ ~slipped[config[t]] =>
    Filled(RulesOf(config[t], rules), snapshot[t] \ entries[t])

Apart == Alone /\ NumbersAll /\ Snapshots /\ Rests /\ Fenced /\ Adding

(* A step that changes no rule, no history of the commands and at most one *)
(* thread that adds no rules.                                              *)
LEMMA RulesAtRest ==
  ASSUME Base, Apart, NEW t \in Threads, pc'[t] # "apply",
         \A u \in Threads \ {t} : /\ pc'[u] = pc[u] /\ config'[u] = config[u]
                                  /\ snapshot'[u] = snapshot[u] /\ entries'[u] = entries[u],
         UNCHANGED <<rules, enforced, slipped>>,
         \A c \in Configs : settled'[c] => settled[c]
  PROVE  Fenced' /\ Adding'
  <1>1. Fenced'
    BY DEF Apart, Fenced
  <1>2. Adding'
    BY DEF Apart, Adding
  <1>3. QED
    BY <1>1, <1>2

(* reset empties the key of a config no task serves.                       *)
LEMMA ResetKeeps ==
  ASSUME Base, Base', Apart, ~crossed', NEW d \in Configs, reset(d)
  PROVE  Apart'
  <1> USE DEF reset, threads, Apart
  <1>0. TypeOK /\ \A u \in Threads : ~Serving(u, d)
    BY DEF Base, TypeOK
  <1>1. Alone' /\ NumbersAll'
    BY DEF Alone, NumbersAll
  <1>2. Snapshots'
    BY <1>0 DEF Snapshots, Serving, TypeOK
  <1>3. Rests'
    BY <1>0 DEF Rests, Serving, TypeOK
  <1>4. Fenced'
    BY <1>0 DEF Fenced, TypeOK
  <1>5. Adding'
    BY DEF Adding
  <1>6. QED
    BY <1>1, <1>2, <1>3, <1>4, <1>5

(* A task begins on a config no task serves.                               *)
LEMMA BeginKeeps ==
  ASSUME Base, Base', Apart, ~crossed', NEW t \in Threads, NEW d \in Configs, Begin(t, d),
         \A c \in Configs \ {d} : whitelist'[c] = whitelist[c]
  PROVE  Apart'
  <1> USE DEF Begin, Apart
  <1>0. TypeOK /\ TypeOK' /\ \A u \in Threads : ~Serving(u, d)
    BY DEF Base, TypeOK
  <1>1. /\ pc'[t] = "Firewall" /\ config'[t] = d /\ pc[t] = "idle"
        /\ indices[t] = {} /\ entries[t] = {} /\ ~stale[t]
        /\ \A u \in Threads \ {t} : pc'[u] = pc[u] /\ config'[u] = config[u]
    BY <1>0 DEF TypeOK, Base, Numbers
  <1>2. Alone'
    BY <1>0, <1>1 DEF Alone, Serving
  <1>3. NumbersAll'
    BY <1>1 DEF NumbersAll
  <1>4. Snapshots'
    <2> SUFFICES ASSUME NEW u \in Threads
                 PROVE  /\ pc'[u] \in {"status", "delete", "apply"}
                             => snapshot'[u] = whitelist'[config'[u]]
                        /\ entries'[u] \subseteq snapshot'[u]
      BY DEF Snapshots
    <2>1. CASE u = t
      BY <1>1, <2>1
    <2>2. CASE u # t /\ config[u] # d
      BY <1>0, <1>1, <2>2 DEF Snapshots, TypeOK
    <2>3. CASE u # t /\ config[u] = d
      BY <1>0, <1>1, <2>3 DEF Snapshots, Serving
    <2>4. QED
      BY <2>1, <2>2, <2>3
  <1>5. Rests'
    BY <1>0, <1>1 DEF Rests, Serving, TypeOK
  <1>6. Fenced' /\ Adding'
    BY <1>0, <1>1, RulesAtRest DEF TypeOK
  <1>7. QED
    BY <1>2, <1>3, <1>4, <1>5, <1>6

(* The task reads the whitelist.                                           *)
LEMMA FirewallKeeps ==
  ASSUME Base, Base', Apart, ~crossed', NEW t \in Threads, Firewall(t)
  PROVE  Apart'
  <1> USE DEF Firewall, Apart, history
  <1>0. TypeOK
    BY DEF Base
  <1>1. /\ pc'[t] = "status" /\ pc[t] = "Firewall" /\ snapshot'[t] = whitelist[config[t]]
        /\ entries[t] = {}
        /\ \A u \in Threads \ {t} : pc'[u] = pc[u] /\ snapshot'[u] = snapshot[u]
    BY <1>0 DEF TypeOK, Base, Numbers
  <1>2. Alone'
    BY <1>1 DEF Alone
  <1>3. NumbersAll'
    BY <1>1 DEF NumbersAll
  <1>4. Snapshots'
    BY <1>1 DEF Snapshots
  <1>5. Rests'
    BY <1>1 DEF Rests, Serving
  <1>6. Fenced' /\ Adding'
    BY <1>0, <1>1, RulesAtRest
  <1>7. QED
    BY <1>2, <1>3, <1>4, <1>5, <1>6

(* The task reads the numbers of its rules.                                *)
LEMMA DeleteRulesKeeps ==
  ASSUME Base, Base', Apart, ~crossed', NEW t \in Threads, delete_rules(t)
  PROVE  Apart'
  <1> USE DEF delete_rules, Apart, history
  <1>0. TypeOK
    BY DEF Base
  <1>1. /\ pc'[t] = "delete" /\ pc[t] = "status"
        /\ indices'[t] = {i \in DOMAIN rules : rules[i].app = config[t]}
        /\ ~stale[t] /\ entries[t] = {}
        /\ \A u \in Threads \ {t} : pc'[u] = pc[u] /\ indices'[u] = indices[u]
    BY <1>0 DEF TypeOK, Base, Numbers
  <1>2. Alone'
    BY <1>1 DEF Alone
  <1>3. NumbersAll'
    BY <1>1 DEF NumbersAll
  <1>4. Snapshots'
    BY <1>1 DEF Snapshots
  <1>5. Rests'
    BY <1>1 DEF Rests, Serving
  <1>6. Fenced' /\ Adding'
    BY <1>0, <1>1, RulesAtRest
  <1>7. QED
    BY <1>2, <1>3, <1>4, <1>5, <1>6

(* The task ends where it is, without a command.                           *)
LEMMA RaisesKeeps ==
  ASSUME Base, Base', Apart, ~crossed', NEW t \in Threads, Raises(t)
  PROVE  Apart'
  <1> USE DEF Raises, Return, Apart
  <1>0. TypeOK
    BY DEF Base
  <1>1. /\ pc'[t] = "idle" /\ snapshot'[t] = {} /\ entries'[t] = {} /\ indices'[t] = {}
        /\ ~stale'[t]
        /\ \A u \in Threads \ {t} :
             /\ pc'[u] = pc[u] /\ snapshot'[u] = snapshot[u] /\ entries'[u] = entries[u]
             /\ indices'[u] = indices[u] /\ stale'[u] = stale[u]
    BY <1>0 DEF TypeOK
  <1>2. Alone'
    BY <1>1 DEF Alone
  <1>3. NumbersAll'
    BY <1>1 DEF NumbersAll
  <1>4. Snapshots'
    BY <1>1 DEF Snapshots
  <1>5. Rests'
    BY <1>1 DEF Rests, Serving
  <1>6. Fenced' /\ Adding'
    BY <1>0, <1>1, RulesAtRest
  <1>7. QED
    BY <1>2, <1>3, <1>4, <1>5, <1>6

(* The task deletes the last rule of its config: the fence, if there was   *)
(* one, is open.                                                           *)
LEMMA UfwDeleteKeeps ==
  ASSUME Base, Base', Apart, ~crossed', NEW t \in Threads, ufw_delete(t)
  PROVE  Apart'
  <1> USE DEF Apart
  <1>0. TypeOK /\ TypeOK' /\ ~stale[t]
    BY DEF Base, ufw_delete, Delete
  <1>1. PICK i \in indices[t] : /\ Delete(t, i) /\ i \in DOMAIN rules
                                /\ rules[i].app = config[t]
                                /\ \A j \in indices[t] : j <= i
    BY <1>0, DeletesLast
  <1> DEFINE d == config[t]
  <1>2. /\ pc[t] = "delete" /\ Serving(t, d) /\ d \in Configs
        /\ \A j \in DOMAIN rules : rules[j].app = d => j \in indices[t]
    BY <1>0, <1>1 DEF Base, Numbers, NumbersAll, Serving, TypeOK
  <1>3. /\ rules' = RemoveAt(rules, i) /\ indices'[t] = indices[t] \ {i}
        /\ \A u \in Threads \ {t} : /\ indices'[u] = indices[u]
                                    /\ ~stale'[u] => ~stale[u] /\ \A j \in indices[u] : ~(i <= j)
                                    /\ stale'[u] => stale[u] \/ indices[u] # {}
        /\ ~stale'[t]
        /\ UNCHANGED <<whitelist, pc, config, snapshot, entries, enforced, settled, slipped>>
    BY <1>0, <1>1 DEF Delete, TypeOK
  <1>4. /\ Len(rules) \in Nat /\ DOMAIN rules = 1 .. Len(rules) /\ i \in 1 .. Len(rules)
        /\ DOMAIN rules' = 1 .. Len(rules) - 1
        /\ \A k \in 1 .. Len(rules) - 1 :
             rules'[k] = IF k < i THEN rules[k] ELSE rules[k + 1]
    BY <1>0, <1>1, <1>3, RemoveAtIs DEF TypeOK
  <1>5. Alone' /\ Snapshots' /\ Rests'
    BY <1>3 DEF Alone, Snapshots, Rests, Serving
  <1>6. NumbersAll'
    <2> SUFFICES ASSUME NEW u \in Threads
                 PROVE  /\ stale'[u] => indices'[u] # {}
                        /\ pc'[u] = "delete" /\ ~stale'[u] =>
                             \A j \in DOMAIN rules' : rules'[j].app = config'[u] => j \in indices'[u]
      BY DEF NumbersAll
    <2>1. CASE u # t
      <3>1. stale'[u] => indices'[u] # {}
        BY <1>3, <2>1 DEF NumbersAll
      <3>2. ASSUME pc[u] = "delete", ~stale'[u], NEW j \in DOMAIN rules',
                   rules'[j].app = config[u]
            PROVE  j \in indices[u]
        <4>1. \A k \in DOMAIN rules : rules[k].app = config[u] => k \in indices[u] /\ ~(i <= k)
          BY <1>3, <2>1, <3>2 DEF NumbersAll
        <4>2. CASE j < i
          BY <1>4, <3>2, <4>1, <4>2
        <4>3. CASE ~(j < i)
          <5>1. j + 1 \in DOMAIN rules /\ rules[j + 1].app = config[u]
            BY <1>4, <3>2, <4>3
          <5>2. QED
            BY <1>4, <4>1, <4>3, <5>1
        <4>4. QED
          BY <4>2, <4>3
      <3>3. QED
        BY <1>3, <2>1, <3>1, <3>2
    <2>2. CASE u = t
      <3>1. ASSUME NEW j \in DOMAIN rules', rules'[j].app = config[t]
            PROVE  j \in indices[t] \ {i}
        <4>1. CASE j < i
          BY <1>2, <1>4, <3>1, <4>1
        <4>2. CASE ~(j < i)
          <5>1. j + 1 \in DOMAIN rules /\ rules[j + 1].app = config[t]
            BY <1>4, <3>1, <4>2
          <5>2. QED
            BY <1>1, <1>2, <1>4, <4>2, <5>1
        <4>3. QED
          BY <4>1, <4>2
      <3>2. QED
        BY <1>3, <2>2, <3>1
    <2>3. QED
      BY <2>1, <2>2
  <1>7. ASSUME NEW c, c # d
        PROVE  RulesOf(c, rules') = RulesOf(c, rules)
    BY <1>0, <1>7, OthersKept
  <1>8. ~slipped[d] => \A r \in Members(RulesOf(d, rules')) : r.action # "reject"
    <2> SUFFICES ASSUME ~slipped[d]
                 PROVE  \A r \in Members(RulesOf(d, rules')) : r.action # "reject"
      OBVIOUS
    <2>1. Fence(RulesOf(d, rules), enforced[d])
      BY <1>2 DEF Fenced
    <2>2. QED
      BY <1>1, <1>2, <1>3, <2>1, FenceOpened
  <1>9. Fenced'
    <2> SUFFICES ASSUME NEW c \in Configs, ~slipped'[c]
                 PROVE  /\ Fence(RulesOf(c, rules'), enforced'[c])
                        /\ settled'[c] => Shut(RulesOf(c, rules'), enforced'[c])
      BY DEF Fenced
    <2>1. CASE c # d
      BY <1>3, <1>7, <2>1 DEF Fenced
    <2>2. CASE c = d
      BY <1>2, <1>3, <1>8, <2>2 DEF Fence, Rests
    <2>3. QED
      BY <2>1, <2>2
  <1>10. Adding'
    <2> SUFFICES ASSUME NEW u \in Threads, pc'[u] = "apply", ~slipped'[config'[u]]
                 PROVE  Filled(RulesOf(config'[u], rules'), snapshot'[u] \ entries'[u])
      BY DEF Adding
    <2>1. config[u] # d
      BY <1>2, <1>3 DEF Alone
    <2>2. QED
      BY <1>3, <1>7, <2>1 DEF Adding
  <1>11. QED
    BY <1>5, <1>6, <1>9, <1>10

(* The task has deleted all rules of its config, and no command of it has  *)
(* failed yet.                                                             *)
LEMMA ApplyWhitelistKeeps ==
  ASSUME Base, Base', Apart, ~crossed', NEW t \in Threads, apply_whitelist(t)
  PROVE  Apart'
  <1> USE DEF apply_whitelist, Apart
  <1>0. TypeOK
    BY DEF Base
  <1> DEFINE d == config[t]
  <1>1. /\ pc'[t] = "apply" /\ pc[t] = "delete" /\ indices[t] = {} /\ ~stale[t]
        /\ snapshot[t] = whitelist[d] /\ entries'[t] = snapshot[t]
        /\ d \in Configs /\ Serving(t, d) /\ ~slipped'[d]
        /\ \A u \in Threads \ {t} : pc'[u] = pc[u] /\ entries'[u] = entries[u]
        /\ \A c \in Configs \ {d} : slipped'[c] = slipped[c]
    BY <1>0 DEF TypeOK, NumbersAll, Snapshots, Serving
  <1>2. Members(RulesOf(d, rules)) = {}
    <2>1. ASSUME NEW r \in Members(RulesOf(d, rules)) PROVE FALSE
      <3>1. \E i \in DOMAIN rules : rules[i] = r /\ r.app = d
        BY <1>0, MembersIs DEF TypeOK
      <3>2. QED
        BY <1>1, <3>1 DEF NumbersAll
    <2>2. QED
      BY <2>1
  <1>3. Alone'
    BY <1>1 DEF Alone
  <1>4. NumbersAll'
    BY <1>1 DEF NumbersAll
  <1>5. Snapshots'
    BY <1>1 DEF Snapshots
  <1>6. Rests'
    BY <1>1 DEF Rests, Serving
  <1>7. Fenced'
    <2> SUFFICES ASSUME NEW c \in Configs, ~slipped'[c]
                 PROVE  /\ Fence(RulesOf(c, rules'), enforced'[c])
                        /\ settled'[c] => Shut(RulesOf(c, rules'), enforced'[c])
      BY DEF Fenced
    <2>1. CASE c # d
      BY <1>1, <2>1 DEF Fenced
    <2>2. CASE c = d
      BY <1>1, <1>2, <2>2 DEF Fence, Rests
    <2>3. QED
      BY <2>1, <2>2
  <1>8. Adding'
    <2> SUFFICES ASSUME NEW u \in Threads, pc'[u] = "apply", ~slipped'[config'[u]]
                 PROVE  Filled(RulesOf(config'[u], rules'), snapshot'[u] \ entries'[u])
      BY DEF Adding
    <2>1. CASE u = t
      BY <1>1, <1>2, <2>1 DEF Filled
    <2>2. CASE u # t
      <3>1. config[u] # d /\ config[u] \in Configs
        BY <1>0, <1>1, <2>2 DEF Alone, TypeOK
      <3>2. QED
        BY <1>1, <2>2, <3>1 DEF Adding
    <2>3. QED
      BY <2>1, <2>2
  <1>9. QED
    BY <1>3, <1>4, <1>5, <1>6, <1>7, <1>8

(* A command of a task moves no rule of another config.                    *)
LEMMA CommandMovesNone ==
  ASSUME TypeOK, NEW t \in Threads, NEW action \in {"allow", "reject"},
         NEW from \in Sources \cup {Anywhere}, Command(t, action, from),
         NEW j \in DOMAIN rules', rules'[j].app # config[t]
  PROVE  j \in DOMAIN rules /\ rules'[j].app = rules[j].app
  <1> DEFINE r == [app |-> config[t], action |-> action, from |-> from]
  <1>0. Len(rules) \in Nat /\ DOMAIN rules = 1 .. Len(rules) /\ rules \in Seq(Rule)
    BY DEF TypeOK
  <1>1. r \in Rule /\ r.app = config[t]
    BY CommandTyped
  <1>2. CASE UNCHANGED rules
    BY <1>2
  <1>3. CASE rules' = With(r)
    <2> HIDE DEF r
    <2>1. CASE /\ DOMAIN With(r) = 1 .. Len(rules) + 1
               /\ With(r)[Len(rules) + 1] = r
               /\ \A i \in DOMAIN rules : With(r)[i] = rules[i]
      BY <1>0, <1>1, <1>3, <2>1
    <2>2. CASE \E m \in Same(r) : /\ DOMAIN With(r) = DOMAIN rules
                                  /\ With(r)[m] = r
                                  /\ \A i \in DOMAIN rules \ {m} : With(r)[i] = rules[i]
      BY <1>1, <1>3, <2>2
    <2>3. QED
      BY <1>0, <1>1, <2>1, <2>2, WithIs
  <1>4. QED
    BY <1>2, <1>3 DEF Command

(* While a task adds rules, none of its config rejects.                    *)
LEMMA NoneRejects ==
  ASSUME Base, NEW c, NEW D, Filled(RulesOf(c, rules), D)
  PROVE  \A q \in Members(RulesOf(c, rules)) :
           q.from \in Sources /\ q.from # Anywhere /\ q.action # "reject"
  <1> SUFFICES ASSUME NEW q \in Members(RulesOf(c, rules))
               PROVE  q.from \in Sources /\ q.from # Anywhere /\ q.action # "reject"
    OBVIOUS
  <1>1. q.from \in Sources /\ q.from # Anywhere
    BY SourcesAssumption DEF Filled
  <1>2. PICK i \in DOMAIN rules : rules[i] = q
    BY MembersIs DEF Base, TypeOK
  <1>3. QED
    BY <1>1, <1>2 DEF Base, Rejecting

(* What a step of apply_whitelist leaves alone.                            *)
LEMMA OtherConfigs ==
  ASSUME Base, Apart, NEW t \in Threads, pc[t] = "apply",
         (\E e \in Sources \cup {Junk} : apply_entry(t, e)) \/ apply_last(t)
  PROVE  /\ \A c \in Configs \ {config[t]} :
              /\ RulesOf(c, rules') = RulesOf(c, rules) /\ slipped'[c] = slipped[c]
              /\ enforced'[c] = enforced[c] /\ settled'[c] = settled[c]
         /\ \A u \in Threads \ {t} :
              /\ pc'[u] = pc[u] /\ snapshot'[u] = snapshot[u] /\ entries'[u] = entries[u]
              /\ indices'[u] = indices[u] /\ stale'[u] = stale[u]
              /\ pc[u] # "idle" => config[u] # config[t]
         /\ UNCHANGED <<whitelist, config>>
         /\ \A u \in Threads \ {t} : pc[u] = "delete" /\ ~stale[u] =>
              \A j \in DOMAIN rules' : rules'[j].app = config[u] => j \in indices[u]
  <1>0. TypeOK
    BY DEF Base
  <1>1. \A u \in Threads \ {t} : pc[u] # "idle" => config[u] # config[t]
    BY DEF Apart, Alone
  <1>2. \A c \in Configs \ {config[t]} : RulesOf(c, rules') = RulesOf(c, rules)
    BY OthersKept
  <1>3. ASSUME NEW e \in Sources \cup {Junk}, apply_entry(t, e)
        PROVE  /\ \A c \in Configs \ {config[t]} :
                    /\ slipped'[c] = slipped[c]
                    /\ enforced'[c] = enforced[c] /\ settled'[c] = settled[c]
               /\ \A u \in Threads \ {t} :
                    /\ pc'[u] = pc[u] /\ snapshot'[u] = snapshot[u] /\ entries'[u] = entries[u]
                    /\ indices'[u] = indices[u] /\ stale'[u] = stale[u]
               /\ UNCHANGED <<whitelist, config>>
    BY <1>0, <1>3 DEF apply_entry, Command, TypeOK
  <1>4. ASSUME apply_last(t)
        PROVE  /\ \A c \in Configs \ {config[t]} :
                    /\ slipped'[c] = slipped[c]
                    /\ enforced'[c] = enforced[c] /\ settled'[c] = settled[c]
               /\ \A u \in Threads \ {t} :
                    /\ pc'[u] = pc[u] /\ snapshot'[u] = snapshot[u] /\ entries'[u] = entries[u]
                    /\ indices'[u] = indices[u] /\ stale'[u] = stale[u]
               /\ UNCHANGED <<whitelist, config>>
    BY <1>0, <1>4 DEF apply_last, Close, Return, Command, TypeOK
  <1>5. ASSUME NEW j \in DOMAIN rules', rules'[j].app # config[t]
        PROVE  j \in DOMAIN rules /\ rules'[j].app = rules[j].app
    <2>1. CASE UNCHANGED rules
      BY <1>5, <2>1
    <2>2. CASE \E e \in Sources : Command(t, "allow", e)
      BY <1>0, <1>5, <2>2, CommandMovesNone
    <2>3. CASE apply_last(t)
      BY <1>0, <1>5, <2>3, CommandMovesNone DEF apply_last, Close
    <2>4. QED
      BY <1>0, <2>1, <2>2, <2>3, EntryCommand
  <1>6. ASSUME NEW u \in Threads \ {t}, pc[u] = "delete", ~stale[u],
               NEW j \in DOMAIN rules', rules'[j].app = config[u]
        PROVE  j \in indices[u]
    BY <1>1, <1>5, <1>6 DEF Apart, NumbersAll
  <1>7. QED
    BY <1>1, <1>2, <1>3, <1>4, <1>6

(* An address is allowed, its command fails, or an entry is skipped.       *)
LEMMA ApplyEntryKeeps ==
  ASSUME Base, Base', Apart, ~crossed', NEW t \in Threads, NEW e \in Sources \cup {Junk},
         apply_entry(t, e)
  PROVE  Apart'
  <1> DEFINE d == config[t]
             D == snapshot[t] \ entries[t]
  <1>0. TypeOK /\ e \in entries[t]
    BY DEF Base, apply_entry
  <1>1. /\ pc[t] = "apply" /\ d \in Configs /\ Serving(t, d) /\ e \in snapshot[t] /\ ~stale[t]
        /\ pc'[t] = "apply" /\ entries'[t] = entries[t] \ {e} /\ snapshot'[t] = snapshot[t]
        /\ indices'[t] = {} /\ ~stale'[t]
        /\ UNCHANGED <<enforced, settled>>
    BY <1>0 DEF apply_entry, TypeOK, Base, Numbers, Apart, Snapshots, NumbersAll, Serving
  <1>2. /\ \A c \in Configs \ {d} :
              /\ RulesOf(c, rules') = RulesOf(c, rules) /\ slipped'[c] = slipped[c]
              /\ enforced'[c] = enforced[c] /\ settled'[c] = settled[c]
        /\ \A u \in Threads \ {t} :
              /\ pc'[u] = pc[u] /\ snapshot'[u] = snapshot[u] /\ entries'[u] = entries[u]
              /\ indices'[u] = indices[u] /\ stale'[u] = stale[u]
              /\ pc[u] # "idle" => config[u] # d
        /\ UNCHANGED <<whitelist, config>>
        /\ \A u \in Threads \ {t} : pc[u] = "delete" /\ ~stale[u] =>
              \A j \in DOMAIN rules' : rules'[j].app = config[u] => j \in indices[u]
    BY <1>1, OtherConfigs
  <1>3. Alone'
    BY <1>1, <1>2 DEF Apart, Alone
  <1>4. NumbersAll'
    BY <1>1, <1>2 DEF Apart, NumbersAll
  <1>5. Snapshots'
    BY <1>1, <1>2 DEF Apart, Snapshots
  <1>6. Rests'
    BY <1>1, <1>2 DEF Apart, Rests, Serving
  <1>7. ~slipped'[d] => Filled(RulesOf(d, rules'), snapshot[t] \ (entries[t] \ {e}))
    <2> SUFFICES ASSUME ~slipped'[d]
                 PROVE  Filled(RulesOf(d, rules'), snapshot[t] \ (entries[t] \ {e}))
      OBVIOUS
    <2>1. snapshot[t] \ (entries[t] \ {e}) = D \cup {e}
      BY <1>0, <1>1
    <2>2. CASE e \notin Sources /\ UNCHANGED <<rules, slipped>>
      <3>1. Filled(RulesOf(d, rules), D)
        BY <1>1, <2>2 DEF Apart, Adding
      <3>2. (D \cup {e}) \cap Sources = D \cap Sources
        BY <2>2
      <3> HIDE DEF D
      <3>3. QED
        BY <2>1, <2>2, <3>1, <3>2 DEF Filled
    <2>3. CASE e \in Sources /\ Command(t, "allow", e)
      <3> DEFINE r == [app |-> d, action |-> "allow", from |-> e]
      <3>1. rules' = With(r) /\ ~slipped[d]
        BY <1>0, <1>1, <2>3 DEF Command, TypeOK
      <3>2. Filled(RulesOf(d, rules), D)
        BY <1>1, <3>1 DEF Apart, Adding
      <3>3. r \in Rule /\ r.app = d /\ r.from = e
        BY <1>0, <2>3, CommandTyped
      <3>4. e \notin D
        BY <1>0
      <3> HIDE DEF r, D, d
      <3>5. Members(RulesOf(d, rules')) = Members(RulesOf(d, rules)) \cup {r}
        BY <3>1, <3>2, <3>3, <3>4, AddedLast DEF Filled
      <3>6. QED
        BY <2>1, <2>3, <3>2, <3>3, <3>5 DEF Filled
    <2>4. QED
      BY <1>0, <2>2, <2>3, EntryCommand
  <1>8. Fenced'
    <2> SUFFICES ASSUME NEW c \in Configs, ~slipped'[c]
                 PROVE  /\ Fence(RulesOf(c, rules'), enforced'[c])
                        /\ settled'[c] => Shut(RulesOf(c, rules'), enforced'[c])
      BY DEF Fenced
    <2>1. CASE c # d
      BY <1>2, <2>1 DEF Apart, Fenced
    <2>2. CASE c = d
      <3>1. ~settled'[c]
        BY <1>1, <2>2 DEF Apart, Rests
      <3>2. \A q \in Members(RulesOf(d, rules')) : q.action # "reject"
        <4>1. \A q \in Members(RulesOf(d, rules')) : q.from # Anywhere
          BY <1>7, <2>2, SourcesAssumption DEF Filled
        <4>2. \A q \in Members(RulesOf(d, rules')) : \E i \in DOMAIN rules' : rules'[i] = q
          BY MembersIs DEF Base, TypeOK
        <4>3. QED
          BY <4>1, <4>2 DEF Base, Rejecting
      <3>3. QED
        BY <2>2, <3>1, <3>2 DEF Fence
    <2>3. QED
      BY <2>1, <2>2
  <1>9. Adding'
    <2> SUFFICES ASSUME NEW u \in Threads, pc'[u] = "apply", ~slipped'[config'[u]]
                 PROVE  Filled(RulesOf(config'[u], rules'), snapshot'[u] \ entries'[u])
      BY DEF Adding
    <2>1. CASE u = t
      BY <1>1, <1>2, <1>7, <2>1
    <2>2. CASE u # t
      <3>1. config[u] # d /\ config[u] \in Configs /\ pc[u] = "apply"
        BY <1>0, <1>2, <2>2 DEF TypeOK
      <3>2. QED
        BY <1>2, <2>2, <3>1 DEF Apart, Adding
    <2>3. QED
      BY <2>1, <2>2
  <1>10. QED
    BY <1>3, <1>4, <1>5, <1>6, <1>8, <1>9 DEF Apart

(* The closing rule comes last: the fence is shut around the whitelist.    *)
LEMMA ApplyLastKeeps ==
  ASSUME Base, Base', Apart, ~crossed', NEW t \in Threads, apply_last(t)
  PROVE  Apart'
  <1> DEFINE d == config[t]
             W == snapshot[t]
             action == IF W = {} THEN "allow" ELSE "reject"
             r == [app |-> d, action |-> action, from |-> Anywhere]
  <1>0. TypeOK /\ pc[t] = "apply" /\ entries[t] = {} /\ Command(t, action, Anywhere)
    BY DEF Base, apply_last, Close
  <1>1. /\ d \in Configs /\ Serving(t, d) /\ W = whitelist[d]
        /\ pc'[t] = "idle" /\ entries'[t] = {} /\ snapshot'[t] = {}
        /\ indices'[t] = {} /\ ~stale'[t]
        /\ enforced'[d] = W /\ settled'[d]
    BY <1>0 DEF apply_last, Close, Return, TypeOK, Base, Apart, Snapshots, Serving
  <1>2. /\ \A c \in Configs \ {d} :
              /\ RulesOf(c, rules') = RulesOf(c, rules) /\ slipped'[c] = slipped[c]
              /\ enforced'[c] = enforced[c] /\ settled'[c] = settled[c]
        /\ \A u \in Threads \ {t} :
              /\ pc'[u] = pc[u] /\ snapshot'[u] = snapshot[u] /\ entries'[u] = entries[u]
              /\ indices'[u] = indices[u] /\ stale'[u] = stale[u]
              /\ pc[u] # "idle" => config[u] # d
        /\ UNCHANGED <<whitelist, config>>
        /\ \A u \in Threads \ {t} : pc[u] = "delete" /\ ~stale[u] =>
              \A j \in DOMAIN rules' : rules'[j].app = config[u] => j \in indices[u]
    BY <1>0, OtherConfigs
  <1>3. Alone'
    BY <1>1, <1>2 DEF Apart, Alone
  <1>4. NumbersAll'
    BY <1>1, <1>2 DEF Apart, NumbersAll
  <1>5. Snapshots'
    BY <1>1, <1>2 DEF Apart, Snapshots
  <1>6. Rests'
    <2> SUFFICES ASSUME NEW c \in Configs, settled'[c]
                 PROVE  whitelist'[c] = enforced'[c] /\ \A u \in Threads : ~Serving(u, c)'
      BY DEF Rests
    <2>1. CASE c = d
      BY <1>1, <1>2, <2>1 DEF Serving
    <2>2. CASE c # d
      BY <1>1, <1>2, <2>2 DEF Apart, Rests, Serving
    <2>3. QED
      BY <2>1, <2>2
  <1>7. ~slipped'[d] => Fence(RulesOf(d, rules'), W) /\ Shut(RulesOf(d, rules'), W)
    <2> SUFFICES ASSUME ~slipped'[d]
                 PROVE  Fence(RulesOf(d, rules'), W) /\ Shut(RulesOf(d, rules'), W)
      OBVIOUS
    <2>1. rules' = With(r) /\ ~slipped[d]
      BY <1>0, <1>1 DEF Command, TypeOK
    <2>2. Filled(RulesOf(d, rules), W)
      <3>1. W \ entries[t] = W
        BY <1>0
      <3>2. QED
        BY <1>0, <2>1, <3>1 DEF Apart, Adding
    <2>3. r \in Rule /\ r.app = d /\ r.from = Anywhere /\ r.action = action
      <3>1. action \in {"allow", "reject"}
        OBVIOUS
      <3> HIDE DEF action
      <3>2. QED
        BY <1>0, <3>1, CommandTyped
    <2>4. \A q \in Members(RulesOf(d, rules)) : q.from # Anywhere /\ q.action # "reject"
      BY <2>2, NoneRejects
    <2>5. action = "reject" <=> W # {}
      OBVIOUS
    <2> HIDE DEF r, d, W, action
    <2>6. /\ Members(RulesOf(d, rules')) = Members(RulesOf(d, rules)) \cup {r}
          /\ \A q \in Members(RulesOf(d, rules')) : <<q, r>> \in RulesOf(d, rules')
      BY <2>1, <2>3, <2>4, AddedLast
    <2>7. Fence(RulesOf(d, rules'), W)
      BY <2>2, <2>3, <2>4, <2>5, <2>6 DEF Fence, Filled
    <2>8. Shut(RulesOf(d, rules'), W)
      BY <2>2, <2>3, <2>5, <2>6 DEF Shut, Filled
    <2>9. QED
      BY <2>7, <2>8
  <1>8. Fenced'
    <2> SUFFICES ASSUME NEW c \in Configs, ~slipped'[c]
                 PROVE  /\ Fence(RulesOf(c, rules'), enforced'[c])
                        /\ settled'[c] => Shut(RulesOf(c, rules'), enforced'[c])
      BY DEF Fenced
    <2>1. CASE c # d
      BY <1>2, <2>1 DEF Apart, Fenced
    <2>2. CASE c = d
      BY <1>1, <1>7, <2>2
    <2>3. QED
      BY <2>1, <2>2
  <1>9. Adding'
    <2> SUFFICES ASSUME NEW u \in Threads, pc'[u] = "apply", ~slipped'[config'[u]]
                 PROVE  Filled(RulesOf(config'[u], rules'), snapshot'[u] \ entries'[u])
      BY DEF Adding
    <2>1. u # t /\ config[u] # d /\ config[u] \in Configs /\ pc[u] = "apply"
      BY <1>0, <1>1, <1>2 DEF TypeOK
    <2>2. QED
      BY <1>2, <2>1 DEF Apart, Adding
  <1>10. QED
    BY <1>3, <1>4, <1>5, <1>6, <1>8, <1>9 DEF Apart

(* Every step that does not cross another task keeps the tasks apart.      *)
LEMMA ApartStep == Base /\ (~crossed => Apart) /\ [Next]_vars => (~crossed' => Apart')
  <1> SUFFICES ASSUME Base, ~crossed => Apart, [Next]_vars, ~crossed'
               PROVE  Apart'
    OBVIOUS
  <1>1. Base' /\ TypeOK
    BY BaseStep DEF Base
  <1>2. ~crossed
    BY DEF Next, vars, history, reset, generate_peer_config, change_whitelist, Begin,
    Firewall, delete_rules, ufw_delete, Delete, apply_whitelist, apply_entry,
    apply_last, Close, Raises, Return
  <1>3. ASSUME NEW t \in Threads, NEW c \in Configs,
               generate_peer_config(t, c) \/ \E W \in Whitelists : change_whitelist(t, c, W)
        PROVE  Apart'
    <2>1. Begin(t, c) /\ \A d \in Configs \ {c} : whitelist'[d] = whitelist[d]
      BY <1>1, <1>3 DEF generate_peer_config, change_whitelist, TypeOK
    <2>2. QED
      BY <1>1, <1>2, <2>1, BeginKeeps
  <1>4. CASE UNCHANGED vars
    BY <1>2, <1>4 DEF vars, threads, history, Apart, Alone, NumbersAll, Snapshots, Rests,
    Fenced, Adding, Serving
  <1>5. QED
    BY <1>1, <1>2, <1>3, <1>4, ResetKeeps, FirewallKeeps, DeleteRulesKeeps,
    UfwDeleteKeeps, ApplyWhitelistKeeps, ApplyEntryKeeps, ApplyLastKeeps, RaisesKeeps
    DEF Next

LEMMA ApartHolds == Spec => [](Base /\ (~crossed => Apart))
  <1>1. Init => Apart
    <2> SUFFICES ASSUME Init PROVE Apart
      OBVIOUS
    <2>1. DOMAIN rules = {} /\ rules \in Seq(Rule)
      BY DEF Init
    <2>2. \A c \in Configs : Members(RulesOf(c, rules)) = {}
      BY <2>1, MembersIs
    <2>3. Fenced
      BY <2>2 DEF Init, Fenced, Fence, Shut
    <2>4. Alone /\ NumbersAll /\ Snapshots /\ Rests /\ Adding
      BY DEF Init, Alone, NumbersAll, Snapshots, Rests, Adding, Serving
    <2>5. QED
      BY <2>3, <2>4 DEF Apart
  <1>2. QED
    BY <1>1, InitBase, BaseStep, ApartStep, PTL DEF Spec

(* A settled config admits exactly the addresses of its whitelist, with    *)
(* any number of tasks of other configs deleting and adding rules in the   *)
(* same list, unless a command failed unnoticed or tasks crossed.          *)
THEOREM Enforced == Spec => []WhitelistEnforced
  <1>1. Base /\ (~crossed => Apart) => WhitelistEnforced
    <2> SUFFICES ASSUME Base, Apart, NEW c \in Configs, NEW s \in Sources,
                        settled[c], ~slipped[c]
                 PROVE  Allowed(c, s) <=> Permits(whitelist[c], s)
      BY DEF WhitelistEnforced
    <2>1. /\ whitelist[c] = enforced[c]
          /\ Fence(RulesOf(c, rules), enforced[c]) /\ Shut(RulesOf(c, rules), enforced[c])
      BY DEF Apart, Rests, Fenced
    <2>2. QED
      BY <2>1, FenceAdmits, ShutRefuses
  <1>2. QED
    BY <1>1, ApartHolds, PTL

(* delete_rules and apply_whitelist never shut out an address of the       *)
(* whitelist that was applied last, at any step they may fail at.          *)
THEOREM AlwaysAdmitted == Spec => []NeverLockedOut
  <1>1. Base /\ (~crossed => Apart) => NeverLockedOut
    <2> SUFFICES ASSUME Base, Apart, NEW c \in Configs, NEW s \in Sources,
                        ~slipped[c], Permits(enforced[c], s)
                 PROVE  Allowed(c, s)
      BY DEF NeverLockedOut
    <2>1. Fence(RulesOf(c, rules), enforced[c])
      BY DEF Apart, Fenced
    <2>2. QED
      BY <2>1, FenceAdmits
  <1>2. QED
    BY <1>1, ApartHolds, PTL
=============================================================================
