-------------------------- MODULE ConfigFileProofs --------------------------
(***************************************************************************)
(* The invariants of ConfigFile for any number of loaders, sections, keys  *)
(* and values, with crashes.                                               *)
(*                                                                         *)
(* ApiImpliesAllSections and OrderStable hold together: a loader is built  *)
(* only from a file with [api], so it has every section in order           *)
(* (MemWhole); what it writes back is such a file again, and what          *)
(* write_changes composes has [api] only if the file it read did           *)
(* (TempWhole).  OrderStable needs the loop invariant of                   *)
(* load_all_aws_config (Numbered), and the type of saved that a key given  *)
(* to set_value has a value (DirtyHaveValues).                             *)
(*                                                                         *)
(* For loaders that never overlap, SerialInv follows a saved value from    *)
(* the file through the loader's memory and temp_config back to the file.  *)
(***************************************************************************)
EXTENDS ConfigFile, TLAPS

MemWhole  == \A l \in Loaders : pc[l] # "none" => mem[l].names = Sections
TempWhole == \A l \in Loaders : temp[l].api => temp[l].names = Sections

(* The sections load_all_aws_config has passed carry their positions.      *)
Looping == {"reset", "resetOpen", "reorder", "reorderOpen"}
Built   == {"ready", "locked", "writeOpen"}
Order(l, i) == mem[l].body[Sections[i]].order
Numbered ==
  \A l \in Loaders, i \in DOMAIN Sections :
    /\ pc[l] \in Built => Order(l, i) = i
    /\ pc[l] \in Looping /\ i < pos[l] => Order(l, i) = i
    /\ pc[l] = "reorderOpen" /\ i = pos[l] => Order(l, i) = i

(* Keys are given to set_value only after the loop, and have values then.  *)
DirtyHaveValues ==
  \A l \in Loaders :
    /\ pc[l] \notin Built => dirty[l] = {}
    /\ \A c \in Config, k \in Keys :
         <<c, k>> \in dirty[l] => mem[l].body[c].keys[k] \in Vals

Invariant ==
  /\ TypeOK
  /\ ApiImpliesAllSections /\ MemWhole /\ TempWhole
  /\ Numbered /\ DirtyHaveValues

-----------------------------------------------------------------------------
(* Sections and images.                                                    *)

Object == [names : Seq(Config), body : [Config -> Section]]

(* The operator's sections are a sequence of configs, each of them in it.  *)
LEMMA SectionsFacts ==
  /\ Sections \in Seq(Config) /\ Len(Sections) \in Nat \ {0}
  /\ DOMAIN Sections = 1 .. Len(Sections)
  /\ \A i \in 1 .. Len(Sections) : Sections[i] \in Config
  /\ \A c \in Config : \E i \in DOMAIN Sections : Sections[i] = c
  /\ <<>> \in Seq(Config)
  BY SectionsAssumption DEF Config

(* Files, objects and sections the steps build from scratch.               *)
LEMMA FixedImages ==
  /\ NoSection \in Section
  /\ Empty \in Image /\ Corrupt \in Image /\ NoObject \in Object
  /\ ~Empty.api /\ ~Corrupt.api
  <1>1. 0 \in Orders
    BY SectionsFacts DEF Orders
  <1>2. NoSection \in Section
    BY <1>1 DEF NoSection, Section
  <1>3. [c \in Config |-> NoSection] \in [Config -> Section]
    BY <1>2
  <1>4. Empty \in Image /\ ~Empty.api
    BY <1>3, SectionsFacts DEF Empty, Image
  <1>5. Corrupt \in Image /\ Corrupt.api = Empty.api
    BY <1>4 DEF Corrupt, Image
  <1>6. NoObject \in Object
    BY <1>3, SectionsFacts DEF NoObject, Empty, Object
  <1>7. QED
    BY <1>2, <1>4, <1>5, <1>6

(* The keys of a section after load_aws_config, and after the update of    *)
(* write_changes.                                                          *)
LEMMA SectionOps ==
  ASSUME NEW s \in Section, NEW t \in Section
  PROVE  /\ WithDefaults(s) \in Section /\ WithDefaults(s).order = s.order
         /\ Merge(s, t) \in Section /\ Merge(s, t).order = s.order
  <1>1. \A k \in Keys : Effective(s.keys[k]) \in Vals
    BY ValsAssumption DEF Section, Effective
  <1>2. [k \in Keys |-> Effective(s.keys[k])] \in [Keys -> Vals \cup {Absent}]
    BY <1>1
  <1>3. WithDefaults(s) \in Section /\ WithDefaults(s).order = s.order
    BY <1>2 DEF WithDefaults, Section
  <1>4. [k \in Keys |-> IF s.keys[k] = Absent THEN t.keys[k] ELSE s.keys[k]]
          \in [Keys -> Vals \cup {Absent}]
    BY DEF Section
  <1>5. Merge(s, t) \in Section /\ Merge(s, t).order = s.order
    BY <1>4 DEF Merge, Section
  <1>6. QED
    BY <1>3, <1>5

(* What write_changes composes has [api] only if the file had it, and then *)
(* it has every section.                                                   *)
LEMMA TargetWhole ==
  ASSUME NEW img \in Image, img.api => img.names = Sections,
         NEW c \in Config, NEW s \in Section
  PROVE  /\ WithTarget(img, c, s) \in Image
         /\ WithTarget(img, c, s).api => WithTarget(img, c, s).names = Sections
  <1>1. Merge(s, img.body[c]) \in Section
    BY SectionOps DEF Image
  <1>2. [img.body EXCEPT ![c] = Merge(s, img.body[c])] \in [Config -> Section]
    BY <1>1 DEF Image
  <1>3. img.names \in Seq(Config) /\ img.api \in BOOLEAN
    BY DEF Image
  <1>4. Append(img.names, c) \in Seq(Config)
    BY <1>3
  <1>5. img.api => Has(img, c)
    BY SectionsFacts DEF Has
  <1>6. QED
    BY <1>2, <1>3, <1>4, <1>5 DEF WithTarget, Image

(* The text of a loader is the file with every section.                    *)
LEMMA TextWhole ==
  ASSUME TypeOK, MemWhole, NEW l \in Loaders, pc[l] # "none"
  PROVE  Text(l) \in Image /\ Text(l).names = Sections
  BY DEF TypeOK, MemWhole, Text, Image

(* Closing a file leaves the text, or a file that does not parse.          *)
LEMMA WrittenWhole ==
  ASSUME NEW img \in Image, img.api => img.names = Sections,
         NEW f \in Written(img)
  PROVE  f \in Image /\ (f.api => f.names = Sections)
  BY FixedImages DEF Written

-----------------------------------------------------------------------------
(* Init: the operator's file, and no loader.                               *)
LEMMA InitInvariant == Init => Invariant
  <1> SUFFICES ASSUME Init PROVE Invariant
    OBVIOUS
  <1> PICK ks \in [Config -> [Keys -> Vals \cup {Absent}]] :
        /\ disk = [parses |-> TRUE, api |-> TRUE, names |-> Sections,
                   body |-> [c \in Config |-> [order |-> 0, keys |-> ks[c]]]]
        /\ saved = [c \in Config |-> [k \in Keys |-> Effective(ks[c][k])]]
    BY DEF Init
  <1>1. disk \in Image
    BY SectionsFacts DEF Image, Section, Orders
  <1>2. saved \in [Config -> [Keys -> Vals]]
    BY ValsAssumption DEF Effective
  <1>3. mem \in [Loaders -> Object]
    BY FixedImages DEF Init
  <1>4. TypeOK
    BY <1>1, <1>2, <1>3, FixedImages, SectionsFacts
    DEF Init, TypeOK, Object, PcValues
  <1>5. ApiImpliesAllSections /\ MemWhole /\ TempWhole
    BY FixedImages DEF Init, ApiImpliesAllSections, MemWhole, TempWhole
  <1>6. Numbered
    BY DEF Init, Numbered, Built, Looping
  <1>7. DirtyHaveValues
    BY DEF Init, DirtyHaveValues
  <1>8. QED
    BY <1>4, <1>5, <1>6, <1>7 DEF Invariant

(* In the loop, the section at the counter is one of the loader's.         *)
LEMMA CurrentSection ==
  ASSUME Invariant, NEW l \in Loaders, pc[l] # "none"
  PROVE  /\ mem[l].names = Sections /\ pos[l] \in DOMAIN Sections
         /\ mem[l].names[pos[l]] \in Config
         /\ mem[l] \in Object
  BY SectionsFacts DEF Invariant, TypeOK, MemWhole, Object

(* Opening the file with an order in the current section: the section has  *)
(* that order, the others keep theirs, and the file is empty.              *)
LEMMA OpenKeeps ==
  ASSUME Invariant, NEW l \in Loaders, NEW n \in Orders,
         pc[l] \in {"reset", "reorder"}, NEW next \in {"resetOpen", "reorderOpen"},
         pc' = [pc EXCEPT ![l] = next], OpenWithOrder(l, n),
         next = "reorderOpen" => n = pos[l]
  PROVE  Invariant'
  <1> DEFINE c == mem[l].names[pos[l]]
  <1>1. /\ mem[l].names = Sections /\ pos[l] \in DOMAIN Sections /\ c \in Config
        /\ c = Sections[pos[l]]
    BY CurrentSection
  <1>2. mem[l] \in Object
    BY CurrentSection
  <1> DEFINE b == [mem[l].body EXCEPT ![c].order = n]
  <1>3. b \in [Config -> Section]
    BY <1>1, <1>2 DEF Object, Section
  <1>4. mem' = [mem EXCEPT ![l].body = b]
    BY DEF OpenWithOrder
  <1>5. mem' \in [Loaders -> Object]
    BY <1>3, <1>4, ZenonT(30) DEF Invariant, TypeOK, Object
  <1>6. TypeOK'
    BY <1>5, FixedImages DEF Invariant, TypeOK, Object, OpenWithOrder, history, PcValues
  <1>7. ApiImpliesAllSections' /\ TempWhole'
    BY FixedImages DEF Invariant, ApiImpliesAllSections, TempWhole, OpenWithOrder
  <1>8. MemWhole'
    BY <1>4 DEF Invariant, TypeOK, MemWhole
  <1>9. Numbered'
    <2> SUFFICES ASSUME NEW m \in Loaders, NEW i \in DOMAIN Sections
                 PROVE  /\ pc'[m] \in Built => Order(m, i)' = i
                        /\ pc'[m] \in Looping /\ i < pos'[m] => Order(m, i)' = i
                        /\ pc'[m] = "reorderOpen" /\ i = pos'[m] => Order(m, i)' = i
      BY DEF Numbered
    <2>1. m # l => pc'[m] = pc[m] /\ mem'[m] = mem[m] /\ pos'[m] = pos[m]
      BY <1>4 DEF Invariant, TypeOK, OpenWithOrder
    <2>2. CASE m # l
      BY <2>1, <2>2 DEF Invariant, Numbered, Order
    <2>3. CASE m = l
      <3>1. pc'[l] = next /\ pos'[l] = pos[l] /\ mem'[l].body = b
        BY <1>4 DEF Invariant, TypeOK, OpenWithOrder
      <3>2. i # pos[l] => b[Sections[i]] = mem[l].body[Sections[i]]
        BY <1>1, <1>2, SectionsAssumption DEF Object
      <3>3. b[Sections[pos[l]]].order = n
        BY <1>1, <1>2 DEF Object, Section
      <3>4. i < pos[l] => i # pos[l]
        BY <1>1, SectionsFacts
      <3>5. QED
        BY <2>3, <3>1, <3>2, <3>3, <3>4
        DEF Invariant, Numbered, Order, Built, Looping
    <2>4. QED
      BY <2>2, <2>3
  <1>10. DirtyHaveValues'
    BY <1>4 DEF Invariant, TypeOK, DirtyHaveValues, Built, OpenWithOrder, history
  <1>11. QED
    BY <1>6, <1>7, <1>8, <1>9, <1>10 DEF Invariant
(* What concerns one loader only: its record, its step and its counter.    *)
NumberedFor(l) ==
  \A i \in DOMAIN Sections :
    /\ pc[l] \in Built => Order(l, i) = i
    /\ pc[l] \in Looping /\ i < pos[l] => Order(l, i) = i
    /\ pc[l] = "reorderOpen" /\ i = pos[l] => Order(l, i) = i

(* A step of l leaves the numbers of the other loaders alone.              *)
LEMMA NumberedOthers ==
  ASSUME Invariant, NEW l \in Loaders, NumberedFor(l)',
         \A m \in Loaders \ {l} : /\ pc'[m] = pc[m] /\ mem'[m] = mem[m]
                                  /\ pos'[m] = pos[m]
  PROVE  Numbered'
  BY DEF Invariant, Numbered, NumberedFor, Order

(* A new loader has the sections of a file with [api].                     *)
LEMMA ConfigLoaderKeeps ==
  ASSUME Invariant, NEW l \in Loaders, ConfigLoader(l)
  PROVE  Invariant'
  <1>1. disk.names = Sections /\ disk.body \in [Config -> Section]
    BY DEF Invariant, TypeOK, Image, ApiImpliesAllSections, ConfigLoader
  <1>2. pc' = [pc EXCEPT ![l] = "reset"]
    BY <1>1, SectionsAssumption DEF ConfigLoader
  <1>3. mem' \in [Loaders -> Object]
    BY <1>1, SectionsFacts DEF Invariant, TypeOK, Object, ConfigLoader
  <1>4. TypeOK'
    BY <1>2, <1>3, SectionsFacts, SMTT(30)
    DEF Invariant, TypeOK, Object, ConfigLoader, history, PcValues
  <1>5. ApiImpliesAllSections' /\ TempWhole'
    BY DEF Invariant, ApiImpliesAllSections, TempWhole, ConfigLoader
  <1>6. MemWhole'
    BY <1>1 DEF Invariant, TypeOK, MemWhole, ConfigLoader
  <1>7. NumberedFor(l)'
    BY <1>2, SectionsFacts DEF Invariant, TypeOK, NumberedFor, Built, ConfigLoader
  <1>8. Numbered'
    BY <1>7, NumberedOthers DEF Invariant, TypeOK, ConfigLoader
  <1>9. DirtyHaveValues'
    BY <1>2 DEF Invariant, TypeOK, DirtyHaveValues, Built, ConfigLoader, history
  <1>10. QED
    BY <1>4, <1>5, <1>6, <1>8, <1>9 DEF Invariant

(* The first rewrite of a section arrives in the file.                     *)
LEMMA ResetCloseKeeps ==
  ASSUME Invariant, NEW l \in Loaders, reset_aws_config_order_close(l)
  PROVE  Invariant'
  <1>1. Text(l) \in Image /\ Text(l).names = Sections
    BY TextWhole DEF Invariant, reset_aws_config_order_close
  <1>2. disk' \in Image /\ (disk'.api => disk'.names = Sections)
    BY <1>1, WrittenWhole DEF reset_aws_config_order_close
  <1>3. TypeOK'
    BY <1>2 DEF Invariant, TypeOK, reset_aws_config_order_close, history, PcValues
  <1>4. ApiImpliesAllSections' /\ TempWhole' /\ MemWhole'
    BY <1>2 DEF Invariant, TypeOK, ApiImpliesAllSections, TempWhole, MemWhole,
    reset_aws_config_order_close
  <1>5. NumberedFor(l)'
    BY DEF Invariant, TypeOK, Numbered, NumberedFor, Order, Built, Looping,
    reset_aws_config_order_close
  <1>6. Numbered'
    BY <1>5, NumberedOthers DEF Invariant, TypeOK, reset_aws_config_order_close
  <1>7. DirtyHaveValues'
    BY DEF Invariant, TypeOK, DirtyHaveValues, Built,
    reset_aws_config_order_close, history
  <1>8. QED
    BY <1>3, <1>4, <1>6, <1>7 DEF Invariant

(* The second one does; the defaults are set, and the counter advances     *)
(* past a section that has its number.                                     *)
LEMMA ReorderCloseKeeps ==
  ASSUME Invariant, NEW l \in Loaders, reorder_aws_config_close(l)
  PROVE  Invariant'
  <1> DEFINE c == mem[l].names[pos[l]]
             b == [mem[l].body EXCEPT ![c] = WithDefaults(mem[l].body[c])]
  <1>1. /\ mem[l].names = Sections /\ pos[l] \in DOMAIN Sections /\ c \in Config
        /\ c = Sections[pos[l]] /\ mem[l] \in Object
    BY CurrentSection DEF reorder_aws_config_close
  <1>2. mem[l].body \in [Config -> Section]
    BY <1>1 DEF Object
  <1>3. b \in [Config -> Section] /\ \A d \in Config : b[d].order = mem[l].body[d].order
    BY <1>1, <1>2, SectionOps
  <1>4. mem' = [mem EXCEPT ![l].body = b]
    BY DEF reorder_aws_config_close
  <1> HIDE DEF b
  <1>5. mem' \in [Loaders -> Object]
    BY <1>3, <1>4 DEF Invariant, TypeOK, Object
  <1>6. /\ pos[l] \in 1 .. Len(Sections)
        /\ pos'[l] = IF pos[l] < Len(Sections) THEN pos[l] + 1 ELSE 1
        /\ pc'[l] = IF pos[l] < Len(Sections) THEN "reset" ELSE "ready"
    BY <1>1, SectionsFacts DEF Invariant, TypeOK, AfterSection, reorder_aws_config_close
  <1>7. Text(l) \in Image /\ Text(l).names = Sections
    BY TextWhole DEF Invariant, reorder_aws_config_close
  <1>8. disk' \in Image /\ (disk'.api => disk'.names = Sections)
    BY <1>7, WrittenWhole DEF reorder_aws_config_close
  <1>9. pos' \in [Loaders -> 1 .. Len(Sections)] /\ pc' \in [Loaders -> PcValues]
    BY <1>6, SectionsFacts, SMTT(30) DEF Invariant, TypeOK, reorder_aws_config_close,
    AfterSection, PcValues
  <1>10. TypeOK'
    BY <1>5, <1>8, <1>9 DEF Invariant, TypeOK, Object, reorder_aws_config_close, history
  <1>11. ApiImpliesAllSections' /\ TempWhole'
    BY <1>8 DEF Invariant, ApiImpliesAllSections, TempWhole, reorder_aws_config_close
  <1>12. MemWhole'
    BY <1>1, <1>4 DEF Invariant, TypeOK, MemWhole, reorder_aws_config_close
  <1>13. NumberedFor(l)'
    <2> SUFFICES ASSUME NEW i \in DOMAIN Sections
                 PROVE  /\ pc'[l] \in Built => Order(l, i)' = i
                        /\ pc'[l] \in Looping /\ i < pos'[l] => Order(l, i)' = i
                        /\ pc'[l] = "reorderOpen" /\ i = pos'[l] => Order(l, i)' = i
      BY DEF NumberedFor
    <2>1. Order(l, i)' = Order(l, i)
      BY <1>3, <1>4, SectionsFacts DEF Invariant, TypeOK, Order
    <2>2. i <= pos[l] => Order(l, i) = i
      BY <1>6, SectionsFacts DEF Invariant, Numbered, Looping, reorder_aws_config_close
    <2>3. QED
      BY <1>6, <2>1, <2>2, SectionsFacts DEF Built, Looping
  <1>14. Numbered'
    BY <1>13, <1>4, NumberedOthers DEF Invariant, TypeOK, reorder_aws_config_close
  <1>15. DirtyHaveValues'
    BY <1>4 DEF Invariant, TypeOK, DirtyHaveValues, Built, AfterSection,
    reorder_aws_config_close, history
  <1>16. QED
    BY <1>10, <1>11, <1>12, <1>14, <1>15 DEF Invariant

(* set_value changes a key, not the order.                                 *)
LEMMA SetValueKeeps ==
  ASSUME Invariant, NEW l \in Loaders, NEW c \in Config, NEW k \in Keys,
         NEW v \in Vals, set_value(l, c, k, v)
  PROVE  Invariant'
  <1> DEFINE b == [mem[l].body EXCEPT ![c].keys[k] = v]
  <1>1. mem[l] \in Object /\ mem[l].names = Sections
    BY CurrentSection DEF set_value
  <1>2. b \in [Config -> Section] /\ \A d \in Config : b[d].order = mem[l].body[d].order
    BY <1>1 DEF Object, Section
  <1>3. mem' = [mem EXCEPT ![l].body = b]
    BY DEF set_value
  <1>4. mem' \in [Loaders -> Object]
    BY <1>2, <1>3, ZenonT(30) DEF Invariant, TypeOK, Object
  <1>5. \A d \in Config, j \in Keys :
          b[d].keys[j] = IF d = c /\ j = k THEN v ELSE mem[l].body[d].keys[j]
    BY <1>1 DEF Object, Section
  <1> HIDE DEF b
  <1>6. TypeOK'
    <2>1. dirty' \in [Loaders -> SUBSET (Config \X Keys)]
      BY DEF Invariant, TypeOK, set_value
    <2>2. QED
      BY <1>4, <2>1 DEF Invariant, TypeOK, Object, set_value
  <1>7. ApiImpliesAllSections' /\ TempWhole'
    BY DEF Invariant, ApiImpliesAllSections, TempWhole, set_value
  <1>8. MemWhole'
    BY <1>3 DEF Invariant, TypeOK, MemWhole, set_value
  <1>9. NumberedFor(l)'
    BY <1>2, <1>3, SectionsFacts
    DEF Invariant, TypeOK, Numbered, NumberedFor, Order, set_value
  <1>10. Numbered'
    BY <1>3, <1>9, NumberedOthers DEF Invariant, TypeOK, set_value
  <1>11. DirtyHaveValues'
    <2>1. /\ pc[l] = "ready" /\ pc' = pc
          /\ dirty' = [dirty EXCEPT ![l] = dirty[l] \cup {<<c, k>>}]
      BY DEF set_value
    <2>2. ASSUME NEW m \in Loaders, NEW d \in Config, NEW j \in Keys,
                 <<d, j>> \in dirty'[m]
          PROVE  mem'[m].body[d].keys[j] \in Vals
      <3>1. CASE m = l
        <4>1. mem'[m].body[d].keys[j] = IF d = c /\ j = k THEN v
                                        ELSE mem[l].body[d].keys[j]
          BY <1>5, <1>3, <3>1 DEF Invariant, TypeOK
        <4>2. (d = c /\ j = k) \/ <<d, j>> \in dirty[l]
          BY <2>1, <2>2, <3>1 DEF Invariant, TypeOK
        <4>3. QED
          BY <4>1, <4>2 DEF Invariant, DirtyHaveValues
      <3>2. CASE m # l
        BY <1>3, <2>1, <2>2, <3>2 DEF Invariant, TypeOK, DirtyHaveValues
      <3>3. QED
        BY <3>1, <3>2
    <2>3. ASSUME NEW m \in Loaders, pc'[m] \notin Built
          PROVE  dirty'[m] = {}
      BY <2>1, <2>3 DEF Invariant, TypeOK, DirtyHaveValues, Built
    <2>4. QED
      BY <2>2, <2>3 DEF DirtyHaveValues
  <1>12. QED
    BY <1>6, <1>7, <1>8, <1>10, <1>11 DEF Invariant

(* The second call of load_all_aws_config begins.                          *)
LEMMA LoadAllKeeps ==
  ASSUME Invariant, NEW l \in Loaders, load_all_aws_config(l)
  PROVE  Invariant'
  <1>1. TypeOK'
    BY DEF Invariant, TypeOK, load_all_aws_config, history, PcValues
  <1>2. ApiImpliesAllSections' /\ TempWhole' /\ MemWhole'
    BY DEF Invariant, TypeOK, ApiImpliesAllSections, TempWhole, MemWhole,
    load_all_aws_config
  <1>3. NumberedFor(l)'
    BY DEF Invariant, TypeOK, Numbered, NumberedFor, Order, Built, Looping,
    load_all_aws_config
  <1>4. Numbered'
    BY <1>3, NumberedOthers DEF Invariant, TypeOK, load_all_aws_config
  <1>5. DirtyHaveValues'
    BY DEF Invariant, TypeOK, DirtyHaveValues, Built, load_all_aws_config, history
  <1>6. QED
    BY <1>1, <1>2, <1>4, <1>5 DEF Invariant

(* A loader that is gone says nothing.                                     *)
LEMMA DiscardKeeps ==
  ASSUME Invariant, NEW l \in Loaders, Discard(l)
  PROVE  Invariant'
  <1>1. mem' \in [Loaders -> Object]
    BY FixedImages DEF Invariant, TypeOK, Object, Discard
  <1>2. TypeOK'
    BY <1>1 DEF Invariant, TypeOK, Object, Discard, PcValues
  <1>3. ApiImpliesAllSections' /\ TempWhole'
    BY DEF Invariant, ApiImpliesAllSections, TempWhole, Discard
  <1>4. MemWhole'
    BY DEF Invariant, TypeOK, MemWhole, Discard
  <1>5. NumberedFor(l)'
    BY DEF Invariant, TypeOK, NumberedFor, Built, Looping, Discard
  <1>6. Numbered'
    BY <1>5, NumberedOthers DEF Invariant, TypeOK, Discard
  <1>7. DirtyHaveValues'
    BY DEF Invariant, TypeOK, DirtyHaveValues, Built, Discard
  <1>8. QED
    BY <1>2, <1>3, <1>4, <1>6, <1>7 DEF Invariant

(* write_changes reads the file: what it composes has [api] only together  *)
(* with every section.                                                     *)
LEMMA WriteChangesKeeps ==
  ASSUME Invariant, NEW l \in Loaders, NEW c \in Config, write_changes(l, c)
  PROVE  Invariant'
  <1>1. mem[l] \in Object /\ mem[l].body[c] \in Section
    BY CurrentSection DEF write_changes, Object
  <1> DEFINE t == WithTarget(disk, c, mem[l].body[c])
             ks == {k \in Keys : <<c, k>> \in dirty[l]}
             sv == [k \in Keys |-> IF k \in ks THEN mem[l].body[c].keys[k]
                                              ELSE saved[c][k]]
             gone == {<<c, k>> : k \in ks}
  <1>2. t \in Image /\ (t.api => t.names = Sections)
    BY <1>1, TargetWhole DEF Invariant, TypeOK, ApiImpliesAllSections
  <1>3. sv \in [Keys -> Vals]
    BY DEF Invariant, TypeOK, DirtyHaveValues
  <1>4. /\ temp' = [temp EXCEPT ![l] = t]
        /\ saved' = [saved EXCEPT ![c] = sv]
        /\ dirty' = [dirty EXCEPT ![l] = dirty[l] \ gone]
        /\ pc' = [pc EXCEPT ![l] = "locked"] /\ lock' = l
        /\ UNCHANGED <<disk, mem, pos>>
    BY DEF write_changes
  <1> HIDE DEF t, ks, sv, gone
  <1>5. TypeOK'
    <2>1. temp' \in [Loaders -> Image] /\ saved' \in [Config -> [Keys -> Vals]]
      BY <1>2, <1>3, <1>4 DEF Invariant, TypeOK
    <2>2. dirty' \in [Loaders -> SUBSET (Config \X Keys)]
      BY <1>4 DEF Invariant, TypeOK
    <2>3. QED
      BY <1>4, <2>1, <2>2 DEF Invariant, TypeOK, PcValues
  <1>6. ApiImpliesAllSections' /\ MemWhole'
    BY <1>4 DEF Invariant, TypeOK, ApiImpliesAllSections, MemWhole, write_changes
  <1>7. TempWhole'
    BY <1>2, <1>4 DEF Invariant, TypeOK, TempWhole
  <1>8. NumberedFor(l)'
    BY <1>4 DEF Invariant, TypeOK, Numbered, NumberedFor, Order, Built, Looping,
    write_changes
  <1>9. Numbered'
    BY <1>4, <1>8, NumberedOthers DEF Invariant, TypeOK
  <1>10. DirtyHaveValues'
    BY <1>4 DEF Invariant, TypeOK, DirtyHaveValues, Built
  <1>11. QED
    BY <1>5, <1>6, <1>7, <1>9, <1>10 DEF Invariant

(* The file is empty while write_changes has it open.                      *)
LEMMA WriteOpenKeeps ==
  ASSUME Invariant, NEW l \in Loaders, write_changes_open(l)
  PROVE  Invariant'
  <1>1. TypeOK'
    BY FixedImages DEF Invariant, TypeOK, write_changes_open, history, PcValues
  <1>2. ApiImpliesAllSections' /\ TempWhole' /\ MemWhole'
    BY FixedImages DEF Invariant, TypeOK, ApiImpliesAllSections, TempWhole,
    MemWhole, write_changes_open
  <1>3. NumberedFor(l)'
    BY DEF Invariant, TypeOK, Numbered, NumberedFor, Order, Built, Looping,
    write_changes_open
  <1>4. Numbered'
    BY <1>3, NumberedOthers DEF Invariant, TypeOK, write_changes_open
  <1>5. DirtyHaveValues'
    BY DEF Invariant, TypeOK, DirtyHaveValues, Built, write_changes_open, history
  <1>6. QED
    BY <1>1, <1>2, <1>4, <1>5 DEF Invariant

(* The composed file arrives.                                              *)
LEMMA WriteCloseKeeps ==
  ASSUME Invariant, NEW l \in Loaders, write_changes_close(l)
  PROVE  Invariant'
  <1>1. disk' \in Image /\ (disk'.api => disk'.names = Sections)
    BY WrittenWhole DEF Invariant, TypeOK, TempWhole, write_changes_close
  <1>2. TypeOK'
    BY <1>1, FixedImages DEF Invariant, TypeOK, write_changes_close, history, PcValues
  <1>3. ApiImpliesAllSections' /\ TempWhole' /\ MemWhole'
    BY <1>1, FixedImages DEF Invariant, TypeOK, ApiImpliesAllSections, TempWhole,
    MemWhole, write_changes_close
  <1>4. NumberedFor(l)'
    BY DEF Invariant, TypeOK, Numbered, NumberedFor, Order, Built, Looping,
    write_changes_close
  <1>5. Numbered'
    BY <1>4, NumberedOthers DEF Invariant, TypeOK, write_changes_close
  <1>6. DirtyHaveValues'
    BY DEF Invariant, TypeOK, DirtyHaveValues, Built, write_changes_close, history
  <1>7. QED
    BY <1>2, <1>3, <1>5, <1>6 DEF Invariant

(* After a crash there is no loader; the file stays as it is.              *)
LEMMA CrashKeeps ==
  ASSUME Invariant, Crash
  PROVE  Invariant'
  <1>1. mem' \in [Loaders -> Object]
    BY FixedImages DEF Crash
  <1>2. saved' \in [Config -> [Keys -> Vals]]
    <2>1. CASE lock = NoLoader
      BY <2>1 DEF Invariant, TypeOK, Crash
    <2>2. CASE lock # NoLoader
      <3>1. \A c \in Config, k \in Keys : Effective(disk.body[c].keys[k]) \in Vals
        BY ValsAssumption DEF Invariant, TypeOK, Image, Section, Effective
      <3>2. QED
        BY <2>2, <3>1 DEF Crash
    <2>3. QED
      BY <2>1, <2>2
  <1>3. TypeOK'
    BY <1>1, <1>2, FixedImages, SectionsFacts
    DEF Invariant, TypeOK, Object, Crash, PcValues
  <1>4. ApiImpliesAllSections' /\ TempWhole' /\ MemWhole'
    BY FixedImages DEF Invariant, ApiImpliesAllSections, TempWhole, MemWhole, Crash
  <1>5. Numbered' /\ DirtyHaveValues'
    BY DEF Crash, Numbered, DirtyHaveValues, Built, Looping
  <1>6. QED
    BY <1>3, <1>4, <1>5 DEF Invariant

-----------------------------------------------------------------------------
(* Every step of a loader, and a crash, preserves the invariant.           *)
LEMMA StepInvariant == Invariant /\ [Next \/ Crash]_vars => Invariant'
  <1> SUFFICES ASSUME Invariant, [Next \/ Crash]_vars PROVE Invariant'
    OBVIOUS
  <1>1. ASSUME NEW l \in Loaders, Construct(l) PROVE Invariant'
    <2>1. CASE ConfigLoader(l)
      BY <2>1, ConfigLoaderKeeps
    <2>2. CASE UNCHANGED vars
      BY <2>2 DEF Invariant, TypeOK, ApiImpliesAllSections, MemWhole, TempWhole,
      Numbered, Order, DirtyHaveValues, vars, objects, history
    <2>3. CASE reset_aws_config_order(l)
      <3>1. 0 \in Orders
        BY SectionsFacts DEF Orders
      <3>2. QED
        BY <2>3, <3>1, OpenKeeps DEF reset_aws_config_order
    <2>4. CASE reorder_aws_config(l)
      <3>1. pos[l] \in Orders
        BY SectionsFacts DEF Invariant, TypeOK, Orders
      <3>2. QED
        BY <2>4, <3>1, OpenKeeps DEF reorder_aws_config
    <2>5. CASE reset_aws_config_order_close(l)
      BY <2>5, ResetCloseKeeps
    <2>6. CASE reorder_aws_config_close(l)
      BY <2>6, ReorderCloseKeeps
    <2>7. QED
      BY <1>1, <2>1, <2>2, <2>3, <2>4, <2>5, <2>6 DEF Construct, ConfigLoaderRaises
  <1>2. ASSUME NEW l \in Loaders, Use(l) PROVE Invariant'
    BY <1>2, SetValueKeeps, LoadAllKeeps, DiscardKeeps, WriteChangesKeeps,
    WriteOpenKeeps, WriteCloseKeeps DEF Use, write_changes_raises
  <1>3. CASE UNCHANGED vars
    BY <1>3 DEF Invariant, TypeOK, ApiImpliesAllSections, MemWhole, TempWhole,
    Numbered, Order, DirtyHaveValues, vars, objects, history
  <1>4. QED
    BY <1>1, <1>2, <1>3, CrashKeeps DEF Next

(* The invariant holds in every behaviour, crashes included.               *)
LEMMA InvariantHolds == CrashSpec => []Invariant
  BY InitInvariant, StepInvariant, PTL DEF CrashSpec

(* The file, the loaders and the lock keep their types; the counter of     *)
(* load_all_aws_config stays within the sections.                          *)
THEOREM TypeCorrect == CrashSpec => []TypeOK
  <1>1. Invariant => TypeOK
    BY DEF Invariant
  <1>2. QED
    BY <1>1, InvariantHolds, PTL

(* However many loaders rewrite the file, without a lock, and wherever the *)
(* process dies, a file that load_api_config accepts has every section.    *)
THEOREM ApiMeansWhole == CrashSpec => []ApiImpliesAllSections
  <1>1. Invariant => ApiImpliesAllSections
    BY DEF Invariant
  <1>2. QED
    BY <1>1, InvariantHolds, PTL

(* Every loader that load_all_aws_config has finished numbers the sections *)
(* as the operator's file lists them.                                      *)
THEOREM OrderNeverMoves == CrashSpec => []OrderStable
  <1>1. Invariant => OrderStable
    BY DEF Invariant, MemWhole, Numbered, Order, Built, OrderStable
  <1>2. QED
    BY <1>1, InvariantHolds, PTL

-----------------------------------------------------------------------------
(* Loaders that live one after the other.  Outside a rewrite the file      *)
(* holds every section and every saved value; inside one it is empty, and  *)
(* the text that will arrive holds them (the loader's memory or the        *)
(* temp_config of write_changes).  A crash inside a rewrite leaves the     *)
(* file empty for good.                                                    *)
Whole(img) == img.parses /\ img.api /\ img.names = Sections
Faithful(img) ==
  /\ Whole(img)
  /\ \A c \in Config, k \in Keys : Effective(img.body[c].keys[k]) = saved[c][k]

Locking   == {"locked", "writeOpen"}
Truncated == {"resetOpen", "reorderOpen", "writeOpen"}

(* What the state of one live loader says.                                 *)
LoaderFaithful(l) ==
  /\ pc[l] \in Truncated => disk = Empty
  /\ pc[l] \in {"reset", "reorder", "ready"} => Faithful(disk)
  /\ pc[l] = "locked" => Whole(disk)
  /\ pc[l] \in Locking => Faithful(temp[l])
  /\ \A c \in Config, k \in Keys : <<c, k>> \notin dirty[l] =>
       Effective(mem[l].body[c].keys[k]) = saved[c][k]

LockHeld == \A l \in Loaders : pc[l] \in Locking <=> lock = l

SerialInv ==
  /\ LockHeld
  /\ (\A l \in Loaders : pc[l] = "none") => disk = Empty \/ Faithful(disk)
  /\ \A l \in Loaders : pc[l] # "none" => LoaderFaithful(l)

(* A step of the only loader.                                              *)
LEMMA OnlyLoader ==
  ASSUME Serial', NEW l \in Loaders, pc'[l] # "none", LoaderFaithful(l)', LockHeld'
  PROVE  SerialInv'
  BY DEF Serial, SerialInv

(* The lock is the loader's from write_changes to its close.               *)
LEMMA LockHeldStep == Invariant /\ LockHeld /\ [Next \/ Crash]_vars => LockHeld'
  <1> SUFFICES ASSUME Invariant, LockHeld, [Next \/ Crash]_vars PROVE LockHeld'
    OBVIOUS
  <1> TypeOK
    BY DEF Invariant
  <1> USE DEF LockHeld, Locking
  <1>1. ASSUME NEW l \in Loaders, Construct(l) PROVE LockHeld'
    BY <1>1, SMTT(30) DEF TypeOK, Construct, ConfigLoader, ConfigLoaderRaises,
    reset_aws_config_order, reset_aws_config_order_close, reorder_aws_config,
    reorder_aws_config_close, OpenWithOrder, AfterSection, vars, objects
  <1>2. ASSUME NEW l \in Loaders, Use(l) PROVE LockHeld'
    BY <1>2, NoLoaderAssumption, SMTT(30) DEF TypeOK, Use, set_value, load_all_aws_config,
    write_changes, write_changes_raises, write_changes_open, write_changes_close, Discard
  <1>3. CASE Crash
    BY <1>3, NoLoaderAssumption DEF Crash
  <1>4. CASE UNCHANGED vars
    BY <1>4 DEF vars, objects
  <1>5. QED
    BY <1>1, <1>2, <1>3, <1>4 DEF Next

(* What the loader's memory holds is what it writes.                       *)
LEMMA TextFaithful ==
  ASSUME Invariant, NEW l \in Loaders, pc[l] \in Looping, LoaderFaithful(l)
  PROVE  Faithful(Text(l))
  <1>1. mem[l].names = Sections /\ dirty[l] = {}
    BY DEF Invariant, MemWhole, DirtyHaveValues, Looping, Built
  <1>2. QED
    BY <1>1 DEF LoaderFaithful, Faithful, Whole, Text

(* Into a file truncated by the loader itself, nothing but its text goes.  *)
LEMMA WrittenAlone ==
  ASSUME NEW img, disk = Empty, disk' \in Written(img)
  PROVE  disk' = img
  BY DEF Written

(* The constructor reads a file that holds the saved values.               *)
LEMMA SerialConfigLoader ==
  ASSUME Invariant, Serial', SerialInv, LockHeld', NEW l \in Loaders, ConfigLoader(l)
  PROVE  SerialInv'
  <1> TypeOK
    BY DEF Invariant
  <1>1. disk.names = Sections /\ Sections # <<>>
    BY SectionsAssumption DEF Invariant, ApiImpliesAllSections, ConfigLoader
  <1>2. /\ pc'[l] = "reset" /\ mem'[l] = [names |-> disk.names, body |-> disk.body]
        /\ \A m \in Loaders \ {l} : pc'[m] = pc[m]
        /\ pc[l] = "none" /\ UNCHANGED <<disk, temp, dirty, saved>>
    BY <1>1 DEF TypeOK, ConfigLoader, history
  <1>3. \A m \in Loaders : pc[m] = "none"
    BY <1>2 DEF Serial
  <1>4. Faithful(disk)
    BY <1>3, FixedImages DEF SerialInv, ConfigLoader
  <1>5. LoaderFaithful(l)'
    BY <1>2, <1>4 DEF LoaderFaithful, Faithful, Whole, Truncated, Locking
  <1>6. QED
    BY <1>2, <1>5, OnlyLoader

(* Opening the file for a rewrite leaves the keys in memory alone.         *)
LEMMA SerialOpen ==
  ASSUME Invariant, Serial', SerialInv, LockHeld', NEW l \in Loaders,
         reset_aws_config_order(l) \/ reorder_aws_config(l)
  PROVE  SerialInv'
  <1> TypeOK
    BY DEF Invariant
  <1>1. pc[l] # "none" /\ pc'[l] \in {"resetOpen", "reorderOpen"}
    BY DEF TypeOK, reset_aws_config_order, reorder_aws_config
  <1>2. PICK n \in Orders : OpenWithOrder(l, n)
    BY SectionsFacts DEF reset_aws_config_order, reorder_aws_config, Invariant, TypeOK,
    Orders
  <1>3. mem[l] \in Object /\ mem[l].names[pos[l]] \in Config
    BY <1>1, CurrentSection
  <1> DEFINE d == mem[l].names[pos[l]]
             b == [mem[l].body EXCEPT ![d].order = n]
  <1>4. \A c \in Config : b[c].keys = mem[l].body[c].keys
    BY <1>3 DEF Object, Section
  <1>5. mem'[l].body = b /\ disk' = Empty /\ UNCHANGED <<temp, dirty, saved>>
    BY <1>2 DEF OpenWithOrder, TypeOK, history
  <1> HIDE DEF b, d
  <1>6. LoaderFaithful(l)'
    BY <1>1, <1>4, <1>5 DEF SerialInv, LoaderFaithful, Locking, Truncated
  <1>7. QED
    BY <1>1, <1>6, OnlyLoader

(* Its text arrives.                                                       *)
LEMMA SerialResetClose ==
  ASSUME Invariant, Serial', SerialInv, LockHeld', NEW l \in Loaders,
         reset_aws_config_order_close(l)
  PROVE  SerialInv'
  <1> TypeOK
    BY DEF Invariant
  <1>1. /\ pc[l] = "resetOpen" /\ pc'[l] = "reorder" /\ disk' \in Written(Text(l))
        /\ UNCHANGED <<mem, temp, dirty, saved>>
    BY DEF TypeOK, reset_aws_config_order_close, history
  <1>2. LoaderFaithful(l)
    BY <1>1 DEF SerialInv
  <1>3. disk' = Text(l) /\ Faithful(Text(l))
    BY <1>1, <1>2, TextFaithful, WrittenAlone DEF LoaderFaithful, Truncated, Looping
  <1>4. LoaderFaithful(l)'
    BY <1>1, <1>2, <1>3 DEF LoaderFaithful, Faithful, Truncated, Locking
  <1>5. QED
    BY <1>1, <1>4, OnlyLoader

(* A default in memory is what a missing key stood for.                    *)
LEMMA DefaultsFaithful ==
  ASSUME NEW s \in Section, NEW k \in Keys
  PROVE  Effective(WithDefaults(s).keys[k]) = Effective(s.keys[k])
  <1>1. WithDefaults(s).keys[k] = Effective(s.keys[k])
    BY DEF WithDefaults, Section
  <1>2. Effective(s.keys[k]) # Absent
    BY ValsAssumption DEF Effective, Section
  <1>3. QED
    BY <1>1, <1>2 DEF Effective

LEMMA SerialReorderClose ==
  ASSUME Invariant, Serial', SerialInv, LockHeld', NEW l \in Loaders,
         reorder_aws_config_close(l)
  PROVE  SerialInv'
  <1> TypeOK
    BY DEF Invariant
  <1> DEFINE d == mem[l].names[pos[l]]
             b == [mem[l].body EXCEPT ![d] = WithDefaults(mem[l].body[d])]
  <1>1. /\ pc[l] = "reorderOpen" /\ pc'[l] \in {"reset", "ready"}
        /\ disk' \in Written(Text(l))
        /\ mem'[l].body = b
        /\ UNCHANGED <<temp, dirty, saved>>
    BY DEF TypeOK, reorder_aws_config_close, AfterSection, history
  <1>2. LoaderFaithful(l)
    BY <1>1 DEF SerialInv
  <1>3. disk' = Text(l) /\ Faithful(Text(l))
    BY <1>1, <1>2, TextFaithful, WrittenAlone DEF LoaderFaithful, Truncated, Looping
  <1>4. mem[l] \in Object /\ d \in Config
    BY <1>1, CurrentSection
  <1>5. \A c \in Config, k \in Keys :
          Effective(b[c].keys[k]) = Effective(mem[l].body[c].keys[k])
    BY <1>4, DefaultsFaithful DEF Object
  <1> HIDE DEF b, d
  <1>6. LoaderFaithful(l)'
    BY <1>1, <1>2, <1>3, <1>5 DEF LoaderFaithful, Faithful, Truncated, Locking
  <1>7. QED
    BY <1>1, <1>6, OnlyLoader

(* What is given to set_value is no longer promised until it is saved.     *)
LEMMA SerialSetValue ==
  ASSUME Invariant, Serial', SerialInv, LockHeld', NEW l \in Loaders,
         NEW c \in Config, NEW k \in Keys, NEW v \in Vals, set_value(l, c, k, v)
  PROVE  SerialInv'
  <1> TypeOK
    BY DEF Invariant
  <1> DEFINE b == [mem[l].body EXCEPT ![c].keys[k] = v]
  <1>1. /\ pc[l] = "ready" /\ pc'[l] = "ready" /\ mem'[l].body = b
        /\ dirty'[l] = dirty[l] \cup {<<c, k>>} /\ UNCHANGED <<disk, temp, saved>>
    BY DEF TypeOK, set_value
  <1>2. LoaderFaithful(l) /\ mem[l] \in Object
    BY <1>1, CurrentSection DEF SerialInv
  <1>3. \A d \in Config, j \in Keys : <<d, j>> # <<c, k>> =>
          b[d].keys[j] = mem[l].body[d].keys[j]
    BY <1>2 DEF Object, Section
  <1> HIDE DEF b
  <1>4. LoaderFaithful(l)'
    BY <1>1, <1>2, <1>3 DEF LoaderFaithful, Faithful, Truncated, Locking
  <1>5. QED
    BY <1>1, <1>4, OnlyLoader

(* write_changes composes the file with the loader's section: a key that   *)
(* was not given to set_value has the saved value on both sides.           *)
LEMMA SerialWriteChanges ==
  ASSUME Invariant, Serial', SerialInv, LockHeld', NEW l \in Loaders, NEW c \in Config,
         write_changes(l, c)
  PROVE  SerialInv'
  <1> TypeOK
    BY DEF Invariant
  <1> DEFINE s == mem[l].body[c]
             t == WithTarget(disk, c, s)
             sv == [k \in Keys |-> IF <<c, k>> \in dirty[l] THEN s.keys[k] ELSE saved[c][k]]
  <1>1. /\ pc[l] = "ready" /\ pc'[l] = "locked" /\ temp'[l] = t
        /\ saved' = [saved EXCEPT ![c] = sv]
        /\ dirty'[l] = dirty[l] \ {<<c, k>> : k \in {j \in Keys : <<c, j>> \in dirty[l]}}
        /\ UNCHANGED <<disk, mem>>
    BY DEF TypeOK, write_changes
  <1>2. LoaderFaithful(l) /\ Faithful(disk) /\ mem[l] \in Object
    BY <1>1, CurrentSection DEF SerialInv, LoaderFaithful
  <1>3. s \in Section /\ disk.body[c] \in Section /\ disk.body \in [Config -> Section]
    BY <1>2 DEF Object, TypeOK, Image
  <1>4. Has(disk, c)
    BY <1>2, SectionsFacts DEF Has, Faithful, Whole
  <1>5. /\ Whole(t)
        /\ \A d \in Config \ {c} : t.body[d] = disk.body[d]
        /\ \A k \in Keys : t.body[c].keys[k] =
             IF s.keys[k] = Absent THEN disk.body[c].keys[k] ELSE s.keys[k]
    BY <1>2, <1>3, <1>4 DEF WithTarget, Merge, Whole, Faithful
  <1>6. \A d \in Config, k \in Keys :
          saved'[d][k] = IF <<d, k>> \in dirty[l] /\ d = c THEN s.keys[k] ELSE saved[d][k]
    BY <1>1 DEF TypeOK
  <1>7. \A k \in Keys : <<c, k>> \in dirty[l] => s.keys[k] # Absent
    BY ValsAssumption DEF Invariant, DirtyHaveValues
  <1>8. \A k \in Keys : <<c, k>> \notin dirty[l] => Effective(s.keys[k]) = saved[c][k]
    BY <1>2 DEF LoaderFaithful
  <1> HIDE DEF t, sv, s
  <1>9. ASSUME NEW d \in Config, NEW k \in Keys
        PROVE  Effective(t.body[d].keys[k]) = saved'[d][k]
    <2>1. Effective(disk.body[d].keys[k]) = saved[d][k]
      BY <1>2 DEF Faithful
    <2>2. CASE d # c
      BY <1>5, <1>6, <2>1, <2>2
    <2>3. CASE d = c
      BY <1>5, <1>6, <1>7, <1>8, <2>1, <2>3 DEF Effective
    <2>4. QED
      BY <2>2, <2>3
  <1>10. ASSUME NEW d \in Config, NEW k \in Keys, <<d, k>> \notin dirty'[l]
         PROVE  Effective(mem[l].body[d].keys[k]) = saved'[d][k]
    <2>1. CASE d # c
      <3>1. <<d, k>> \notin dirty[l]
        BY <1>1, <1>10, <2>1
      <3>2. QED
        BY <1>2, <1>6, <2>1, <3>1 DEF LoaderFaithful
    <2>2. CASE d = c
      BY <1>6, <1>7, <1>8, <2>2 DEF Effective, s
    <2>3. QED
      BY <2>1, <2>2
  <1>11. LoaderFaithful(l)'
    BY <1>1, <1>2, <1>5, <1>9, <1>10 DEF LoaderFaithful, Faithful, Truncated, Locking
  <1>12. QED
    BY <1>1, <1>11, OnlyLoader

(* A second load_all_aws_config starts from the same file and memory.      *)
LEMMA SerialLoadAll ==
  ASSUME Invariant, Serial', SerialInv, LockHeld', NEW l \in Loaders,
         load_all_aws_config(l)
  PROVE  SerialInv'
  <1>1. /\ pc[l] = "ready" /\ pc'[l] = "reset"
        /\ UNCHANGED <<disk, mem, temp, dirty, saved>>
    BY DEF Invariant, TypeOK, load_all_aws_config, history
  <1>2. LoaderFaithful(l)'
    BY <1>1 DEF SerialInv, LoaderFaithful, Faithful, Truncated, Locking
  <1>3. QED
    BY <1>1, <1>2, OnlyLoader

(* The object is collected: nobody is left, and the file holds what was    *)
(* saved.                                                                  *)
LEMMA SerialDiscard ==
  ASSUME Invariant, Serial, SerialInv, LockHeld', NEW l \in Loaders, Discard(l)
  PROVE  SerialInv'
  <1>1. /\ pc[l] = "ready" /\ pc' = [pc EXCEPT ![l] = "none"]
        /\ UNCHANGED <<disk, saved>>
    BY DEF Discard
  <1>2. \A m \in Loaders : pc'[m] = "none"
    BY <1>1 DEF Serial, Invariant, TypeOK
  <1>3. Faithful(disk)
    BY <1>1 DEF SerialInv, LoaderFaithful
  <1>4. Faithful(disk)'
    BY <1>1, <1>3 DEF Faithful
  <1>5. QED
    BY <1>2, <1>4 DEF SerialInv

(* write_changes truncates the file it has read.                           *)
LEMMA SerialWriteOpen ==
  ASSUME Invariant, Serial', SerialInv, LockHeld', NEW l \in Loaders,
         write_changes_open(l)
  PROVE  SerialInv'
  <1>1. /\ pc[l] = "locked" /\ pc'[l] = "writeOpen" /\ disk' = Empty
        /\ UNCHANGED <<mem, temp, dirty, saved>>
    BY DEF Invariant, TypeOK, write_changes_open, history
  <1>2. LoaderFaithful(l)'
    BY <1>1 DEF SerialInv, LoaderFaithful, Faithful, Truncated, Locking
  <1>3. QED
    BY <1>1, <1>2, OnlyLoader

(* Its temp_config arrives.                                                *)
LEMMA SerialWriteClose ==
  ASSUME Invariant, Serial', SerialInv, LockHeld', NEW l \in Loaders,
         write_changes_close(l)
  PROVE  SerialInv'
  <1>1. /\ pc[l] = "writeOpen" /\ pc'[l] = "ready" /\ disk' \in Written(temp[l])
        /\ UNCHANGED <<mem, dirty, saved>>
    BY DEF Invariant, TypeOK, write_changes_close, history
  <1>2. LoaderFaithful(l)
    BY <1>1 DEF SerialInv
  <1>3. disk' = temp[l] /\ Faithful(temp[l])
    BY <1>1, <1>2, WrittenAlone DEF LoaderFaithful, Truncated, Locking
  <1>4. LoaderFaithful(l)'
    BY <1>1, <1>2, <1>3 DEF LoaderFaithful, Faithful, Truncated, Locking
  <1>5. QED
    BY <1>1, <1>4, OnlyLoader

(* The process dies.  Without the lock held, the file is empty or holds    *)
(* what was saved; with it, the file was read whole and not yet truncated, *)
(* or it is empty.                                                         *)
LEMMA SerialCrash ==
  ASSUME Invariant, SerialInv, LockHeld', Crash
  PROVE  SerialInv'
  <1>1. /\ \A l \in Loaders : pc'[l] = "none"
        /\ disk' = disk
    BY DEF Crash
  <1>2. disk' = Empty \/ Faithful(disk)'
    <2>1. CASE lock = NoLoader
      <3>1. saved' = saved
        BY <2>1 DEF Crash
      <3>2. \A l \in Loaders : pc[l] \notin Locking
        BY <2>1, NoLoaderAssumption DEF SerialInv, LockHeld
      <3>3. disk = Empty \/ Faithful(disk)
        <4>1. CASE \A l \in Loaders : pc[l] = "none"
          BY <4>1 DEF SerialInv
        <4>2. ASSUME NEW l \in Loaders, pc[l] # "none"
              PROVE  disk = Empty \/ Faithful(disk)
          BY <3>2, <4>2 DEF Invariant, TypeOK, SerialInv, LoaderFaithful, PcValues,
          Truncated, Locking
        <4>3. QED
          BY <4>1, <4>2
      <3>4. QED
        BY <1>1, <3>1, <3>3 DEF Faithful
    <2>2. CASE lock # NoLoader
      <3>1. PICK l \in Loaders : pc[l] \in Locking
        BY <2>2 DEF Invariant, TypeOK, SerialInv, LockHeld
      <3>2. LoaderFaithful(l)
        BY <3>1 DEF SerialInv, Locking
      <3>3. CASE pc[l] = "writeOpen"
        BY <1>1, <3>2, <3>3 DEF LoaderFaithful, Truncated
      <3>4. CASE pc[l] = "locked"
        <4>1. Whole(disk)
          BY <3>2, <3>4 DEF LoaderFaithful
        <4>2. \A c \in Config, k \in Keys :
                saved'[c][k] = Effective(disk.body[c].keys[k])
          BY <2>2 DEF Crash
        <4>3. QED
          BY <1>1, <4>1, <4>2 DEF Faithful
      <3>5. QED
        BY <3>1, <3>3, <3>4 DEF Locking
    <2>3. QED
      BY <2>1, <2>2
  <1>3. QED
    BY <1>1, <1>2 DEF SerialInv

-----------------------------------------------------------------------------
(* Init: no loader, and the operator's file is what counts as saved.       *)
LEMMA SerialInit == Init => SerialInv
  <1> SUFFICES ASSUME Init PROVE SerialInv
    OBVIOUS
  <1>1. LockHeld /\ \A l \in Loaders : pc[l] = "none"
    BY NoLoaderAssumption DEF Init, LockHeld, Locking
  <1>2. Faithful(disk)
    BY DEF Init, Faithful, Whole
  <1>3. QED
    BY <1>1, <1>2 DEF SerialInv

(* While the loaders live one after the other, every step and every crash  *)
(* preserves SerialInv.                                                    *)
LEMMA SerialStep ==
  Invariant /\ Serial /\ Serial' /\ SerialInv /\ [Next \/ Crash]_vars => SerialInv'
  <1> SUFFICES ASSUME Invariant, Serial, Serial', SerialInv, [Next \/ Crash]_vars
               PROVE  SerialInv'
    OBVIOUS
  <1>1. LockHeld'
    BY LockHeldStep DEF SerialInv
  <1>2. ASSUME NEW l \in Loaders, Construct(l) PROVE SerialInv' \/ UNCHANGED vars
    BY <1>1, <1>2, SerialConfigLoader, SerialOpen, SerialResetClose, SerialReorderClose
    DEF Construct, ConfigLoaderRaises
  <1>3. ASSUME NEW l \in Loaders, Use(l) PROVE SerialInv'
    BY <1>1, <1>3, SerialSetValue, SerialLoadAll, SerialWriteChanges, SerialDiscard,
    SerialWriteOpen, SerialWriteClose DEF Use, write_changes_raises
  <1>4. CASE UNCHANGED vars
    BY <1>1, <1>4 DEF SerialInv, LoaderFaithful, Faithful, Locking, Truncated,
    vars, objects, history
  <1>5. QED
    BY <1>1, <1>2, <1>3, <1>4, SerialCrash DEF Next

(* The invariant of loaders that never overlap.                            *)
LEMMA SerialHolds == CrashSpec => ([]Serial => []SerialInv)
  BY InvariantHolds, SerialInit, SerialStep, PTL DEF CrashSpec

(* The file when no rewrite is open.                                       *)
LEMMA SerialQuiet ==
  ASSUME Invariant, SerialInv, Quiet
  PROVE  disk = Empty \/ Faithful(disk)
  <1>1. CASE \A l \in Loaders : pc[l] = "none"
    BY <1>1 DEF SerialInv
  <1>2. ASSUME NEW l \in Loaders, pc[l] # "none" PROVE Faithful(disk)
    BY <1>2 DEF Quiet, SerialInv, LoaderFaithful
  <1>3. QED
    BY <1>1, <1>2

(* Loaders that never overlap keep every saved value, through the rewrites *)
(* of load_all_aws_config, the defaults of load_aws_config and crashes.    *)
THEOREM SerialValues == CrashSpec => SerialKeepsValues
  <1>1. Invariant /\ SerialInv => SavedValuesKept
    BY SerialQuiet, FixedImages DEF SavedValuesKept, Faithful
  <1>2. QED
    BY <1>1, InvariantHolds, SerialHolds, PTL DEF SerialKeepsValues

(* They leave the file whole, or empty after a crash inside a rewrite:     *)
(* write_changes never rebuilds it around its own section.                 *)
THEOREM SerialSections == CrashSpec => SerialKeepsSections
  <1> DEFINE AllOrNothing ==
        Quiet => IF disk.api THEN disk.parses /\ disk.names = Sections
                 ELSE disk.names = <<>>
  <1>1. Invariant /\ SerialInv => AllOrNothing
    BY SerialQuiet DEF Faithful, Whole, Empty
  <1> HIDE DEF AllOrNothing
  <1>2. CrashSpec => ([]Serial => []AllOrNothing)
    BY <1>1, InvariantHolds, SerialHolds, PTL
  <1>3. QED
    BY <1>2 DEF SerialKeepsSections, AllOrNothing
=============================================================================
