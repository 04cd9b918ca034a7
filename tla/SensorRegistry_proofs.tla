----------------------- MODULE SensorRegistry_proofs ------------------------
(***************************************************************************)
(* Theorems about SensorRegistry, for any number of devices, slots,        *)
(* pending entries and restarts.                                           *)
(*                                                                         *)
(* TypeCorrect is inductive with Holders, which says that a task about to  *)
(* insert has a device to insert.  OneSlotPerDeviceHolds needs the copies  *)
(* that are being saved to be injective as well.  MapSpecHolds maps every  *)
(* step of the tasks to a step of RegistryMap, whoever inserts: a task     *)
(* between its search and its insertion is a claim, a saving task that has *)
(* its copy is a copy.                                                     *)
(***************************************************************************)
EXTENDS SensorRegistry, TLAPS

(* A pending entry in use, and a task about to insert, name a device. *)
Holders ==
  /\ \A i \in Entries : pend[i].active => pend[i].mac \in Macs
  /\ pc["loop"] \in {"find", "add", "lookup", "respond"}
       => entry \in Entries /\ pend[entry].mac \in Macs
  /\ pc["rx"] = "add" => dev["rx"] \in Macs
  /\ pc["web"] = "add" => dev["web"] \in Macs

TypeInv == TypeOK /\ Holders

LEMMA AddTyped ==
  ASSUME TypeOK, NEW m \in Macs, NEW s \in Slots, AddSensor(m, s)
  PROVE  reg' \in Tables /\ dirty' \in BOOLEAN
BY DEF TypeOK, AddSensor, Tables

LEMMA ReturnTyped ==
  ASSUME TypeOK, NEW t \in Tasks, Return(t)
  PROVE  /\ pc' \in [Tasks -> {"idle", "scan", "find", "add", "lookup",
                               "respond", "save", "write", "clean"}]
         /\ dev' \in [Tasks -> Macs \cup {None}]
         /\ slot' \in [Tasks -> Slots]
BY RegistryAssumption DEF TypeOK, Return, Slots

LEMMA Zeros ==
  /\ 0 \in Slots /\ 0 \in 0 .. PendMax /\ 0 \in 0 .. MaxRestarts
  /\ Empty \in Tables
BY RegistryAssumption DEF Slots, Empty, Tables

LEMMA TypeInvHolds == Spec => []TypeInv
<1>1. Init => TypeInv
  <2> SUFFICES ASSUME Init PROVE TypeInv
    OBVIOUS
  <2>1. Holders
    BY DEF Init, Holders, Tasks
  <2>2. TypeOK
    BY Zeros DEF Init, TypeOK, Tasks
  <2> QED BY <2>1, <2>2 DEF TypeInv
<1>2. TypeInv /\ [Next]_vars => TypeInv'
  <2> SUFFICES ASSUME TypeInv, [Next]_vars
               PROVE  TypeInv'
    OBVIOUS
  <2> USE DEF TypeInv, TypeOK, Holders, Tasks, Savers, taskVars
  <2>1. ASSUME NEW m \in Macs, NEW heard \in Hearing, RxPairing(m, heard)
        PROVE  TypeInv'
    <3>1. ASSUME NEW s \in Slots, RxKnown(m, s, heard)
          PROVE  TypeInv'
      BY <3>1 DEF RxKnown, Respond
    <3>2. ASSUME NEW i \in Entries, RxQueue(m, i)
          PROVE  TypeInv'
      BY <3>2 DEF RxQueue
    <3> QED BY <2>1, <3>1, <3>2 DEF RxPairing
  <2>2. ASSUME PairQueue PROVE TypeInv'
    <3>1. ASSUME StartPairs PROVE TypeInv'
      BY <3>1, RegistryAssumption DEF StartPairs, Entries
    <3>2. ASSUME NEW i \in Entries, TakePair(i) PROVE TypeInv'
      <4>1. pend[i].mac \in Macs
        BY <3>2 DEF TakePair
      <4>2. /\ pend' \in [Entries -> [active : BOOLEAN, mac : Macs \cup {None}]]
            /\ \A j \in Entries : /\ pend'[j].active => pend[j].active
                                  /\ pend'[j].mac = pend[j].mac
        BY <3>2 DEF TakePair
      <4>3. i \in 0 .. PendMax
        BY RegistryAssumption DEF Entries
      <4>4. TypeOK'
        BY <3>2, <4>2, <4>3 DEF TakePair
      <4>5. Holders'
        BY <3>2, <4>1, <4>2 DEF TakePair
      <4> QED BY <4>4, <4>5
    <3>3. ASSUME EndPairs PROVE TypeInv'
      BY <3>3, RegistryAssumption, ReturnTyped DEF EndPairs, Return
    <3>4. ASSUME NEW s \in Slots, PairFindSlot(s) PROVE TypeInv'
      BY <3>4 DEF PairFindSlot
    <3>5. ASSUME PairRefused PROVE TypeInv'
      BY <3>5, RegistryAssumption DEF PairRefused, NextPair, Entries, Slots
    <3>6. ASSUME PairAdd PROVE TypeInv'
      BY <3>6, AddTyped DEF PairAdd
    <3>7. ASSUME NEW s \in Slots, PairLookup(s) PROVE TypeInv'
      BY <3>7 DEF PairLookup
    <3>8. ASSUME PairGone PROVE TypeInv'
      BY <3>8, RegistryAssumption DEF PairGone, NextPair, Entries, Slots
    <3>9. ASSUME NEW heard \in Hearing, PairRespond(heard) PROVE TypeInv'
      BY <3>9, RegistryAssumption
      DEF PairRespond, Respond, NextPair, Entries, Slots
    <3> QED
      BY <2>2, <3>1, <3>2, <3>3, <3>4, <3>5, <3>6, <3>7, <3>8, <3>9
      DEF PairQueue
  <2>3. ASSUME Flush PROVE TypeInv'
    BY <2>3 DEF Flush
  <2>4. ASSUME NEW t \in Savers, Save(t) PROVE TypeInv'
    <3>0. ASSUME SaveFails(t) PROVE TypeInv'
      BY <3>0, ReturnTyped DEF SaveFails, Return
    <3>1. ASSUME TakeSnapshot(t) PROVE TypeInv'
      BY <3>1 DEF TakeSnapshot
    <3>2. ASSUME NEW ok \in WriteOutcomes, WriteFlash(t, ok) PROVE TypeInv'
      BY <3>2 DEF WriteFlash, Empty, Tables
    <3>3. ASSUME ClearDirty(t) PROVE TypeInv'
      BY <3>3, ReturnTyped DEF ClearDirty, Return
    <3> QED BY <2>4, <3>0, <3>1, <3>2, <3>3 DEF Save
  <2>5. ASSUME Repeaters PROVE TypeInv'
    <3>1. ASSUME NEW m \in Macs, NEW s \in Slots, RxFindSlot(m, s)
          PROVE  TypeInv'
      BY <3>1 DEF RxFindSlot
    <3>2. ASSUME RxAdd PROVE TypeInv'
      <4>1. reg' \in Tables /\ dirty' \in BOOLEAN
        BY <3>2, AddTyped DEF RxAdd
      <4> QED BY <3>2, <4>1, ReturnTyped DEF RxAdd, Return
    <3>3. ASSUME NEW m \in Macs, RxRetype(m) PROVE TypeInv'
      BY <3>3 DEF RxRetype
    <3> QED BY <2>5, <3>1, <3>2, <3>3 DEF Repeaters
  <2>6. ASSUME TcpNodes PROVE TypeInv'
    <3>1. ASSUME NEW m \in Macs, NEW s \in Slots, TcpFindSlot(m, s)
          PROVE  TypeInv'
      BY <3>1 DEF TcpFindSlot
    <3>2. ASSUME TcpAdd PROVE TypeInv'
      <4>1. reg' \in Tables /\ dirty' \in BOOLEAN
        BY <3>2, AddTyped DEF TcpAdd
      <4>2. CASE Registered(dev["web"])
        BY <3>2, <4>1, <4>2, ReturnTyped DEF TcpAdd, Return
      <4>3. CASE ~Registered(dev["web"])
        BY <3>2, <4>1, <4>3 DEF TcpAdd
      <4> QED BY <4>2, <4>3
    <3> QED BY <2>6, <3>1, <3>2 DEF TcpNodes
  <2>7. ASSUME NEW s \in Slots, Rename(s) PROVE TypeInv'
    BY <2>7 DEF Rename
  <2>8. ASSUME Removals PROVE TypeInv'
    <3>1. ASSUME NEW s \in Slots, Remove(s) PROVE TypeInv'
      BY <3>1 DEF Remove, Tables
    <3>2. ASSUME NEW t \in Savers, ClearAll(t) PROVE TypeInv'
      BY <3>2 DEF ClearAll, Empty, Tables
    <3> QED BY <2>8, <3>1, <3>2 DEF Removals
  <2>9. ASSUME Restart PROVE TypeInv'
    <3>1. TypeOK'
      <4>1. restarts' \in 0 .. MaxRestarts
        BY <2>9, RegistryAssumption DEF Restart
      <4> QED BY <2>9, <4>1, Zeros DEF Restart
    <3>2. Holders'
      BY <2>9 DEF Restart
    <3> QED BY <3>1, <3>2
  <2>10. ASSUME UNCHANGED vars PROVE TypeInv'
    BY <2>10 DEF vars
  <2> QED
    BY <2>1, <2>2, <2>3, <2>4, <2>5, <2>6, <2>7, <2>8, <2>9, <2>10 DEF Next
<1> QED BY <1>1, <1>2, PTL DEF Spec

(* Every variable keeps its type: no task works with a slot or an entry    *)
(* outside the tables (sensor_registry_get, m_pending_pairs).              *)
THEOREM TypeCorrect == Spec => []TypeOK
<1>1. TypeInv => TypeOK
  BY DEF TypeInv
<1> QED BY <1>1, TypeInvHolds, PTL

-----------------------------------------------------------------------------
(* The copies on their way to the flash are as injective as the table they *)
(* were taken from.                                                        *)
Injections == OneSlotPerDevice /\ \A t \in Savers : Injective(snap[t])

LEMMA EmptyInjective == Injective(Empty)
BY DEF Injective, Empty

LEMMA AddInjective ==
  ASSUME TypeOK, Injective(reg), NEW m \in Macs, NEW s \in Slots,
         AddSensor(m, s)
  PROVE  Injective(reg')
<1>1. CASE Registered(m)
  BY <1>1 DEF AddSensor, Injective
<1>2. CASE ~Registered(m)
  <2>1. reg' = [reg EXCEPT ![s] = m]
    BY <1>2 DEF AddSensor
  <2>2. \A r \in Slots : reg[r] # m
    BY <1>2 DEF Registered
  <2> QED BY <2>1, <2>2 DEF Injective, TypeOK, Tables
<1> QED BY <1>1, <1>2

(* No device ever holds two slots, in memory or in flash, whoever inserts, *)
(* removes, saves or restarts (sensor_registry_add, _save, _load).         *)
THEOREM OneSlotPerDeviceHolds == Spec => []OneSlotPerDevice
<1>1. Init => Injections
  BY EmptyInjective DEF Init, Injections, OneSlotPerDevice
<1>2. TypeInv /\ Injections /\ [Next]_vars => Injections'
  <2> SUFFICES ASSUME TypeInv, Injections, [Next]_vars
               PROVE  Injections'
    OBVIOUS
  <2>1. TypeOK
    BY DEF TypeInv
  <2> USE DEF Injections, OneSlotPerDevice
  <2> DEFINE Kept == UNCHANGED <<reg, flash, snap>>
  <2>2. ASSUME Kept PROVE Injections'
    BY <2>2 DEF Injective
  <2>3. ASSUME NEW m \in Macs, NEW s \in Slots, AddSensor(m, s),
               UNCHANGED <<flash, snap>>
        PROVE  Injections'
    <3>1. Injective(reg')
      BY <2>1, <2>3, AddInjective
    <3> QED BY <2>3, <3>1 DEF Injective
  <2>4. ASSUME NEW m \in Macs, NEW heard \in Hearing, RxPairing(m, heard)
        PROVE  Injections'
    BY <2>2, <2>4 DEF RxPairing, RxKnown, RxQueue, taskVars
  <2>5. ASSUME PairQueue PROVE Injections'
    <3>1. ASSUME PairAdd PROVE Injections'
      <4>1. pend[entry].mac \in Macs /\ slot["loop"] \in Slots
        BY <3>1 DEF PairAdd, TypeInv, TypeOK, Holders, Tasks
      <4> QED BY <2>3, <3>1, <4>1 DEF PairAdd
    <3> QED
      BY <2>2, <2>5, <3>1
      DEF PairQueue, StartPairs, TakePair, EndPairs, PairFindSlot,
          PairRefused, PairLookup, PairGone, PairRespond
  <2>6. ASSUME Flush PROVE Injections'
    BY <2>2, <2>6 DEF Flush
  <2>7. ASSUME NEW t \in Savers, Save(t) PROVE Injections'
    <3>1. ASSUME TakeSnapshot(t) PROVE Injections'
      BY <2>1, <3>1 DEF TakeSnapshot, TypeOK, Injective
    <3>2. ASSUME NEW ok \in WriteOutcomes, WriteFlash(t, ok)
          PROVE  Injections'
      <4>1. \A u \in Savers : Injective(snap'[u])
        BY <2>1, <3>2, EmptyInjective DEF WriteFlash, TypeOK, Injective
      <4> QED BY <3>2, <4>1 DEF WriteFlash, Injective
    <3>3. ASSUME SaveFails(t) \/ ClearDirty(t) PROVE Injections'
      BY <2>2, <3>3 DEF SaveFails, ClearDirty
    <3> QED BY <2>7, <3>1, <3>2, <3>3 DEF Save
  <2>8. ASSUME Repeaters PROVE Injections'
    <3>1. ASSUME RxAdd PROVE Injections'
      <4>1. dev["rx"] \in Macs /\ slot["rx"] \in Slots
        BY <3>1 DEF RxAdd, TypeInv, TypeOK, Holders, Tasks
      <4> QED BY <2>3, <3>1, <4>1 DEF RxAdd
    <3> QED BY <2>2, <2>8, <3>1 DEF Repeaters, RxFindSlot, RxRetype, taskVars
  <2>9. ASSUME TcpNodes PROVE Injections'
    <3>1. ASSUME TcpAdd PROVE Injections'
      <4>1. dev["web"] \in Macs /\ slot["web"] \in Slots
        BY <3>1 DEF TcpAdd, TypeInv, TypeOK, Holders, Tasks
      <4> QED BY <2>3, <3>1, <4>1 DEF TcpAdd
    <3> QED BY <2>2, <2>9, <3>1 DEF TcpNodes, TcpFindSlot
  <2>10. ASSUME NEW s \in Slots, Rename(s) PROVE Injections'
    BY <2>2, <2>10 DEF Rename
  <2>11. ASSUME Removals PROVE Injections'
    <3>1. ASSUME NEW s \in Slots, Remove(s) PROVE Injections'
      <4>1. Injective(reg')
        BY <2>1, <3>1 DEF Remove, TypeOK, Tables, Injective
      <4> QED BY <3>1, <4>1 DEF Remove, taskVars, Injective
    <3>2. ASSUME NEW t \in Savers, ClearAll(t) PROVE Injections'
      BY <3>2, EmptyInjective DEF ClearAll, taskVars, Injective
    <3> QED BY <2>11, <3>1, <3>2 DEF Removals
  <2>12. ASSUME Restart PROVE Injections'
    BY <2>12, EmptyInjective DEF Restart, Injective
  <2>13. ASSUME UNCHANGED vars PROVE Injections'
    BY <2>2, <2>13 DEF vars, taskVars
  <2> QED
    BY <2>4, <2>5, <2>6, <2>7, <2>8, <2>9, <2>10, <2>11, <2>12, <2>13 DEF Next
<1>3. Injections => OneSlotPerDevice
  BY DEF Injections
<1> QED BY <1>1, <1>2, <1>3, TypeInvHolds, PTL DEF Spec

-----------------------------------------------------------------------------
(* The refinement of RegistryMap.  What is on its way to the flash are the *)
(* copies of the tasks that are about to write; what is claimed are the    *)
(* slots of the tasks that are about to insert.                            *)
Writing(t) == pc[t] = "write"
Copies == {snap[t] : t \in {u \in Savers : Writing(u)}}
Adding(t) == pc[t] = "add"
Claims == [t \in Tasks |-> IF Adding(t) THEN slot[t] ELSE None]

LEMMA Mapped ==
  /\ Copies = {snap[t] : t \in {u \in Savers : pc[u] = "write"}}
  /\ Claims = [t \in Tasks |-> IF pc[t] = "add" THEN slot[t] ELSE None]
BY DEF Copies, Writing, Claims, Adding

(* A step that leaves the table, the flash and the copies of the writing   *)
(* tasks alone is no step of the map.                                      *)
LEMMA CopiesKept ==
  ASSUME \A t \in Savers : Writing(t)' = Writing(t),
         \A t \in Savers : Writing(t) => snap'[t] = snap[t]
  PROVE  Copies' = Copies
<1>1. {u \in Savers : Writing(u)'} = {u \in Savers : Writing(u)}
  OBVIOUS
<1> QED BY <1>1 DEF Copies

LEMMA NothingWritten ==
  ASSUME TypeOK, snap' = snap, NEW t \in Tasks, ~Writing(t), ~Writing(t)',
         \A u \in Tasks : u # t => pc'[u] = pc[u]
  PROVE  Copies' = Copies
BY CopiesKept DEF Writing, Savers, Tasks

LEMMA ClaimsKept ==
  ASSUME NEW t \in Tasks, ~Adding(t), ~Adding(t)',
         \A u \in Tasks : u # t => pc'[u] = pc[u] /\ slot'[u] = slot[u]
  PROVE  Claims' = Claims
BY DEF Claims, Adding

(* The search of a task maps to a claim. *)
LEMMA SearchMaps ==
  ASSUME TypeOK, NEW t \in Tasks, NEW s \in Slots, FirstFree(s), ~Adding(t),
         pc' = [pc EXCEPT ![t] = "add"], slot' = [slot EXCEPT ![t] = s],
         UNCHANGED <<reg, flash>>, Copies' = Copies
  PROVE  Map!Claim(t, s)
<1>1. Claims[t] = None
  BY DEF Claims
<1>2. Claims' = [Claims EXCEPT ![t] = s]
  BY DEF Claims, Adding, TypeOK
<1>3. ~Map!Holds(s)
  BY DEF Map!Holds, FirstFree
<1> QED BY <1>1, <1>2, <1>3, Mapped DEF Map!Claim, Claims, Copies, Adding, Writing

(* The insertion of a task uses its claim up, or gives it up. *)
LEMMA AddMaps ==
  ASSUME TypeOK, NEW t \in Tasks, NEW m \in Macs, Adding(t), ~Adding(t)',
         AddSensor(m, slot[t]), UNCHANGED flash, Copies' = Copies,
         \A u \in Tasks : u # t => pc'[u] = pc[u] /\ slot'[u] = slot[u]
  PROVE  Map!Pair(t, m) \/ Map!GiveUp(t)
<1>1. Claims[t] = slot[t] /\ slot[t] \in Slots
  BY DEF Claims, TypeOK
<1>2. Claims[t] # None
  BY <1>1, RegistryAssumption
<1>3. Claims' = [Claims EXCEPT ![t] = None]
  BY DEF Claims, Adding
<1>4. CASE Registered(m)
  <2>1. Map!Known(m) /\ UNCHANGED reg
    BY <1>4 DEF AddSensor, Registered, Map!Known
  <2>2. Map!GiveUp(t)
    BY <1>2, <1>3, <2>1, Mapped DEF Map!GiveUp, Claims, Copies, Adding, Writing
  <2> QED BY <2>2
<1>5. CASE ~Registered(m)
  <2>1. ~Map!Known(m) /\ reg' = [reg EXCEPT ![Claims[t]] = m]
    BY <1>1, <1>5 DEF AddSensor, Registered, Map!Known
  <2>2. Map!Pair(t, m)
    BY <1>2, <1>3, <2>1, Mapped DEF Map!Pair, Claims, Copies, Adding, Writing
  <2> QED BY <2>2
<1> QED BY <1>4, <1>5

(* The copy is taken under the lock: it is the table of that moment.       *)
LEMMA SnapshotMaps ==
  ASSUME TypeOK, NEW t \in Savers, TakeSnapshot(t)
  PROVE  Copies' = Copies \cup {reg}
<1>1. /\ Writing(t)' /\ ~Writing(t) /\ snap'[t] = reg
      /\ \A u \in Savers : u # t => Writing(u)' = Writing(u) /\ snap'[u] = snap[u]
  BY DEF TakeSnapshot, TypeOK, Writing, Savers, Tasks
<1> QED BY <1>1 DEF Copies

(* The copy that is written leaves the copies, unless the other task       *)
(* holds the same one.                                                     *)
LEMMA WriteMaps ==
  ASSUME TypeOK, NEW t \in Savers, NEW ok \in WriteOutcomes, WriteFlash(t, ok)
  PROVE  /\ snap[t] \in Copies
         /\ Copies' \in {Copies, Copies \ {snap[t]}}
         /\ flash' \in {flash, snap[t]}
<1>1. /\ ~Writing(t)' /\ Writing(t)
      /\ \A u \in Savers : u # t => Writing(u)' = Writing(u) /\ snap'[u] = snap[u]
  BY DEF WriteFlash, TypeOK, Writing, Savers, Tasks
<1>2. snap[t] \in Copies
  BY <1>1 DEF Copies
<1>3. CASE \E u \in Savers : u # t /\ Writing(u) /\ snap[u] = snap[t]
  <2>1. Copies' = Copies
    BY <1>1, <1>3 DEF Copies
  <2> QED BY <1>2, <2>1 DEF WriteFlash
<1>4. CASE \A u \in Savers : u # t /\ Writing(u) => snap[u] # snap[t]
  <2>1. Copies' = Copies \ {snap[t]}
    BY <1>1, <1>4 DEF Copies
  <2> QED BY <1>2, <2>1 DEF WriteFlash
<1> QED BY <1>3, <1>4

(* The registry implements the abstract map, whoever inserts: a slot that  *)
(* was taken when a task found its slot is overwritten by nobody, a device *)
(* has one slot at most, a save writes a table that was once whole, and a  *)
(* restart returns to one (sensor_registry_find_free, _add, _remove,       *)
(* _save, _load).                                                          *)
THEOREM MapSpecHolds == Spec => MapSpec
<1> DEFINE mapVars == <<reg, Claims, Copies, flash>>
<1>1. Init => Map!Init
  BY DEF Init, Map!Init, Map!Empty, Map!NoClaims, Empty, Savers, Tasks
<1>2. TypeInv /\ [Next]_vars
        => [Map!Next]_<<reg,
                        [t \in Tasks |-> IF pc[t] = "add" THEN slot[t] ELSE None],
                        {snap[t] : t \in {u \in Savers : pc[u] = "write"}},
                        flash>>
  <2> SUFFICES ASSUME TypeInv, [Next]_vars
               PROVE  Map!Next \/ UNCHANGED mapVars
    BY Mapped DEF Copies, Writing, Claims, Adding
  <2>1. TypeOK
    BY DEF TypeInv
  <2> DEFINE Others(t) ==
               \A u \in Tasks : u # t => pc'[u] = pc[u] /\ slot'[u] = slot[u]
  <2>2. ASSUME UNCHANGED <<reg, flash, snap>>, NEW t \in Tasks, Others(t),
               ~Writing(t), ~Writing(t)', ~Adding(t), ~Adding(t)'
        PROVE  UNCHANGED mapVars
    BY <2>1, <2>2, NothingWritten, ClaimsKept
  <2>3. ASSUME UNCHANGED <<snap, pc, slot>>
        PROVE  Copies' = Copies /\ Claims' = Claims
    BY <2>3, CopiesKept DEF Writing, Claims, Adding
  <2>4. ASSUME NEW t \in Tasks, NEW m \in Macs, Adding(t), ~Adding(t)',
               ~Writing(t)', AddSensor(m, slot[t]), UNCHANGED <<flash, snap>>,
               Others(t)
        PROVE  Map!Next
    <3>1. Copies' = Copies
      BY <2>1, <2>4, NothingWritten DEF Adding, Writing
    <3>2. Map!Pair(t, m) \/ Map!GiveUp(t)
      BY <2>1, <2>4, <3>1, AddMaps
    <3> QED BY <3>2 DEF Map!Next
  <2>5. ASSUME NEW t \in Tasks, NEW s \in Slots, FirstFree(s), ~Adding(t),
               ~Writing(t), UNCHANGED <<reg, flash, snap>>,
               pc' = [pc EXCEPT ![t] = "add"], slot' = [slot EXCEPT ![t] = s]
        PROVE  Map!Next
    <3>1. Copies' = Copies
      BY <2>1, <2>5, NothingWritten DEF Writing, TypeOK
    <3>2. Map!Claim(t, s)
      BY <2>1, <2>5, <3>1, SearchMaps
    <3> QED BY <3>2 DEF Map!Next
  <2>6. ASSUME NEW m \in Macs, NEW heard \in Hearing, RxPairing(m, heard)
        PROVE  UNCHANGED mapVars
    BY <2>3, <2>6 DEF RxPairing, RxKnown, RxQueue, taskVars
  <2>7. ASSUME PairQueue PROVE Map!Next \/ UNCHANGED mapVars
    <3>1. ASSUME NEW s \in Slots, PairFindSlot(s) PROVE Map!Next
      BY <2>5, <3>1 DEF PairFindSlot, Adding, Writing, Tasks
    <3>2. CASE PairAdd
      <4>1. /\ pend[entry].mac \in Macs /\ "loop" \in Tasks
            /\ Adding("loop") /\ ~Adding("loop")' /\ ~Writing("loop")'
            /\ AddSensor(pend[entry].mac, slot["loop"])
            /\ UNCHANGED <<flash, snap>> /\ Others("loop")
        BY <2>1, <3>2
        DEF PairAdd, TypeInv, TypeOK, Holders, Tasks, Adding, Writing
      <4> QED BY <2>4, <4>1
    <3>3. ASSUME \/ StartPairs \/ \E i \in Entries : TakePair(i)
                 \/ EndPairs \/ PairRefused
                 \/ \E s \in Slots : PairLookup(s)
                 \/ PairGone \/ \E heard \in Hearing : PairRespond(heard)
          PROVE  UNCHANGED mapVars
      <4>1. /\ "loop" \in Tasks /\ UNCHANGED <<reg, flash, snap>>
            /\ ~Writing("loop") /\ ~Writing("loop")'
            /\ ~Adding("loop") /\ ~Adding("loop")'
            /\ Others("loop")
        BY <2>1, <3>3
        DEF StartPairs, TakePair, EndPairs, PairRefused, PairLookup, PairGone,
            PairRespond, NextPair, Return, Idle, Writing, Adding, TypeOK, Tasks
      <4> QED BY <2>2, <4>1
    <3> QED BY <2>7, <3>1, <3>2, <3>3 DEF PairQueue
  <2>8. ASSUME Flush PROVE UNCHANGED mapVars
    <3>1. /\ "loop" \in Tasks /\ UNCHANGED <<reg, flash, snap>>
          /\ ~Writing("loop") /\ ~Writing("loop")'
          /\ ~Adding("loop") /\ ~Adding("loop")'
          /\ Others("loop")
      BY <2>1, <2>8 DEF Flush, Idle, Writing, Adding, TypeOK, Tasks
    <3> QED BY <2>2, <3>1
  <2>9. ASSUME NEW t \in Savers, Save(t) PROVE Map!Next \/ UNCHANGED mapVars
    <3>0. t \in Tasks
      BY DEF Savers, Tasks
    <3>1. CASE TakeSnapshot(t)
      <4>1. Copies' = Copies \cup {reg} /\ UNCHANGED <<reg, flash>>
        BY <2>1, <3>1, SnapshotMaps DEF TakeSnapshot
      <4>2. Claims' = Claims
        BY <2>1, <3>0, <3>1, ClaimsKept DEF TakeSnapshot, Adding, TypeOK
      <4>3. Map!TakeCopy
        BY <4>1, <4>2 DEF Map!TakeCopy, Copies, Writing, Claims, Adding
      <4> QED BY <4>3 DEF Map!Next
    <3>2. ASSUME NEW ok \in WriteOutcomes, WriteFlash(t, ok) PROVE Map!Next
      <4>1. /\ snap[t] \in Copies
            /\ Copies' \in {Copies, Copies \ {snap[t]}}
            /\ flash' \in {flash, snap[t]} /\ UNCHANGED reg
        BY <2>1, <3>2, WriteMaps DEF WriteFlash
      <4>2. Claims' = Claims
        BY <2>1, <3>0, <3>2, ClaimsKept DEF WriteFlash, Adding, TypeOK
      <4>3. Map!Persist
        BY <4>1, <4>2 DEF Map!Persist, Copies, Writing, Claims, Adding
      <4> QED BY <4>3 DEF Map!Next
    <3>3. CASE SaveFails(t) \/ ClearDirty(t)
      <4>1. /\ UNCHANGED <<reg, flash, snap>>
            /\ ~Writing(t) /\ ~Writing(t)' /\ ~Adding(t) /\ ~Adding(t)'
            /\ Others(t)
        BY <2>1, <3>0, <3>3
        DEF SaveFails, ClearDirty, Return, Writing, Adding, TypeOK, Tasks
      <4> QED BY <2>2, <3>0, <4>1
    <3> QED BY <2>9, <3>1, <3>2, <3>3 DEF Save
  <2>10. ASSUME Repeaters PROVE Map!Next \/ UNCHANGED mapVars
    <3>1. ASSUME NEW m \in Macs, NEW s \in Slots, RxFindSlot(m, s)
          PROVE  Map!Next
      BY <2>5, <3>1 DEF RxFindSlot, Idle, Adding, Writing, Tasks
    <3>2. CASE RxAdd
      <4>1. /\ dev["rx"] \in Macs /\ "rx" \in Tasks
            /\ Adding("rx") /\ ~Adding("rx")' /\ ~Writing("rx")'
            /\ AddSensor(dev["rx"], slot["rx"])
            /\ UNCHANGED <<flash, snap>> /\ Others("rx")
        BY <2>1, <3>2
        DEF RxAdd, Return, TypeInv, TypeOK, Holders, Tasks, Adding, Writing
      <4> QED BY <2>4, <4>1
    <3>3. ASSUME NEW m \in Macs, RxRetype(m) PROVE UNCHANGED mapVars
      BY <2>3, <3>3 DEF RxRetype, taskVars
    <3> QED BY <2>10, <3>1, <3>2, <3>3 DEF Repeaters
  <2>11. ASSUME TcpNodes PROVE Map!Next
    <3>1. ASSUME NEW m \in Macs, NEW s \in Slots, TcpFindSlot(m, s)
          PROVE  Map!Next
      BY <2>5, <3>1 DEF TcpFindSlot, Idle, Adding, Writing, Tasks
    <3>2. CASE TcpAdd
      <4>1. /\ dev["web"] \in Macs /\ "web" \in Tasks /\ Adding("web")
            /\ AddSensor(dev["web"], slot["web"])
            /\ UNCHANGED <<flash, snap>>
        BY <3>2 DEF TcpAdd, TypeInv, Holders, Tasks, Adding
      <4>2. ~Adding("web")' /\ ~Writing("web")' /\ Others("web")
        BY <2>1, <3>2 DEF TcpAdd, Return, TypeOK, Tasks, Adding, Writing
      <4> QED BY <2>4, <4>1, <4>2
    <3> QED BY <2>11, <3>1, <3>2 DEF TcpNodes
  <2>12. ASSUME NEW s \in Slots, Rename(s) PROVE UNCHANGED mapVars
    <3>1. /\ "web" \in Tasks /\ UNCHANGED <<reg, flash, snap>>
          /\ ~Writing("web") /\ ~Writing("web")'
          /\ ~Adding("web") /\ ~Adding("web")'
          /\ Others("web")
      BY <2>1, <2>12 DEF Rename, Idle, Writing, Adding, TypeOK, Tasks
    <3> QED BY <2>2, <3>1
  <2>13. ASSUME Removals PROVE Map!Next
    <3>1. ASSUME NEW s \in Slots, Remove(s) PROVE Map!Next
      <4>1. Copies' = Copies /\ Claims' = Claims
        BY <2>3, <3>1 DEF Remove, taskVars
      <4>2. Map!Unpair(s)
        BY <3>1, <4>1
        DEF Map!Unpair, Map!Holds, Remove, Copies, Writing, Claims, Adding
      <4> QED BY <4>2 DEF Map!Next
    <3>2. ASSUME NEW t \in Savers, ClearAll(t) PROVE Map!Next
      <4>1. Copies' = Copies /\ Claims' = Claims
        BY <2>3, <3>2 DEF ClearAll, taskVars
      <4>2. Map!Forget
        BY <3>2, <4>1
        DEF Map!Forget, Map!Empty, ClearAll, Empty, Copies, Writing, Claims,
            Adding
      <4> QED BY <4>2 DEF Map!Next
    <3> QED BY <2>13, <3>1, <3>2 DEF Removals
  <2>14. ASSUME Restart PROVE Map!Next
    <3>1. Copies' = {} /\ Claims' = [t \in Tasks |-> None]
      BY <2>14 DEF Restart, Copies, Writing, Claims, Adding, Savers, Tasks
    <3>2. Map!Restart
      BY <2>14, <3>1
      DEF Map!Restart, Map!NoClaims, Restart, Copies, Writing, Claims, Adding
    <3> QED BY <3>2 DEF Map!Next
  <2>15. ASSUME UNCHANGED vars PROVE UNCHANGED mapVars
    BY <2>3, <2>15 DEF vars, taskVars
  <2> HIDE DEF mapVars
  <2> QED
    BY <2>6, <2>7, <2>8, <2>9, <2>10, <2>11, <2>12, <2>13, <2>14, <2>15
    DEF Next
<1> QED BY <1>1, <1>2, TypeInvHolds, PTL DEF Spec, MapSpec, Map!Spec
=============================================================================
