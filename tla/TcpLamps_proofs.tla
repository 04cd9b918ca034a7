---------------------------- MODULE TcpLamps_proofs ----------------------------
(***************************************************************************)
(* Theorems about TcpLamps, for every set of lamps, every number of slots  *)
(* and every bound.                                                        *)
(***************************************************************************)
EXTENDS TcpLamps, SequenceTheorems, TLAPS

USE TcpLampsAssumption DEF TcpLampsAssumption, Slots, NoSlot

Records == [on : BOOLEAN]

(* What is stored for the lamps has its type.                              *)
LEMMA SendCommandType ==
  ASSUME NEW queues \in [Lamps -> Seq(Records)], NEW s, NEW on \in BOOLEAN,
         slots \in [Slots -> Lamps \cup {NoLamp}]
  PROVE  SendCommand(queues, s, on) \in [Lamps -> Seq(Records)]
<1>1. CASE s \in Slots /\ slots[s] # NoLamp
  <2>1. slots[s] \in Lamps
    BY <1>1
  <2>2. Command(on) \in Records
    BY DEF Command, Records
  <2>3. Append(queues[slots[s]], Command(on)) \in Seq(Records)
    BY <2>1, <2>2
  <2> QED BY <1>1, <2>1, <2>3 DEF SendCommand
<1>2. CASE ~(s \in Slots /\ slots[s] # NoLamp)
  BY <1>2 DEF SendCommand
<1> QED BY <1>1, <1>2

(* Registration gives a slot to a lamp that has none and to no other.      *)
LEMMA RegisterKeeps ==
  ASSUME NEW l \in Lamps, slots \in [Slots -> Lamps \cup {NoLamp}],
         OneSlotPerLamp, Register(l)
  PROVE  slots' \in [Slots -> Lamps \cup {NoLamp}] /\ OneSlotPerLamp'
<1>1. CASE Found(l) \/ Free = {}
  BY <1>1 DEF Register, OneSlotPerLamp
<1>2. CASE ~Found(l) /\ Free # {}
  <2>1. PICK s \in First(Free) : slots' = [slots EXCEPT ![s] = l]
    BY <1>2 DEF Register
  <2>2. s \in Slots /\ \A t \in Slots : slots[t] # l
    BY <1>2 DEF First, Free, Found
  <2>3. slots' \in [Slots -> Lamps \cup {NoLamp}]
    BY <2>1, <2>2
  <2>4. ASSUME NEW t \in Slots, NEW u \in Slots,
               slots'[t] # NoLamp, slots'[t] = slots'[u]
        PROVE  t = u
    <3>1. CASE t = s \/ u = s
      BY <2>1, <2>2, <2>4, <3>1
    <3>2. CASE t # s /\ u # s
      BY <2>1, <2>2, <2>4, <3>2 DEF OneSlotPerLamp
    <3> QED BY <3>1, <3>2
  <2> QED BY <2>3, <2>4 DEF OneSlotPerLamp
<1> QED BY <1>1, <1>2

-----------------------------------------------------------------------------
(* What every step keeps *)
IInv == TypeOK /\ OneSlotPerLamp

(* What set_relay leaves behind has its type.                              *)
LEMMA SetRelayType ==
  ASSUME TypeOK, NEW l \in Lamps, NEW on \in BOOLEAN, NEW fromSync,
         NEW queues \in [Lamps -> Seq(Records)], NEW arrives,
         SetRelay(l, on, fromSync, queues, arrives)
  PROVE  /\ relay' \in [Lamps -> BOOLEAN] /\ last' \in [Lamps -> BOOLEAN]
         /\ recent' \in [Lamps -> BOOLEAN]
         /\ cached' \in [Lamps -> Slots \cup {NoSlot}]
         /\ slots' \in [Slots -> Lamps \cup {NoLamp}]
         /\ pending' \in [Lamps -> Seq(Records)]
         /\ troubles' \in 0 .. MaxTroubles
<1>1. relay' \in [Lamps -> BOOLEAN]
  BY DEF SetRelay, TypeOK
<1>2. last' \in [Lamps -> BOOLEAN] /\ recent' \in [Lamps -> BOOLEAN]
  <2>1. CASE ~fromSync /\ SyncDue(l, on)
    BY <2>1, Zenon DEF SetRelay, Mark, TypeOK
  <2>2. CASE ~(~fromSync /\ SyncDue(l, on))
    BY <2>2, Zenon DEF SetRelay, TypeOK
  <2> QED BY <2>1, <2>2
<1>3. pending' \in [Lamps -> Seq(Records)]
  <2>1. CASE ~fromSync /\ SyncDue(l, on)
    <3>1. Target[l] \in Lamps
      BY <2>1 DEF SyncDue
    <3>2. SendCommand(queues, cached[l], on) \in [Lamps -> Seq(Records)]
      BY <3>1, SendCommandType DEF TypeOK
    <3> QED BY <2>1, <3>2 DEF SetRelay
  <2>2. CASE ~(~fromSync /\ SyncDue(l, on))
    BY <2>2 DEF SetRelay
  <2> QED BY <2>1, <2>2
<1>4. troubles' \in 0 .. MaxTroubles
  BY DEF SetRelay, Trouble, TypeOK
<1>5. cached' = cached /\ slots' = slots
  BY DEF SetRelay
<1> QED BY <1>1, <1>2, <1>3, <1>4, <1>5 DEF TypeOK

(* The invariant holds at the start, and every step keeps it.              *)
LEMMA Initially == Init => IInv
<1> SUFFICES ASSUME Init PROVE IInv
  OBVIOUS
<1>1. << >> \in Seq(Records)
  OBVIOUS
<1>2. pending \in [Lamps -> Seq(Records)]
  BY <1>1 DEF Init
<1>3. cached \in [Lamps -> Slots \cup {NoSlot}]
  <2>1. PICK first \in [Lamps -> Slots] :
          cached = [l \in Lamps |-> IF Target[l] = NoLamp THEN NoSlot
                                                          ELSE first[Target[l]]]
    BY DEF Init
  <2> QED BY <2>1
<1>4. relay \in [Lamps -> BOOLEAN] /\ last \in [Lamps -> BOOLEAN]
      /\ recent \in [Lamps -> BOOLEAN]
  BY Zenon DEF Init
<1>5. OneSlotPerLamp
  BY DEF Init, OneSlotPerLamp
<1> QED BY <1>2, <1>3, <1>4, <1>5 DEF Init, IInv, TypeOK, Records

(* Each operation keeps the type and gives no lamp a second slot.          *)
LEMMA Inductive == IInv /\ [Next]_vars => IInv'
<1> SUFFICES ASSUME IInv, [Next]_vars PROVE IInv'
  OBVIOUS
<1> USE DEF lampVars, hubVars, boundVars
<1>0. pending \in [Lamps -> Seq(Records)]
  BY DEF IInv, TypeOK, Records
<1>1. ASSUME NEW s \in Slots, Remove(s) PROVE IInv'
  <2>1. slots' \in [Slots -> Lamps \cup {NoLamp}] /\ OneSlotPerLamp'
    BY <1>1 DEF Remove, IInv, TypeOK, OneSlotPerLamp
  <2>2. UNCHANGED <<relay, last, recent, cached, pending, uses, issues>>
    BY <1>1 DEF Remove
  <2>3. troubles' \in 0 .. MaxTroubles
    BY <1>1 DEF Remove, Trouble, IInv, TypeOK
  <2> QED BY <2>1, <2>2, <2>3 DEF IInv, TypeOK
<1>2. ASSUME NEW s \in Slots, NEW on \in BOOLEAN, Issue(s, on) PROVE IInv'
  <2>1. slots[s] \in Lamps
    BY <1>2 DEF Issue, IInv, TypeOK
  <2>2. pending' \in [Lamps -> Seq(Records)]
    BY <1>0, <1>2, <2>1, SendCommandType DEF Issue, IInv, TypeOK
  <2>3. issues' \in 0 .. MaxIssue
    BY <1>2 DEF Issue, IInv, TypeOK
  <2>4. UNCHANGED <<relay, last, recent, cached, slots, uses, troubles>>
    BY <1>2 DEF Issue
  <2> QED BY <2>2, <2>3, <2>4 DEF IInv, TypeOK, Records, OneSlotPerLamp
<1>3. CASE HubRestart
  <2>1. pending' \in [Lamps -> Seq(Records)]
    BY <1>3 DEF HubRestart
  <2>2. troubles' \in 0 .. MaxTroubles
    BY <1>3 DEF HubRestart, Trouble, IInv, TypeOK
  <2>3. UNCHANGED <<relay, last, recent, cached, slots, uses, issues>>
    BY <1>3 DEF HubRestart
  <2> QED BY <2>1, <2>2, <2>3 DEF IInv, TypeOK, Records, OneSlotPerLamp
<1>4. ASSUME NEW l \in Lamps, Lose(l) PROVE IInv'
  <2>1. pending' \in [Lamps -> Seq(Records)]
    <3>1. Tail(pending[l]) \in Seq(Records)
      BY <1>0, <1>4 DEF Lose
    <3> QED BY <1>0, <1>4, <3>1 DEF Lose
  <2>2. troubles' \in 0 .. MaxTroubles
    BY <1>4 DEF Lose, Trouble, IInv, TypeOK
  <2>3. UNCHANGED <<relay, last, recent, cached, slots, uses, issues>>
    BY <1>4 DEF Lose
  <2> QED BY <2>1, <2>2, <2>3 DEF IInv, TypeOK, Records, OneSlotPerLamp
<1>5. ASSUME NEW l \in Lamps, PollEmpty(l) PROVE IInv'
  BY <1>5 DEF PollEmpty, vars, IInv, TypeOK, OneSlotPerLamp
<1>6. ASSUME NEW l \in Lamps, Settle(l) PROVE IInv'
  <2>1. recent' \in [Lamps -> BOOLEAN]
    BY <1>6, Zenon DEF Settle, IInv, TypeOK
  <2>2. UNCHANGED <<relay, last, cached, slots, pending, uses, issues, troubles>>
    BY <1>6 DEF Settle
  <2> QED BY <2>1, <2>2 DEF IInv, TypeOK, OneSlotPerLamp
<1>7. ASSUME NEW l \in Lamps, FetchSlot(l) PROVE IInv'
  <2>1. SlotRead(l) \subseteq Slots \cup {NoSlot}
    BY DEF SlotRead, First, TargetSlots, IInv, TypeOK
  <2>2. cached' \in [Lamps -> Slots \cup {NoSlot}]
    BY <1>7, <2>1 DEF FetchSlot, IInv, TypeOK
  <2>3. UNCHANGED <<relay, last, recent, slots, pending, uses, issues, troubles>>
    BY <1>7 DEF FetchSlot
  <2> QED BY <2>2, <2>3 DEF IInv, TypeOK, OneSlotPerLamp
<1>8. ASSUME NEW l \in Lamps, Restart(l) PROVE IInv'
  <2>1. slots' \in [Slots -> Lamps \cup {NoLamp}] /\ OneSlotPerLamp'
    BY <1>8, RegisterKeeps DEF Restart, IInv, TypeOK
  <2>2. (IF Startup[l] = 2 THEN relay[l] ELSE Startup[l] = 1) \in BOOLEAN
    BY Zenon DEF IInv, TypeOK
  <2>3. relay' \in [Lamps -> BOOLEAN]
    BY <1>8, <2>2, Zenon DEF Restart, IInv, TypeOK
  <2>4. last' \in [Lamps -> BOOLEAN] /\ recent' \in [Lamps -> BOOLEAN]
    BY <1>8, Zenon DEF Restart, IInv, TypeOK
  <2>5. cached' \in [Lamps -> Slots \cup {NoSlot}]
    BY <1>8 DEF Restart, IInv, TypeOK
  <2>6. troubles' \in 0 .. MaxTroubles
    BY <1>8 DEF Restart, Trouble, IInv, TypeOK
  <2>7. UNCHANGED <<pending, uses, issues>>
    BY <1>8 DEF Restart
  <2> QED BY <2>1, <2>3, <2>4, <2>5, <2>6, <2>7 DEF IInv, TypeOK
<1>9. ASSUME NEW l \in Lamps, NEW arrives \in BOOLEAN, Obey(l, arrives)
      PROVE  IInv'
  <2>1. Head(pending[l]).on \in BOOLEAN /\ Tail(pending[l]) \in Seq(Records)
    <3>1. pending[l] \in Seq(Records) /\ pending[l] # << >>
      BY <1>0, <1>9 DEF Obey
    <3>2. Head(pending[l]) \in Records /\ Tail(pending[l]) \in Seq(Records)
      BY <3>1
    <3> QED BY <3>2, Zenon DEF Records
  <2>2. [pending EXCEPT ![l] = Tail(@)] \in [Lamps -> Seq(Records)]
    BY <1>0, <2>1
  <2>3. SetRelay(l, Head(pending[l]).on, recent[l],
                 [pending EXCEPT ![l] = Tail(@)], arrives)
    BY <1>9 DEF Obey
  <2>4. UNCHANGED <<uses, issues, slots>>
    BY <1>9 DEF Obey, SetRelay
  <2>5. /\ relay' \in [Lamps -> BOOLEAN] /\ last' \in [Lamps -> BOOLEAN]
        /\ recent' \in [Lamps -> BOOLEAN]
        /\ cached' \in [Lamps -> Slots \cup {NoSlot}]
        /\ slots' \in [Slots -> Lamps \cup {NoLamp}]
        /\ pending' \in [Lamps -> Seq(Records)]
        /\ troubles' \in 0 .. MaxTroubles
    BY <2>1, <2>2, <2>3, SetRelayType, Zenon DEF IInv
  <2>6. OneSlotPerLamp'
    BY <2>4 DEF IInv, OneSlotPerLamp
  <2> QED BY <2>4, <2>5, <2>6 DEF IInv, TypeOK, Records
<1>10. ASSUME NEW l \in Lamps, NEW on \in BOOLEAN, NEW arrives \in BOOLEAN,
              Use(l, on, arrives)
       PROVE  IInv'
  <2>1. SetRelay(l, on, FALSE, pending, arrives)
    BY <1>10 DEF Use
  <2>2. uses' \in 0 .. MaxUse
    BY <1>10 DEF Use, IInv, TypeOK
  <2>3. UNCHANGED <<issues, slots>>
    BY <1>10 DEF Use, SetRelay
  <2>4. /\ relay' \in [Lamps -> BOOLEAN] /\ last' \in [Lamps -> BOOLEAN]
        /\ recent' \in [Lamps -> BOOLEAN]
        /\ cached' \in [Lamps -> Slots \cup {NoSlot}]
        /\ slots' \in [Slots -> Lamps \cup {NoLamp}]
        /\ pending' \in [Lamps -> Seq(Records)]
        /\ troubles' \in 0 .. MaxTroubles
    BY <1>0, <2>1, SetRelayType, Zenon DEF IInv
  <2>5. OneSlotPerLamp'
    BY <2>3 DEF IInv, OneSlotPerLamp
  <2> QED BY <2>2, <2>3, <2>4, <2>5 DEF IInv, TypeOK, Records
<1>11. CASE UNCHANGED vars
  BY <1>11 DEF vars, IInv, TypeOK, OneSlotPerLamp
<1> QED BY <1>1, <1>2, <1>3, <1>4, <1>5, <1>6, <1>7, <1>8, <1>9, <1>10, <1>11
        DEF Next

(* The state of the lamps and of the hub keeps its type.                   *)
THEOREM TypeCorrect == Spec => []TypeOK
<1>1. IInv => TypeOK
  BY DEF IInv
<1> QED BY Initially, Inductive, <1>1, PTL DEF Spec

(* No lamp ever has two slots, whatever is removed and registers again.    *)
THEOREM OneSlotPerLampHolds == Spec => []OneSlotPerLamp
<1>1. IInv => OneSlotPerLamp
  BY DEF IInv
<1> QED BY Initially, Inductive, <1>1, PTL DEF Spec

-----------------------------------------------------------------------------
(* Lamps that are mirrored and lamps that mirror are different ones, a     *)
(* mirror follows one lamp and is not used itself.                         *)
Paired ==
  \A l \in Lamps : Target[l] # NoLamp =>
    /\ Target[Target[l]] = NoLamp
    /\ Target[l] \notin Used
    /\ \A k \in Lamps : Target[k] = Target[l] => k = l

(* A lamp that is mirrored has mirrored its last change, gets no commands  *)
(* and knows the slot of its mirror.                                       *)
Mirroring(l) ==
  /\ last[l] = relay[l]
  /\ pending[l] = << >>
  /\ cached[l] \in Slots
  /\ slots[cached[l]] = Target[l]
  /\ Final(Target[l]) = relay[l]

MInv == \A l \in Lamps : Target[l] # NoLamp => Mirroring(l)

(* A lamp that takes a command is no further from or nearer to its final   *)
(* state.                                                                  *)
LEMMA TakingKeepsFinal ==
  ASSUME NEW q \in Seq(Records), q # << >>
  PROVE  IF Tail(q) = << >> THEN q[Len(q)] = Head(q)
                            ELSE Tail(q)[Len(Tail(q))] = q[Len(q)]
<1>1. /\ Len(q) \in Nat \ {0} /\ Tail(q) \in Seq(Records)
      /\ Len(Tail(q)) = Len(q) - 1
      /\ \A i \in 1 .. Len(Tail(q)) : Tail(q)[i] = q[i + 1]
  BY EmptySeq, HeadTailProperties
<1>2. CASE Tail(q) = << >>
  <2>0. Len(<< >>) = 0
    BY EmptySeq
  <2>1. Len(Tail(q)) = 0
    BY <1>2, <2>0, Zenon
  <2>2. Len(q) = 1
    BY <1>1, <2>1
  <2>3. Head(q) = q[1]
    OBVIOUS
  <2> QED BY <1>2, <2>2, <2>3
<1>3. CASE Tail(q) # << >>
  <2>1. Len(Tail(q)) \in Nat \ {0}
    BY <1>1, <1>3, EmptySeq
  <2>2. Tail(q)[Len(Tail(q))] = q[Len(q)]
    BY <1>1, <2>1
  <2> QED BY <1>3, <2>2
<1> QED BY <1>2, <1>3

(* The command that was stored last says what the lamp ends with.          *)
LEMMA LastDecides ==
  ASSUME NEW q \in Seq(Records), NEW e \in Records
  PROVE  Append(q, e) # << >> /\ Append(q, e)[Len(Append(q, e))] = e
OBVIOUS

(* Every step that disturbs nothing keeps the mirroring.                   *)
LEMMA MirroringKept ==
  ASSUME Paired, IInv, MInv, [Next]_vars, UNCHANGED <<issues, troubles>>
  PROVE  MInv'
<1> USE DEF lampVars, hubVars, boundVars
<1>0. pending \in [Lamps -> Seq(Records)] /\ relay \in [Lamps -> BOOLEAN]
  BY DEF IInv, TypeOK, Records
<1>1. ASSUME NEW s \in Slots, Remove(s) PROVE FALSE
  BY <1>1 DEF Remove, Trouble, IInv, TypeOK
<1>2. ASSUME NEW s \in Slots, NEW on \in BOOLEAN, Issue(s, on) PROVE FALSE
  BY <1>2 DEF Issue, IInv, TypeOK
<1>3. CASE HubRestart
  BY <1>3 DEF HubRestart, Trouble, IInv, TypeOK
<1>4. ASSUME NEW l \in Lamps, Lose(l) \/ Restart(l) PROVE FALSE
  BY <1>4 DEF Lose, Restart, Trouble, IInv, TypeOK
<1>5. ASSUME NEW l \in Lamps, PollEmpty(l) \/ Settle(l) PROVE MInv'
  <2>1. UNCHANGED <<relay, last, cached, slots, pending>>
    BY <1>5 DEF PollEmpty, Settle, vars
  <2> QED BY <2>1 DEF MInv, Mirroring, Final
<1>6. ASSUME NEW l \in Lamps, FetchSlot(l) PROVE MInv'
  <2>1. UNCHANGED <<relay, last, slots, pending>>
    BY <1>6 DEF FetchSlot
  <2>2. PICK s \in SlotRead(l) : cached' = [cached EXCEPT ![l] = s]
    BY <1>6 DEF FetchSlot
  <2>3. Target[l] # NoLamp => s \in Slots /\ slots[s] = Target[l]
    BY DEF SlotRead, First, TargetSlots, MInv, Mirroring
  <2>4. \A k \in Lamps : Target[k] # NoLamp =>
          cached'[k] \in Slots /\ slots[cached'[k]] = Target[k]
    BY <2>2, <2>3 DEF MInv, Mirroring, IInv, TypeOK
  <2> QED BY <2>1, <2>4 DEF MInv, Mirroring, Final
<1>7. ASSUME NEW l \in Lamps, NEW arrives \in BOOLEAN, Obey(l, arrives)
      PROVE  MInv'
  <2>1. pending[l] # << >> /\ pending[l] \in Seq(Records) /\ Target[l] = NoLamp
    BY <1>0, <1>7 DEF Obey, MInv, Mirroring
  <2>2. /\ relay' = [relay EXCEPT ![l] = Head(pending[l]).on]
        /\ pending' = [pending EXCEPT ![l] = Tail(@)]
        /\ UNCHANGED <<last, cached, slots>>
    BY <1>7, <2>1 DEF Obey, SetRelay, SyncDue
  <2>3. Final(l)' = Final(l)
    <3>1. pending'[l] = Tail(pending[l]) /\ relay'[l] = Head(pending[l]).on
      BY <1>0, <2>2
    <3> QED BY <2>1, <3>1, TakingKeepsFinal DEF Final
  <2> SUFFICES ASSUME NEW k \in Lamps, Target[k] # NoLamp PROVE Mirroring(k)'
    BY DEF MInv
  <2>4. Mirroring(k) /\ k # l
    BY <2>1 DEF MInv
  <2>5. relay'[k] = relay[k] /\ pending'[k] = pending[k]
    BY <1>0, <2>2, <2>4
  <2>6. Final(Target[k])' = Final(Target[k])
    <3>1. CASE Target[k] = l
      BY <2>3, <3>1
    <3>2. CASE Target[k] # l
      BY <1>0, <2>2, <3>2 DEF Final
    <3> QED BY <3>1, <3>2
  <2> QED BY <2>2, <2>4, <2>5, <2>6 DEF Mirroring
<1>8. ASSUME NEW l \in Used, NEW on \in BOOLEAN, NEW arrives \in BOOLEAN,
             Use(l, on, arrives)
      PROVE  MInv'
  <2>0. l \in Lamps
    OBVIOUS
  <2>1. /\ arrives
        /\ relay' = [relay EXCEPT ![l] = on]
        /\ UNCHANGED <<cached, slots>>
    BY <1>8 DEF Use, SetRelay, Trouble, IInv, TypeOK
  <2>2. \A k \in Lamps : Target[k] # NoLamp => Target[k] # l
    BY DEF Paired
  <2>3. CASE SyncDue(l, on)
    <3>1. Target[l] # NoLamp /\ Mirroring(l)
      BY <2>0, <2>3 DEF SyncDue, MInv
    <3>2. /\ last' = [last EXCEPT ![l] = on]
          /\ pending' = [pending EXCEPT ![Target[l]] =
                           Append(@, Command(on))]
      BY <1>8, <2>1, <2>3, <3>1
         DEF Use, SetRelay, Mark, SendCommand, Mirroring
    <3>3. Command(on) \in Records /\ Command(on).on = on
      BY <2>0, <3>1 DEF Command, Records
    <3>4. pending'[Target[l]] = Append(pending[Target[l]], Command(on))
      BY <1>0, <2>0, <3>1, <3>2
    <3>5. Final(Target[l])' = on
      BY <1>0, <2>0, <3>1, <3>3, <3>4, LastDecides DEF Final
    <3> SUFFICES ASSUME NEW k \in Lamps, Target[k] # NoLamp
                 PROVE  Mirroring(k)'
      BY DEF MInv
    <3>6. Mirroring(k) /\ k # Target[l] /\ Target[k] # l
      BY <2>0, <2>2, <3>1 DEF MInv, Paired
    <3>7. CASE k = l
      BY <1>0, <2>0, <2>1, <3>2, <3>5, <3>6, <3>7 DEF Mirroring, IInv, TypeOK
    <3>8. CASE k # l
      <4>1. Target[k] # Target[l]
        BY <2>0, <3>1, <3>8 DEF Paired
      <4>2. Final(Target[k])' = Final(Target[k])
        BY <1>0, <2>1, <3>2, <3>6, <4>1 DEF Final
      <4> QED BY <1>0, <2>1, <3>2, <3>6, <3>8, <4>2 DEF Mirroring, IInv, TypeOK
    <3> QED BY <3>7, <3>8
  <2>4. CASE ~SyncDue(l, on)
    <3>1. UNCHANGED <<last, pending>>
      BY <1>8, <2>4 DEF Use, SetRelay
    <3> SUFFICES ASSUME NEW k \in Lamps, Target[k] # NoLamp
                 PROVE  Mirroring(k)'
      BY DEF MInv
    <3>2. Mirroring(k) /\ Target[k] # l
      BY <2>2 DEF MInv
    <3>3. relay'[k] = relay[k]
      BY <1>0, <2>1, <2>4, <3>2 DEF SyncDue, Mirroring
    <3>4. Final(Target[k])' = Final(Target[k])
      BY <1>0, <2>1, <3>1, <3>2 DEF Final
    <3> QED BY <2>1, <3>1, <3>2, <3>3, <3>4 DEF Mirroring
  <2> QED BY <2>3, <2>4
<1>9. CASE UNCHANGED vars
  BY <1>9 DEF vars, MInv, Mirroring, Final
<1> QED BY <1>1, <1>2, <1>3, <1>4, <1>5, <1>6, <1>7, <1>8, <1>9 DEF Next

(* What is undisturbed was never disturbed.                                *)
LEMMA UndisturbedSoFar ==
  ASSUME IInv, [Next]_vars, Undisturbed'
  PROVE  Undisturbed
<1> SUFFICES ASSUME issues' = 0, troubles' = 0
             PROVE  issues = 0 /\ troubles = 0
  BY DEF Undisturbed
<1>0. issues \in Nat /\ troubles \in Nat
  BY DEF IInv, TypeOK
<1> USE <1>0 DEF Trouble
<1>1. ASSUME NEW s \in Slots, \/ Remove(s)
                              \/ \E on \in BOOLEAN : Issue(s, on)
      PROVE  issues = 0 /\ troubles = 0
  BY <1>1 DEF Remove, Issue
<1>2. CASE HubRestart
  BY <1>2 DEF HubRestart
<1>3. ASSUME NEW l \in Lamps, \/ Lose(l) \/ PollEmpty(l) \/ Settle(l)
                              \/ FetchSlot(l) \/ Restart(l)
      PROVE  issues = 0 /\ troubles = 0
  BY <1>3 DEF Lose, PollEmpty, Settle, FetchSlot, Restart, vars, boundVars
<1>4. ASSUME NEW l \in Lamps, NEW arrives \in BOOLEAN,
             Obey(l, arrives) \/ \E on \in BOOLEAN : Use(l, on, arrives)
      PROVE  issues = 0 /\ troubles = 0
  BY <1>4 DEF Obey, Use, SetRelay
<1>5. CASE UNCHANGED vars
  BY <1>5 DEF vars, boundVars
<1> QED BY <1>1, <1>2, <1>3, <1>4, <1>5 DEF Next

(* Until something goes wrong, what a lamp mirrors reaches its mirror: any *)
(* number of lamps that are mirrored, and any number of uses.              *)
THEOREM MirrorPendingHolds ==
  ASSUME Paired
  PROVE  Spec => []MirrorPending
<1>1. Init => (Undisturbed => MInv)
  <2> SUFFICES ASSUME Init, NEW l \in Lamps, Target[l] # NoLamp
               PROVE  Mirroring(l)
    BY DEF MInv
  <2>1. last[l] = relay[l] /\ pending[l] = << >>
    BY DEF Init
  <2>2. cached[l] \in Slots /\ slots[cached[l]] = Target[l]
    <3>1. PICK first \in [Lamps -> Slots] :
            /\ \A k \in Lamps : slots[first[k]] = k
            /\ cached = [k \in Lamps |-> IF Target[k] = NoLamp
                                         THEN NoSlot ELSE first[Target[k]]]
      BY DEF Init
    <3> QED BY <3>1
  <2>3. Final(Target[l]) = relay[l]
    <3>1. Target[l] \in Lamps
      OBVIOUS
    <3>2. relay[l] = relay[Target[l]] /\ pending[Target[l]] = << >>
      BY <3>1 DEF Init
    <3> QED BY <3>2 DEF Final
  <2> QED BY <2>1, <2>2, <2>3 DEF Mirroring
<1>2. IInv /\ (Undisturbed => MInv) /\ [Next]_vars
        => (Undisturbed => MInv)'
  <2> SUFFICES ASSUME IInv, Undisturbed => MInv, [Next]_vars, Undisturbed'
               PROVE  MInv'
    OBVIOUS
  <2>1. Undisturbed /\ UNCHANGED <<issues, troubles>>
    BY UndisturbedSoFar DEF Undisturbed
  <2> QED BY <2>1, MirroringKept
<1>3. (Undisturbed => MInv) => MirrorPending
  BY DEF MInv, Mirroring, MirrorPending
<1> QED BY <1>1, <1>2, <1>3, Initially, Inductive, PTL DEF Spec
=============================================================================
