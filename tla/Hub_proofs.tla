------------------------------ MODULE Hub_proofs ------------------------------
(***************************************************************************)
(* What holds of the parts of the hub's loop that MCHub puts side by side, *)
(* for every size of a ring, every number of devices and every limit.      *)
(*                                                                         *)
(* The ring of BridgeRing implements the queue of BoundedFifo: Implements. *)
(* The argument is the inductive invariant Coupled.  It says of the        *)
(* producer that, once it has found room, there is room until it           *)
(* publishes, because the consumer only makes room; and of the consumer    *)
(* that the value it has read is the oldest one until it advances, because *)
(* the producer writes no cell but the empty one at head.  The lemmas on   *)
(* Contents say what a step of head or tail does to the mapped queue.      *)
(*                                                                         *)
(* The agenda restarts the hub once: AgendaOnceHolds, from Forgetful.      *)
(***************************************************************************)
EXTENDS MCHub, SequenceTheorems, WellFoundedInduction, TLAPS

-----------------------------------------------------------------------------
(* A ring *)

Coupled ==
  /\ TypeOK
  /\ ppc # "idle" => Succ(head) # tail
  /\ ppc = "publish" => cell[head] = in
  /\ cpc = "advance" => tail # head /\ out = cell[tail]

LEMMA SuccInCells == \A i \in Cells : Succ(i) \in Cells
BY RingAssumption DEF Cells, Succ

(* The distance between two cells, and the cells on the way. *)
LEMMA Distances ==
  ASSUME NEW h \in Cells, NEW t \in Cells,
         NEW c, c = IF h >= t THEN h - t ELSE h - t + N
  PROVE  /\ c \in 0 .. N - 1
         /\ \A k \in 1 .. c :
              (IF t + k <= N THEN t + k - 1 ELSE t + k - 1 - N) \in Cells
BY RingAssumption DEF Cells

(* The mapped queue as a sequence: its length and its elements. *)
LEMMA ContentsSeq ==
  ASSUME TypeOK
  PROVE  /\ Count \in 0 .. N - 1
         /\ \A k \in 1 .. Count : At(k) \in Cells
         /\ Contents \in Seq(Values)
         /\ Len(Contents) = Count
         /\ \A k \in 1 .. Count : Contents[k] = cell[At(k)]
<1>1. Count \in 0 .. N - 1
  BY RingAssumption DEF TypeOK, Count, Cells
<1>2. \A k \in 1 .. Count : At(k) \in Cells
  BY RingAssumption DEF TypeOK, Count, Cells, At
<1>3. Contents \in [1 .. Count -> Values]
  BY <1>2 DEF TypeOK, Contents
<1>4. Contents \in Seq(Values)
  BY <1>1, <1>3, SeqDef
<1>5. Len(Contents) = Count
  BY <1>1, <1>3, <1>4, LenProperties
<1>6. \A k \in 1 .. Count : Contents[k] = cell[At(k)]
  BY DEF Contents
<1> QED BY <1>1, <1>2, <1>4, <1>5, <1>6

(* The same for the next state. *)
LEMMA ContentsSeqNext ==
  ASSUME TypeOK'
  PROVE  /\ Count' \in 0 .. N - 1
         /\ Contents' \in Seq(Values)
         /\ Len(Contents') = Count'
         /\ \A k \in 1 .. Count' : Contents'[k] = cell'[At(k)']
<1>0. cell' \in [Cells -> Values] /\ head' \in Cells /\ tail' \in Cells
  BY DEF TypeOK
<1>1. Count' = IF head' >= tail' THEN head' - tail' ELSE head' - tail' + N
  BY DEF Count
<1>. Count' \in 0 .. N - 1
  BY <1>0, <1>1, Distances
<1>2. \A k \in 1 .. Count' : At(k)' \in Cells
  BY <1>0, <1>1, Distances DEF At
<1>3. Contents' \in [1 .. Count' -> Values]
  BY <1>0, <1>2 DEF Contents
<1>4. Contents' \in Seq(Values)
  BY <1>1, <1>3, SeqDef
<1>5. Len(Contents') = Count'
  BY <1>1, <1>3, <1>4, LenProperties
<1>6. \A k \in 1 .. Count' : Contents'[k] = cell'[At(k)']
  BY DEF Contents
<1> QED BY <1>1, <1>4, <1>5, <1>6

(* The cell at head holds none of the values. *)
LEMMA HeadEmpty ==
  ASSUME TypeOK
  PROVE  \A k \in 1 .. Count : At(k) # head
BY RingAssumption DEF TypeOK, Count, Cells, At

LEMMA FullAndEmpty ==
  ASSUME TypeOK
  PROVE  /\ Succ(head) = tail <=> Count = N - 1
         /\ head = tail <=> Count = 0
BY RingAssumption DEF TypeOK, Count, Cells, Succ

-----------------------------------------------------------------------------
(* Coupled is an invariant of the ring. *)
LEMMA CoupledHolds == Spec => []Coupled
<1>1. Init => Coupled
  <2> SUFFICES ASSUME Init PROVE Coupled
    OBVIOUS
  <2>1. 0 \in Cells
    BY RingAssumption DEF Cells
  <2>2. cell \in [Cells -> Values]
    BY RingAssumption DEF Init
  <2> QED BY <2>1, <2>2, RingAssumption DEF Init, Coupled, TypeOK
<1>2. Coupled /\ [Next]_vars => Coupled'
  <2> SUFFICES ASSUME Coupled, [Next]_vars
               PROVE  Coupled'
    OBVIOUS
  <2> USE DEF Coupled, TypeOK
  <2>1. CASE Drop
    BY <2>1 DEF Drop
  <2>2. CASE Write
    BY <2>2 DEF Write
  <2>3. CASE Publish
    <3>1. head' \in Cells /\ Succ(head) # tail
      BY <2>3, SuccInCells DEF Publish
    <3> QED BY <2>3, <3>1 DEF Publish
  <2>4. CASE Read
    BY <2>4 DEF Read
  <2>5. CASE Advance
    <3>1. tail' \in Cells
      BY <2>5, SuccInCells DEF Advance
    <3>2. ppc # "idle" => Succ(head) # Succ(tail)
      BY <2>5, RingAssumption DEF Advance, Succ, Cells
    <3> QED BY <2>5, <3>1, <3>2 DEF Advance
  <2>6. ASSUME NEW v \in Values, Enter(v) PROVE Coupled'
    BY <2>6 DEF Enter
  <2>7. CASE UNCHANGED vars
    BY <2>7 DEF vars
  <2> QED BY <2>1, <2>2, <2>3, <2>4, <2>5, <2>6, <2>7 DEF Next
<1> QED BY <1>1, <1>2, PTL DEF Spec

(* Every variable keeps its type; the indices stay inside the ring. *)
THEOREM TypeCorrect == Spec => []TypeOK
<1>1. Coupled => TypeOK
  BY DEF Coupled
<1> QED BY <1>1, CoupledHolds, PTL

-----------------------------------------------------------------------------
(* Publishing appends. *)
LEMMA PublishAppends ==
  ASSUME Coupled, Coupled', Publish
  PROVE  Contents' = Append(Contents, in) /\ Count < N - 1
<1> USE DEF Coupled
<1>1. Count < N - 1
  BY RingAssumption, FullAndEmpty, ContentsSeq DEF Publish
<1>2. Count' = Count + 1
  BY RingAssumption DEF Publish, Count, Succ, TypeOK, Cells
<1>3. At(Count + 1) = head
  BY RingAssumption DEF At, Count, TypeOK, Cells
<1>4. \A k \in 1 .. Count' : At(k)' = At(k)
  BY DEF Publish, At
<1>5. Append(Contents, in) \in Seq(Values)
  BY ContentsSeq DEF TypeOK
<1>6. Len(Append(Contents, in)) = Count + 1
  BY ContentsSeq DEF TypeOK
<1>7. \A k \in 1 .. Count + 1 :
        Append(Contents, in)[k] = IF k <= Count THEN cell[At(k)] ELSE in
  BY ContentsSeq DEF TypeOK
<1>8. \A k \in 1 .. Count + 1 : Contents'[k] = Append(Contents, in)[k]
  <2> SUFFICES ASSUME NEW k \in 1 .. Count + 1
               PROVE  Contents'[k] = Append(Contents, in)[k]
    OBVIOUS
  <2>1. Contents'[k] = cell[At(k)]
    BY <1>2, <1>4, ContentsSeqNext DEF Publish
  <2>2. CASE k <= Count
    BY <2>1, <2>2, <1>7
  <2>3. CASE k = Count + 1
    BY <2>1, <2>3, <1>3, <1>7, ContentsSeq DEF Publish
  <2> QED BY <2>2, <2>3, ContentsSeq
<1> QED BY <1>1, <1>2, <1>5, <1>6, <1>8, ContentsSeqNext, SeqEqual

(* Advancing takes the head. *)
LEMMA AdvanceTakes ==
  ASSUME Coupled, Coupled', Advance
  PROVE  /\ Contents # <<>>
         /\ out = Head(Contents)
         /\ Contents' = Tail(Contents)
<1> USE DEF Coupled
<1>1. Count > 0
  BY FullAndEmpty, ContentsSeq DEF Advance
<1>2. Count' = Count - 1
  BY RingAssumption DEF Advance, Count, Succ, TypeOK, Cells
<1>3. At(1) = tail
  BY RingAssumption DEF At, TypeOK, Cells
<1>4. \A k \in 1 .. Count' : At(k)' = At(k + 1)
  BY <1>2, RingAssumption DEF Advance, At, Succ, Count, TypeOK, Cells
<1>5. Contents # <<>>
  BY <1>1, ContentsSeq, EmptySeq
<1>6. out = Head(Contents)
  BY <1>1, <1>3, <1>5, ContentsSeq DEF Advance
<1>7. /\ Tail(Contents) \in Seq(Values)
      /\ Len(Tail(Contents)) = Count - 1
      /\ \A k \in 1 .. Count - 1 : Tail(Contents)[k] = Contents[k + 1]
  BY <1>5, ContentsSeq, HeadTailProperties
<1>8. \A k \in 1 .. Count - 1 : Contents'[k] = Tail(Contents)[k]
  <2> SUFFICES ASSUME NEW k \in 1 .. Count - 1
               PROVE  Contents'[k] = Tail(Contents)[k]
    OBVIOUS
  <2>1. Contents'[k] = cell[At(k + 1)]
    BY <1>2, <1>4, ContentsSeqNext DEF Advance
  <2>2. k + 1 \in 1 .. Count
    BY ContentsSeq
  <2> QED BY <2>1, <2>2, <1>7, ContentsSeq
<1>9. Contents' = Tail(Contents)
  BY <1>2, <1>7, <1>8, ContentsSeqNext, SeqEqual
<1> QED BY <1>5, <1>6, <1>9

(* Writing the cell at head changes none of the values. *)
LEMMA WriteKeeps ==
  ASSUME Coupled, Coupled', Write
  PROVE  Contents' = Contents
<1> USE DEF Coupled
<1>1. Count' = Count /\ \A k \in 1 .. Count : At(k)' = At(k)
  BY DEF Write, Count, At
<1>2. \A k \in 1 .. Count : cell'[At(k)] = cell[At(k)]
  BY HeadEmpty, ContentsSeq DEF Write, TypeOK
<1>3. \A k \in 1 .. Count : Contents'[k] = Contents[k]
  BY <1>1, <1>2, ContentsSeq, ContentsSeqNext
<1> QED BY <1>1, <1>3, ContentsSeq, ContentsSeqNext, SeqEqual

(* The two tasks together are a bounded FIFO, for every size of the ring   *)
(* and every interleaving: queue_bridge_state and process_bridge_queue     *)
(* lose a value only at a full ring, and never repeat or reorder one.      *)
THEOREM Implements == Spec => FifoSpec
<1>1. Init => Fifo!Init
  <2> SUFFICES ASSUME Init PROVE Fifo!Init
    OBVIOUS
  <2>1. TypeOK /\ Count = 0
    <3>1. 0 \in Cells
      BY RingAssumption DEF Cells
    <3>2. cell \in [Cells -> Values]
      BY RingAssumption DEF Init
    <3>3. head = 0 /\ tail = 0
      BY DEF Init
    <3>4. Count = 0
      BY <3>3 DEF Count
    <3> QED BY <3>1, <3>2, <3>4, RingAssumption DEF Init, TypeOK
  <2>2. Contents = <<>>
    BY <2>1, ContentsSeq, EmptySeq
  <2> QED BY <2>2, RingAssumption DEF Init, Fifo!Init
<1>2. Coupled /\ Coupled' /\ [Next]_vars
        => [Fifo!Next]_<<Contents, got, lost>>
  <2> SUFFICES ASSUME Coupled, Coupled', [Next]_vars
               PROVE  [Fifo!Next]_<<Contents, got, lost>>
    OBVIOUS
  <2>1. TypeOK
    BY DEF Coupled
  <2>2. ASSUME UNCHANGED <<cell, head, tail>> PROVE Contents' = Contents
    BY <2>2 DEF Contents, Count, At
  <2>3. CASE Drop
    <3>1. Len(Contents) = N - 1
      BY <2>1, <2>3, FullAndEmpty, ContentsSeq DEF Drop
    <3>2. Fifo!TurnAway
      BY <2>2, <2>3, <3>1 DEF Drop, Fifo!TurnAway
    <3> QED BY <3>2 DEF Fifo!Next
  <2>4. CASE Write
    BY <2>4, WriteKeeps DEF Write
  <2>5. CASE Publish
    <3>1. in \in Values
      BY <2>1 DEF TypeOK
    <3>2. Len(Contents) < N - 1
      BY <2>1, <2>5, PublishAppends, ContentsSeq
    <3>3. Fifo!Put(in)
      BY <2>5, <3>2, PublishAppends DEF Publish, Fifo!Put
    <3> QED BY <3>1, <3>3 DEF Fifo!Next
  <2>6. CASE Read
    BY <2>2, <2>6 DEF Read
  <2>7. CASE Advance
    <3>1. Fifo!Take
      BY <2>7, AdvanceTakes DEF Advance, Fifo!Take
    <3> QED BY <3>1 DEF Fifo!Next
  <2>8. ASSUME NEW v \in Values, Enter(v)
        PROVE  [Fifo!Next]_<<Contents, got, lost>>
    BY <2>2, <2>8 DEF Enter
  <2>9. CASE UNCHANGED vars
    BY <2>2, <2>9 DEF vars
  <2> QED BY <2>3, <2>4, <2>5, <2>6, <2>7, <2>8, <2>9 DEF Next
<1> QED BY <1>1, <1>2, CoupledHolds, PTL DEF Spec, FifoSpec, Fifo!Spec

-----------------------------------------------------------------------------
(* The hub's Wi-Fi, clock and restarts *)

HubFlags ==
  /\ agendaOn \in BOOLEAN /\ ap \in BOOLEAN /\ submitted \in BOOLEAN
  /\ restartDue \in BOOLEAN /\ router \in BOOLEAN /\ paired \in BOOLEAN
  /\ talking \in BOOLEAN /\ ntp \in BOOLEAN /\ fired \in BOOLEAN
  /\ looked \in BOOLEAN

HubPlaces ==
  /\ mode \in Modes /\ creds \in {"none", "wrong", "good"}
  /\ phase \in {"run", "portal"} /\ conn \in {"up", "down", "trying"}

HubCounters ==
  /\ rxAge \in 0 .. RxLimit /\ minute \in 0 .. Day - 1 /\ up \in 0 .. NtpDelay
  /\ browser \in 0 .. Day /\ alarms \in 0 .. 3 /\ posts \in 0 .. 2
  /\ hubTroubles \in 0 .. MaxTroubles

(* The agenda, with what is known of the hub while the agenda has          *)
(* restarted it more often than a page has set its clock: it has no clock, *)
(* and will not ask for one in this minute.                                *)
Forgetful ==
  /\ alarms <= 1 + posts
  /\ alarms > posts => ~ntp /\ browser = Day /\ up = 0

HubInv == HubFlags /\ HubPlaces /\ HubCounters /\ Forgetful

LEMMA HubTypeIs == HubFlags /\ HubPlaces /\ HubCounters <=> HTypeOK
BY Zenon DEF HubFlags, HubPlaces, HubCounters, HTypeOK

LEMMA HubAtStart == HInit => HubInv
<1>. SUFFICES ASSUME HInit PROVE HubInv
  OBVIOUS
<1>1. HubFlags
  BY Zenon DEF HInit, HubFlags
<1>2. HubPlaces
  BY DEF HInit, HubPlaces
<1>3. HubCounters /\ Forgetful
  BY HubAssumption DEF HInit, HubCounters, Forgetful
<1>. QED
  BY <1>1, <1>2, <1>3 DEF HubInv

(* What a start of the hub leaves, in whatever mode. *)
LEMMA Booted ==
  ASSUME NEW m, NEW c, Boot(m, c)
  PROVE  /\ phase' \in {"run", "portal"} /\ conn' \in {"up", "down", "trying"}
         /\ ap' \in BOOLEAN /\ submitted' = FALSE /\ restartDue' = FALSE
         /\ rxAge' = 0 /\ up' = 0 /\ ntp' = FALSE /\ browser' = Day
         /\ fired' = FALSE /\ looked' = FALSE
<1>1. /\ submitted' = FALSE /\ restartDue' = FALSE /\ rxAge' = 0 /\ up' = 0
      /\ ntp' = FALSE /\ browser' = Day /\ fired' = FALSE /\ looked' = FALSE
  BY Zenon DEF Boot
<1>2. ap' \in BOOLEAN
  BY Zenon DEF Boot, WifiSetup, Portal
<1>3. phase' \in {"run", "portal"} /\ conn' \in {"up", "down", "trying"}
  <2>. HIDE DEF Reachable
  <2>. QED
    BY Zenon DEF Boot, WifiSetup, Portal
<1>. QED
  BY <1>1, <1>2, <1>3, Zenon

(* The start by a request, by the portal, a schedule or a watchdog.        *)
Restarting ==
  \/ PortalRun \/ ScheduledRestart \/ RxWatchdog \/ RestartByUser
  \/ \E m \in Modes : SetMode(m)
  \/ \E c \in {"wrong", "good"} : ConfigWifi(c)

LEMMA RestartingBoots ==
  ASSUME Restarting
  PROVE  /\ \E m, c : Boot(m, c)
         /\ mode' = mode \/ mode' \in Modes
         /\ creds' = creds \/ creds' \in {"wrong", "good"}
         /\ UNCHANGED <<agendaOn, router, paired, talking, minute, alarms, posts>>
         /\ hubTroubles' = hubTroubles \/ HubTrouble
<1>1. CASE PortalRun \/ ScheduledRestart \/ RxWatchdog \/ RestartByUser
  BY <1>1, Zenon
  DEF PortalRun, ScheduledRestart, RxWatchdog, RestartByUser, flashVars, worldVars
<1>2. ASSUME NEW m \in Modes, SetMode(m)
      PROVE  /\ Boot(m, creds) /\ mode' \in Modes /\ creds' = creds /\ HubTrouble
             /\ UNCHANGED <<agendaOn, router, paired, talking, minute, alarms, posts>>
  BY <1>2, Zenon DEF SetMode, worldVars
<1>3. ASSUME NEW c \in {"wrong", "good"}, ConfigWifi(c)
      PROVE  /\ Boot(mode, c) /\ mode' = mode /\ creds' \in {"wrong", "good"}
             /\ HubTrouble
             /\ UNCHANGED <<agendaOn, router, paired, talking, minute, alarms, posts>>
  BY <1>3, Zenon DEF ConfigWifi, worldVars
<1>. QED
  BY <1>1, <1>2, <1>3, Zenon DEF Restarting

LEMMA RestartingKeeps == ASSUME HubInv, Restarting PROVE HubInv'
<1>. PICK m, c : Boot(m, c)
  BY RestartingBoots
<1>1. HubFlags'
  BY Booted, RestartingBoots, Zenon DEF HubInv, HubFlags
<1>2. HubPlaces'
  BY Booted, RestartingBoots, Zenon DEF HubInv, HubPlaces
<1>3. HubCounters'
  <2>1. /\ rxAge' = 0 /\ up' = 0 /\ browser' = Day
        /\ UNCHANGED <<minute, alarms, posts>>
        /\ hubTroubles' = hubTroubles \/ HubTrouble
    BY Booted, RestartingBoots, Zenon
  <2>. QED
    BY <2>1, HubAssumption DEF HubInv, HubCounters, HubTrouble
<1>4. Forgetful'
  BY Booted, RestartingBoots, Zenon DEF HubInv, Forgetful
<1>. QED
  BY <1>1, <1>2, <1>3, <1>4 DEF HubInv

(* The agenda restarts the hub, which has a clock then.                    *)
LEMMA AgendaKeeps == ASSUME HubInv, AgendaStrikes PROVE HubInv'
<1>1. Boot(mode, creds)
  BY DEF AgendaStrikes
<1>2. HubFlags'
  BY <1>1, Booted, Zenon DEF AgendaStrikes, HubInv, HubFlags, flashVars, worldVars
<1>3. HubPlaces'
  BY <1>1, Booted, Zenon DEF AgendaStrikes, HubInv, HubPlaces, flashVars
<1>4. /\ rxAge' = 0 /\ up' = 0 /\ ~ntp' /\ browser' = Day
      /\ UNCHANGED <<minute, posts, hubTroubles>>
  BY <1>1, Booted, Zenon DEF AgendaStrikes, worldVars
<1>5. alarms' = IF alarms < 3 THEN alarms + 1 ELSE alarms
  BY DEF AgendaStrikes
<1>6. HubCounters'
  BY <1>4, <1>5, HubAssumption DEF HubInv, HubCounters
<1>7. ntp \/ browser # Day
  <2>1. AgendaMinute # Day
    BY HubAssumption
  <2>. QED
    BY <2>1, Zenon DEF AgendaStrikes, Epoch
<1>8. ~(alarms > posts)
  BY <1>7, Zenon DEF HubInv, Forgetful
<1>9. alarms' <= 1 + posts'
  BY <1>4, <1>5, <1>8 DEF HubInv, HubCounters
<1>10. Forgetful'
  BY <1>4, <1>9, Zenon DEF Forgetful
<1>. QED
  BY <1>2, <1>3, <1>6, <1>10 DEF HubInv

LEMMA MinuteKeeps == ASSUME HubInv, MinutePasses PROVE HubInv'
<1>1. HubFlags'
  BY Zenon DEF MinutePasses, HubInv, HubFlags, flashVars, wifiVars
<1>2. HubPlaces'
  BY Zenon DEF MinutePasses, HubInv, HubPlaces, flashVars, wifiVars
<1>3. /\ minute' = (minute + 1) % Day /\ alarms' = 0 /\ posts' = 0
      /\ browser' = browser /\ hubTroubles' = hubTroubles
      /\ up' = up \/ (up < NtpDelay /\ up' = up + 1)
      /\ rxAge' = rxAge \/ (rxAge < RxLimit /\ rxAge' = rxAge + 1)
  BY Zenon DEF MinutePasses
<1>4. HubCounters'
  BY <1>3, HubAssumption DEF HubInv, HubCounters
<1>5. Forgetful'
  BY <1>3 DEF Forgetful
<1>. QED
  BY <1>1, <1>2, <1>4, <1>5 DEF HubInv

(* Clocks *)
LEMMA ClockKeeps ==
  ASSUME HubInv, NtpSync \/ BrowserSetsClock PROVE HubInv'
<1>1. HubFlags'
  BY Zenon
  DEF NtpSync, BrowserSetsClock, HubInv, HubFlags, flashVars, wifiVars, worldVars
<1>2. HubPlaces'
  BY Zenon
  DEF NtpSync, BrowserSetsClock, HubInv, HubPlaces, flashVars, wifiVars
<1>3. CASE NtpSync
  <2>1. UNCHANGED <<rxAge, up, browser, alarms, posts, minute, hubTroubles>>
        /\ up = NtpDelay
    BY <1>3, Zenon DEF NtpSync, worldVars
  <2>2. HubCounters'
    BY <2>1 DEF HubInv, HubCounters
  <2>3. up # 0
    BY <2>1, HubAssumption
  <2>4. ~(alarms > posts)
    BY <2>3, Zenon DEF HubInv, Forgetful
  <2>5. Forgetful'
    BY <2>1, <2>4, Zenon DEF HubInv, Forgetful
  <2>. QED
    BY <1>1, <1>2, <2>2, <2>5 DEF HubInv
<1>4. CASE BrowserSetsClock
  <2>1. /\ UNCHANGED <<rxAge, up, alarms, minute>> /\ HubTrouble
        /\ browser' = minute /\ posts < 2 /\ posts' = posts + 1
    BY <1>4, Zenon DEF BrowserSetsClock, worldVars
  <2>2. HubCounters'
    BY <2>1, HubAssumption DEF HubInv, HubCounters, HubTrouble
  <2>3. alarms <= posts + 1
    BY DEF HubInv, HubCounters, Forgetful
  <2>4. alarms' <= 1 + posts' /\ ~(alarms' > posts')
    BY <2>1, <2>3 DEF HubInv, HubCounters
  <2>5. Forgetful'
    BY <2>4, Zenon DEF Forgetful
  <2>. QED
    BY <1>1, <1>2, <2>2, <2>5 DEF HubInv
<1>. QED
  BY <1>3, <1>4

(* The other steps leave the clock and the agenda's restarts alone.        *)
OtherSteps ==
  \/ MaintainWifi \/ ReconnectTimeout \/ StationUp \/ RouterTurns
  \/ \E c \in {"wrong", "good"} : PortalSetup(c)
  \/ ForcePortal \/ UpdateDone \/ ConfigAgenda
  \/ HubHears \/ TalkingTurns \/ AgendaPasses

LEMMA OtherKeeps == ASSUME HubInv, OtherSteps PROVE HubInv'
<1>. USE DEF flashVars, wifiVars, worldVars, clockVars
<1>1. HubFlags'
  <2>1. CASE MaintainWifi \/ ReconnectTimeout \/ StationUp
    BY <2>1, Zenon
    DEF MaintainWifi, ReconnectTimeout, StationUp, HubInv, HubFlags
  <2>2. CASE RouterTurns \/ ForcePortal \/ UpdateDone
    BY <2>2, Zenon
    DEF RouterTurns, ForcePortal, UpdateDone, Portal, HubInv, HubFlags
  <2>3. CASE \E c \in {"wrong", "good"} : PortalSetup(c)
    BY <2>3, Zenon DEF PortalSetup, HubInv, HubFlags
  <2>4. CASE ConfigAgenda \/ HubHears \/ TalkingTurns \/ AgendaPasses
    BY <2>4, Zenon
    DEF ConfigAgenda, HubHears, TalkingTurns, AgendaPasses, HubInv, HubFlags
  <2>. QED
    BY <2>1, <2>2, <2>3, <2>4, Zenon DEF OtherSteps
<1>2. HubPlaces'
  <2>1. CASE MaintainWifi \/ ReconnectTimeout \/ StationUp \/ RouterTurns
    BY <2>1, Zenon
    DEF MaintainWifi, ReconnectTimeout, StationUp, RouterTurns, HubInv, HubPlaces
  <2>2. CASE \E c \in {"wrong", "good"} : PortalSetup(c)
    BY <2>2, Zenon DEF PortalSetup, HubInv, HubPlaces
  <2>3. CASE ForcePortal \/ UpdateDone \/ ConfigAgenda \/ HubHears
             \/ TalkingTurns \/ AgendaPasses
    BY <2>3, Zenon
    DEF ForcePortal, UpdateDone, ConfigAgenda, HubHears, TalkingTurns,
        AgendaPasses, Portal, HubInv, HubPlaces
  <2>. QED
    BY <2>1, <2>2, <2>3, Zenon DEF OtherSteps
<1>3. /\ UNCHANGED <<ntp, browser, up, alarms, posts, minute>>
      /\ rxAge' = rxAge \/ rxAge' = 0
      /\ hubTroubles' = hubTroubles \/ HubTrouble
  BY Zenon
  DEF OtherSteps, MaintainWifi, ReconnectTimeout, StationUp, RouterTurns,
      PortalSetup, ForcePortal, UpdateDone, ConfigAgenda, HubHears,
      TalkingTurns, AgendaPasses
<1>4. HubCounters'
  BY <1>3, HubAssumption DEF HubInv, HubCounters, HubTrouble
<1>5. Forgetful'
  BY <1>3, Zenon DEF HubInv, Forgetful
<1>. QED
  BY <1>1, <1>2, <1>4, <1>5 DEF HubInv

LEMMA HubKept == ASSUME HubInv, [HNext]_hubVars PROVE HubInv'
<1>1. CASE HNext
  <2>1. Restarting \/ AgendaStrikes \/ MinutePasses \/ NtpSync
        \/ BrowserSetsClock \/ OtherSteps
    BY <1>1, Zenon DEF HNext, Restarting, OtherSteps
  <2>. QED
    BY <2>1, RestartingKeeps, AgendaKeeps, MinuteKeeps, ClockKeeps, OtherKeeps
<1>2. CASE UNCHANGED hubVars
  <2>. USE DEF hubVars, flashVars, wifiVars, worldVars, clockVars
  <2>1. HubFlags'
    BY <1>2, Zenon DEF HubInv, HubFlags
  <2>2. HubPlaces' /\ Forgetful'
    BY <1>2, Zenon DEF HubInv, HubPlaces, Forgetful
  <2>3. HubCounters'
    BY <1>2, Zenon DEF HubInv, HubCounters
  <2>. QED
    BY <2>1, <2>2, <2>3 DEF HubInv
<1>. QED
  BY <1>1, <1>2

(* Every variable of the hub's loop keeps its type.                        *)
THEOREM HubMainTypeCorrect == HSpec => []HTypeOK
<1>1. HubInv => HTypeOK
  BY HubTypeIs DEF HubInv
<1>. QED
  BY <1>1, HubAtStart, HubKept, PTL DEF HSpec

(* The agenda restarts the hub once in its minute, and once more for each  *)
(* time a page sets the clock in it: s_last_agenda_fired_min is gone with  *)
(* the restart, and the clock is, for NTP_RETRY_INTERVAL_MS.               *)
THEOREM AgendaOnceHolds == HSpec => []AgendaOnce
<1>1. HubInv => AgendaOnce
  BY DEF HubInv, Forgetful, AgendaOnce
<1>. QED
  BY <1>1, HubAtStart, HubKept, PTL DEF HSpec

-----------------------------------------------------------------------------
(* The Telegram bot *)

BotFlags ==
  /\ prevSet \in BOOLEAN /\ mqtt \in BOOLEAN /\ checked \in BOOLEAN
  /\ ready \in BOOLEAN /\ enabled \in Alerts

BotNodeStates ==
  /\ online \in [Bot!Nodes -> BOOLEAN] /\ prev \in [Bot!Nodes -> BOOLEAN]
  /\ silence \in [Bot!Nodes -> 0 .. Short + 1]

BotReports ==
  reading \in [Bot!Nodes ->
                 {<<FALSE, "low">>, <<TRUE, "critical">>} \cup {Bot!Blank}]

BotTimes ==
  /\ offlineT \in 0 .. Short /\ reconnectT \in 0 .. Short /\ batteryT \in 0 .. Long
  /\ mqttDown \in 0 .. Bot!Never /\ telTroubles \in 0 .. BotTroubles

(* What an alert names: a kind and one of the nodes, or the broker.        *)
BotAlerts ==
  ({"offline", "reconnect", "smoke", "critical", "battery"} \X Bot!Nodes)
    \cup {<<"mqtt", 0>>}

BotShape ==
  BotFlags /\ BotNodeStates /\ BotReports /\ BotTimes /\ sent \subseteq BotAlerts

LEMMA BotTypeIs == BotShape => Bot!TTypeOK
BY Zenon
DEF BotShape, BotFlags, BotNodeStates, BotReports, BotTimes, BotAlerts,
    Bot!TTypeOK

LEMMA BotAtStart == Bot!TInit => BotShape
<1>. SUFFICES ASSUME Bot!TInit PROVE BotShape
  OBVIOUS
<1>1. BotFlags
  BY Zenon DEF Bot!TInit, BotFlags
<1>2. BotNodeStates
  BY ServicesAssumption DEF Bot!TInit, BotNodeStates
<1>3. BotReports
  BY DEF Bot!TInit, BotReports
<1>4. BotTimes /\ sent \subseteq BotAlerts
  BY ServicesAssumption DEF Bot!TInit, BotTimes, Bot!Never
<1>. QED
  BY <1>1, <1>2, <1>3, <1>4 DEF BotShape

(* The first node in line is one of those in line.                         *)
LEMMA FirstInLine ==
  ASSUME NEW S, S \subseteq Bot!Nodes, S # {} PROVE Bot!Min(S) \in S
<1>1. S \subseteq Nat
  BY ServicesAssumption DEF Bot!Nodes
<1>2. PICK x \in S : \A y \in S : ~(<<y, x>> \in OpToRel(<, Nat))
  BY <1>1, NatLessThanWellFounded, WFMin
<1>3. \A y \in S : ~(y < x)
  BY <1>1, <1>2, Zenon DEF OpToRel
<1>4. \A y \in S : x <= y
  BY <1>1, <1>3
<1>. QED
  BY <1>4 DEF Bot!Min

LEMMA FirstNames ==
  ASSUME NEW kind \in {"offline", "reconnect", "battery"},
         NEW S, S \subseteq Bot!Nodes, NEW open
  PROVE  Bot!First(kind, S, open) \subseteq BotAlerts
<1>1. CASE S = {}
  BY <1>1 DEF Bot!First
<1>2. CASE S # {}
  BY <1>2, FirstInLine DEF Bot!First, BotAlerts
<1>. QED
  BY <1>1, <1>2

(* One check sends alerts about nodes there are.                           *)
LEMMA ChecksName ==
  Bot!OfflineAlerts \cup Bot!ReconnectAlerts \cup Bot!SmokeAlerts
    \cup Bot!CriticalBattery \cup Bot!LowBattery \subseteq BotAlerts
<1>1. /\ Bot!LongAway \subseteq Bot!Nodes /\ Bot!Reconnected \subseteq Bot!Nodes
      /\ Bot!Smoking \subseteq Bot!Nodes
      /\ \A level : Bot!Charged(level) \subseteq Bot!Nodes
  BY DEF Bot!LongAway, Bot!Reconnected, Bot!Smoking, Bot!Charged
<1>2. {} \subseteq BotAlerts
  OBVIOUS
<1>3. Bot!OfflineAlerts \subseteq BotAlerts
  <2>1. {<<"mqtt", 0>>} \subseteq BotAlerts
    BY DEF BotAlerts
  <2>2. Bot!First("offline", Bot!LongAway, offlineT >= Short) \subseteq BotAlerts
    BY <1>1, FirstNames
  <2>3. Bot!NodeOffline \subseteq BotAlerts
    BY <1>2, <2>2, Zenon DEF Bot!NodeOffline
  <2>4. Bot!BrokerOffline \subseteq BotAlerts
    BY <1>2, <2>1, Zenon DEF Bot!BrokerOffline
  <2>. QED
    BY <2>3, <2>4 DEF Bot!OfflineAlerts
<1>4. Bot!ReconnectAlerts \subseteq BotAlerts
  <2>1. Bot!First("reconnect", Bot!Reconnected, reconnectT >= Short)
          \subseteq BotAlerts
    BY <1>1, FirstNames
  <2>. QED
    BY <1>2, <2>1, Zenon DEF Bot!ReconnectAlerts
<1>5. Bot!SmokeAlerts \subseteq BotAlerts
  <2>1. {"smoke"} \X Bot!Smoking \subseteq BotAlerts
    BY <1>1 DEF BotAlerts
  <2>. QED
    BY <1>2, <2>1, Zenon DEF Bot!SmokeAlerts
<1>6. Bot!CriticalBattery \subseteq BotAlerts
  <2>1. {"critical"} \X Bot!Charged("critical") \subseteq BotAlerts
    BY <1>1 DEF BotAlerts
  <2>. QED
    BY <1>2, <2>1, Zenon DEF Bot!CriticalBattery
<1>7. Bot!LowBattery \subseteq BotAlerts
  <2>. DEFINE Low == Bot!Charged("low") \cup
                (IF Bot!LevelEnabled("critical") THEN {} ELSE Bot!Charged("critical"))
  <2>1. Low \subseteq Bot!Nodes
    BY <1>1
  <2>. HIDE DEF Low
  <2>2. Bot!First("battery", Low, batteryT >= Long) \subseteq BotAlerts
    BY <2>1, FirstNames
  <2>. QED
    BY <1>2, <2>2, Zenon DEF Bot!LowBattery, Low
<1>. QED
  BY <1>3, <1>4, <1>5, <1>6, <1>7

LEMMA BoundedStays ==
  ASSUME NEW limit \in Nat, NEW t \in 0 .. limit
  PROVE  Bot!Bounded(t, limit) \in 0 .. limit
BY DEF Bot!Bounded

LEMMA BotFlagsKept == ASSUME BotFlags, Bot!TNext PROVE BotFlags'
BY Zenon
DEF BotFlags, Bot!TNext, Bot!CheckAlerts, Bot!HalfMinute, Bot!Heard,
    Bot!TimesOut, Bot!MqttTurns, Bot!ReadyTurns, Bot!Restarts

LEMMA BotNodesKept == ASSUME BotNodeStates, Bot!TNext PROVE BotNodeStates'
<1>. USE ServicesAssumption DEF BotNodeStates, Bot!nodeVars
<1>1. CASE Bot!CheckAlerts
  BY <1>1 DEF Bot!CheckAlerts
<1>2. CASE Bot!HalfMinute
  <2>1. \A n \in Bot!Nodes : Bot!Bounded(silence[n], Short + 1) \in 0 .. Short + 1
    BY BoundedStays
  <2>2. /\ online' = online /\ prev' = prev
        /\ silence' = [n \in Bot!Nodes |->
             IF online[n] THEN 0 ELSE Bot!Bounded(silence[n], Short + 1)]
    BY <1>2, Zenon DEF Bot!HalfMinute
  <2>3. silence' \in [Bot!Nodes -> 0 .. Short + 1]
    BY <2>1, <2>2
  <2>. QED
    BY <2>2, <2>3
<1>3. ASSUME NEW n \in Bot!Nodes, Bot!Heard(n) \/ Bot!TimesOut(n)
      PROVE  BotNodeStates'
  <2>1. /\ \/ online' = [online EXCEPT ![n] = TRUE]
           \/ online' = [online EXCEPT ![n] = FALSE]
        /\ \/ silence' = [silence EXCEPT ![n] = 0]
           \/ silence' = [silence EXCEPT ![n] = 1]
        /\ prev' = prev
    BY <1>3, Zenon DEF Bot!Heard, Bot!TimesOut
  <2>2. online' \in [Bot!Nodes -> BOOLEAN]
    BY <2>1
  <2>3. silence' \in [Bot!Nodes -> 0 .. Short + 1]
    BY <2>1
  <2>. QED
    BY <2>1, <2>2, <2>3
<1>4. CASE Bot!MqttTurns \/ Bot!ReadyTurns
  BY <1>4 DEF Bot!MqttTurns, Bot!ReadyTurns
<1>5. CASE Bot!Restarts
  BY <1>5 DEF Bot!Restarts
<1>. QED
  BY <1>1, <1>2, <1>3, <1>4, <1>5, Zenon DEF Bot!TNext

LEMMA BotReportsKept == ASSUME BotReports, Bot!TNext PROVE BotReports'
<1>. USE DEF BotReports, Bot!nodeVars
<1>1. CASE Bot!CheckAlerts \/ Bot!HalfMinute
  BY <1>1, Zenon DEF Bot!CheckAlerts, Bot!HalfMinute
<1>2. ASSUME NEW n \in Bot!Nodes, Bot!Heard(n) PROVE BotReports'
  BY <1>2 DEF Bot!Heard
<1>3. ASSUME NEW n \in Bot!Nodes, Bot!TimesOut(n) PROVE BotReports'
  BY <1>3, Zenon DEF Bot!TimesOut
<1>4. CASE Bot!MqttTurns \/ Bot!ReadyTurns
  BY <1>4, Zenon DEF Bot!MqttTurns, Bot!ReadyTurns
<1>5. CASE Bot!Restarts
  BY <1>5 DEF Bot!Restarts
<1>. QED
  BY <1>1, <1>2, <1>3, <1>4, <1>5, Zenon DEF Bot!TNext

LEMMA BotTimesKept == ASSUME BotTimes, Bot!TNext PROVE BotTimes'
<1>. USE ServicesAssumption DEF BotTimes, Bot!throttleVars, Bot!Never, Bot!Bounded
<1>1. CASE Bot!CheckAlerts
  <2>1. /\ offlineT' = offlineT \/ offlineT' = 0
        /\ reconnectT' = reconnectT \/ reconnectT' = 0
        /\ batteryT' = batteryT \/ batteryT' = 0
        /\ mqttDown' = mqttDown \/ mqttDown' = 0 \/ mqttDown' = Short + 2
        /\ telTroubles' = telTroubles
    BY <1>1, Zenon DEF Bot!CheckAlerts
  <2>. QED
    BY <2>1
<1>2. CASE Bot!HalfMinute
  BY <1>2 DEF Bot!HalfMinute
<1>3. CASE \E n \in Bot!Nodes : Bot!Heard(n) \/ Bot!TimesOut(n)
  BY <1>3, Zenon DEF Bot!Heard, Bot!TimesOut
<1>4. CASE Bot!MqttTurns
  BY <1>4, Zenon DEF Bot!MqttTurns
<1>5. CASE Bot!ReadyTurns \/ Bot!Restarts
  <2>1. /\ offlineT' = offlineT \/ offlineT' = 0
        /\ reconnectT' = reconnectT \/ reconnectT' = 0
        /\ batteryT' = batteryT \/ batteryT' = 0
        /\ mqttDown' = mqttDown \/ mqttDown' = Short + 2
        /\ telTroubles < BotTroubles /\ telTroubles' = telTroubles + 1
    BY <1>5, Zenon DEF Bot!ReadyTurns, Bot!Restarts
  <2>. QED
    BY <2>1
<1>. QED
  BY <1>1, <1>2, <1>3, <1>4, <1>5, Zenon DEF Bot!TNext

LEMMA SentKept ==
  ASSUME sent \subseteq BotAlerts, Bot!TNext PROVE sent' \subseteq BotAlerts'
<1>1. BotAlerts' = BotAlerts
  BY DEF BotAlerts, Bot!Nodes
<1>2. \/ sent' = sent \/ sent' = {}
      \/ sent' = Bot!OfflineAlerts \cup Bot!ReconnectAlerts \cup Bot!SmokeAlerts
                   \cup Bot!CriticalBattery \cup Bot!LowBattery
  BY Zenon
  DEF Bot!TNext, Bot!CheckAlerts, Bot!HalfMinute, Bot!Heard,
      Bot!TimesOut, Bot!MqttTurns, Bot!ReadyTurns, Bot!Restarts
<1>. QED
  BY <1>1, <1>2, ChecksName

LEMMA BotKept == ASSUME BotShape, [Bot!TNext]_botVars PROVE BotShape'
<1>1. CASE Bot!TNext
  BY <1>1, BotFlagsKept, BotNodesKept, BotReportsKept, BotTimesKept, SentKept
  DEF BotShape
<1>2. CASE UNCHANGED botVars
  <2>1. BotFlags' /\ BotNodeStates' /\ BotReports' /\ BotTimes'
    BY <1>2, Zenon
    DEF botVars, BotShape, BotFlags, BotNodeStates, BotReports, BotTimes,
        Bot!Nodes, Bot!Never, Bot!Blank
  <2>2. sent' \subseteq BotAlerts'
    BY <1>2 DEF botVars, BotShape, BotAlerts, Bot!Nodes
  <2>. QED
    BY <2>1, <2>2 DEF BotShape
<1>. QED
  BY <1>1, <1>2

-----------------------------------------------------------------------------
(* The MQTT client *)

LinkFlags == session \in BOOLEAN /\ flag \in BOOLEAN /\ broker \in BOOLEAN

LinkPlaces ==
  /\ host \in {"none", "wrong", "right"} /\ heap \in {"ok", "short", "low"}
  /\ fails \in 0 .. 5 /\ wait \in 0 .. LastWait
  /\ troubles \in 0 .. LinkTroubles

SlotStates ==
  /\ occ \in [Mqtt!Slots -> Macs \cup {None}]
  /\ slotKnown \in [Mqtt!Slots -> BOOLEAN] /\ dev \in [Macs -> BOOLEAN]
  /\ due \subseteq Mqtt!Slots

HaStates ==
  /\ listed \subseteq Mqtt!AllEntities /\ told \subseteq Mqtt!AllEntities
  /\ shown \in [Mqtt!AllEntities -> BOOLEAN]
  /\ order \in {None} \cup (Mqtt!Switchable \X BOOLEAN)

LinkShape == LinkFlags /\ LinkPlaces /\ SlotStates /\ HaStates

LEMMA LinkTypeIs == LinkShape => Mqtt!TypeOK
BY Zenon DEF LinkShape, LinkFlags, LinkPlaces, SlotStates, HaStates, Mqtt!TypeOK

LEMMA LinkAtStart == Mqtt!Init => LinkShape
<1>. SUFFICES ASSUME Mqtt!Init PROVE LinkShape
  OBVIOUS
<1>1. LinkFlags
  BY Zenon DEF Mqtt!Init, LinkFlags
<1>2. LinkPlaces
  BY ServicesAssumption DEF Mqtt!Init, LinkPlaces
<1>3. SlotStates
  BY DEF Mqtt!Init, SlotStates
<1>4. HaStates
  BY DEF Mqtt!Init, HaStates
<1>. QED
  BY <1>1, <1>2, <1>3, <1>4 DEF LinkShape

LEMMA LinkFlagsKept == ASSUME LinkFlags, Mqtt!Next PROVE LinkFlags'
<1>. USE DEF LinkFlags, Mqtt!linkVars
<1>1. CASE Mqtt!Connect \/ Mqtt!ConnectFails \/ Mqtt!Notice \/ Mqtt!Wait
           \/ Mqtt!SessionLost \/ Mqtt!BrokerTurns \/ Mqtt!Restart
  BY <1>1, Zenon
  DEF Mqtt!Connect, Mqtt!ConnectFails, Mqtt!Notice, Mqtt!Wait,
      Mqtt!SessionLost, Mqtt!BrokerTurns, Mqtt!Restart
<1>2. ASSUME NEW h, Mqtt!SaveConfig(h) \/ Mqtt!HeapTurns(h) PROVE LinkFlags'
  BY <1>2, Zenon DEF Mqtt!SaveConfig, Mqtt!HeapTurns
<1>3. ASSUME NEW m, NEW s, Mqtt!Pair(m, s) PROVE LinkFlags'
  BY <1>3, Zenon DEF Mqtt!Pair
<1>4. ASSUME NEW S, Mqtt!Remove(S) PROVE LinkFlags'
  BY <1>4, Zenon DEF Mqtt!Remove
<1>5. ASSUME NEW s, Mqtt!Rename(s) \/ Mqtt!Report(s) \/ Mqtt!Bridge(s)
      PROVE  LinkFlags'
  BY <1>5, Zenon DEF Mqtt!Rename, Mqtt!Report, Mqtt!Bridge
<1>6. ASSUME NEW m, Mqtt!DeviceTurns(m) PROVE LinkFlags'
  BY <1>6, Zenon DEF Mqtt!DeviceTurns
<1>7. ASSUME NEW e, NEW v, Mqtt!Switch(e, v) PROVE LinkFlags'
  BY <1>7, Zenon DEF Mqtt!Switch
<1>8. CASE Mqtt!Broadcast \/ Mqtt!Callback
  BY <1>8, Zenon DEF Mqtt!Broadcast, Mqtt!Callback
<1>. QED
  BY <1>1, <1>2, <1>3, <1>4, <1>5, <1>6, <1>7, <1>8, Zenon DEF Mqtt!Next

(* The time to the next attempt: what was shifted, up to the longest.      *)
LEMMA Waits == ASSUME NEW f \in 0 .. 5 PROVE Mqtt!NextWait(f) \in 0 .. LastWait
<1>1. Mqtt!Shifted[f + 1] \in Nat
  BY DEF Mqtt!Shifted
<1>. HIDE DEF Mqtt!Shifted
<1>2. FirstWait * Mqtt!Shifted[f + 1] \in Nat
  BY <1>1, ServicesAssumption
<1>. QED
  BY <1>2, ServicesAssumption DEF Mqtt!NextWait

LEMMA LinkPlacesKept == ASSUME LinkPlaces, Mqtt!Next PROVE LinkPlaces'
<1>. USE DEF LinkPlaces, Mqtt!linkVars
<1>1. ASSUME host' = host \/ host' \in {"none", "wrong", "right"},
             heap' = heap \/ heap' \in {"ok", "short", "low"},
             fails' = fails \/ fails' = 0,
             wait' = wait \/ wait' = 0 \/ wait' \in 0 .. FirstWait,
             troubles' = troubles \/ Mqtt!Trouble
      PROVE  LinkPlaces'
  BY <1>1, ServicesAssumption DEF Mqtt!Trouble
<1>2. CASE Mqtt!Connect \/ Mqtt!Notice \/ Mqtt!SessionLost \/ Mqtt!BrokerTurns
           \/ Mqtt!Restart
  BY <1>1, <1>2, Zenon
  DEF Mqtt!Connect, Mqtt!Notice, Mqtt!SessionLost, Mqtt!BrokerTurns, Mqtt!Restart
<1>3. CASE Mqtt!ConnectFails
  <2>1. fails' \in 0 .. 5
    BY <1>3 DEF Mqtt!ConnectFails
  <2>2. wait' \in 0 .. LastWait
    BY <1>3, <2>1, Waits, Zenon DEF Mqtt!ConnectFails
  <2>. QED
    BY <1>3, <2>1, <2>2, Zenon DEF Mqtt!ConnectFails
<1>4. CASE Mqtt!Wait
  <2>1. wait > 0 /\ wait' = wait - 1
        /\ UNCHANGED <<host, heap, fails, troubles>>
    BY <1>4, Zenon DEF Mqtt!Wait
  <2>. QED
    BY <2>1, ServicesAssumption
<1>5. ASSUME NEW h \in {"none", "wrong", "right"}, Mqtt!SaveConfig(h)
      PROVE  LinkPlaces'
  BY <1>1, <1>5, Zenon DEF Mqtt!SaveConfig
<1>6. ASSUME NEW h \in {"ok", "short", "low"}, Mqtt!HeapTurns(h)
      PROVE  LinkPlaces'
  BY <1>1, <1>6, Zenon DEF Mqtt!HeapTurns
<1>7. ASSUME NEW m, NEW s, Mqtt!Pair(m, s) PROVE LinkPlaces'
  BY <1>1, <1>7, Zenon DEF Mqtt!Pair
<1>8. ASSUME NEW S, Mqtt!Remove(S) PROVE LinkPlaces'
  BY <1>1, <1>8, Zenon DEF Mqtt!Remove
<1>9. ASSUME NEW s, Mqtt!Rename(s) \/ Mqtt!Report(s) \/ Mqtt!Bridge(s)
      PROVE  LinkPlaces'
  BY <1>1, <1>9, Zenon DEF Mqtt!Rename, Mqtt!Report, Mqtt!Bridge
<1>10. ASSUME NEW m, Mqtt!DeviceTurns(m) PROVE LinkPlaces'
  BY <1>1, <1>10, Zenon DEF Mqtt!DeviceTurns
<1>11. ASSUME NEW e, NEW v, Mqtt!Switch(e, v) PROVE LinkPlaces'
  BY <1>1, <1>11, Zenon DEF Mqtt!Switch
<1>12. CASE Mqtt!Broadcast \/ Mqtt!Callback
  BY <1>1, <1>12, Zenon DEF Mqtt!Broadcast, Mqtt!Callback
<1>. QED
  BY <1>2, <1>3, <1>4, <1>5, <1>6, <1>7, <1>8, <1>9, <1>10, <1>11, <1>12, Zenon
  DEF Mqtt!Next

LEMMA SlotStatesKept == ASSUME SlotStates, HaStates, Mqtt!Next PROVE SlotStates'
<1>. USE DEF SlotStates, Mqtt!slotVars
<1>1. CASE Mqtt!Connect \/ Mqtt!ConnectFails \/ Mqtt!Notice \/ Mqtt!Wait
           \/ Mqtt!SessionLost \/ Mqtt!BrokerTurns \/ Mqtt!Broadcast
  BY <1>1, Zenon
  DEF Mqtt!Connect, Mqtt!ConnectFails, Mqtt!Notice, Mqtt!Wait,
      Mqtt!SessionLost, Mqtt!BrokerTurns, Mqtt!Broadcast, Mqtt!Slots
<1>2. CASE Mqtt!Restart
  BY <1>2 DEF Mqtt!Restart
<1>3. ASSUME NEW h, Mqtt!SaveConfig(h) \/ Mqtt!HeapTurns(h) PROVE SlotStates'
  BY <1>3, Zenon DEF Mqtt!SaveConfig, Mqtt!HeapTurns, Mqtt!Slots
<1>4. ASSUME NEW m \in Macs, NEW s \in Mqtt!Slots, Mqtt!Pair(m, s)
      PROVE  SlotStates'
  BY <1>4 DEF Mqtt!Pair
<1>5. ASSUME NEW S \in SUBSET Mqtt!Slots, Mqtt!Remove(S) PROVE SlotStates'
  BY <1>5 DEF Mqtt!Remove
<1>6. ASSUME NEW s \in Mqtt!Slots, Mqtt!Rename(s) PROVE SlotStates'
  BY <1>6, Zenon DEF Mqtt!Rename, Mqtt!Slots
<1>7. ASSUME NEW s \in Mqtt!Slots, Mqtt!Report(s) PROVE SlotStates'
  <2>1. occ[s] \in Macs
    BY <1>7 DEF Mqtt!Report
  <2>. QED
    BY <1>7, <2>1 DEF Mqtt!Report
<1>8. ASSUME NEW s \in Mqtt!Slots, Mqtt!Bridge(s) PROVE SlotStates'
  BY <1>8 DEF Mqtt!Bridge
<1>9. ASSUME NEW m \in Macs, Mqtt!DeviceTurns(m) PROVE SlotStates'
  BY <1>9 DEF Mqtt!DeviceTurns
<1>10. ASSUME NEW e, NEW v, Mqtt!Switch(e, v) PROVE SlotStates'
  BY <1>10, Zenon DEF Mqtt!Switch, Mqtt!Slots
<1>11. CASE Mqtt!Callback
  <2>1. order[2] \in BOOLEAN
    BY <1>11 DEF Mqtt!Callback, HaStates
  <2>2. \/ dev' = dev
        \/ \E m \in Macs : dev' = [dev EXCEPT ![m] = order[2]]
    <3>1. order[1][2] \in Mqtt!Slots
      BY <1>11
      DEF Mqtt!Callback, HaStates, Mqtt!Switchable, Mqtt!AllEntities, Mqtt!Entity
    <3>. QED
      BY <1>11, <3>1 DEF Mqtt!Callback
  <2>3. dev' \in [Macs -> BOOLEAN]
    BY <2>1, <2>2
  <2>. QED
    BY <1>11, <2>3, Zenon DEF Mqtt!Callback, Mqtt!Slots
<1>. QED
  BY <1>1, <1>2, <1>3, <1>4, <1>5, <1>6, <1>7, <1>8, <1>9, <1>10, <1>11, Zenon
  DEF Mqtt!Next

-----------------------------------------------------------------------------
(* Entities *)

(* What has an availability or a state has been announced: the two other   *)
(* tables agree with that of mqtt_client_publish_discovery.                *)
LEMMA TablesAgree ==
  ASSUME NEW t
  PROVE  /\ Mqtt!StateSuffixes(t) = Mqtt!Discovered(t)
         /\ Mqtt!AvailabilitySuffixes(t) \subseteq Mqtt!Discovered(t)
<1>1. CASE t \in {"temp_hum", "contact", "motion", "gas", "dht_gas"}
  BY <1>1
  DEF Mqtt!StateSuffixes, Mqtt!AvailabilitySuffixes, Mqtt!Discovered
<1>2. CASE t \in {"rain", "soil", "level", "onoff"}
  BY <1>2
  DEF Mqtt!StateSuffixes, Mqtt!AvailabilitySuffixes, Mqtt!Discovered
<1>3. CASE t \in {"light", "acquiry", "repeater"}
  BY <1>3
  DEF Mqtt!StateSuffixes, Mqtt!AvailabilitySuffixes, Mqtt!Discovered
<1>4. CASE t \notin {"temp_hum", "contact", "motion", "gas", "dht_gas", "rain",
                     "soil", "level", "onoff", "light", "acquiry", "repeater"}
  BY <1>4
  DEF Mqtt!StateSuffixes, Mqtt!AvailabilitySuffixes, Mqtt!Discovered
<1>. QED
  BY <1>1, <1>2, <1>3, <1>4

LEMMA EntitiesAre ==
  ASSUME NEW m \in Macs, NEW s \in Mqtt!Slots
  PROVE  /\ Mqtt!Entity(m, s, Mqtt!Discovered(TypeOf[m])) \subseteq Mqtt!AllEntities
         /\ Mqtt!Entity(m, s, Mqtt!AvailabilitySuffixes(TypeOf[m]))
              \subseteq Mqtt!AllEntities
<1>. HIDE DEF Mqtt!Discovered, Mqtt!AvailabilitySuffixes
<1>1. Mqtt!Entity(m, s, Mqtt!Discovered(TypeOf[m])) \subseteq Mqtt!AllEntities
  BY DEF Mqtt!AllEntities
<1>2. Mqtt!Entity(m, s, Mqtt!AvailabilitySuffixes(TypeOf[m]))
        \subseteq Mqtt!Entity(m, s, Mqtt!Discovered(TypeOf[m]))
  BY TablesAgree DEF Mqtt!Entity
<1>. QED
  BY <1>1, <1>2

LEMMA EntitySlot ==
  ASSUME NEW e \in Mqtt!AllEntities PROVE e[1] \in Macs /\ e[2] \in Mqtt!Slots
BY DEF Mqtt!AllEntities, Mqtt!Entity

(* What is announced, told and shown of devices that are paired.           *)
LEMMA PublishedAre ==
  ASSUME SlotStates, NEW S, S \subseteq Mqtt!Paired
  PROVE  /\ UNION {Mqtt!Entity(occ[s], s, Mqtt!Discovered(TypeOf[occ[s]])) : s \in S}
              \subseteq Mqtt!AllEntities
         /\ UNION {Mqtt!Entity(occ[s], s, Mqtt!AvailabilitySuffixes(TypeOf[occ[s]])) :
                     s \in S} \subseteq Mqtt!AllEntities
<1>1. \A s \in S : s \in Mqtt!Slots /\ occ[s] \in Macs
  BY DEF Mqtt!Paired, SlotStates
<1>. QED
  BY <1>1, EntitiesAre

LEMMA ShownIs ==
  ASSUME SlotStates, HaStates, NEW E
  PROVE  Mqtt!ShownAfter(E) \in [Mqtt!AllEntities -> BOOLEAN]
<1>1. \A e \in Mqtt!AllEntities : slotKnown[e[2]] \in BOOLEAN /\ shown[e] \in BOOLEAN
  BY EntitySlot DEF SlotStates, HaStates
<1>. QED
  BY <1>1, Zenon DEF Mqtt!ShownAfter

LEMMA DiscoverKeeps ==
  ASSUME SlotStates, HaStates, NEW S, S \subseteq Mqtt!Paired, Mqtt!Discover(S)
  PROVE  /\ listed' \subseteq Mqtt!AllEntities /\ told' \subseteq Mqtt!AllEntities
         /\ shown' \in [Mqtt!AllEntities -> BOOLEAN]
<1>1. listed' \subseteq Mqtt!AllEntities
  BY PublishedAre, Zenon DEF Mqtt!Discover, Mqtt!ListedAfter, HaStates
<1>2. told' = told
  BY DEF Mqtt!Discover
<1>3. shown' \in [Mqtt!AllEntities -> BOOLEAN]
  BY ShownIs, Zenon DEF Mqtt!Discover
<1>. QED
  BY <1>1, <1>2, <1>3, Zenon DEF HaStates

LEMMA EntitiesStand ==
  Mqtt!AllEntities' = Mqtt!AllEntities /\ Mqtt!Switchable' = Mqtt!Switchable
<1>1. Mqtt!AllEntities' = Mqtt!AllEntities
  BY DEF Mqtt!AllEntities, Mqtt!Slots, Mqtt!Entity, Mqtt!Discovered
<1>. QED
  BY <1>1 DEF Mqtt!Switchable

LEMMA HaStatesKept == ASSUME SlotStates, HaStates, Mqtt!Next PROVE HaStates'
<1>. DEFINE All == Mqtt!AllEntities
<1>0. /\ listed \subseteq All /\ told \subseteq All /\ shown \in [All -> BOOLEAN]
      /\ order \in {None} \cup (Mqtt!Switchable \X BOOLEAN)
  BY Zenon DEF HaStates
<1>1. SUFFICES /\ listed' \subseteq All /\ told' \subseteq All
               /\ shown' \in [All -> BOOLEAN]
               /\ order' \in {None} \cup (Mqtt!Switchable \X BOOLEAN)
  BY EntitiesStand, Zenon DEF HaStates
<1>. HIDE DEF All
<1>. USE DEF Mqtt!haVars
<1>2. CASE Mqtt!Connect
  <2>1. listed' \subseteq All /\ told' \subseteq All
    <3>1. Mqtt!Paired \subseteq Mqtt!Paired
      OBVIOUS
    <3>2. /\ UNION {Mqtt!Entity(occ[s], s, Mqtt!Discovered(TypeOf[occ[s]])) :
                      s \in Mqtt!Paired} \subseteq All
          /\ UNION {Mqtt!Entity(occ[s], s, Mqtt!AvailabilitySuffixes(TypeOf[occ[s]])) :
                      s \in Mqtt!Paired} \subseteq All
      BY <3>1, PublishedAre, Zenon DEF All
    <3>. QED
      BY <1>0, <1>2, <3>2, Zenon DEF Mqtt!Connect
  <2>2. shown' \in [All -> BOOLEAN]
    <3>1. \A e \in All : slotKnown[e[2]] \in BOOLEAN /\ shown[e] \in BOOLEAN
      BY <1>0, EntitySlot DEF SlotStates, All
    <3>2. \/ shown' = shown
          \/ shown' = [e \in All |->
                IF occ[e[2]] = e[1] THEN slotKnown[e[2]] ELSE shown[e]]
      BY <1>2, Zenon DEF Mqtt!Connect, All
    <3>. QED
      BY <1>0, <3>1, <3>2, Zenon
  <2>. QED
    BY <1>0, <1>2, <2>1, <2>2, Zenon DEF Mqtt!Connect
<1>3. CASE Mqtt!ConnectFails \/ Mqtt!Notice \/ Mqtt!Wait
           \/ Mqtt!SessionLost \/ Mqtt!BrokerTurns \/ Mqtt!Restart
  BY <1>0, <1>3, Zenon
  DEF Mqtt!ConnectFails, Mqtt!Notice, Mqtt!Wait, Mqtt!SessionLost,
      Mqtt!BrokerTurns, Mqtt!Restart
<1>4. ASSUME NEW h, Mqtt!SaveConfig(h)
      PROVE  UNCHANGED <<listed, told, shown, order>>
  BY <1>4, Zenon DEF Mqtt!SaveConfig
<1>5. ASSUME NEW h, Mqtt!HeapTurns(h) PROVE UNCHANGED <<listed, told, shown, order>>
  BY <1>5, Zenon DEF Mqtt!HeapTurns
<1>6. ASSUME NEW m \in Macs, NEW s \in Mqtt!Slots, Mqtt!Pair(m, s)
      PROVE  /\ listed' \subseteq All /\ told' \subseteq All
             /\ shown' \in [All -> BOOLEAN] /\ order' = order
  <2>1. listed' \subseteq All /\ told' \subseteq All
    <3>1. /\ Mqtt!Entity(m, s, Mqtt!Discovered(TypeOf[m])) \subseteq All
          /\ Mqtt!Entity(m, s, Mqtt!AvailabilitySuffixes(TypeOf[m])) \subseteq All
      BY EntitiesAre, Zenon DEF All
    <3>. QED
      BY <1>0, <1>6, <3>1, Zenon DEF Mqtt!Pair
  <2>2. shown' \in [All -> BOOLEAN]
    <3>1. \A e \in All : shown[e] \in BOOLEAN
      BY <1>0
    <3>2. shown' = [e \in All |->
             IF Mqtt!Out /\ e[1] = m /\ e[2] = s THEN FALSE ELSE shown[e]]
      BY <1>6, Zenon DEF Mqtt!Pair, All
    <3>. QED
      BY <3>1, <3>2, Zenon
  <2>. QED
    BY <1>6, <2>1, <2>2, Zenon DEF Mqtt!Pair
<1>7. ASSUME NEW S, Mqtt!Remove(S) PROVE UNCHANGED <<listed, told, shown, order>>
  BY <1>7, Zenon DEF Mqtt!Remove
<1>8. ASSUME NEW s \in Mqtt!Slots, Mqtt!Rename(s)
      PROVE  /\ listed' \subseteq All /\ told' \subseteq All
             /\ shown' \in [All -> BOOLEAN] /\ order' = order
  <2>1. {s} \subseteq Mqtt!Paired
    BY <1>8 DEF Mqtt!Rename, Mqtt!Paired
  <2>2. Mqtt!Discover({s})
    BY <1>8 DEF Mqtt!Rename
  <2>. QED
    BY <1>8, <2>1, <2>2, DiscoverKeeps, Zenon DEF Mqtt!Rename, All
<1>9. ASSUME NEW s \in Mqtt!Slots, Mqtt!Report(s)
      PROVE  UNCHANGED <<listed, told, shown, order>>
  BY <1>9, Zenon DEF Mqtt!Report
<1>10. ASSUME NEW s \in Mqtt!Slots, Mqtt!Bridge(s)
       PROVE  /\ UNCHANGED <<listed, told, order>>
              /\ shown' \in [All -> BOOLEAN]
  BY <1>0, <1>10, ShownIs, Zenon DEF Mqtt!Bridge, All
<1>11. CASE Mqtt!Broadcast
  <2>1. Mqtt!Paired \subseteq Mqtt!Paired
    OBVIOUS
  <2>2. UNCHANGED <<listed, told, shown>> \/ Mqtt!Discover(Mqtt!Paired)
    BY <1>11, Zenon DEF Mqtt!Broadcast, Mqtt!PublishAll
  <2>3. listed' \subseteq All /\ told' \subseteq All /\ shown' \in [All -> BOOLEAN]
    BY <1>0, <2>1, <2>2, DiscoverKeeps, Zenon DEF All
  <2>. QED
    BY <1>0, <1>11, <2>3, Zenon DEF Mqtt!Broadcast
<1>12. ASSUME NEW m \in Macs, Mqtt!DeviceTurns(m)
       PROVE  UNCHANGED <<listed, told, shown, order>>
  BY <1>12, Zenon DEF Mqtt!DeviceTurns
<1>13. ASSUME NEW e \in Mqtt!Switchable, NEW v \in BOOLEAN, Mqtt!Switch(e, v)
       PROVE  /\ UNCHANGED <<listed, told, shown>>
              /\ order' \in Mqtt!Switchable \X BOOLEAN
  BY <1>13, Zenon DEF Mqtt!Switch
<1>14. CASE Mqtt!Callback
  BY <1>0, <1>14, Zenon DEF Mqtt!Callback
<1>. QED
  BY <1>0, <1>2, <1>3, <1>4, <1>5, <1>6, <1>7, <1>8, <1>9, <1>10, <1>11,
     <1>12, <1>13, <1>14, Zenon
  DEF Mqtt!Next

LEMMA LinkKept == ASSUME LinkShape, [Mqtt!Next]_linkVars PROVE LinkShape'
<1>1. CASE Mqtt!Next
  BY <1>1, LinkFlagsKept, LinkPlacesKept, SlotStatesKept, HaStatesKept
  DEF LinkShape
<1>2. CASE UNCHANGED linkVars
  <2>1. LinkFlags' /\ LinkPlaces'
    BY <1>2, Zenon DEF linkVars, LinkShape, LinkFlags, LinkPlaces
  <2>2. SlotStates'
    BY <1>2, Zenon DEF linkVars, LinkShape, SlotStates, Mqtt!Slots
  <2>3. HaStates'
    BY <1>2, EntitiesStand, Zenon DEF linkVars, LinkShape, HaStates
  <2>. QED
    BY <2>1, <2>2, <2>3 DEF LinkShape
<1>. QED
  BY <1>1, <1>2

-----------------------------------------------------------------------------
(* The parts side by side: each keeps its types, whichever of them runs;   *)
(* in particular Home Assistant is never told of an entity that has not a  *)
(* device and a slot of the registry in its name, and every alert of the   *)
(* bot names a node there is.                                              *)
THEOREM HubTypeCorrect == HubFairSpec => []HubTypeOK
<1>. DEFINE Inv == HubInv /\ BotShape /\ LinkShape
<1>1. HubInit => Inv
  BY HubAtStart, BotAtStart, LinkAtStart DEF HubInit
<1>2. Inv /\ [HubNext]_allVars => Inv'
  <2>. SUFFICES ASSUME Inv, [HubNext]_allVars PROVE Inv'
    OBVIOUS
  <2>1. [Mqtt!Next]_linkVars /\ [Bot!TNext]_botVars /\ [HNext]_hubVars
    BY Zenon DEF HubNext, allVars
  <2>. QED
    BY <2>1, HubKept, BotKept, LinkKept
<1>3. Inv => HubTypeOK
  BY HubTypeIs, BotTypeIs, LinkTypeIs DEF HubTypeOK, HubInv
<1>. QED
  BY <1>1, <1>2, <1>3, PTL DEF HubFairSpec
===============================================================================
