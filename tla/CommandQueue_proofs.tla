------------------------- MODULE CommandQueue_proofs -------------------------
(***************************************************************************)
(* What holds of the command queue for every number of entries, hops and   *)
(* commands, every time limit and every width of the clock.                *)
(***************************************************************************)
EXTENDS CommandQueue, TLAPS

USE QueueAssumption

(* Sums and differences of clock values are clock values. *)
LEMMA ClockArithmetic ==
  ASSUME NEW a \in Clock, NEW b \in Clock
  PROVE  Plus(a, b) \in Clock /\ Minus(a, b) \in Clock
BY DEF Plus, Minus, Clock

(* Deactivating an entry keeps the queue well-formed. *)
LEMMA Deactivated ==
  ASSUME q \in [Slots -> Entries], NEW i \in Slots,
         q' = [q EXCEPT ![i].active = FALSE]
  PROVE  q' \in [Slots -> Entries] /\ q[i].frame \in 0 .. MaxCmds
<1>1. q[i] \in Entries
  OBVIOUS
<1>2. [q[i] EXCEPT !.active = FALSE] \in Entries
  BY <1>1 DEF Entries
<1>. QED
  BY <1>1, <1>2 DEF Entries

(* The state stays within its types whichever tasks issue commands. *)
THEOREM TypeCorrect == Spec => []TypeOK
<1>1. Init => TypeOK
  <2>. SUFFICES ASSUME Init PROVE TypeOK
    OBVIOUS
  <2>1. q \in [Slots -> Entries]
    BY DEF Init, Entries, Clock
  <2>2. cmd \in [Cmds -> [target : Targets, on : BOOLEAN]]
    BY DEF Init
  <2>3. now \in Clock /\ loopNow \in Clock /\ loopAt \in 0 .. QMax
        /\ stall \in 0 .. MaxStall /\ issued \in 0 .. MaxCmds
    BY DEF Init, Clock, Outside
  <2>4. /\ at \in [Tasks -> Slots] /\ cur \in [Tasks -> 0 .. MaxCmds]
        /\ pc \in [Tasks -> {"idle", "search", "claim", "fill", "stamp"}]
    BY DEF Init, Slots
  <2>5. /\ sent \in [Cmds -> Nat]
        /\ relay \in [Targets -> BOOLEAN]
        /\ applied \in [Targets -> 0 .. MaxCmds]
    BY DEF Init, Clock
  <2>. QED
    BY <2>1, <2>2, <2>3, <2>4, <2>5 DEF Init, TypeOK
<1>2. TypeOK /\ [Next]_vars => TypeOK'
  <2>. SUFFICES ASSUME TypeOK, [Next]_vars PROVE TypeOK'
    OBVIOUS
  <2>1. ASSUME NEW t \in Issuers, NEW m \in Targets, NEW on \in Orders,
               SendCommand(t, m, on)
        PROVE  TypeOK'
    <3>1. issued' \in 0 .. MaxCmds /\ issued + 1 \in Cmds
      BY <2>1 DEF SendCommand, TypeOK, Cmds
    <3>2. cmd' \in [Cmds -> [target : Targets, on : BOOLEAN]]
      BY <2>1, <3>1 DEF SendCommand, TypeOK
    <3>. QED
      BY <2>1, <3>1, <3>2
      DEF SendCommand, TypeOK, Tasks, queueVars, radioVars, Cmds
  <2>2. ASSUME NEW t \in Issuers, Enqueue(t)
        PROVE  TypeOK'
    <3>1. ASSUME NEW i \in Slots, FindEntry(t, i) PROVE TypeOK'
      BY <3>1 DEF FindEntry, TypeOK, Tasks, queueVars, radioVars
    <3>0. t \in Tasks /\ at[t] \in Slots /\ q[at[t]] \in Entries
      BY DEF TypeOK
    <3>2. CASE ClaimEntry(t)
      <4>1. [q[at[t]] EXCEPT !.active = TRUE] \in Entries
        BY <3>0 DEF Entries
      <4>2. q' \in [Slots -> Entries]
        BY <3>0, <3>2, <4>1 DEF ClaimEntry, TypeOK
      <4>. QED
        BY <3>2, <4>2 DEF ClaimEntry, TypeOK, Tasks, queueVars, radioVars
    <3>3. CASE FillEntry(t)
      <4>1. [q[at[t]] EXCEPT !.frame = cur[t]] \in Entries
        BY <3>0 DEF Entries, TypeOK
      <4>2. q' \in [Slots -> Entries]
        BY <3>0, <3>3, <4>1 DEF FillEntry, TypeOK
      <4>. QED
        BY <3>3, <4>2 DEF FillEntry, TypeOK, Tasks, queueVars, radioVars
    <3>4. CASE StampEntry(t)
      <4>1. [q[at[t]] EXCEPT !.hops = 0, !.created = now, !.retry = now]
               \in Entries
        <5>1. now \in Clock /\ 0 \in 0 .. MaxHops
          BY DEF TypeOK
        <5>. QED
          BY <3>0, <5>1 DEF Entries
      <4>2. q' \in [Slots -> Entries]
        BY <3>0, <3>4, <4>1 DEF StampEntry, TypeOK
      <4>. QED
        BY <3>0, <3>4, <4>2 DEF StampEntry, TypeOK, Tasks, queueVars, radioVars
    <3>5. ASSUME NEW i \in Slots, DropOldest(t, i) PROVE TypeOK'
      <4>1. q' \in [Slots -> Entries] /\ q[i].frame \in 0 .. MaxCmds
        BY <3>5, Deactivated DEF DropOldest, TypeOK
      <4>. QED
        BY <3>5, <4>1 DEF DropOldest, TypeOK, Tasks, queueVars, radioVars
    <3>. QED
      BY <2>2, <3>1, <3>2, <3>3, <3>4, <3>5 DEF Enqueue
  <2>3. CASE Drain
    <3>1. CASE StartDrain
      BY <3>1 DEF StartDrain, TypeOK, issueVars, radioVars
    <3>2. ASSUME NEW i \in Slots, PassOver(i) PROVE TypeOK'
      BY <3>2 DEF PassOver, NextEntry, TypeOK, Slots, issueVars, radioVars
    <3>3. ASSUME NEW i \in Slots, GiveUp(i) PROVE TypeOK'
      <4>1. q' \in [Slots -> Entries]
        BY <3>3, Deactivated DEF GiveUp, TypeOK
      <4>2. loopAt' \in 0 .. QMax
        BY <3>3 DEF GiveUp, NextEntry, Slots
      <4>. QED
        BY <3>3, <4>1, <4>2
        DEF GiveUp, NextEntry, TypeOK, issueVars, radioVars
    <3>4. ASSUME NEW i \in Slots, NEW heard \in Hearing, Transmit(i, heard)
          PROVE  TypeOK'
      <4>. DEFINE n == q[i].frame
      <4>1. q[i] \in Entries /\ n \in 0 .. MaxCmds
        BY <3>4 DEF TypeOK, Entries
      <4>2. q' \in [Slots -> Entries]
        <5>1. Plus(loopNow, HopInterval) \in Clock
          <6>1. loopNow \in Clock
            BY DEF TypeOK
          <6>2. HopInterval \in Clock
            BY DEF Clock
          <6>. QED
            BY <6>1, <6>2, ClockArithmetic
        <5>2. q[i].hops + 1 \in 0 .. MaxHops
          BY <3>4, <4>1 DEF Transmit, Due, Aged, Spent, Entries
        <5>3. [q[i] EXCEPT !.hops = q[i].hops + 1,
                           !.retry = Plus(loopNow, HopInterval)] \in Entries
          BY <4>1, <5>1, <5>2 DEF Entries
        <5>. QED
          BY <3>4, <5>3 DEF Transmit, TypeOK
      <4>3. sent' \in [Cmds -> Nat]
        <5>1. CASE n = 0
          BY <3>4, <5>1 DEF Transmit, TypeOK
        <5>2. CASE n # 0
          <6>1. n \in Cmds /\ sent[n] \in Nat
            BY <4>1, <5>2 DEF TypeOK, Cmds
          <6>2. sent' = [sent EXCEPT ![n] = @ + 1]
            BY <3>4, <5>2 DEF Transmit
          <6>3. sent \in [Cmds -> Nat]
            BY DEF TypeOK
          <6>4. sent[n] + 1 \in Nat
            BY <6>1
          <6>. QED
            BY <6>1, <6>2, <6>3, <6>4
        <5>. QED
          BY <5>1, <5>2
      <4>4. relay' \in [Targets -> BOOLEAN] /\ applied' \in [Targets -> 0 .. MaxCmds]
        <5>1. CASE heard /\ n # 0
          <6>1. n \in Cmds
            BY <4>1, <5>1 DEF Cmds
          <6>2. cmd[n] \in [target : Targets, on : BOOLEAN]
            BY <6>1 DEF TypeOK
          <6>3. /\ relay' = [relay EXCEPT ![cmd[n].target] = cmd[n].on]
                /\ applied' = [applied EXCEPT ![cmd[n].target] =
                                 IF n > @ THEN n ELSE @]
            BY <3>4, <5>1 DEF Transmit
          <6>4. /\ relay \in [Targets -> BOOLEAN]
                /\ applied \in [Targets -> 0 .. MaxCmds]
            BY DEF TypeOK
          <6>. QED
            BY <4>1, <6>2, <6>3, <6>4
        <5>2. CASE ~(heard /\ n # 0)
          BY <3>4, <5>2 DEF Transmit, TypeOK
        <5>. QED
          BY <5>1, <5>2
      <4>5. loopAt' \in 0 .. QMax
        BY <3>4 DEF Transmit, NextEntry, Slots
      <4>. QED
        BY <3>4, <4>2, <4>3, <4>4, <4>5
        DEF Transmit, NextEntry, TypeOK, issueVars
    <3>. QED
      BY <2>3, <3>1, <3>2, <3>3, <3>4 DEF Drain
  <2>4. CASE Tick
    <3>1. now' \in Clock
      BY <2>4 DEF Tick, Plus, TypeOK, Clock
    <3>. QED
      BY <2>4, <3>1 DEF Tick, TypeOK, issueVars, radioVars
  <2>5. CASE UNCHANGED vars
    BY <2>5 DEF vars, TypeOK, queueVars, issueVars, radioVars
  <2>. QED
    BY <2>1, <2>2, <2>3, <2>4, <2>5 DEF Next
<1>. QED
  BY <1>1, <1>2, PTL DEF Spec

-----------------------------------------------------------------------------
(* The strengthening behind HopBudget when only the loop task issues       *)
(* commands: an entry the drain may look at carries a command of its own,  *)
(* transmitted no more often than the entry's hop count says; the command  *)
(* being stored has not been transmitted at all.                           *)
Settled(i) ==
  q[i].active /\ ~(pc["loop"] \in {"fill", "stamp"} /\ at["loop"] = i)

HopInv ==
  /\ Draining => pc["loop"] = "idle"
  /\ pc["web"] = "idle"
  /\ pc["loop"] # "idle" =>
       /\ cur["loop"] = issued /\ issued > 0
       /\ sent[issued] = 0
       /\ \A i \in Slots : Settled(i) => q[i].frame # issued
  /\ pc["loop"] = "claim" => ~q[at["loop"]].active
  /\ pc["loop"] \in {"fill", "stamp"} => q[at["loop"]].active
  /\ pc["loop"] = "stamp" => q[at["loop"]].frame = issued
  /\ \A n \in Cmds : n > issued => sent[n] = 0
  /\ \A i \in Slots : Settled(i) =>
       /\ q[i].frame \in 1 .. issued
       /\ sent[q[i].frame] <= q[i].hops
  /\ \A i, j \in Slots :
       Settled(i) /\ Settled(j) /\ q[i].frame = q[j].frame => i = j

(* HopInv and HopBudget are inductive together.                            *)
LEMMA HopInvHolds ==
  ASSUME Issuers \subseteq {"loop"}
  PROVE  Spec => [](HopInv /\ HopBudget)
<1>1. Init => HopInv /\ HopBudget
  BY DEF Init, HopInv, HopBudget, Settled, Draining, Outside, Tasks
<1>2. TypeOK /\ HopInv /\ HopBudget /\ [Next]_vars => HopInv' /\ HopBudget'
  <2>. SUFFICES ASSUME TypeOK, HopInv, HopBudget, [Next]_vars
                PROVE  HopInv' /\ HopBudget'
    OBVIOUS
  <2>1. ASSUME NEW t \in Issuers, NEW m \in Targets, NEW on \in Orders,
               SendCommand(t, m, on)
        PROVE  HopInv' /\ HopBudget'
    <3>1. t = "loop" /\ ~Draining /\ pc["loop"] = "idle"
      BY <2>1 DEF SendCommand, Storing
    <3>2. issued + 1 \in Cmds /\ sent[issued + 1] = 0
      BY <2>1 DEF SendCommand, TypeOK, HopInv, Cmds
    <3>3. /\ pc'["loop"] = "search" /\ pc'["web"] = "idle"
          /\ cur'["loop"] = issued + 1 /\ issued' = issued + 1
          /\ ~Draining' /\ UNCHANGED <<q, at, sent>>
      BY <2>1, <3>1
      DEF SendCommand, HopInv, TypeOK, Tasks, Draining, Outside, queueVars,
          radioVars
    <3>4. \A i \in Slots : Settled(i)' <=> Settled(i)
      BY <3>1, <3>3 DEF Settled
    <3>5. \A i \in Slots : Settled(i) =>
            /\ q[i].frame \in 1 .. issued' /\ q[i].frame # issued'
            /\ sent[q[i].frame] <= q[i].hops
      BY <3>3 DEF HopInv, TypeOK
    <3>6. \A n \in Cmds : n > issued' => sent'[n] = 0
      BY <3>3 DEF HopInv, TypeOK, Cmds
    <3>7. \A i, j \in Slots :
            Settled(i)' /\ Settled(j)' /\ q'[i].frame = q'[j].frame => i = j
      BY <3>3, <3>4 DEF HopInv
    <3>8. issued' > 0 /\ sent'[issued'] = 0
      BY <3>2, <3>3 DEF Cmds
    <3>. QED
      BY <3>3, <3>4, <3>5, <3>6, <3>7, <3>8 DEF HopInv, HopBudget
  <2>2. ASSUME NEW t \in Issuers, Enqueue(t)
        PROVE  HopInv' /\ HopBudget'
    <3>1. t = "loop" /\ pc["loop"] # "idle" /\ ~Draining /\ issued \in Cmds
      BY <2>2
      DEF Enqueue, FindEntry, ClaimEntry, FillEntry, StampEntry, DropOldest,
          HopInv, TypeOK, Cmds
    <3>2. ASSUME NEW i \in Slots, FindEntry(t, i) PROVE HopInv' /\ HopBudget'
      <4>1. /\ pc'["loop"] = "claim" /\ pc'["web"] = "idle" /\ at'["loop"] = i
            /\ ~q[i].active /\ ~Draining'
            /\ UNCHANGED <<q, sent, cur, issued>>
        BY <3>1, <3>2
        DEF FindEntry, FreeEntry, HopInv, TypeOK, Tasks, Draining, Outside,
            queueVars, radioVars
      <4>2. \A j \in Slots : Settled(j)' <=> Settled(j)
        BY <3>2, <4>1 DEF Settled, FindEntry, TypeOK
      <4>. QED
        BY <3>1, <4>1, <4>2 DEF HopInv, HopBudget
    <3>3. CASE ClaimEntry(t)
      <4>1. /\ pc["loop"] = "claim" /\ pc'["loop"] = "fill"
            /\ pc'["web"] = "idle" /\ ~Draining'
            /\ UNCHANGED <<at, sent, cur, issued>>
        BY <3>1, <3>3
        DEF ClaimEntry, HopInv, TypeOK, Tasks, Draining, Outside, queueVars,
            radioVars
      <4>2. \A j \in Slots : j # at["loop"] => q'[j] = q[j]
        BY <3>1, <3>3 DEF ClaimEntry, TypeOK
      <4>3. \A j \in Slots : Settled(j)' => Settled(j) /\ q'[j] = q[j]
        BY <4>1, <4>2 DEF Settled
      <4>4. q'[at["loop"]].active
        <5>1. at["loop"] \in Slots /\ q[at["loop"]] \in Entries
          BY DEF TypeOK, Tasks
        <5>. QED
          BY <3>1, <3>3, <5>1 DEF ClaimEntry, TypeOK, Entries
      <4>. QED
        BY <3>1, <4>1, <4>3, <4>4 DEF HopInv, HopBudget
    <3>4. CASE FillEntry(t)
      <4>1. /\ pc["loop"] = "fill" /\ pc'["loop"] = "stamp"
            /\ pc'["web"] = "idle" /\ ~Draining'
            /\ UNCHANGED <<at, sent, cur, issued>>
        BY <3>1, <3>4
        DEF FillEntry, HopInv, TypeOK, Tasks, Draining, Outside, queueVars,
            radioVars
      <4>2. /\ \A j \in Slots : j # at["loop"] => q'[j] = q[j]
            /\ q'[at["loop"]].frame = issued /\ q'[at["loop"]].active
        <5>1. at["loop"] \in Slots /\ cur["loop"] = issued
              /\ q[at["loop"]].active
          BY <3>1, <4>1 DEF TypeOK, HopInv, Tasks
        <5>2. q[at["loop"]] \in Entries
          BY <5>1 DEF TypeOK
        <5>. QED
          BY <3>1, <3>4, <5>1, <5>2 DEF FillEntry, TypeOK, Entries
      <4>3. \A j \in Slots : Settled(j)' => Settled(j) /\ q'[j] = q[j]
        BY <4>1, <4>2 DEF Settled
      <4>. QED
        BY <3>1, <4>1, <4>2, <4>3 DEF HopInv, HopBudget
    <3>5. CASE StampEntry(t)
      <4>. DEFINE a == at["loop"]
      <4>1. /\ pc["loop"] = "stamp" /\ pc'["loop"] = "idle"
            /\ pc'["web"] = "idle"
            /\ UNCHANGED <<at, sent, cur, issued>>
        BY <3>1, <3>5
        DEF StampEntry, HopInv, TypeOK, Tasks, queueVars, radioVars
      <4>2. a \in Slots /\ q[a] \in Entries /\ q[a].frame = issued
            /\ sent[issued] = 0
        BY <3>1, <4>1 DEF TypeOK, HopInv, Tasks
      <4>3. /\ \A j \in Slots : j # a => q'[j] = q[j]
            /\ q'[a].frame = issued /\ q'[a].hops = 0
        BY <3>1, <3>5, <4>2 DEF StampEntry, TypeOK, Entries
      <4>4. \A j \in Slots : j # a /\ Settled(j)' =>
                               Settled(j) /\ q[j].frame # issued
        BY <4>1, <4>3 DEF Settled, HopInv
      <4>5. issued \in 1 .. issued
        BY <3>1 DEF Cmds
      <4>6. \A j \in Slots : Settled(j)' =>
              q'[j].frame \in 1 .. issued /\ sent[q'[j].frame] <= q'[j].hops
        BY <4>2, <4>3, <4>4, <4>5 DEF HopInv
      <4>7. \A j, k \in Slots :
              Settled(j)' /\ Settled(k)' /\ q'[j].frame = q'[k].frame => j = k
        BY <4>2, <4>3, <4>4 DEF HopInv
      <4>. QED
        BY <3>1, <4>1, <4>6, <4>7 DEF HopInv, HopBudget
    <3>6. ASSUME NEW i \in Slots, DropOldest(t, i)
          PROVE  HopInv' /\ HopBudget'
      <4>1. /\ pc["loop"] = "search" /\ pc'["loop"] = "idle"
            /\ pc'["web"] = "idle"
            /\ UNCHANGED <<at, sent, cur, issued>>
        BY <3>1, <3>6 DEF DropOldest, HopInv, TypeOK, Tasks, radioVars
      <4>2. ~q'[i].active /\ \A j \in Slots : j # i => q'[j] = q[j]
        <5>1. q[i] \in Entries
          BY DEF TypeOK
        <5>. QED
          BY <3>6, <5>1 DEF DropOldest, TypeOK, Entries
      <4>3. \A j \in Slots : Settled(j)' => Settled(j) /\ q'[j] = q[j]
        BY <4>1, <4>2 DEF Settled
      <4>. QED
        BY <3>1, <4>1, <4>3 DEF HopInv, HopBudget
    <3>. QED
      BY <2>2, <3>2, <3>3, <3>4, <3>5, <3>6 DEF Enqueue
  <2>3. CASE Drain
    <3>1. /\ pc["loop"] = "idle" /\ UNCHANGED issueVars
          /\ Draining' => pc'["loop"] = "idle"
      <4>1. CASE StartDrain
        BY <4>1 DEF StartDrain, Storing, issueVars
      <4>2. ASSUME NEW i \in Slots, loopAt = i, UNCHANGED issueVars
            PROVE  pc["loop"] = "idle" /\ pc'["loop"] = "idle"
        BY <4>2 DEF HopInv, Draining, Outside, Slots, issueVars
      <4>. QED
        BY <2>3, <4>1, <4>2
        DEF Drain, PassOver, GiveUp, Transmit, NextEntry, issueVars
    <3>2. CASE StartDrain
      BY <3>1, <3>2
      DEF StartDrain, HopInv, HopBudget, Settled, issueVars, radioVars
    <3>3. ASSUME NEW i \in Slots, PassOver(i) PROVE HopInv' /\ HopBudget'
      BY <3>1, <3>3
      DEF PassOver, HopInv, HopBudget, Settled, issueVars, radioVars
    <3>4. ASSUME NEW i \in Slots, GiveUp(i) PROVE HopInv' /\ HopBudget'
      <4>1. ~q'[i].active /\ \A j \in Slots : j # i => q'[j] = q[j]
        <5>1. q[i] \in Entries
          BY DEF TypeOK
        <5>. QED
          BY <3>4, <5>1 DEF GiveUp, TypeOK, Entries
      <4>2. \A j \in Slots : Settled(j)' => Settled(j) /\ q'[j] = q[j]
        BY <3>1, <4>1 DEF Settled, issueVars
      <4>. QED
        BY <3>1, <3>4, <4>2 DEF GiveUp, HopInv, HopBudget, issueVars, radioVars
    <3>5. ASSUME NEW i \in Slots, NEW heard \in Hearing, Transmit(i, heard)
          PROVE  HopInv' /\ HopBudget'
      <4>. DEFINE n == q[i].frame
      <4>1. q[i] \in Entries /\ Settled(i) /\ q[i].hops < MaxHops
        BY <3>1, <3>5 DEF Transmit, Due, Aged, Spent, TypeOK, Entries, Settled
      <4>2. n \in 1 .. issued /\ n \in Cmds /\ sent[n] <= q[i].hops
            /\ sent[n] \in Nat
        BY <4>1 DEF HopInv, TypeOK, Cmds
      <4>3. /\ q'[i].active = q[i].active /\ q'[i].frame = n
            /\ q'[i].hops = q[i].hops + 1
            /\ \A j \in Slots : j # i => q'[j] = q[j]
        BY <3>5, <4>1 DEF Transmit, TypeOK, Entries
      <4>4. sent' = [sent EXCEPT ![n] = @ + 1]
        BY <3>5, <4>2 DEF Transmit
      <4>5. /\ sent'[n] = sent[n] + 1
            /\ \A k \in Cmds : k # n => sent'[k] = sent[k]
        BY <4>2, <4>4 DEF TypeOK
      <4>6. \A j \in Slots : Settled(j)' <=> Settled(j)
        BY <3>1, <4>3 DEF Settled, issueVars
      <4>7. \A j \in Slots : Settled(j) /\ j # i =>
              q[j].frame # n /\ q[j].frame \in Cmds
        BY <4>1 DEF HopInv, TypeOK, Cmds
      <4>8. HopBudget'
        BY <4>1, <4>2, <4>5 DEF HopBudget, Entries, TypeOK
      <4>9. \A j \in Slots : Settled(j)' =>
              q'[j].frame \in 1 .. issued /\ sent'[q'[j].frame] <= q'[j].hops
        <5>. SUFFICES ASSUME NEW j \in Slots, Settled(j)'
                      PROVE  /\ q'[j].frame \in 1 .. issued
                             /\ sent'[q'[j].frame] <= q'[j].hops
          OBVIOUS
        <5>1. CASE j = i
          BY <4>1, <4>2, <4>3, <4>5, <5>1 DEF Entries
        <5>2. CASE j # i
          BY <4>3, <4>5, <4>6, <4>7, <5>2 DEF HopInv
        <5>. QED
          BY <5>1, <5>2
      <4>10. \A j, k \in Slots :
               Settled(j)' /\ Settled(k)' /\ q'[j].frame = q'[k].frame => j = k
        BY <4>1, <4>3, <4>6 DEF HopInv
      <4>11. \A k \in Cmds : k > issued => sent'[k] = 0
        BY <4>2, <4>5 DEF HopInv, TypeOK
      <4>. QED
        BY <3>1, <4>8, <4>9, <4>10, <4>11 DEF HopInv, issueVars
    <3>. QED
      BY <2>3, <3>2, <3>3, <3>4, <3>5 DEF Drain
  <2>4. CASE Tick
    BY <2>4 DEF Tick, HopInv, HopBudget, Settled, Draining, issueVars, radioVars
  <2>5. CASE UNCHANGED vars
    BY <2>5
    DEF vars, HopInv, HopBudget, Settled, Draining, queueVars, issueVars,
        radioVars
  <2>. QED
    BY <2>1, <2>2, <2>3, <2>4, <2>5 DEF Next
<1>. QED
  BY <1>1, <1>2, TypeCorrect, PTL DEF Spec

(* With the commands issued by the loop task alone no command is ever      *)
(* transmitted more than CMD_MAX_HOPS times.                               *)
THEOREM HopBudgetHolds ==
  ASSUME Issuers \subseteq {"loop"}
  PROVE  Spec => []HopBudget
BY HopInvHolds, PTL

-----------------------------------------------------------------------------
(* What keeps a new command from being forgotten.  An entry that carries a *)
(* command has hops, and then the command has been sent, or it is fresh:   *)
(* it is due from the moment it was stored, that moment is no further back *)
(* than the loop has been away from the queue, and a drain that has not    *)
(* come to the entry yet began with it young.                              *)
Fresh(i) == Settled(i) /\ q[i].hops = 0

FreshInv ==
  /\ now <= Horizon /\ loopNow <= now
  /\ \A i \in Slots : Settled(i) /\ q[i].hops > 0 => sent[q[i].frame] > 0
  /\ \A i \in Slots : Fresh(i) =>
       /\ q[i].retry = q[i].created /\ q[i].created <= now
       /\ ~Draining => now - q[i].created <= stall
       /\ Draining => /\ loopAt <= i /\ q[i].created <= loopNow
                      /\ loopNow - q[i].created <= MaxStall

(* The property with the entry that holds the command named: an entry that *)
(* is being overwritten still shows the command it carried before.         *)
Kept ==
  /\ returned \subseteq Cmds
  /\ \A n \in returned \ (evicted \cup refused) :
       sent[n] > 0 \/ \E i \in Slots : Settled(i) /\ q[i].frame = n

(* The loop issues, so the loop stores; it is then not draining.           *)
LEMMA LoopStores ==
  ASSUME Issuers \subseteq {"loop"}, TypeOK, HopInv, NEW t \in Issuers, Enqueue(t)
  PROVE  /\ t = "loop" /\ pc["loop"] # "idle" /\ ~Draining
         /\ issued \in Cmds /\ cur["loop"] = issued /\ at["loop"] \in Slots
BY DEF Enqueue, FindEntry, ClaimEntry, FillEntry, StampEntry, DropOldest,
       HopInv, TypeOK, Cmds, Tasks

(* What storing a command does to the entries that carry one: nothing, but *)
(* for the entry that is stored last and the one that is thrown out.       *)
LEMMA StoringSettles ==
  ASSUME Issuers \subseteq {"loop"}, TypeOK, HopInv, NEW t \in Issuers, Enqueue(t)
  PROVE  \/ /\ \A j \in Slots : Settled(j)' = Settled(j)
            /\ \A j \in Slots : Settled(j) => q'[j] = q[j]
            /\ UNCHANGED <<returned, evicted, refused>>
         \/ /\ StampEntry("loop") /\ q[at["loop"]].frame = issued
            /\ \A j \in Slots : j # at["loop"] =>
                                Settled(j)' = Settled(j) /\ q'[j] = q[j]
            /\ ~Settled(at["loop"])
         \/ \E i \in Slots :
              /\ DropOldest("loop", i) /\ ~Settled(i)'
              /\ \A j \in Slots : j # i => Settled(j)' = Settled(j) /\ q'[j] = q[j]
<1>1. /\ t = "loop" /\ pc["loop"] # "idle" /\ at["loop"] \in Slots
      /\ issued \in Cmds /\ cur["loop"] = issued
  BY LoopStores
<1>. DEFINE a == at["loop"]
<1>2. q[a] \in Entries
  BY <1>1 DEF TypeOK
<1>3. ASSUME NEW i \in Slots, FindEntry(t, i)
      PROVE  /\ \A j \in Slots : Settled(j)' = Settled(j)
             /\ UNCHANGED <<q, returned, evicted, refused>>
  BY <1>1, <1>3 DEF FindEntry, Settled, TypeOK, Tasks
<1>4. ASSUME ClaimEntry(t)
      PROVE  /\ \A j \in Slots : Settled(j)' = Settled(j)
             /\ \A j \in Slots : Settled(j) => q'[j] = q[j]
             /\ UNCHANGED <<returned, evicted, refused>>
  <2>1. ~q[a].active /\ pc'["loop"] = "fill" /\ pc["loop"] = "claim"
        /\ UNCHANGED <<at, returned, evicted, refused>>
    BY <1>1, <1>4 DEF ClaimEntry, HopInv, TypeOK, Tasks
  <2>2. \A j \in Slots : j # a => q'[j] = q[j]
    BY <1>1, <1>4 DEF ClaimEntry, TypeOK
  <2>. QED
    BY <2>1, <2>2 DEF Settled
<1>5. ASSUME FillEntry(t)
      PROVE  /\ \A j \in Slots : Settled(j)' = Settled(j)
             /\ \A j \in Slots : Settled(j) => q'[j] = q[j]
             /\ UNCHANGED <<returned, evicted, refused>>
  <2>1. pc'["loop"] = "stamp" /\ pc["loop"] = "fill"
        /\ UNCHANGED <<at, returned, evicted, refused>>
    BY <1>1, <1>5 DEF FillEntry, TypeOK, Tasks
  <2>2. \A j \in Slots : j # a => q'[j] = q[j]
    BY <1>1, <1>5 DEF FillEntry, TypeOK
  <2>. QED
    BY <2>1, <2>2 DEF Settled
<1>6. ASSUME StampEntry(t)
      PROVE  /\ q[a].frame = issued /\ ~Settled(a)
             /\ \A j \in Slots : j # a =>
                                Settled(j)' = Settled(j) /\ q'[j] = q[j]
  <2>1. pc'["loop"] = "idle" /\ pc["loop"] = "stamp" /\ UNCHANGED at
    BY <1>1, <1>6 DEF StampEntry, TypeOK, Tasks
  <2>2. \A j \in Slots : j # a => q'[j] = q[j]
    BY <1>1, <1>6 DEF StampEntry, TypeOK
  <2>. QED
    BY <2>1, <2>2 DEF Settled, HopInv
<1>7. ASSUME NEW i \in Slots, DropOldest(t, i)
      PROVE  /\ ~Settled(i)'
             /\ \A j \in Slots : j # i => Settled(j)' = Settled(j) /\ q'[j] = q[j]
  <2>1. pc'["loop"] = "idle" /\ pc["loop"] = "search" /\ UNCHANGED at
    BY <1>1, <1>7 DEF DropOldest, TypeOK, Tasks
  <2>2. /\ \A j \in Slots : j # i => q'[j] = q[j]
        /\ ~q'[i].active
    BY <1>7 DEF DropOldest, TypeOK, Entries
  <2>. QED
    BY <2>1, <2>2 DEF Settled
<1>. QED
  BY <1>1, <1>3, <1>4, <1>5, <1>6, <1>7 DEF Enqueue

(* Below the wrap of the clock the age of an entry is a difference.        *)
LEMMA PlainAge ==
  ASSUME TypeOK, NEW i \in Slots, q[i].created <= loopNow
  PROVE  Age(i) = loopNow - q[i].created
<1>1. q[i] \in Entries /\ loopNow \in Clock
  BY DEF TypeOK
<1>. QED
  BY <1>1 DEF Age, Minus, Entries, Clock

(* The drain transmits a fresh entry it comes to: it is neither too old    *)
(* nor out of hops, and it is due.                                         *)
LEMMA FreshIsDue ==
  ASSUME MaxStall <= TTL, TypeOK, FreshInv, NEW i \in Slots, Fresh(i),
         loopAt = i
  PROVE  ~Aged(i) /\ ~Spent(i) /\ ~Early(i)
<1>1. Draining
  BY DEF Draining, Outside, Slots
<1>2. /\ q[i].hops = 0 /\ q[i].retry = q[i].created
      /\ q[i].created <= loopNow /\ loopNow - q[i].created <= MaxStall
  BY <1>1 DEF FreshInv, Fresh
<1>3. Age(i) <= TTL
  <2>1. q[i].created \in Clock /\ loopNow \in Clock
    BY DEF TypeOK, Entries
  <2>. QED
    BY <1>2, <2>1, PlainAge DEF Clock
<1>4. q[i].created \in Clock /\ loopNow \in Clock
  BY DEF TypeOK, Entries
<1>. QED
  BY <1>2, <1>3, <1>4 DEF Aged, Spent, Early, Age, Clock, Minus

(* No command that was stored is forgotten before it was sent, when the    *)
(* loop comes back to the queue within the time to live of a command,      *)
(* issues all commands itself, and the clock does not wrap (enqueue_cmd,   *)
(* process_pending_commands).                                              *)
THEOREM DispatchedBeforeDroppedHolds ==
  ASSUME Issuers \subseteq {"loop"}, MaxStall <= TTL, Horizon < Wrap - 1
  PROVE  Spec => []DispatchedBeforeDropped
<1>1. Init => FreshInv /\ Kept
  BY DEF Init, FreshInv, Kept, Fresh, Settled, Clock
<1>2. TypeOK /\ TypeOK' /\ HopInv /\ FreshInv /\ Kept /\ [Next]_vars
        => FreshInv' /\ Kept'
  <2>. SUFFICES ASSUME TypeOK, TypeOK', HopInv, FreshInv, Kept, [Next]_vars
                PROVE  FreshInv' /\ Kept'
    OBVIOUS
  <2>1. ASSUME NEW t \in Issuers, NEW m \in Targets, NEW on \in Orders,
               SendCommand(t, m, on)
        PROVE  FreshInv' /\ Kept'
    <3>1. t = "loop" /\ pc["loop"] = "idle" /\ pc'["loop"] = "search"
      BY <2>1 DEF SendCommand, Storing, TypeOK, Tasks
    <3>2. \A i \in Slots : Settled(i)' = Settled(i)
      BY <2>1, <3>1 DEF SendCommand, Settled
    <3>. QED
      BY <2>1, <3>2
      DEF SendCommand, FreshInv, Kept, Fresh, Draining, Outside, queueVars,
          radioVars
  <2>2. ASSUME NEW t \in Issuers, Enqueue(t)
        PROVE  FreshInv' /\ Kept'
    <3>1. /\ t = "loop" /\ ~Draining /\ at["loop"] \in Slots
          /\ issued \in Cmds /\ cur["loop"] = issued
      BY <2>2, LoopStores
    <3>2. UNCHANGED <<now, queueVars, sent>> /\ ~Draining'
      BY <2>2, <3>1
      DEF Enqueue, FindEntry, ClaimEntry, FillEntry, StampEntry, DropOldest,
          queueVars, radioVars, Draining, Outside
    <3>3. CASE /\ \A j \in Slots : Settled(j)' = Settled(j)
               /\ \A j \in Slots : Settled(j) => q'[j] = q[j]
               /\ UNCHANGED <<returned, evicted, refused>>
      BY <3>1, <3>2, <3>3 DEF FreshInv, Kept, Fresh, queueVars
    <3>4. CASE /\ StampEntry("loop") /\ q[at["loop"]].frame = issued
               /\ \A j \in Slots : j # at["loop"] =>
                                   Settled(j)' = Settled(j) /\ q'[j] = q[j]
               /\ ~Settled(at["loop"])
      <4>. DEFINE a == at["loop"]
      <4>1. /\ q'[a].hops = 0 /\ q'[a].created = now /\ q'[a].retry = now
            /\ q'[a].frame = issued
        <5>1. q[a] \in Entries
          BY <3>1 DEF TypeOK
        <5>. QED
          BY <3>1, <3>4, <5>1 DEF StampEntry, TypeOK, Entries
      <4>2. now \in Nat /\ stall \in Nat
        BY DEF TypeOK, Clock
      <4>3. FreshInv'
        BY <3>1, <3>2, <3>4, <4>1, <4>2 DEF FreshInv, Fresh, queueVars
      <4>4. \A j \in Slots : j = a => Settled(j)' /\ q'[j].frame = issued
        <5>1. q[a].active /\ q'[a].active = q[a].active
              /\ pc'["loop"] = "idle"
          BY <3>1, <3>4
          DEF StampEntry, TypeOK, Tasks, Entries, HopInv
        <5>. QED
          BY <4>1, <5>1 DEF Settled
      <4>5. /\ returned' = returned \cup {issued}
            /\ UNCHANGED <<evicted, refused>>
        BY <3>1, <3>4 DEF StampEntry
      <4>. QED
        BY <3>1, <3>2, <3>4, <4>1, <4>3, <4>4, <4>5 DEF Kept
    <3>5. ASSUME NEW i \in Slots, DropOldest("loop", i), ~Settled(i)',
                 \A j \in Slots : j # i => Settled(j)' = Settled(j) /\ q'[j] = q[j]
          PROVE  FreshInv' /\ Kept'
      <4>1. /\ evicted' = evicted \cup {q[i].frame}
            /\ refused' = refused \cup {issued}
            /\ returned' = returned \cup {issued}
        BY <3>1, <3>5 DEF DropOldest
      <4>2. FreshInv'
        BY <3>1, <3>2, <3>5 DEF FreshInv, Fresh, queueVars
      <4>. QED
        BY <3>1, <3>2, <3>5, <4>1, <4>2 DEF Kept
    <3>. QED
      BY <2>2, <3>3, <3>4, <3>5, StoringSettles
  <2>3. CASE Drain
    <3>1. UNCHANGED issueVars /\ now' = now
      BY <2>3
      DEF Drain, StartDrain, PassOver, GiveUp, Transmit, issueVars
    <3>2. /\ loopNow \in Nat /\ now \in Nat /\ stall \in Nat
          /\ \A i \in Slots : q[i].created \in Nat /\ q[i].hops \in Nat
      BY DEF TypeOK, Clock, Entries
    <3>3. CASE StartDrain
      <4>1. /\ loopAt' = 0 /\ loopNow' = now /\ ~Draining /\ Draining'
            /\ stall <= MaxStall /\ UNCHANGED <<q, sent>>
        BY <3>3 DEF StartDrain, Draining, Outside, TypeOK, radioVars
      <4>2. \A i \in Slots : Settled(i)' = Settled(i) /\ i >= 0
        BY <3>1, <4>1 DEF Settled, issueVars, Slots
      <4>. QED
        BY <3>1, <3>2, <4>1, <4>2 DEF FreshInv, Kept, Fresh, issueVars
    <3>4. ASSUME NEW i \in Slots, NextEntry(i)
          PROVE  /\ Draining /\ loopAt = i /\ UNCHANGED <<loopNow, stall>>
                 /\ \A j \in Slots : i <= j /\ j # i => loopAt' <= j
                 /\ ~Draining' => \A j \in Slots : j <= i
      BY <3>4 DEF NextEntry, Draining, Outside, Slots
    <3>5. ASSUME NEW i \in Slots, PassOver(i) PROVE FreshInv' /\ Kept'
      <4>1. NextEntry(i) /\ UNCHANGED <<q, sent>>
        BY <3>5 DEF PassOver, radioVars
      <4>2. ~Fresh(i)
        BY <3>4, <3>5, <4>1, FreshIsDue DEF PassOver, Fresh, Settled
      <4>3. \A j \in Slots : Settled(j)' = Settled(j)
        BY <3>1, <4>1 DEF Settled, issueVars
      <4>. QED
        BY <3>1, <3>4, <4>1, <4>2, <4>3 DEF FreshInv, Kept, Fresh, issueVars, Slots
    <3>6. ASSUME NEW i \in Slots, GiveUp(i) PROVE FreshInv' /\ Kept'
      <4>1. NextEntry(i) /\ UNCHANGED sent
        BY <3>6 DEF GiveUp, radioVars
      <4>2. ~Fresh(i)
        BY <3>4, <3>6, <4>1, FreshIsDue DEF GiveUp
      <4>3. /\ \A j \in Slots : j # i => q'[j] = q[j]
            /\ ~q'[i].active
        BY <3>6 DEF GiveUp, TypeOK, Entries
      <4>4. \A j \in Slots : IF j = i THEN ~Settled(j)' ELSE Settled(j)' = Settled(j)
        BY <3>1, <4>3 DEF Settled, issueVars
      <4>5. Settled(i) => sent[q[i].frame] > 0
        BY <3>2, <4>2 DEF FreshInv, Fresh
      <4>6. FreshInv'
        BY <3>1, <3>4, <4>1, <4>3, <4>4 DEF FreshInv, Fresh, Slots
      <4>. QED
        BY <3>1, <4>1, <4>3, <4>4, <4>5, <4>6 DEF Kept, issueVars
    <3>7. ASSUME NEW i \in Slots, NEW heard \in Hearing, Transmit(i, heard)
          PROVE  FreshInv' /\ Kept'
      <4>. DEFINE n == q[i].frame
      <4>1. /\ NextEntry(i)
            /\ q'[i].frame = n /\ q'[i].hops = q[i].hops + 1
            /\ q'[i].active = q[i].active
            /\ \A j \in Slots : j # i => q'[j] = q[j]
        BY <3>7 DEF Transmit, TypeOK, Entries
      <4>2. Settled(i) /\ pc["loop"] = "idle"
        BY <3>4, <3>7, <4>1 DEF Transmit, Due, Settled, HopInv
      <4>3. n \in Cmds /\ sent' = [sent EXCEPT ![n] = @ + 1]
        <5>1. n \in 1 .. issued
          BY <4>2 DEF HopInv
        <5>. QED
          BY <3>7, <5>1 DEF Transmit, TypeOK, Cmds
      <4>4. /\ sent'[n] > 0
            /\ \A k \in Cmds : sent[k] > 0 => sent'[k] > 0
        BY <4>3 DEF TypeOK
      <4>5. \A j \in Slots : Settled(j)' = Settled(j)
        BY <3>1, <4>1 DEF Settled, issueVars
      <4>6. \A j \in Slots : Settled(j) => q[j].frame \in Cmds
        <5>1. 1 .. issued \subseteq Cmds
          BY DEF TypeOK, Cmds
        <5>. QED
          BY <5>1 DEF HopInv
      <4>7. \A j \in Slots : Settled(j)' /\ q'[j].hops > 0 => sent'[q'[j].frame] > 0
        BY <4>1, <4>4, <4>5, <4>6 DEF FreshInv
      <4>8. \A j \in Slots : Fresh(j)' => j # i /\ Fresh(j) /\ q'[j] = q[j]
        BY <3>2, <4>1, <4>5 DEF Fresh
      <4>9. FreshInv'
        BY <3>1, <3>4, <4>1, <4>7, <4>8 DEF FreshInv, Slots
      <4>10. \A j \in Slots : q'[j].frame = q[j].frame
        BY <4>1
      <4>. QED
        BY <3>1, <4>4, <4>5, <4>9, <4>10 DEF Kept, issueVars
    <3>. QED
      BY <2>3, <3>3, <3>5, <3>6, <3>7 DEF Drain
  <2>4. CASE Tick
    <3>1. now # Horizon /\ now' = now + 1 /\ stall' = stall + 1
      BY <2>4 DEF Tick, Plus, TypeOK, Clock, FreshInv
    <3>2. UNCHANGED <<q, loopAt, loopNow, issueVars, radioVars>>
      BY <2>4 DEF Tick
    <3>3. \A i \in Slots : Settled(i)' = Settled(i)
      BY <3>2 DEF Settled, issueVars
    <3>4. /\ loopNow \in Nat /\ now \in Nat /\ stall \in Nat /\ Horizon \in Nat
          /\ \A i \in Slots : q[i].created \in Nat
      BY DEF TypeOK, Clock, Entries
    <3>5. FreshInv'
      BY <3>1, <3>2, <3>3, <3>4
      DEF FreshInv, Fresh, Draining, Outside, radioVars
    <3>. QED
      BY <3>2, <3>3, <3>5 DEF Kept, issueVars, radioVars
  <2>5. CASE UNCHANGED vars
    BY <2>5
    DEF vars, FreshInv, Kept, Fresh, Settled, Draining, Outside, queueVars,
        issueVars, radioVars
  <2>. QED
    BY <2>1, <2>2, <2>3, <2>4, <2>5 DEF Next
<1>3. Kept => DispatchedBeforeDropped
  BY DEF Kept, DispatchedBeforeDropped, Queued, Settled
<1>. QED
  BY <1>1, <1>2, <1>3, TypeCorrect, HopInvHolds, PTL DEF Spec
=============================================================================
