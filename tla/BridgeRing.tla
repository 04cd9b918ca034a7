----------------------------- MODULE BridgeRing -----------------------------
(***************************************************************************)
(* The ring buffers that carry work from a receive callback to a main      *)
(* loop: the slots waiting for MQTT in the hub's ESP-NOW, TCP and LoRa     *)
(* paths (queue_bridge_state, process_bridge_queue) and the frames waiting *)
(* in the extender (fwd_push, fwd_pop).  They share one design: one        *)
(* producer, one consumer, no lock, one cell always empty, a new value     *)
(* dropped when the ring is full.                                          *)
(*                                                                         *)
(* The producer may be stopped between any two of its memory accesses by   *)
(* the consumer, and the other way round.                                  *)
(***************************************************************************)
EXTENDS Integers, Sequences

CONSTANTS
  Values,  \* slot numbers, or frames
  Zero,    \* the value of a cell that was never written
  N        \* PENDING_STATE_MAX, TCP_PENDING_STATE_MAX, FWD_QUEUE_SIZE

ASSUME RingAssumption == N \in Nat /\ N >= 2 /\ Zero \in Values

VARIABLES
  cell,     \* the ring
  head,     \* where the next value goes; written by the producer
  tail,     \* where the oldest value is; written by the consumer
  in,       \* the value the producer is storing
  ppc,      \* where the producer is
  out,      \* the value the consumer has read
  cpc,      \* where the consumer is
  got,      \* the value process_bridge_queue acted on last
  lost      \* flips with every value dropped at a full ring

vars == <<cell, head, tail, in, ppc, out, cpc, got, lost>>

Cells == 0 .. N - 1

(* A mistake, in the form of the definition that follows it: no % N.  The  *)
(* runs tell such mistakes from the code.                                  *)
SuccUnbounded(i) == i + 1

(* (i + 1) % N *)
Succ(i) == IF i = N - 1 THEN 0 ELSE i + 1

Init ==
  /\ cell = [c \in Cells |-> Zero]
  /\ head = 0 /\ tail = 0
  /\ in = Zero /\ ppc = "idle"
  /\ out = Zero /\ cpc = "idle"
  /\ got = Zero /\ lost = FALSE

(* Mistake: no test for a full ring. *)
EnterUnchecked(v) ==
  /\ ppc = "idle"
  /\ in' = v
  /\ ppc' = "write"
  /\ UNCHANGED <<cell, head, tail, out, cpc, got, lost>>

(* queue_bridge_state(v) finds room. *)
Enter(v) ==
  /\ ppc = "idle"
  /\ Succ(head) # tail
  /\ in' = v
  /\ ppc' = "write"
  /\ UNCHANGED <<cell, head, tail, out, cpc, got, lost>>

(* The ring is full: return. *)
Drop ==
  /\ ppc = "idle"
  /\ Succ(head) = tail
  /\ lost' = ~lost
  /\ UNCHANGED <<cell, head, tail, in, ppc, out, cpc, got>>

(* slots[head] = v *)
Write ==
  /\ ppc = "write"
  /\ cell' = [cell EXCEPT ![head] = in]
  /\ ppc' = "publish"
  /\ UNCHANGED <<head, tail, in, out, cpc, got, lost>>

(* head = next *)
Publish ==
  /\ ppc = "publish"
  /\ head' = Succ(head)
  /\ ppc' = "idle"
  /\ UNCHANGED <<cell, tail, in, out, cpc, got, lost>>

(* Mistake: a test for work that forgets that head wraps before tail. *)
ReadAhead ==
  /\ cpc = "idle"
  /\ tail < head
  /\ out' = cell[tail]
  /\ cpc' = "advance"
  /\ UNCHANGED <<cell, head, tail, in, ppc, got, lost>>

(* while (tail != head): v = slots[tail] *)
Read ==
  /\ cpc = "idle"
  /\ tail # head
  /\ out' = cell[tail]
  /\ cpc' = "advance"
  /\ UNCHANGED <<cell, head, tail, in, ppc, got, lost>>

(* tail = next; the value is used. *)
Advance ==
  /\ cpc = "advance"
  /\ tail' = Succ(tail)
  /\ got' = out
  /\ cpc' = "idle"
  /\ UNCHANGED <<cell, head, in, ppc, out, lost>>

Next == Drop \/ Write \/ Publish \/ Read \/ Advance \/ \E v \in Values : Enter(v)

Spec == Init /\ [][Next]_vars

(* The loop comes back to the ring, and a callback that has entered        *)
(* returns.                                                                *)
FairSpec == Spec /\ WF_vars(Read \/ Advance) /\ WF_vars(Write \/ Publish)

-----------------------------------------------------------------------------
TypeOK ==
  /\ cell \in [Cells -> Values]
  /\ head \in Cells /\ tail \in Cells
  /\ in \in Values /\ out \in Values /\ got \in Values
  /\ ppc \in {"idle", "write", "publish"}
  /\ cpc \in {"idle", "advance"}
  /\ lost \in BOOLEAN

(* How many values the ring holds, and the cell of the k-th of them. *)
Count == IF head >= tail THEN head - tail ELSE head - tail + N
At(k) == IF tail + k <= N THEN tail + k - 1 ELSE tail + k - 1 - N

Contents == [k \in 1 .. Count |-> cell[At(k)]]

(* The ring is a bounded FIFO of N - 1 values, whatever the two tasks'     *)
(* interleaving: nothing is reordered, repeated or read half written, and  *)
(* a value is dropped only at a ring that is full.                         *)
Fifo == INSTANCE BoundedFifo WITH queue <- Contents, Capacity <- N - 1
FifoSpec == Fifo!Spec

(* A value that was entered is acted on: the ring empties when no new      *)
(* values come, also when it was full.                                     *)
EveryValueServed == \A c \in Cells : []<>(tail # c \/ head = c)
=============================================================================
