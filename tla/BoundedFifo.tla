---------------------------- MODULE BoundedFifo ----------------------------
(***************************************************************************)
(* What a bridge queue promises: values come out in the order in which     *)
(* they went in, none twice and none invented; a value is turned away only *)
(* when the queue is full.                                                 *)
(***************************************************************************)
EXTENDS Naturals, Sequences

CONSTANTS Values, Capacity

VARIABLES
  queue,   \* the values waiting
  got,     \* the value taken last
  lost     \* flips with every value turned away

Init == queue = <<>> /\ got \in Values /\ lost = FALSE

Put(v) ==
  /\ Len(queue) < Capacity
  /\ queue' = Append(queue, v)
  /\ UNCHANGED <<got, lost>>

Take ==
  /\ queue # <<>>
  /\ got' = Head(queue)
  /\ queue' = Tail(queue)
  /\ UNCHANGED lost

TurnAway ==
  /\ Len(queue) = Capacity
  /\ lost' = ~lost
  /\ UNCHANGED <<queue, got>>

Next == Take \/ TurnAway \/ \E v \in Values : Put(v)

Spec == Init /\ [][Next]_<<queue, got, lost>>
=============================================================================
