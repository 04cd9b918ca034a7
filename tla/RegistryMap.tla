---------------------------- MODULE RegistryMap ----------------------------
(***************************************************************************)
(* What the hub's device registry promises its callers: a partial,         *)
(* injective assignment of devices to slots, and a copy of it that         *)
(* survives a restart.  A copy is taken at one moment and reaches the      *)
(* flash at a later one, or never.                                         *)
(*                                                                         *)
(* Whoever wants a slot for a device claims one that is free, and fills it *)
(* later.  A claim keeps nobody else away: two may claim the same slot,    *)
(* and the later one to fill it puts out the device of the earlier one.    *)
(* That is all the damage there is: a slot that was taken when it was      *)
(* claimed is never overwritten.                                           *)
(***************************************************************************)
CONSTANTS Macs, Slots, None, Claimants

VARIABLES
  map,      \* the device each slot holds, or None
  claim,    \* the slot each claimant has seen free, or None
  copies,   \* copies of the map on their way to the flash
  saved     \* the copy a restart returns to

Empty == [s \in Slots |-> None]
NoClaims == [t \in Claimants |-> None]
Holds(s) == map[s] # None
Known(m) == \E s \in Slots : map[s] = m

Init == map = Empty /\ claim = NoClaims /\ copies = {} /\ saved = Empty

Claim(t, s) ==
  /\ claim[t] = None /\ ~Holds(s)
  /\ claim' = [claim EXCEPT ![t] = s]
  /\ UNCHANGED <<map, copies, saved>>

(* A claim is used up: a device that has no slot gets the claimed one. *)
Pair(t, m) ==
  /\ claim[t] # None /\ ~Known(m)
  /\ map' = [map EXCEPT ![claim[t]] = m]
  /\ claim' = [claim EXCEPT ![t] = None]
  /\ UNCHANGED <<copies, saved>>

(* The device has a slot by now: the claim is given up. *)
GiveUp(t) ==
  /\ claim[t] # None /\ \E m \in Macs : Known(m)
  /\ claim' = [claim EXCEPT ![t] = None]
  /\ UNCHANGED <<map, copies, saved>>

Unpair(s) ==
  /\ Holds(s)
  /\ map' = [map EXCEPT ![s] = None]
  /\ UNCHANGED <<claim, copies, saved>>

Forget == map' = Empty /\ UNCHANGED <<claim, copies, saved>>

TakeCopy == copies' = copies \cup {map} /\ UNCHANGED <<map, claim, saved>>

(* A copy reaches the flash, or the write fails. *)
Persist ==
  \E c \in copies :
    /\ saved' \in {saved, c}
    /\ copies' \in {copies, copies \ {c}}
    /\ UNCHANGED <<map, claim>>

Restart ==
  /\ map' = saved /\ claim' = NoClaims /\ copies' = {}
  /\ UNCHANGED saved

Next ==
  \/ \E t \in Claimants, s \in Slots : Claim(t, s)
  \/ \E t \in Claimants, m \in Macs : Pair(t, m)
  \/ \E t \in Claimants : GiveUp(t)
  \/ \E s \in Slots : Unpair(s)
  \/ Forget
  \/ TakeCopy
  \/ Persist
  \/ Restart

Spec == Init /\ [][Next]_<<map, claim, copies, saved>>
=============================================================================
