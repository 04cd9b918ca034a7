-------------------------- MODULE MCSensorRegistry -------------------------
(***************************************************************************)
(* The registry and the pairing window for TLC, side by side: a behaviour  *)
(* is one of the part that part names, and the variables of the other keep *)
(* their initial values.                                                   *)
(*                                                                         *)
(* Devices are interchangeable: no definition compares or orders them, and *)
(* no liveness property is checked with this symmetry.                     *)
(***************************************************************************)
EXTENDS SensorRegistry, PairingWindow, TLC

VARIABLE part

Devices == Permutations(Macs)

PairingInit ==
  /\ part \in {"registry", "window"}
  /\ Init /\ WInit
  /\ part = "window" \/ (~required /\ ~full)

PairingNext ==
  \/ part = "registry" /\ Next /\ UNCHANGED <<part, windowVars>>
  \/ part = "window" /\ WNext /\ UNCHANGED <<part, vars>>

PairingSpec == PairingInit /\ [][PairingNext]_<<part, vars, windowVars>>

(* The registry alone, for liveness. *)
RegistryInit == PairingInit /\ part = "registry"

RegistryFairSpec ==
  RegistryInit /\ [][PairingNext]_<<part, vars, windowVars>> /\ Fairness
=============================================================================
