----------------------------- MODULE MCExtender -----------------------------
(* Extender for TLC: the sequence numbers of two clients, which count from *)
(* 0 like every node (s_sequence); one has sent more than the other.       *)
EXTENDS Extender, TLC

CONSTANTS a, b

Counted == (a :> {0, 1}) @@ (b :> {0})
=============================================================================
