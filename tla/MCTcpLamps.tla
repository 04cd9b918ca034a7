------------------------------ MODULE MCTcpLamps ------------------------------
(* Instances of TcpLamps: who mirrors whom, and the startup modes. *)
EXTENDS TcpLamps

CONSTANTS a, b

OneWay == [l \in Lamps |-> IF l = a THEN b ELSE NoLamp]
Mutual == [l \in Lamps |-> IF l = a THEN b ELSE a]
StartOff == [l \in Lamps |-> 0]
StartMixed == [l \in Lamps |-> IF l = a THEN 2 ELSE 1]
===============================================================================
