---------------------------- MODULE MCCommandQueue ----------------------------
(***************************************************************************)
(* The command queue for TLC, in two instances that run side by side and   *)
(* share nothing; part tells which one a behaviour is of.  The first takes *)
(* its constants from the cfg and is the hub whose loop issues all         *)
(* commands.  The second, whose variables are those in capitals, is the    *)
(* one whose web server writes entries during a drain, with a clock that   *)
(* wraps around; whether an actuator hears makes no difference to it.      *)
(***************************************************************************)
EXTENDS CommandQueue

VARIABLES
  part,
  Q, NOW, LOOPAT, LOOPNOW, STALL, PC, AT, CUR, CMD, ISSUED, RETURNED, EVICTED,
  REFUSED, SENT, RELAY, APPLIED

webVars == <<Q, NOW, LOOPAT, LOOPNOW, STALL, PC, AT, CUR, CMD, ISSUED,
  RETURNED, EVICTED, REFUSED, SENT, RELAY, APPLIED>>

Web == INSTANCE CommandQueue
  WITH TTL <- 1, Wrap <- 4, Horizon <- 3, MaxCmds <- 2, Orders <- {TRUE},
       Hearing <- {FALSE}, Issuers <- {"web"},
       q <- Q, now <- NOW, loopAt <- LOOPAT, loopNow <- LOOPNOW, stall <- STALL,
       pc <- PC, at <- AT, cur <- CUR, cmd <- CMD, issued <- ISSUED,
       returned <- RETURNED, evicted <- EVICTED, refused <- REFUSED,
       sent <- SENT, relay <- RELAY, applied <- APPLIED

QueuesInit == part \in {"loop", "web"} /\ Init /\ Web!Init

QueuesNext ==
  \/ part = "loop" /\ Next /\ UNCHANGED <<part, webVars>>
  \/ part = "web" /\ Web!Next /\ UNCHANGED <<part, vars>>

QueuesSpec ==
  /\ QueuesInit /\ [][QueuesNext]_<<part, vars, webVars>>
  /\ WF_webVars(part = "web" /\ Web!Drain)
  /\ WF_webVars(part = "web" /\ Web!Enqueue("web"))
  /\ WF_webVars(part = "web" /\ Web!Tick)

-----------------------------------------------------------------------------
(* Every command that enters the queue leaves it (QueueDrains of           *)
(* CommandQueue), with the web server at work.                             *)
QueueDrains_web == Web!QueueDrains
===============================================================================
