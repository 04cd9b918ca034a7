---------------------------- MODULE MCAvailability ----------------------------
(***************************************************************************)
(* Availability for TLC, in two instances that run side by side and share  *)
(* nothing; part tells which one a behaviour is of.  The first takes its   *)
(* constants from the cfg: frames are handled by the loop.  The second,    *)
(* whose variables are those in capitals, has one device whose frames are  *)
(* handled by a task of their own.                                         *)
(***************************************************************************)
EXTENDS Availability

VARIABLES
  part,
  ONLINE, AGE, ALIVE, QUIET, HA, BROKER, SESSION, MQTT, SKIPPED, LPC, AT,
  LATE, HPC, FROM, WAS, TROUBLES

taskVars == <<ONLINE, AGE, ALIVE, QUIET, HA, BROKER, SESSION, MQTT, SKIPPED,
  LPC, AT, LATE, HPC, FROM, WAS, TROUBLES>>

Task == INSTANCE Availability
  WITH N <- 1, Timeout <- 2, Handler <- "task",
       online <- ONLINE, age <- AGE, alive <- ALIVE, quiet <- QUIET, ha <- HA,
       broker <- BROKER, session <- SESSION, mqtt <- MQTT,
       skipped <- SKIPPED, lpc <- LPC, at <- AT, late <- LATE,
       hpc <- HPC, from <- FROM, was <- WAS,
       troubles <- TROUBLES

(* The one that does not run has one initial state, with its devices away. *)
BothInit ==
  /\ part \in {"loop", "task"} /\ Init /\ Task!Init
  /\ part = "loop" \/ (~broker /\ \A d \in Devices : ~alive[d] /\ ha[d] = "offline")
  /\ part = "task" \/ (~BROKER /\ ~ALIVE[1] /\ HA[1] = "offline")

BothNext ==
  \/ part = "loop" /\ Next /\ UNCHANGED <<part, taskVars>>
  \/ part = "task" /\ Task!Next /\ UNCHANGED <<part, vars>>

BothSpec ==
  /\ BothInit /\ [][BothNext]_<<part, vars, taskVars>>
  /\ WF_vars(part = "loop" /\ (ScanRead \/ ScanMark \/ ScanTell))
  /\ WF_vars(part = "loop" /\ Announce)
  /\ WF_vars(part = "loop" /\ (HearSet \/ HearTell))
  /\ WF_vars(part = "loop" /\ Tick)
  /\ WF_taskVars(part = "task" /\ (Task!ScanRead \/ Task!ScanMark \/ Task!ScanTell))
  /\ WF_taskVars(part = "task" /\ Task!Announce)
  /\ WF_taskVars(part = "task" /\ (Task!HearSet \/ Task!HearTell))
  /\ WF_taskVars(part = "task" /\ Task!Tick)
  /\ SF_<<part, vars, taskVars>>(
       \/ part = "loop" /\ ScanStart /\ UNCHANGED <<part, taskVars>>
       \/ part = "task" /\ Task!ScanStart /\ UNCHANGED <<part, vars>>)
  /\ SF_<<part, vars, taskVars>>(
       \/ part = "loop" /\ Connect /\ UNCHANGED <<part, taskVars>>
       \/ part = "task" /\ Task!Connect /\ UNCHANGED <<part, vars>>)
  /\ SF_<<part, vars, taskVars>>(
       \/ part = "loop" /\ Hear(1) /\ UNCHANGED <<part, taskVars>>
       \/ part = "task" /\ Task!Hear(1) /\ UNCHANGED <<part, vars>>)
  /\ SF_vars(part = "loop" /\ Hear(2))

-----------------------------------------------------------------------------
(* AliveNoticed and SilentNoticed of Availability, with the task at work:  *)
(* whatever the interleaving of frames and scan, the hub comes to take a   *)
(* device for online, or offline for good, as it is.                       *)
PresenceNoticed == Task!AliveNoticed /\ Task!SilentNoticed
===============================================================================
