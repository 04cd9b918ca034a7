-------------------------- MODULE Availability_proofs --------------------------
(***************************************************************************)
(* Theorems about Availability, for every number of devices, every timeout *)
(* and every stall of the scan.                                            *)
(***************************************************************************)
EXTENDS Availability, TLAPS

USE AvailabilityAssumption DEF Devices, AvailabilityAssumption

(* TypeOK has three parts: what is Boolean, what is not, and who was left  *)
(* out by an announcement.                                                 *)
Flags ==
  /\ online \in [Devices -> BOOLEAN] /\ alive \in [Devices -> BOOLEAN]
  /\ broker \in BOOLEAN /\ session \in BOOLEAN /\ mqtt \in BOOLEAN
  /\ was \in BOOLEAN

Others ==
  /\ age \in [Devices -> 0 .. Last] /\ quiet \in [Devices -> 0 .. Timeout + 1]
  /\ ha \in [Devices -> {"online", "offline"}]
  /\ lpc \in {"idle", "read", "mark", "tell", "connect"}
  /\ at \in Devices /\ late \in 0 .. MaxScan
  /\ hpc \in {"idle", "set", "tell"} /\ from \in Devices
  /\ troubles \in 0 .. MaxTroubles

Skips == skipped \subseteq Devices

(* These parts are all of it.                                              *)
LEMMA TypeParts == TypeOK <=> Flags /\ Others /\ Skips
BY DEF TypeOK, Flags, Others, Skips

(* Only devices there are get left out.                                    *)
LEMMA SkipsTyped ==
  ASSUME Others, Skips, [Next]_vars
  PROVE  Skips'
<1>1. skipped' \in {skipped, {}, at .. N}
  BY Zenon DEF Next, vars, Frame, Scan, Hear, HearSet, HearTell, ScanStart,
     ScanRead, ScanMark, ScanTell, Disconnected, Connect, Announce,
     DeviceTurns, BrokerTurns, Tick, Restart, brokerVars
<1>2. at .. N \subseteq Devices
  BY SMT DEF Others
<1> QED BY <1>1, <1>2, Zenon DEF Skips

(* The initial states have their type.                                     *)
LEMMA InitTyped == Init => TypeOK
<1>1. Init => Flags
  BY Zenon DEF Init, Flags
<1>2. Init => Others
  BY SMT DEF Init, Others, Last
<1>3. Init => Skips
  BY Zenon DEF Init, Skips
<1> QED BY <1>1, <1>2, <1>3, TypeParts

(* The scan goes on to a device there is, or ends.                         *)
LEMMA NextDeviceTyped ==
  ASSUME at \in Devices, late \in 0 .. MaxScan, NextDevice
  PROVE  /\ at' \in Devices /\ late' \in 0 .. MaxScan
         /\ lpc' \in {"idle", "read"}
BY SMT DEF NextDevice

(* The state of the hub, the devices and the broker keeps its type,        *)
(* whoever handles the frames.                                             *)
THEOREM TypeCorrect == Spec => []TypeOK
<1>1. Init => Flags /\ Others /\ Skips
  BY InitTyped, TypeParts
<1>2. Flags /\ Others /\ [Next]_vars => (Flags /\ Others)'
  <2> SUFFICES ASSUME Flags, Others, [Next]_vars PROVE Flags' /\ Others'
    OBVIOUS
  <2> USE DEF hubVars, nodeVars, brokerVars, scanVars, frameVars
  <2>1. ASSUME NEW d \in Devices, Hear(d) PROVE Flags' /\ Others'
    <3>1. Flags'
      BY <2>1, Zenon DEF Hear, Flags
    <3>2. Others'
      BY <2>1, SMT DEF Hear, Others
    <3> QED BY <3>1, <3>2
  <2>2. CASE HearSet
    <3>1. Flags'
      BY <2>2, Zenon DEF HearSet, Proceed, Handled, Flags
    <3>2. Others'
      BY <2>2, SMT DEF HearSet, Proceed, Handled, Others, Last
    <3> QED BY <3>1, <3>2
  <2>3. CASE HearTell
    <3>1. Flags'
      BY <2>3, Zenon DEF HearTell, Handled, Flags
    <3>2. Others'
      BY <2>3, SMT DEF HearTell, Handled, Publish, Others
    <3> QED BY <3>1, <3>2
  <2>4. CASE ScanStart \/ ScanRead \/ ScanTell
    <3>1. Flags'
      BY <2>4, Zenon DEF ScanStart, ScanRead, ScanTell, Flags
    <3>2. Others'
      <4>1. CASE ScanStart
        BY <4>1, SMT DEF ScanStart, Others
      <4>2. CASE ScanRead
        <5>1. \/ lpc' = "mark" /\ UNCHANGED at /\ UNCHANGED late
              \/ NextDevice
          BY <4>2, Zenon DEF ScanRead
        <5>2. at \in Devices /\ late \in 0 .. MaxScan
          BY DEF Others
        <5>3. /\ at' \in Devices /\ late' \in 0 .. MaxScan
              /\ lpc' \in {"mark", "idle", "read"}
          BY <5>1, <5>2, NextDeviceTyped
        <5>4. UNCHANGED <<age, quiet, ha, hpc, from, troubles>>
          BY <4>2, Zenon DEF ScanRead
        <5> QED BY <5>3, <5>4, SMT DEF Others
      <4>3. CASE ScanTell
        <5>1. at \in Devices /\ late \in 0 .. MaxScan /\ NextDevice
          BY <4>3 DEF ScanTell, Others
        <5>2. ha' \in [Devices -> {"online", "offline"}]
          BY <4>3, SMT DEF ScanTell, Publish, Others
        <5>3. UNCHANGED <<age, quiet, hpc, from, troubles>>
          BY <4>3, Zenon DEF ScanTell
        <5> QED BY <5>1, <5>2, <5>3, NextDeviceTyped, SMT DEF Others
      <4> QED BY <2>4, <4>1, <4>2, <4>3
    <3> QED BY <3>1, <3>2
  <2>5. CASE ScanMark
    <3>1. Flags'
      BY <2>5, Zenon DEF ScanMark, Flags
    <3>2. Others'
      BY <2>5, SMT DEF ScanMark, Others
    <3> QED BY <3>1, <3>2
  <2>6. CASE Disconnected \/ Connect \/ Announce
    <3>1. Flags'
      BY <2>6, Zenon DEF Disconnected, Connect, Announce, Flags
    <3>2. Others'
      <4>1. CASE Disconnected
        BY <4>1, SMT DEF Disconnected, Others
      <4>2. CASE Connect
        BY <4>2, SMT DEF Connect, Others
      <4>3. CASE Announce
        BY <4>3, SMT DEF Announce, Publish, Others
      <4> QED BY <2>6, <4>1, <4>2, <4>3
    <3> QED BY <3>1, <3>2
  <2>7. CASE (\E d \in Devices : DeviceTurns(d)) \/ BrokerTurns
    <3>1. Flags'
      BY <2>7, Zenon DEF DeviceTurns, BrokerTurns, Flags
    <3>2. Others'
      <4>1. UNCHANGED <<age, quiet, ha, lpc, at, late, hpc, from>>
        BY <2>7, Zenon DEF DeviceTurns, BrokerTurns
      <4>2. \/ troubles' = troubles
            \/ troubles < MaxTroubles /\ troubles' = troubles + 1
        BY <2>7, Zenon DEF DeviceTurns, BrokerTurns
      <4> QED BY <4>1, <4>2, SMT DEF Others
    <3> QED BY <3>1, <3>2
  <2>8. CASE Restart
    <3>1. Flags'
      BY <2>8, Zenon DEF Restart, Handled, Flags
    <3>2. Others'
      BY <2>8, SMT DEF Restart, Handled, Others, Last
    <3> QED BY <3>1, <3>2
  <2>9. CASE Tick
    <3>1. Flags'
      BY <2>9, Zenon DEF Tick, Flags
    <3>2. Others'
      BY <2>9, SMT DEF Tick, Later, Others, Last
    <3> QED BY <3>1, <3>2
  <2>10. CASE UNCHANGED vars
    <3>1. Flags'
      BY <2>10, Zenon DEF vars, Flags
    <3>2. Others'
      BY <2>10, SMT DEF vars, Others
    <3> QED BY <3>1, <3>2
  <2> QED BY <2>1, <2>2, <2>3, <2>4, <2>5, <2>6, <2>7, <2>8, <2>9, <2>10
           DEF Next, Frame, Scan
<1>3. Others /\ Skips /\ [Next]_vars => Skips'
  BY SkipsTyped
<1> QED BY <1>1, <1>2, <1>3, TypeParts, PTL DEF Spec

-----------------------------------------------------------------------------
Scanning == lpc \in {"read", "mark", "tell"}

(* The loop does one thing at a time.                                      *)
OneAtATime == hpc # "idle" => lpc = "idle"

(* No device was heard after the scan read the clock.                      *)
NothingNewer == Scanning => \A d \in Devices : age[d] >= late

(* The device about to be taken offline has an old last_seen.              *)
MarkIsOld == lpc = "mark" => age[at] > Timeout

(* The last_seen of an online device is no older than its last frame,      *)
(* unless that frame is still being handled.                               *)
AgeIsTrue ==
  \A d \in Devices :
    online[d] /\ ~(hpc = "set" /\ from = d) =>
      quiet[d] >= age[d] \/ quiet[d] > Timeout

Inv == TypeOK /\ OneAtATime /\ NothingNewer /\ MarkIsOld /\ AgeIsTrue

(* When a tick passes, the device is as old as the scan takes it for.      *)
LEMMA TickKeeps ==
  ASSUME Inv, Tick
  PROVE  OneAtATime' /\ NothingNewer' /\ MarkIsOld' /\ AgeIsTrue'
<1>1. /\ UNCHANGED online /\ UNCHANGED lpc /\ UNCHANGED at
      /\ UNCHANGED hpc /\ UNCHANGED from
      /\ Scanning => late < MaxScan /\ late' = late + 1
  BY SMT DEF Tick, Scanning, frameVars
<1>2. ASSUME NEW d \in Devices
      PROVE  /\ age[d] \in 0 .. Last /\ age'[d] = Later(age[d])
             /\ quiet[d] \in 0 .. Timeout + 1
             /\ quiet'[d] = IF quiet[d] > Timeout THEN quiet[d]
                                                  ELSE quiet[d] + 1
  BY SMT DEF Inv, TypeOK, Tick
<1>3. at \in Devices /\ late \in 0 .. MaxScan
  BY DEF Inv, TypeOK
<1>4. OneAtATime'
  BY <1>1, Zenon DEF Inv, OneAtATime
<1>5. NothingNewer'
  <2>1. ASSUME Scanning', NEW d \in Devices PROVE age'[d] >= late'
    <3>1. late < MaxScan /\ late' = late + 1 /\ age[d] >= late
      BY <1>1, <2>1, Zenon DEF Scanning, Inv, NothingNewer
    <3>2. age'[d] = Later(age[d]) /\ age[d] \in 0 .. Last
      BY <1>2
    <3> QED BY <1>3, <3>1, <3>2, SMT DEF Later, Last
  <2> QED BY <2>1, Zenon DEF NothingNewer
<1>6. MarkIsOld'
  <2>1. ASSUME lpc' = "mark" PROVE age'[at'] > Timeout
    <3>1. age[at] > Timeout /\ at' = at
      BY <1>1, <2>1, Zenon DEF Inv, MarkIsOld
    <3>2. age[at] \in 0 .. Last /\ age'[at] = Later(age[at])
      BY <1>2, <1>3, Zenon
    <3> QED BY <3>1, <3>2, SMT DEF Later, Last
  <2> QED BY <2>1, Zenon DEF MarkIsOld
<1>7. AgeIsTrue'
  <2>1. ASSUME NEW d \in Devices, online'[d], ~(hpc' = "set" /\ from' = d)
        PROVE  quiet'[d] >= age'[d] \/ quiet'[d] > Timeout
    <3>1. quiet[d] >= age[d] \/ quiet[d] > Timeout
      BY <1>1, <2>1, Zenon DEF Inv, AgeIsTrue
    <3> QED BY <1>2, <3>1, SMT DEF Later, Last
  <2> QED BY <2>1, Zenon DEF AgeIsTrue
<1> QED BY <1>4, <1>5, <1>6, <1>7

(* With frames handled by the loop, as with LoRa, every step keeps Inv.    *)
LEMMA Inductive ==
  ASSUME Handler = "loop", Inv, TypeOK', [Next]_vars
  PROVE  Inv'
<1> DEFINE Kept == OneAtATime /\ NothingNewer /\ MarkIsOld /\ AgeIsTrue
<1> SUFFICES Kept'
  BY Zenon DEF Inv
<1> USE DEF Inv, TypeOK, OneAtATime, NothingNewer, MarkIsOld, AgeIsTrue,
            Scanning, hubVars, nodeVars, brokerVars, scanVars, frameVars
<1>1. ASSUME NEW d \in Devices, Hear(d) PROVE Kept'
  BY <1>1 DEF Hear
<1>2. CASE HearSet
  BY <1>2 DEF HearSet, Proceed, Handled
<1>3. CASE HearTell
  BY <1>3 DEF HearTell, Handled
<1>4. CASE ScanStart
  BY <1>4 DEF ScanStart, LoopFree
<1>5. CASE ScanRead
  BY <1>5 DEF ScanRead, NextDevice, Silent
<1>6. CASE ScanMark
  BY <1>6 DEF ScanMark
<1>7. CASE ScanTell
  BY <1>7 DEF ScanTell, NextDevice
<1>8. CASE Disconnected \/ Connect
  BY <1>8 DEF Disconnected, Connect, LoopFree
<1>9. CASE Announce
  BY <1>9 DEF Announce
<1>10. CASE (\E d \in Devices : DeviceTurns(d)) \/ BrokerTurns
  BY <1>10 DEF DeviceTurns, BrokerTurns
<1>11. CASE Restart
  BY <1>11 DEF Restart, Handled
<1>12. CASE Tick
  BY <1>12, TickKeeps, Zenon
<1>13. CASE UNCHANGED vars
  BY <1>13 DEF vars
<1> QED BY <1>1, <1>2, <1>3, <1>4, <1>5, <1>6, <1>7, <1>8, <1>9, <1>10, <1>11,
           <1>12, <1>13 DEF Next, Frame, Scan

(* With frames handled by the loop, a device is taken offline only after   *)
(* SENSOR_TIMEOUT_MS without a frame of it.                                *)
THEOREM OfflineOnlyWhenSilentHolds ==
  ASSUME Handler = "loop" PROVE Spec => OfflineOnlyWhenSilent
<1> DEFINE Early(d) ==
      online[d] /\ ~online'[d] /\ troubles' = troubles => quiet[d] > Timeout
<1>1. Init => Inv
  <2>1. Init => \A d \in Devices : ~online[d]
    BY Zenon DEF Init
  <2>2. Init => OneAtATime /\ NothingNewer /\ MarkIsOld
    BY DEF Init, OneAtATime, NothingNewer, MarkIsOld, Scanning
  <2> QED BY <2>1, <2>2, InitTyped DEF Inv, AgeIsTrue
<1>2. Inv /\ TypeOK' /\ [Next]_vars => Inv'
  BY Inductive
<1>3. Inv /\ [Next]_vars => [\A d \in Devices : Early(d)]_vars
  <2> SUFFICES ASSUME Inv, [Next]_vars, NEW d \in Devices,
                      online[d], ~online'[d], troubles' = troubles
               PROVE  quiet[d] > Timeout
    OBVIOUS
  <2> USE DEF Inv, TypeOK, hubVars, nodeVars, brokerVars, scanVars, frameVars
  <2>1. CASE ScanMark
    <3>1. d = at /\ age[d] > Timeout /\ hpc = "idle"
      BY <2>1 DEF ScanMark, OneAtATime, MarkIsOld
    <3> QED BY <3>1 DEF AgeIsTrue
  <2>2. CASE Frame
    BY <2>2 DEF Frame, Hear, HearSet, HearTell
  <2>3. CASE ScanStart \/ ScanRead \/ ScanTell
    BY <2>3 DEF ScanStart, ScanRead, ScanTell
  <2>4. CASE Disconnected \/ Connect \/ Announce \/ Tick \/ BrokerTurns
    BY <2>4 DEF Disconnected, Connect, Announce, Tick, BrokerTurns
  <2>5. CASE Restart
    BY <2>5 DEF Restart
  <2>6. CASE \E e \in Devices : DeviceTurns(e)
    BY <2>6 DEF DeviceTurns
  <2>7. CASE UNCHANGED vars
    BY <2>7 DEF vars
  <2> QED BY <2>1, <2>2, <2>3, <2>4, <2>5, <2>6, <2>7 DEF Next, Scan
<1> QED BY <1>1, <1>2, <1>3, TypeCorrect, PTL DEF Spec, OfflineOnlyWhenSilent
=============================================================================
