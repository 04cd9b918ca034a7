------------------------ MODULE PairingWindow_proofs ------------------------
(***************************************************************************)
(* What holds of the pairing window for every length of it and whoever     *)
(* opens it.                                                               *)
(***************************************************************************)
EXTENDS PairingWindow, TLAPS

LEMMA Bounds == Window \in Nat /\ MaxStall \in Nat
BY WindowAssumption

USE Bounds

Times == age \in 0 .. Last /\ since \in 0 .. Last /\ stall \in 0 .. MaxStall

(* The state keeps its type: the clocks stop at Last.                      *)
THEOREM WTypeCorrect == WSpec => []WTypeOK
<1>. USE DEF WTypeOK, modeVars
<1>1. WInit => WTypeOK
  <2>. SUFFICES ASSUME WInit PROVE WTypeOK
    OBVIOUS
  <2>1. required \in BOOLEAN /\ full \in BOOLEAN
    BY WindowAssumption, Zenon DEF WInit
  <2>2. age \in 0 .. Last /\ since \in 0 .. Last /\ stall \in 0 .. MaxStall
    BY DEF WInit, Last
  <2>. QED
    BY <2>1, <2>2, Zenon DEF WInit
<1>2. WTypeOK /\ [WNext]_windowVars => WTypeOK'
  <2>. SUFFICES ASSUME WTypeOK, [WNext]_windowVars PROVE WTypeOK'
    OBVIOUS
  <2>a. 0 \in 0 .. Last /\ 0 \in 0 .. MaxStall
    BY DEF Last
  <2>1. CASE PressButton \/ TypeP
    BY <2>1, <2>a DEF PressButton, TypeP, StartPairing
  <2>2. CASE Visit
    BY <2>2, <2>a DEF Visit
  <2>3. CASE Request
    BY <2>3 DEF Request
  <2>4. CASE WebOpen
    BY <2>4, <2>a DEF WebOpen
  <2>5. CASE WebOpened \/ WebStop
    BY <2>5, <2>a DEF WebOpened, WebStop
  <2>6. CASE WebPolicy \/ Occupy
    BY <2>6, WindowAssumption DEF WebPolicy, Occupy
  <2>7. CASE Tick
    BY <2>7 DEF Tick, Later, Last
  <2>8. CASE UNCHANGED windowVars
    BY <2>8 DEF windowVars
  <2>. QED
    BY <2>1, <2>2, <2>3, <2>4, <2>5, <2>6, <2>7, <2>8 DEF WNext
<1>. QED
  BY <1>1, <1>2, PTL DEF WSpec

(* While the window is open, the start the handler remembers is the moment *)
(* it was opened, but for a window whose start is yet to be written, which *)
(* was opened just now; and the loop has not been away since its end.      *)
OpenInv ==
  /\ mode /\ ~opening => age = since
  /\ mode => since <= Window + stall
  /\ opening /\ mode => since = 0

IInv == Times /\ OpenInv

LEMMA IInvHolds == WSpec => []IInv
<1>1. WInit => IInv
  BY DEF WInit, IInv, Times, OpenInv, Last
<1>2. IInv /\ [WNext]_windowVars => IInv'
  <2>. SUFFICES ASSUME IInv, [WNext]_windowVars PROVE IInv'
    OBVIOUS
  <2>. USE DEF IInv, Times, OpenInv, modeVars
  <2>a. 0 \in 0 .. Last /\ 0 \in 0 .. MaxStall
    BY DEF Last
  <2>1. CASE PressButton
    BY <2>1, <2>a DEF PressButton, StartPairing
  <2>2. CASE TypeP
    BY <2>2, <2>a DEF TypeP, StartPairing
  <2>3. CASE Visit
    BY <2>3, <2>a DEF Visit, Expired, Last
  <2>4. CASE Request
    BY <2>4 DEF Request
  <2>5. CASE WebOpen
    <3>1. CASE full
      BY <2>5, <3>1 DEF WebOpen, Active
    <3>2. CASE ~full
      BY <2>5, <3>2, <2>a DEF WebOpen, Active
    <3>. QED
      BY <3>1, <3>2
  <2>6. CASE WebOpened
    BY <2>6, <2>a DEF WebOpened
  <2>7. CASE WebStop
    BY <2>7 DEF WebStop
  <2>8. CASE WebPolicy
    BY <2>8 DEF WebPolicy
  <2>9. CASE Occupy
    BY <2>9 DEF Occupy
  <2>10. CASE Tick
    BY <2>10 DEF Tick, Later, Last
  <2>11. CASE UNCHANGED windowVars
    BY <2>11 DEF windowVars
  <2>. QED
    BY <2>1, <2>2, <2>3, <2>4, <2>5, <2>6, <2>7, <2>8, <2>9, <2>10, <2>11
       DEF WNext
<1>. QED
  BY <1>1, <1>2, PTL DEF WSpec

(* A window lasts for all of its time, whoever opened it.                  *)
THEOREM WindowLastsHolds == WSpec => WindowLasts
<1>1. IInv /\ [WNext]_windowVars =>
        [mode /\ ~mode' /\ closed' = "expired" /\ ~opening
           => since > Window]_windowVars
  <2>. SUFFICES ASSUME IInv, WNext, mode, ~mode', closed' = "expired", ~opening
                PROVE  since > Window
    BY DEF windowVars
  <2>1. CASE Visit
    BY <2>1 DEF Visit, Expired, IInv, OpenInv
  <2>2. CASE ~Visit
    BY <2>2 DEF WNext, PressButton, TypeP, StartPairing, Request,
                WebOpen, WebOpened, WebStop, WebPolicy, Occupy, Tick, modeVars
  <2>. QED
    BY <2>1, <2>2
<1>. QED
  BY <1>1, IInvHolds, PTL DEF WSpec, WindowLasts

(* Where pairing must be allowed, nobody is let in later than one visit of *)
(* the loop after the end of the window.                                   *)
THEOREM LateAtMostOneVisitHolds == WSpec => LateAtMostOneVisit
<1>1. IInv /\ [WNext]_windowVars =>
        [~waiting /\ waiting' /\ required => since <= Window + MaxStall]_windowVars
  <2>. SUFFICES ASSUME IInv, WNext, ~waiting, waiting', required
                PROVE  since <= Window + MaxStall
    BY DEF windowVars
  <2>1. CASE Request
    BY <2>1 DEF Request, MayPair, IInv, OpenInv, Times
  <2>2. CASE ~Request
    BY <2>2 DEF WNext, PressButton, TypeP, Visit, WebOpen, WebOpened,
                WebStop, WebPolicy, Occupy, Tick
  <2>. QED
    BY <2>1, <2>2
<1>. QED
  BY <1>1, IInvHolds, PTL DEF WSpec, LateAtMostOneVisit
=============================================================================
