------------------------- MODULE ThermalGuardProofs -------------------------
(* Proofs about ThermalGuard, for every set of readings and limits and any  *)
(* number of resets.                                                        *)
EXTENDS ThermalGuard, TLAPS

(* The limit the web UI snaps is a limit loadAudioSettings leaves alone.    *)
LEMMA SnappedLimit ==
  ASSUME NEW v \in MinLimit..MaxLimit
  PROVE  snapped(v) \in Limit
  <1> DEFINE q == (v - MinLimit) \div LimitStep
  <1>1. /\ MinLimit \in Int /\ MaxLimit \in Int /\ LimitStep \in Int /\ LimitStep > 0
        /\ v - MinLimit \in Nat
    BY LimitAssumption
  <1>2. q \in Nat /\ LimitStep * q <= v - MinLimit
    BY <1>1
  <1>3. snapped(v) = MinLimit + q * LimitStep /\ q * LimitStep \in Nat /\ q * LimitStep = LimitStep * q
    BY <1>1, <1>2 DEF snapped
  <1>4. snapped(v) \in MinLimit..MaxLimit
    BY <1>1, <1>2, <1>3
  <1>5. (q * LimitStep) \div LimitStep = q
    BY <1>1, <1>2, Z3
  <1>6. snapped(snapped(v)) = snapped(v)
    BY <1>1, <1>2, <1>3, <1>5 DEF snapped
  <1> QED BY <1>4, <1>6 DEF Limit

(* The limits in use are limits of the web UI, and clamping keeps them.     *)
LEMMA LimitFacts ==
  /\ DefaultLimit \in Limit
  /\ Limit \subseteq Int
  /\ \A v \in Requested : snapped(v) \in Limit
  /\ \A v \in Limit : snapped(clamped(v)) = v
  <1>1. DefaultLimit \in Limit
    BY LimitAssumption, SnappedLimit DEF Limit
  <1>2. \A v \in Requested : snapped(v) \in Limit
    BY LimitAssumption, SnappedLimit
  <1>3. Limit \subseteq Int
    BY LimitAssumption DEF Limit
  <1>4. ASSUME NEW v \in Limit PROVE snapped(clamped(v)) = v
    <2>1. clamped(v) = v
      BY LimitAssumption DEF Limit, clamped
    <2>2. snapped(v) = v
      BY DEF Limit
    <2> QED BY <2>1, <2>2
  <1> QED BY <1>1, <1>2, <1>3, <1>4

(* The device starts with empty flash. *)
LEMMA GuardInit == Init => GuardInv
  <1> SUFFICES ASSUME Init PROVE GuardInv
    OBVIOUS
  <1> USE DEF Init, Defaults
  <1>1. TypeOK
    <2>1. /\ overheatProtectionEnabled \in BOOLEAN /\ overheatLatched \in BOOLEAN
          /\ overheatLockoutActive \in BOOLEAN /\ overheatSensorFault \in BOOLEAN
          /\ rtspServerEnabled \in BOOLEAN /\ isStreaming \in BOOLEAN /\ owed \in BOOLEAN
      BY Zenon
    <2>2. flash \in [ohEnable : BOOLEAN, ohThresh : Limit, ohLatched : BOOLEAN]
      BY LimitFacts
    <2> QED BY <2>1, <2>2, LimitFacts, CrashAssumption DEF TypeOK, Label, Writer
  <1>2. WriterInv /\ FlashInv /\ LatchInv
    BY DEF WriterInv, FlashInv, LatchInv, PutLabel, AfterPut, Tripping
  <1> QED BY <1>1, <1>2 DEF GuardInv

(* Every step of Core 0, every reset and every change of the weather keeps  *)
(* the invariant.                                                           *)
LEMMA GuardNext == GuardInv /\ [Next]_vars => GuardInv'
  <1> SUFFICES ASSUME GuardInv, [Next]_vars PROVE GuardInv'
    OBVIOUS
  <1> USE DEF GuardInv, WriterInv, FlashInv, LatchInv, Tripping, PutLabel, AfterPut,
              TypeOK, Label, Writer, Reading,
              persist, save, goto, settings, guardVars, streamVars, outside
  <1>1. CASE setup
    BY <1>1, LimitFacts, CrashAssumption DEF setup
  <1>2. CASE Put
    <2>1. CASE pc = "putLatched"
      <3>1. /\ flash' = [flash EXCEPT !.ohLatched = overheatLatched]
            /\ pc' = AfterWrite(writer) /\ writer' = "none"
        BY <1>2, <2>1 DEF Put
      <3> QED BY <1>2, <2>1, <3>1 DEF Put, AfterWrite
    <2>2. CASE pc \in DOMAIN AfterPut
      <3>1. /\ pc' = AfterPut[pc] /\ writer' = writer /\ pc # "putLatched"
            /\ flash' = [flash EXCEPT
                 !.ohEnable = IF pc = "putEnable" THEN overheatProtectionEnabled ELSE @,
                 !.ohThresh = IF pc = "putLimit" THEN overheatShutdownC ELSE @]
        BY <1>2, <2>2 DEF Put
      <3>2. /\ flash' \in [ohEnable : BOOLEAN, ohThresh : Limit, ohLatched : BOOLEAN]
            /\ flash'.ohLatched = flash.ohLatched
            /\ flash'.ohEnable = IF pc = "putEnable" THEN overheatProtectionEnabled ELSE flash.ohEnable
            /\ flash'.ohThresh = IF pc = "putLimit" THEN overheatShutdownC ELSE flash.ohThresh
        BY <3>1
      <3>3. /\ pc' \in PutLabel /\ pc' \notin {"off", "putAudio"}
            /\ pc' = "putEnable" <=> pc = "putAudio"
            /\ pc' = "putLimit" <=> pc = "putEnable"
            /\ pc' = "putNote" <=> pc = "putLimit"
            /\ pc' = "putLatched" <=> pc = "putNote"
        BY <2>2, <3>1
      <3> QED BY <1>2, <2>2, <3>1, <3>2, <3>3 DEF Put
    <2> QED BY <1>2, <2>1, <2>2 DEF Put
  <1>3. CASE checkTemperature
    BY <1>3, LimitFacts, CrashAssumption DEF checkTemperature, Compare, trips, rearms
  <1>4. CASE CheckRestored
    BY <1>4, LimitFacts, CrashAssumption DEF CheckRestored, Compare, trips, rearms
  <1>5. CASE SensorFault
    BY <1>5, LimitFacts, CrashAssumption DEF SensorFault
  <1>6. CASE TripStop
    BY <1>6, LimitFacts, CrashAssumption DEF TripStop
  <1>7. CASE httpThermalClear
    BY <1>7, LimitFacts, CrashAssumption DEF httpThermalClear
  <1>8. CASE httpActionServerStart
    <2>1. /\ pc = "loop" /\ rtspServerEnabled' = TRUE /\ overheatLockoutActive' = FALSE /\ ~overheatLatched
          /\ UNCHANGED <<pc, writer, settings, overheatLatched, overheatSensorFault, isStreaming,
                         scheduled, flash, owed, outside>>
      BY <1>8 DEF httpActionServerStart
    <2>2. TypeOK'
      BY <2>1
    <2>3. WriterInv' /\ FlashInv' /\ LatchInv'
      BY <2>1
    <2> QED BY <2>2, <2>3
  <1>9. CASE httpActionServerStop
    <2>1. /\ pc = "loop" /\ rtspServerEnabled' = FALSE /\ isStreaming' = FALSE
          /\ UNCHANGED <<pc, writer, settings, guardVars, scheduled, flash, outside>>
      BY <1>9 DEF httpActionServerStop
    <2>2. owed' = owed
      BY <1>9 DEF httpActionServerStop
    <2>3. TypeOK'
      BY <2>1, <2>2
    <2>4. WriterInv' /\ FlashInv'
      BY <2>1
    <2>5. LatchInv'
      BY <2>1, <2>2
    <2> QED BY <2>3, <2>4, <2>5
  <1>10. CASE \E on \in BOOLEAN : SetEnable(on)
    BY <1>10, LimitFacts, CrashAssumption DEF SetEnable
  <1>11. CASE \E v \in Requested : SetLimit(v)
    <2> PICK v \in Requested : SetLimit(v)
      BY <1>11
    <2>1. snapped(v) \in Limit
      BY LimitFacts
    <2> QED BY <2>1 DEF SetLimit
  <1>12. CASE SetOther
    BY <1>12, LimitFacts, CrashAssumption DEF SetOther
  <1>13. CASE \E what \in {"reboot", "factory"} : scheduleReboot(what)
    BY <1>13, LimitFacts, CrashAssumption DEF scheduleReboot
  <1>14. CASE Stream
    BY <1>14, LimitFacts, CrashAssumption DEF Stream
  <1>15. CASE Reboot
    BY <1>15, LimitFacts, CrashAssumption DEF Reboot, restart
  <1>16. CASE FactoryReset
    BY <1>16, LimitFacts, CrashAssumption DEF FactoryReset, Defaults
  <1>17. CASE Crash
    BY <1>17, LimitFacts, CrashAssumption DEF Crash, restart
  <1>18. CASE Weather
    BY <1>18, LimitFacts, CrashAssumption DEF Weather
  <1>19. CASE UNCHANGED vars
    BY <1>19, LimitFacts, CrashAssumption DEF vars
  <1> QED
    BY <1>1, <1>2, <1>3, <1>4, <1>5, <1>6, <1>7, <1>8, <1>9, <1>10, <1>11, <1>12, <1>13, <1>14, <1>15, <1>16, <1>17, <1>18, <1>19 DEF Next, Check, Request

(* The invariant in every reachable state. *)
THEOREM Guard == Spec => []GuardInv
  BY GuardInit, GuardNext, PTL DEF Spec

(* Flash and memory agree between handlers. *)
THEOREM Agreement == Spec => []FlashAgrees
  <1>1. GuardInv => FlashAgrees
    BY LimitFacts DEF GuardInv, TypeOK, FlashInv, FlashAgrees, PutLabel, AfterPut
  <1> QED BY <1>1, Guard, PTL

(* A complete trip keeps the device silent until it is acknowledged. *)
THEOREM Acknowledgement == Spec => []AcknowledgedFirst
  <1>1. GuardInv => AcknowledgedFirst
    BY DEF GuardInv, LatchInv, AcknowledgedFirst
  <1> QED BY <1>1, Guard, PTL

(* Where clients can connect the guard is armed. *)
THEOREM GuardArmed == Spec => []Armed
  <1>1. GuardInv => Armed
    BY DEF GuardInv, LatchInv, Armed
  <1> QED BY <1>1, Guard, PTL

-----------------------------------------------------------------------------
(* Every step is one of the contract.  What happens while Core 0 is off is  *)
(* nothing to it, and a step to "off" is a reset.                           *)
LEMMA ContractNext == GuardInv /\ [Next]_vars => [Server!Next]_(Server!vars)
  <1> SUFFICES ASSUME GuardInv, [Next]_vars PROVE [Server!Next]_(Server!vars)
    OBVIOUS
  <1>0. flash.ohLatched \in BOOLEAN
    BY DEF GuardInv, TypeOK
  <1> USE <1>0 DEF GuardInv, WriterInv, FlashInv, LatchInv, Tripping, PutLabel, AfterPut, TypeOK,
              persist, save, goto, restart, settings, guardVars, streamVars, outside,
              Server!vars, Server!free
  <1>1. CASE setup
    BY <1>1 DEF setup, Server!Next, Server!Start
  <1>2. CASE Put
    <2>1. CASE pc = "putLatched" /\ writer = "factory"
      BY <1>2, <2>1 DEF Put, AfterWrite, Server!Next, Server!Reset
    <2>2. CASE pc = "putLatched" /\ writer # "factory"
      BY <1>2, <2>2 DEF Put, AfterWrite, Server!Next, Server!Save
    <2>3. CASE pc \in DOMAIN AfterPut
      BY <1>2, <2>3 DEF Put
    <2> QED BY <1>2, <2>1, <2>2, <2>3 DEF Put
  <1>3. CASE checkTemperature
    BY <1>3 DEF checkTemperature, Compare, Server!Next, Server!Trip
  <1>4. CASE CheckRestored
    BY <1>4 DEF CheckRestored, Compare, Server!Next, Server!Trip
  <1>5. CASE SensorFault
    BY <1>5 DEF SensorFault
  <1>6. CASE TripStop
    BY <1>6 DEF TripStop, Server!Next, Server!Silence
  <1>7. CASE httpThermalClear
    BY <1>7 DEF httpThermalClear, Server!Next, Server!Clear
  <1>8. CASE httpActionServerStart
    BY <1>8 DEF httpActionServerStart, Server!Next, Server!Start
  <1>9. CASE httpActionServerStop
    BY <1>9 DEF httpActionServerStop, Server!Next, Server!Stop
  <1>10. CASE \/ \E on \in BOOLEAN : SetEnable(on)
              \/ \E v \in Requested : SetLimit(v)
              \/ SetOther
    BY <1>10 DEF SetEnable, SetLimit, SetOther
  <1>11. CASE \E what \in {"reboot", "factory"} : scheduleReboot(what)
    BY <1>11 DEF scheduleReboot
  <1>12. CASE Stream
    BY <1>12 DEF Stream, Server!Next, Server!Play, Server!EndStream
  <1>13. CASE Reboot
    BY <1>13 DEF Reboot, Server!Next, Server!Reset
  <1>14. CASE FactoryReset
    BY <1>14 DEF FactoryReset, Defaults, Server!Next, Server!Wipe
  <1>15. CASE Crash
    BY <1>15 DEF Crash, Server!Next, Server!Reset
  <1>16. CASE Weather
    BY <1>16 DEF Weather
  <1>17. CASE UNCHANGED vars
    BY <1>17 DEF vars
  <1> QED
    BY <1>1, <1>2, <1>3, <1>4, <1>5, <1>6, <1>7, <1>8, <1>9, <1>10, <1>11, <1>12, <1>13, <1>14, <1>15, <1>16, <1>17 DEF Next, Check, Request

(* Through every save, sensor fault and reset the device keeps the server's *)
(* contract.                                                                *)
THEOREM ContractImplemented == Spec => ImplementsContract
  <1>1. Init => Server!Init
    BY DEF Init, Defaults, Tripping, Server!Init
  <1> QED BY <1>1, ContractNext, Guard, PTL DEF Spec, ImplementsContract, Server!Spec
=============================================================================
