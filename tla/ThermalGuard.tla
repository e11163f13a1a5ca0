---------------------------- MODULE ThermalGuard ----------------------------
(***************************************************************************)
(* Thermal protection, the settings it keeps in flash, and resets.  All    *)
(* handlers run in Core 0's loop, one after the other; what may come       *)
(* between two steps of one is a reset: power, the watchdog, or the task   *)
(* behind ship_ready_reset.  Every put to flash is a step of its own.      *)
(*                                                                         *)
(* How Core 0 and the audio task stop a stream is in StreamHandoff.        *)
(***************************************************************************)
EXTENDS Integers

CONSTANTS
  Temperature,   \* readings of the sensor that pass isTemperatureValid
  NoReading,     \* any other reading
  Requested,     \* limits the web UI may ask for
  MinLimit, MaxLimit, LimitStep, DefaultLimit,   \* OVERHEAT_*_C
  MaxCrashes     \* bound: resets at arbitrary moments

(* snapped: the limit in steps of LimitStep from MinLimit. *)
snapped(v) == MinLimit + ((v - MinLimit) \div LimitStep) * LimitStep

ASSUME ReadingAssumption == Temperature \subseteq Int /\ NoReading \notin Temperature
ASSUME LimitAssumption == /\ {MinLimit, MaxLimit} \subseteq Nat /\ LimitStep \in Nat \ {0}
                          /\ DefaultLimit \in MinLimit..MaxLimit /\ DefaultLimit = snapped(DefaultLimit)
                          /\ Requested \subseteq MinLimit..MaxLimit
ASSUME CrashAssumption == MaxCrashes \in Nat

VARIABLES
  pc,                        \* Core 0: the next step
  writer,                    \* the handler whose puts are under way
  overheatProtectionEnabled, overheatShutdownC,
  overheatLatched, overheatLockoutActive, overheatSensorFault,
  rtspServerEnabled, isStreaming,
  scheduled,                 \* scheduledRebootAt, scheduledFactoryReset
  flash,                     \* namespace "audio"
  temperature,               \* what temperatureRead returns
  owed,                      \* history: a trip is complete and not acknowledged
  crashes

settings == <<overheatProtectionEnabled, overheatShutdownC>>
guardVars == <<overheatLatched, overheatLockoutActive, overheatSensorFault>>
streamVars == <<rtspServerEnabled, isStreaming>>
outside == <<temperature, crashes>>
vars == <<pc, writer, settings, guardVars, streamVars, scheduled, flash, owed, outside>>

(* Puts in the order saveAudioSettings makes them; persistOverheatNote      *)
(* begins at "putNote": reason, time stamp and temperature of the trip.     *)
AfterPut == [putAudio |-> "putEnable", putEnable |-> "putLimit", putLimit |-> "putNote",
             putNote |-> "putLatched"]
PutLabel == DOMAIN AfterPut \cup {"putLatched"}
Label == {"off", "loop", "compare", "stop"} \cup PutLabel
Writer == {"none", "trip", "fault", "restored", "setup", "set", "clear", "factory"}

Limit == {v \in MinLimit..MaxLimit : snapped(v) = v}
Reading == Temperature \cup {NoReading}
Defaults == [ohEnable |-> TRUE, ohThresh |-> DefaultLimit, ohLatched |-> FALSE]

TypeOK ==
  /\ pc \in Label /\ writer \in Writer
  /\ overheatProtectionEnabled \in BOOLEAN /\ overheatShutdownC \in Limit
  /\ overheatLatched \in BOOLEAN /\ overheatLockoutActive \in BOOLEAN
  /\ overheatSensorFault \in BOOLEAN
  /\ rtspServerEnabled \in BOOLEAN /\ isStreaming \in BOOLEAN
  /\ scheduled \in {"none", "reboot", "factory"}
  /\ flash \in [ohEnable : BOOLEAN, ohThresh : Limit, ohLatched : BOOLEAN]
  /\ temperature \in Reading /\ owed \in BOOLEAN /\ crashes \in 0..MaxCrashes

Init ==
  /\ pc = "off" /\ writer = "none"
  /\ overheatProtectionEnabled = TRUE /\ overheatShutdownC = DefaultLimit
  /\ overheatLatched = FALSE /\ overheatLockoutActive = FALSE /\ overheatSensorFault = FALSE
  /\ rtspServerEnabled = FALSE /\ isStreaming = FALSE
  /\ scheduled = "none" /\ flash = Defaults
  /\ temperature \in Reading /\ owed = FALSE /\ crashes = 0

-----------------------------------------------------------------------------
(* Writing to flash. *)

persist(who) == pc' = "putNote" /\ writer' = who
save(who) == pc' = "putAudio" /\ writer' = who
goto(l) == pc' = l /\ UNCHANGED writer

(* Where the handler goes on after its last put. *)
AfterWrite(who) == CASE who = "trip"     -> "stop"
                     [] who = "restored" -> "compare"
                     [] who = "factory"  -> "off"
                     [] OTHER            -> "loop"

(* Mutant: the trip is noted without its latch. *)
PutForgetful ==
  /\ pc \in PutLabel
  /\ pc' = IF pc \in DOMAIN AfterPut THEN AfterPut[pc] ELSE AfterWrite(writer)
  /\ writer' = IF pc = "putLatched" THEN "none" ELSE writer
  /\ flash' = [flash EXCEPT
       !.ohEnable  = IF pc = "putEnable" THEN overheatProtectionEnabled ELSE @,
       !.ohThresh  = IF pc = "putLimit" THEN overheatShutdownC ELSE @,
       !.ohLatched = IF pc = "putLatched" /\ writer # "trip" THEN overheatLatched ELSE @]
  /\ UNCHANGED <<settings, guardVars, streamVars, scheduled, owed, outside>>

Put ==
  /\ pc \in PutLabel
  /\ pc' = IF pc \in DOMAIN AfterPut THEN AfterPut[pc] ELSE AfterWrite(writer)
  /\ writer' = IF pc = "putLatched" THEN "none" ELSE writer
  /\ flash' = [flash EXCEPT
       !.ohEnable  = IF pc = "putEnable" THEN overheatProtectionEnabled ELSE @,
       !.ohThresh  = IF pc = "putLimit" THEN overheatShutdownC ELSE @,
       !.ohLatched = IF pc = "putLatched" THEN overheatLatched ELSE @]
  /\ UNCHANGED <<settings, guardVars, streamVars, scheduled, owed, outside>>

-----------------------------------------------------------------------------
(* setup: settings, server, first reading. *)

clamped(v) == IF v < MinLimit THEN MinLimit ELSE IF v > MaxLimit THEN MaxLimit ELSE v

(* Mutant: the latch is not loaded. *)
SetupUnlatched ==
  /\ pc = "off"
  /\ overheatProtectionEnabled' = flash.ohEnable
  /\ overheatShutdownC' = snapped(clamped(flash.ohThresh))
  /\ overheatLatched' = FALSE /\ rtspServerEnabled' = TRUE
  /\ overheatLockoutActive' = FALSE /\ isStreaming' = FALSE /\ scheduled' = "none"
  /\ overheatSensorFault' = (temperature = NoReading)
  /\ IF temperature = NoReading THEN persist("setup") ELSE goto("loop")
  /\ UNCHANGED <<flash, owed, outside>>

setup ==
  /\ pc = "off"
  /\ overheatProtectionEnabled' = flash.ohEnable
  /\ overheatShutdownC' = snapped(clamped(flash.ohThresh))
  /\ overheatLatched' = flash.ohLatched /\ rtspServerEnabled' = ~flash.ohLatched
  /\ overheatLockoutActive' = FALSE /\ isStreaming' = FALSE /\ scheduled' = "none"
  /\ overheatSensorFault' = (temperature = NoReading)
  /\ IF temperature = NoReading THEN persist("setup") ELSE goto("loop")
  /\ UNCHANGED <<flash, owed, outside>>

-----------------------------------------------------------------------------
(* checkTemperature.  Its one reading does not change while it runs.        *)

(* The comparison with the limit; a trip is noted before anything stops.    *)
trips == overheatProtectionEnabled /\ ~overheatLockoutActive /\ temperature >= overheatShutdownC
rearms == overheatLockoutActive /\ temperature <= overheatShutdownC - LimitStep

Compare ==
  IF trips
    THEN overheatLockoutActive' = TRUE /\ overheatLatched' = TRUE /\ persist("trip")
    ELSE /\ overheatLockoutActive' = (overheatProtectionEnabled /\ overheatLockoutActive /\ ~rearms)
         /\ goto("loop") /\ UNCHANGED overheatLatched

checkTemperature ==
  /\ pc = "loop" /\ temperature # NoReading
  /\ IF overheatSensorFault
       THEN /\ overheatSensorFault' = FALSE /\ persist("restored")
            /\ UNCHANGED <<overheatLatched, overheatLockoutActive>>
       ELSE Compare /\ UNCHANGED overheatSensorFault
  /\ UNCHANGED <<settings, streamVars, scheduled, flash, owed, outside>>

CheckRestored ==
  /\ pc = "compare" /\ Compare
  /\ UNCHANGED <<overheatSensorFault, settings, streamVars, scheduled, flash, owed, outside>>

SensorFault ==
  /\ pc = "loop" /\ temperature = NoReading /\ ~overheatSensorFault
  /\ overheatSensorFault' = TRUE /\ persist("fault")
  /\ UNCHANGED <<overheatLatched, overheatLockoutActive, settings, streamVars, scheduled,
                 flash, owed, outside>>

(* Mutant: the stream is stopped, and the server goes on listening. *)
TripStopStream ==
  /\ pc = "stop" /\ goto("loop")
  /\ isStreaming' = FALSE /\ owed' = TRUE
  /\ UNCHANGED <<settings, guardVars, rtspServerEnabled, scheduled, flash, outside>>

(* The end of a trip: the stream, the task and the server are stopped. *)
TripStop ==
  /\ pc = "stop" /\ goto("loop")
  /\ isStreaming' = FALSE /\ rtspServerEnabled' = FALSE
  /\ owed' = TRUE
  /\ UNCHANGED <<settings, guardVars, scheduled, flash, outside>>

-----------------------------------------------------------------------------
(* Requests. *)

(* Mutant: the lockout outlives the latch. *)
ThermalClearLocked ==
  /\ pc = "loop" /\ overheatLatched
  /\ overheatLatched' = FALSE
  /\ rtspServerEnabled' = TRUE /\ owed' = FALSE
  /\ save("clear")
  /\ UNCHANGED <<overheatLockoutActive, overheatSensorFault, settings, isStreaming, scheduled,
                 flash, outside>>

httpThermalClear ==
  /\ pc = "loop" /\ overheatLatched
  /\ overheatLatched' = FALSE /\ overheatLockoutActive' = FALSE
  /\ rtspServerEnabled' = TRUE /\ owed' = FALSE
  /\ save("clear")
  /\ UNCHANGED <<overheatSensorFault, settings, isStreaming, scheduled, flash, outside>>

httpActionServerStart ==
  /\ pc = "loop" /\ ~overheatLatched /\ ~rtspServerEnabled
  /\ rtspServerEnabled' = TRUE /\ overheatLockoutActive' = FALSE
  /\ UNCHANGED <<pc, writer, settings, overheatLatched, overheatSensorFault, isStreaming,
                 scheduled, flash, owed, outside>>

httpActionServerStop ==
  /\ pc = "loop"
  /\ isStreaming' = FALSE /\ rtspServerEnabled' = FALSE
  /\ UNCHANGED <<pc, writer, settings, guardVars, scheduled, flash, owed, outside>>

SetEnable(on) ==
  /\ pc = "loop" /\ save("set")
  /\ overheatProtectionEnabled' = on
  /\ overheatLockoutActive' = (on /\ overheatLockoutActive)
  /\ UNCHANGED <<overheatShutdownC, overheatLatched, overheatSensorFault, streamVars, scheduled,
                 flash, owed, outside>>

(* Mutant: a new limit is applied and not saved. *)
SetLimitUnsaved(v) ==
  /\ pc = "loop"
  /\ overheatShutdownC' = snapped(v) /\ overheatLockoutActive' = FALSE
  /\ UNCHANGED <<pc, writer, overheatProtectionEnabled, overheatLatched, overheatSensorFault,
                 streamVars, scheduled, flash, owed, outside>>

SetLimit(v) ==
  /\ pc = "loop" /\ save("set")
  /\ overheatShutdownC' = snapped(v) /\ overheatLockoutActive' = FALSE
  /\ UNCHANGED <<overheatProtectionEnabled, overheatLatched, overheatSensorFault, streamVars,
                 scheduled, flash, owed, outside>>

(* Any other setting of the audio namespace is saved with all the rest.     *)
SetOther ==
  /\ pc = "loop" /\ save("set")
  /\ UNCHANGED <<settings, guardVars, streamVars, scheduled, flash, owed, outside>>

(* A later request replaces an earlier one. *)
scheduleReboot(what) ==
  /\ pc = "loop" /\ scheduled' = what
  /\ UNCHANGED <<pc, writer, settings, guardVars, streamVars, flash, owed, outside>>

(* A client plays, or its stream ends. *)
Stream ==
  /\ pc = "loop"
  /\ isStreaming' \in BOOLEAN /\ (isStreaming' => rtspServerEnabled)
  /\ UNCHANGED <<pc, writer, settings, guardVars, rtspServerEnabled, scheduled, flash, owed, outside>>

-----------------------------------------------------------------------------
(* Resets. *)

restart == pc' = "off" /\ writer' = "none"

(* The loop's deferred reboot, at once or later: how millis() compares with *)
(* scheduledRebootAt is left open.  checkScheduledReset restarts likewise.  *)
Reboot ==
  /\ pc = "loop" /\ restart
  /\ UNCHANGED <<settings, guardVars, streamVars, scheduled, flash, owed, outside>>

(* resetToDefaultSettings: the namespace is cleared before the defaults are *)
(* put, and nothing asks the stream to stop.                                *)
FactoryReset ==
  /\ pc = "loop" /\ scheduled = "factory"
  /\ flash' = Defaults
  /\ overheatProtectionEnabled' = TRUE /\ overheatShutdownC' = DefaultLimit
  /\ overheatLatched' = FALSE /\ overheatLockoutActive' = FALSE /\ overheatSensorFault' = FALSE
  /\ isStreaming' = FALSE /\ owed' = FALSE
  /\ save("factory")
  /\ UNCHANGED <<rtspServerEnabled, scheduled, outside>>

(* A reset at any moment. *)
Crash ==
  /\ pc # "off" /\ crashes < MaxCrashes /\ crashes' = crashes + 1
  /\ restart
  /\ UNCHANGED <<settings, guardVars, streamVars, scheduled, flash, owed, temperature>>

(* External: the chip warms and cools, the sensor fails and recovers.       *)
Weather ==
  /\ pc \in {"off", "loop"} /\ temperature' \in Reading \ {temperature}
  /\ UNCHANGED <<pc, writer, settings, guardVars, streamVars, scheduled, flash, owed, crashes>>

Request ==
  \/ httpThermalClear \/ httpActionServerStart \/ httpActionServerStop
  \/ (\E on \in BOOLEAN : SetEnable(on)) \/ (\E v \in Requested : SetLimit(v)) \/ SetOther
  \/ (\E what \in {"reboot", "factory"} : scheduleReboot(what))

Check == checkTemperature \/ CheckRestored \/ SensorFault \/ TripStop

Next == setup \/ Put \/ Check \/ Request \/ Stream \/ Reboot \/ FactoryReset \/ Crash \/ Weather

Spec == Init /\ [][Next]_vars

(* A handler that has begun goes on, and a loop that is not reset any more  *)
(* checks the temperature every 60 s, however many requests come in         *)
(* between.  Each boot starts the 60 s anew, so a device that is reset for  *)
(* ever need never check.                                                   *)
Fairness ==
  /\ WF_vars(setup \/ Put \/ CheckRestored \/ TripStop)
  /\ []<>(pc = "off") \/ SF_vars(checkTemperature)
FairSpec == Spec /\ Fairness

-----------------------------------------------------------------------------
(* Properties. *)

(* Core 0 between the decision to trip and the end of the stop. *)
Tripping == writer = "trip" \/ pc = "stop"

(* Which puts which handler makes; a factory reset has no latch to save.    *)
WriterInv ==
  /\ pc \in PutLabel <=> writer # "none"
  /\ writer \in {"trip", "fault", "restored", "setup"} => pc \in {"putNote", "putLatched"}
  /\ pc = "compare" \/ writer = "restored" => temperature # NoReading
  /\ writer = "factory" => ~overheatLatched /\ ~flash.ohLatched

(* What was saved is what is in force: at every put the keys before it      *)
(* agree, and so do those no put of this handler is about to write.         *)
FlashInv ==
  /\ pc \notin {"off", "putAudio", "putEnable"} => flash.ohEnable = overheatProtectionEnabled
  /\ pc \notin {"off", "putAudio", "putEnable", "putLimit"} => flash.ohThresh = overheatShutdownC
  /\ pc \notin {"off"} \cup PutLabel => flash.ohLatched = overheatLatched

LatchInv ==
  /\ Tripping => overheatLatched
  /\ pc # "off" /\ overheatLatched /\ ~Tripping => ~rtspServerEnabled /\ ~isStreaming
  /\ pc # "off" /\ overheatLockoutActive => overheatLatched
  /\ owed => flash.ohLatched /\ (pc # "off" => overheatLatched)

(* Nothing is lost by a restart between two handlers: what setup would load *)
(* is what the device is running with, after any sequence of requests,      *)
(* trips, sensor faults and resets.                                         *)
FlashAgrees ==
  pc = "loop" => /\ flash.ohEnable = overheatProtectionEnabled
                 /\ snapped(clamped(flash.ohThresh)) = overheatShutdownC
                 /\ flash.ohLatched = overheatLatched

(* Once a trip is complete nothing is served, across resets at any       *)
(* moment and whatever is saved meanwhile, until the latch is cleared in    *)
(* the web UI or by a factory reset.                                        *)
AcknowledgedFirst ==
  owed /\ pc # "off" /\ ~Tripping => ~rtspServerEnabled /\ ~isStreaming

(* Whenever clients can connect the guard is armed: no lockout of an older  *)
(* trip keeps the next one from being noticed.                              *)
Armed == pc # "off" /\ rtspServerEnabled /\ ~Tripping => ~overheatLockoutActive

GuardInv == TypeOK /\ WriterInv /\ FlashInv /\ LatchInv

(* What a reset would make of it: memory while Core 0 runs, flash while it   *)
(* does not.                                                                *)
Server == INSTANCE ServerContract WITH
  latched   <- IF pc = "off" THEN flash.ohLatched ELSE overheatLatched,
  saved     <- flash.ohLatched,
  serving   <- pc # "off" /\ rtspServerEnabled,
  streaming <- pc # "off" /\ isStreaming,
  tripping  <- Tripping

(* Through saves, sensor faults and resets at any moment every step is one  *)
(* the contract allows: in particular no trip ends, and no acknowledged     *)
(* device streams, before flash knows.                                      *)
ImplementsContract == Server!Spec

(* A device that stays on and too hot stops serving, whatever is requested  *)
(* and however often it was reset before, unless its protection is off.     *)
TooHot == overheatProtectionEnabled /\ temperature # NoReading /\ temperature >= overheatShutdownC
HotStops == []<>(pc = "off" \/ ~TooHot \/ ~rtspServerEnabled)
=============================================================================
