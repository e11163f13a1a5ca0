---------------------------- MODULE StreamHealth ----------------------------
(***************************************************************************)
(* The packet-rate check and its automatic recovery: counters that the     *)
(* streaming task and the main loop share, a rate computed in one machine  *)
(* word, and a count of low rates that outlives the stream it was about.   *)
(*                                                                         *)
(* Time passes in minutes and is kept as the age of each time stamp, rates *)
(* are packets a minute.  The hand-over below PLAY, the end of a session   *)
(* and restartI2S is in StreamHandoff.                                     *)
(***************************************************************************)
EXTENDS Integers

CONSTANTS
  Rates,      \* packets a minute a block size and a sample rate can give
  Limits,     \* thresholds one may set by hand
  Floor,      \* the least automatic threshold (5 packets a second)
  Intervals,  \* minutes between two checks
  Milli,      \* the factor of the rate's computation (1000)
  Word,       \* values of an unsigned long (2^32)
  CountWord,  \* values of the 8-bit count of low rates (2^8)
  Longest     \* bound: minutes a session's statistics may last

ASSUME RatesAssumption ==
  /\ Rates \subseteq Nat \ {0} /\ Limits \subseteq Nat /\ Floor \in Nat
  /\ \E r \in Rates : \A s \in Rates : s <= r
ASSUME IntervalsAssumption == Intervals \subseteq Nat \ {0} /\ Intervals # {}
ASSUME WordAssumption == {Milli, Word, CountWord, Longest} \subseteq Nat \ {0} /\ CountWord > 3

VARIABLES
  isStreaming,
  nominal,                \* what sample rate and block size give
  audioPacketsSent,
  statsAge,               \* millis() - lastStatsReset
  resetAge,               \* millis() - lastI2SReset, or Cooldown when that is over
  checkAge,               \* millis() - lastPerformanceCheck
  consecutiveLowCount, minAcceptableRate, performanceCheckInterval,
  autoThresholdEnabled, autoRecoveryEnabled,
  fewest,                 \* (history) the fewest of any minute since then
  excess,                 \* (history) packets counted that an increment brought back
  slow                    \* (history) minutes the average has been too low, unattended

statVars == <<audioPacketsSent, statsAge, fewest, excess>>
settingVars == <<minAcceptableRate, performanceCheckInterval, autoThresholdEnabled,
                 autoRecoveryEnabled>>
vars == <<isStreaming, nominal, statVars, resetAge, checkAge, consecutiveLowCount, settingVars,
          slow>>

Cooldown == 2
Fastest == CHOOSE r \in Rates : \A s \in Rates : s <= r

(* computeRecommendedMinRate: half of what is expected, but never less than *)
(* the floor, which large blocks do not reach.                              *)
recommended(rate) ==
  IF (rate + 1) \div 2 < Floor THEN Floor ELSE (rate + 1) \div 2

TypeOK ==
  /\ {isStreaming, autoThresholdEnabled, autoRecoveryEnabled} \subseteq BOOLEAN
  /\ nominal \in Rates /\ fewest \in 0..Fastest
  /\ audioPacketsSent \in 0..(Word - 1) /\ excess \in 0..(Word - 1) /\ slow \in Nat
  /\ statsAge \in 0..Longest /\ resetAge \in 0..Cooldown
  /\ performanceCheckInterval \in Intervals
  /\ checkAge \in Nat
  /\ consecutiveLowCount \in 0..(CountWord - 1)
  /\ minAcceptableRate \in Limits \cup {recommended(r) : r \in Rates}

Init ==
  /\ isStreaming = FALSE /\ nominal \in Rates
  /\ audioPacketsSent = 0 /\ statsAge = 0 /\ fewest = Fastest /\ excess = 0
  /\ resetAge = Cooldown /\ checkAge = 0 /\ consecutiveLowCount = 0
  /\ autoThresholdEnabled = TRUE /\ minAcceptableRate = recommended(nominal)
  /\ performanceCheckInterval \in Intervals
  /\ autoRecoveryEnabled \in BOOLEAN
  /\ slow = 0

-----------------------------------------------------------------------------
(* Statistics: a session begins and ends, and Core 1 counts. *)

(* Mutant: PLAY clears the count and keeps the time. *)
PlayOldClock ==
  /\ ~isStreaming /\ isStreaming' = TRUE
  /\ audioPacketsSent' = 0 /\ fewest' = Fastest /\ excess' = 0 /\ slow' = 0
  /\ UNCHANGED <<nominal, statsAge, resetAge, checkAge, consecutiveLowCount, settingVars>>

Play ==
  /\ ~isStreaming /\ isStreaming' = TRUE
  /\ audioPacketsSent' = 0 /\ statsAge' = 0
  /\ fewest' = Fastest /\ excess' = 0 /\ slow' = 0
  /\ UNCHANGED <<nominal, resetAge, checkAge, consecutiveLowCount, settingVars>>

SessionEnds ==
  /\ isStreaming /\ isStreaming' = FALSE /\ slow' = 0
  /\ UNCHANGED <<nominal, statVars, resetAge, checkAge, consecutiveLowCount, settingVars>>

due == checkAge >= performanceCheckInterval

min2(a, b) == IF a < b THEN a ELSE b

(* One minute in which n packets are written.  The loop comes round many    *)
(* times in it, so a check that is due goes first.  (Bound: the count itself*)
(* does not wrap, which takes 1000 times as long as its product.)           *)
Minute(n) ==
  /\ ~due /\ statsAge < Longest
  /\ n > 0 => isStreaming
  /\ audioPacketsSent + n < Word - 1
  /\ audioPacketsSent' = audioPacketsSent + n
  /\ fewest' = IF isStreaming THEN min2(fewest, n) ELSE fewest
  /\ statsAge' = IF isStreaming THEN statsAge + 1 ELSE min2(statsAge + 1, Longest - 1)
  /\ resetAge' = min2(resetAge + 1, Cooldown) /\ checkAge' = checkAge + 1
  /\ slow' = IF isStreaming /\ autoRecoveryEnabled /\ audioPacketsSent' - excess < minAcceptableRate * statsAge'
               THEN slow + 1 ELSE 0
  /\ UNCHANGED <<isStreaming, nominal, excess, consecutiveLowCount, settingVars>>

-----------------------------------------------------------------------------
(* checkPerformance, every performanceCheckInterval. *)

wrapped == audioPacketsSent * Milli >= Word

currentRate == ((audioPacketsSent * Milli) % Word) \div (statsAge * Milli)

judged == isStreaming /\ statsAge > 0 /\ resetAge = Cooldown
low == judged /\ currentRate < minAcceptableRate
counted == (consecutiveLowCount + 1) % CountWord
recovers == low /\ counted >= 3 /\ autoRecoveryEnabled

CheckSkips ==
  /\ due /\ ~judged /\ checkAge' = 0
  /\ UNCHANGED <<isStreaming, nominal, statVars, resetAge, consecutiveLowCount, settingVars, slow>>

CheckPasses ==
  /\ due /\ judged /\ ~low /\ checkAge' = 0
  /\ consecutiveLowCount' = 0
  /\ UNCHANGED <<isStreaming, nominal, statVars, resetAge, settingVars, slow>>

(* Mutant: a low rate starts the count again. *)
CheckLowForgets ==
  /\ due /\ low /\ ~recovers /\ checkAge' = 0
  /\ consecutiveLowCount' = 1
  /\ UNCHANGED <<isStreaming, nominal, statVars, resetAge, settingVars, slow>>

CheckLow ==
  /\ due /\ low /\ ~recovers /\ checkAge' = 0
  /\ consecutiveLowCount' = counted
  /\ UNCHANGED <<isStreaming, nominal, statVars, resetAge, settingVars, slow>>

(* restartI2S, which resumes the stream or finds the client gone, comes     *)
(* before the count is cleared: an increment of the new task may keep it,   *)
(* one more, or end at one (audioPacketsSent is not atomic).                *)
Recover ==
  /\ due /\ recovers /\ checkAge' = 0
  /\ consecutiveLowCount' = 0
  /\ isStreaming' \in BOOLEAN
  /\ audioPacketsSent' \in IF isStreaming' THEN {0, 1, audioPacketsSent + 1} ELSE {0}
  /\ excess' = audioPacketsSent' - min2(audioPacketsSent', 1)
  /\ statsAge' = 0 /\ fewest' = Fastest
  /\ resetAge' = 0 /\ slow' = 0
  /\ UNCHANGED <<nominal, settingVars>>

-----------------------------------------------------------------------------
(* httpSet. *)

(* rate and buffer: the pipeline is restarted, the statistics are not. *)
SetRate(rate) ==
  /\ nominal' = rate /\ slow' = 0
  /\ minAcceptableRate' = IF autoThresholdEnabled THEN recommended(rate) ELSE minAcceptableRate
  /\ UNCHANGED <<isStreaming, statVars, resetAge, checkAge, consecutiveLowCount,
                 performanceCheckInterval, autoThresholdEnabled, autoRecoveryEnabled>>

SetThresholdMode(auto) ==
  /\ autoThresholdEnabled' = auto /\ slow' = 0
  /\ minAcceptableRate' = IF auto THEN recommended(nominal) ELSE minAcceptableRate
  /\ UNCHANGED <<isStreaming, nominal, statVars, resetAge, checkAge, consecutiveLowCount,
                 performanceCheckInterval, autoRecoveryEnabled>>

SetMinRate(limit) ==
  /\ minAcceptableRate' = limit /\ slow' = 0
  /\ UNCHANGED <<isStreaming, nominal, statVars, resetAge, checkAge, consecutiveLowCount,
                 performanceCheckInterval, autoThresholdEnabled, autoRecoveryEnabled>>

SetInterval(minutes) ==
  /\ performanceCheckInterval' = minutes /\ slow' = 0
  /\ UNCHANGED <<isStreaming, nominal, statVars, resetAge, checkAge, consecutiveLowCount,
                 minAcceptableRate, autoThresholdEnabled, autoRecoveryEnabled>>

SetRecovery(on) ==
  /\ autoRecoveryEnabled' = on /\ slow' = 0
  /\ UNCHANGED <<isStreaming, nominal, statVars, resetAge, checkAge, consecutiveLowCount,
                 minAcceptableRate, performanceCheckInterval, autoThresholdEnabled>>

httpSet ==
  \/ \E rate \in Rates : SetRate(rate)
  \/ \E auto \in BOOLEAN : SetThresholdMode(auto)
  \/ \E limit \in Limits : SetMinRate(limit)
  \/ \E minutes \in Intervals : SetInterval(minutes)
  \/ \E on \in BOOLEAN : SetRecovery(on)

checkPerformance == CheckSkips \/ CheckPasses \/ CheckLow \/ Recover

Next ==
  \/ Play \/ SessionEnds \/ (\E n \in {0, nominal} : Minute(n)) \/ checkPerformance \/ httpSet

Spec == Init /\ [][Next]_vars

-----------------------------------------------------------------------------
(* Properties. *)

(* No false alarm but the word's: a stream is restarted by itself only if   *)
(* it had a minute below the threshold since its statistics began, or its   *)
(* count times 1000 no longer fits.  (The average is over the session, and  *)
(* settings, sessions and restarts change what it is compared with.)        *)
NoFalseAlarm == [][recovers /\ checkAge' = 0 => fewest < minAcceptableRate \/ wrapped]_vars

(* No alarm is missed: while recovery is on and nobody changes the          *)
(* settings, an average that is really too low is acted on within a         *)
(* cool-down and four checks (three, and one more when the 8-bit count of   *)
(* low rates comes round), unless an increment undid the last reset.        *)
LowRateRecovered ==
  excess > 0 \/ slow <= 4 * performanceCheckInterval + Cooldown

-----------------------------------------------------------------------------
(* The inductive invariant behind NoFalseAlarm: a stream has sent the       *)
(* fewest packets of any minute in each of its minutes.                     *)
HealthInv ==
  /\ {audioPacketsSent, statsAge, fewest, minAcceptableRate} \subseteq Nat /\ nominal \in Rates
  /\ isStreaming => audioPacketsSent >= fewest * statsAge

(* And behind LowRateRecovered: the minutes a rate has been too low and     *)
(* those until the check that acts on it keep within the bound.  Checks     *)
(* count once the cool-down is over; so many are left when c of them were   *)
(* low, and so many minutes when the last one was age minutes ago.          *)
checksLeft(c) ==
  LET n == (c + 1) % CountWord
  IN IF n = 0 THEN 4 ELSE IF n >= 3 THEN 1 ELSE 4 - n
minutesLeft(age, k) == IF age >= k THEN 0 ELSE k - age
InTime(s, age, c, k) == s + minutesLeft(age, k) + (checksLeft(c) - 1) * k <= 4 * k + Cooldown
RecoveryInv ==
  /\ slow > 0 => /\ isStreaming /\ autoRecoveryEnabled /\ statsAge > 0
                 /\ audioPacketsSent - excess < minAcceptableRate * statsAge
  /\ resetAge < Cooldown => slow <= resetAge
  /\ excess = 0 /\ resetAge = Cooldown =>
       InTime(slow, checkAge, consecutiveLowCount, performanceCheckInterval)
=============================================================================
