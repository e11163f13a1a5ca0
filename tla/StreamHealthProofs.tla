------------------------- MODULE StreamHealthProofs -------------------------
(***************************************************************************)
(* NoFalseAlarm and LowRateRecovered for any rates, thresholds, intervals  *)
(* and words.                                                              *)
(*                                                                         *)
(* While a stream lasts it has sent at least the fewest packets of any     *)
(* minute in each of its minutes, whatever settings, sessions and restarts *)
(* do to counter and clock, so an average below the threshold needs a      *)
(* minute below it, unless the product has wrapped.  And while recovery is *)
(* on, the minutes a rate has been too low and those left until the check  *)
(* that acts on it are never more than the bound.                          *)
(***************************************************************************)
EXTENDS StreamHealth, TLAPS

-----------------------------------------------------------------------------
(* Arithmetic. *)

LEMMA Times ==
  ASSUME NEW a \in Nat, NEW f \in Nat, NEW g \in Nat, NEW n \in Nat, NEW t \in Nat,
         a >= f * t, g <= f, g <= n
  PROVE  a + n >= g * (t + 1)
  <1>1. g * t <= f * t
    OBVIOUS
  <1>2. g * (t + 1) = g * t + g /\ g * t \in Nat /\ f * t \in Nat
    OBVIOUS
  <1> QED BY <1>1, <1>2

LEMMA Average ==
  ASSUME NEW a \in Nat, NEW f \in Nat, NEW t \in Nat \ {0}, NEW m \in Nat \ {0}, a >= f * t
  PROVE  (a * m) \div (t * m) >= f
  <1> DEFINE x == a * m
             d == t * m
             q == x \div d
  <1>1. x \in Nat /\ d \in Nat \ {0} /\ x >= f * d
    <2>1. x \in Nat /\ d \in Nat /\ d > 0
      OBVIOUS
    <2>2. a * m >= (f * t) * m
      OBVIOUS
    <2>3. (f * t) * m = f * d
      OBVIOUS
    <2> QED BY <2>1, <2>2, <2>3
  <1> HIDE DEF x, d
  <1>2. q \in Nat /\ x < d * (q + 1)
    <2>1. q \in Int /\ x = d * q + (x % d) /\ x % d \in 0..d-1
      BY <1>1
    <2> QED BY <1>1, <2>1
  <1> HIDE DEF q
  <1>3. ASSUME q < f PROVE FALSE
    <2>1. d * (q + 1) <= d * f
      BY <1>1, <1>2, <1>3
    <2> QED BY <1>1, <1>2, <2>1
  <1> QED BY <1>2, <1>3 DEF q, x, d

(* What a product keeps of a word is no more than the product.              *)
LEMMA RateLow ==
  ASSUME NEW a \in Nat, NEW r \in Nat, NEW t \in Nat \ {0}, NEW m \in Nat \ {0}, NEW W \in Nat \ {0},
         a < r * t
  PROVE  /\ ((a * m) % W) \div (t * m) \in Int
         /\ ((a * m) % W) \div (t * m) < r
  <1> DEFINE x == a * m
             y == x % W
             d == t * m
             q == y \div d
             h == x \div W
  <1>1. x \in Nat /\ d \in Nat \ {0} /\ x < r * d
    <2>1. x \in Nat /\ d \in Nat /\ d > 0 /\ (r * t) * m = r * d
      OBVIOUS
    <2>2. a + 1 <= r * t /\ r * t \in Nat
      OBVIOUS
    <2>3. (a + 1) * m <= (r * t) * m
      BY <2>2
    <2>4. (a + 1) * m = x + m
      OBVIOUS
    <2> QED BY <2>1, <2>3, <2>4
  <1> HIDE DEF x, d
  <1>2. y \in Nat /\ y <= x
    <2>1. h \in Int /\ y \in 0..W-1 /\ x = W * h + y
      BY <1>1
    <2> HIDE DEF h, y
    <2>2. h >= 0
      <3>1. ASSUME h < 0 PROVE FALSE
        <4>1. W * h <= W * (-1)
          BY <2>1, <3>1
        <4> QED BY <1>1, <2>1, <4>1
      <3> QED BY <2>1, <3>1
    <2>3. W * h >= 0
      BY <2>1, <2>2
    <2> QED BY <1>1, <2>1, <2>3
  <1> HIDE DEF y
  <1>3. q \in Int /\ d * q <= y
    <2>1. q \in Int /\ y % d \in 0..d-1 /\ y = d * q + (y % d)
      BY <1>1, <1>2
    <2> QED BY <1>1, <1>2, <2>1
  <1> HIDE DEF q
  <1>4. ASSUME q >= r PROVE FALSE
    <2>1. d * r <= d * q /\ d * r = r * d /\ d * r \in Nat /\ d * q \in Int
      BY <1>1, <1>3, <1>4
    <2> QED BY <1>1, <1>2, <1>3, <2>1
  <1> QED BY <1>3, <1>4 DEF q, y, x, d

LEMMA Least ==
  ASSUME NEW a \in Nat, NEW b \in Nat
  PROVE  min2(a, b) \in Nat /\ min2(a, b) <= a /\ min2(a, b) <= b
  BY DEF min2

LEMMA RatesTyped ==
  /\ Fastest \in Nat /\ Rates \subseteq Nat
  /\ \A r \in Rates : recommended(r) \in Nat
  /\ Limits \subseteq Nat /\ Longest \in Nat /\ Word \in Nat \ {0} /\ Milli \in Nat \ {0}
  <1>1. Fastest \in Rates
    BY RatesAssumption DEF Fastest
  <1>2. ASSUME NEW r \in Rates PROVE recommended(r) \in Nat
    <2>1. r \in Nat /\ (r + 1) \div 2 \in Nat /\ Floor \in Nat
      BY RatesAssumption
    <2> QED BY <2>1 DEF recommended
  <1> QED BY <1>1, <1>2, RatesAssumption, WordAssumption

-----------------------------------------------------------------------------
(* The steps. *)

LEMMA MinuteStep ==
  ASSUME HealthInv, NEW n \in {0, nominal}, Minute(n)
  PROVE  HealthInv'
  <1>1. n \in Nat /\ audioPacketsSent \in Nat /\ statsAge \in Nat /\ fewest \in Nat
    BY RatesTyped DEF HealthInv
  <1>2. /\ audioPacketsSent' = audioPacketsSent + n /\ isStreaming' = isStreaming
        /\ UNCHANGED <<nominal, minAcceptableRate>>
    BY DEF Minute, settingVars
  <1>3. CASE isStreaming
    <2>1. fewest' = min2(fewest, n) /\ statsAge' = statsAge + 1
      BY <1>3 DEF Minute
    <2>2. audioPacketsSent >= fewest * statsAge
      BY <1>3 DEF HealthInv
    <2>3. audioPacketsSent + n >= min2(fewest, n) * (statsAge + 1)
      BY <1>1, <2>2, Times, Least
    <2> QED BY <1>1, <1>2, <2>1, <2>3, Least DEF HealthInv
  <1>4. CASE ~isStreaming
    <2>1. fewest' = fewest /\ statsAge' = min2(statsAge + 1, Longest - 1) /\ statsAge < Longest
      BY <1>4 DEF Minute
    <2>2. Longest - 1 \in Nat
      BY <1>1, <2>1, RatesTyped
    <2>3. statsAge' \in Nat
      BY <1>1, <2>1, <2>2, Least
    <2> QED BY <1>1, <1>2, <1>4, <2>1, <2>3 DEF HealthInv
  <1> QED BY <1>3, <1>4

(* A session and a restart begin a new account; nothing else than these and *)
(* a minute touches it.                                                     *)
LEMMA OtherStep ==
  HealthInv /\ (Play \/ SessionEnds \/ checkPerformance \/ httpSet) => HealthInv'
  <1> SUFFICES ASSUME HealthInv, Play \/ SessionEnds \/ checkPerformance \/ httpSet PROVE HealthInv'
    OBVIOUS
  <1>0. \A f \in Nat : f * 0 = 0
    OBVIOUS
  <1>1. CASE Play
    BY <1>0, <1>1, RatesTyped DEF Play, HealthInv, settingVars
  <1>2. CASE SessionEnds
    BY <1>2 DEF SessionEnds, HealthInv, settingVars, statVars
  <1>3. CASE CheckSkips \/ CheckPasses \/ CheckLow
    BY <1>3 DEF CheckSkips, CheckPasses, CheckLow, HealthInv, settingVars, statVars
  <1>4. CASE Recover
    <2>1. audioPacketsSent' \in Nat
      <3>1. audioPacketsSent' \in {0, 1, audioPacketsSent + 1} /\ audioPacketsSent \in Nat
        BY <1>4 DEF Recover, HealthInv
      <3> QED BY <3>1
    <2>2. statsAge' = 0 /\ fewest' = Fastest /\ UNCHANGED <<nominal, minAcceptableRate>>
      BY <1>4 DEF Recover, settingVars
    <2> QED BY <1>0, <2>1, <2>2, RatesTyped DEF HealthInv
  <1>5. CASE httpSet
    <2>1. UNCHANGED <<isStreaming, audioPacketsSent, statsAge, fewest>>
      BY <1>5 DEF httpSet, SetRate, SetThresholdMode, SetMinRate, SetInterval, SetRecovery, statVars
    <2>2. nominal' \in Rates
      BY <1>5 DEF httpSet, SetRate, SetThresholdMode, SetMinRate, SetInterval, SetRecovery, HealthInv
    <2>3. minAcceptableRate' \in Nat
      <3>1. nominal \in Rates /\ minAcceptableRate \in Nat
        BY DEF HealthInv
      <3>2. ASSUME NEW rate \in Rates, SetRate(rate) PROVE minAcceptableRate' \in Nat
        BY <3>1, <3>2, RatesTyped DEF SetRate
      <3>3. ASSUME NEW auto \in BOOLEAN, SetThresholdMode(auto) PROVE minAcceptableRate' \in Nat
        BY <3>1, <3>3, RatesTyped DEF SetThresholdMode
      <3>4. ASSUME NEW limit \in Limits, SetMinRate(limit) PROVE minAcceptableRate' \in Nat
        BY <3>4, RatesTyped DEF SetMinRate
      <3> QED BY <1>5, <3>1, <3>2, <3>3, <3>4 DEF httpSet, SetInterval, SetRecovery
    <2> QED BY <2>1, <2>2, <2>3 DEF HealthInv
  <1> QED BY <1>1, <1>2, <1>3, <1>4, <1>5 DEF checkPerformance

-----------------------------------------------------------------------------
(* Types: the count stays in its word because a check comes between an      *)
(* increment that a restart lost and the next one.                          *)

TypeInv == TypeOK /\ (statsAge > 0 => audioPacketsSent < Word - 1)

LEMMA TypeMinute ==
  ASSUME TypeInv, NEW n \in {0, nominal}, Minute(n)
  PROVE  TypeInv'
  <1>1. /\ n \in Nat /\ audioPacketsSent \in Nat /\ statsAge \in 0..Longest /\ fewest \in 0..Fastest
        /\ resetAge \in 0..2 /\ checkAge \in Nat /\ slow \in Nat
    BY RatesTyped DEF TypeInv, TypeOK, Cooldown
  <1>2. /\ audioPacketsSent' = audioPacketsSent + n /\ isStreaming' = isStreaming
        /\ UNCHANGED <<nominal, excess, consecutiveLowCount, minAcceptableRate, performanceCheckInterval,
                       autoThresholdEnabled, autoRecoveryEnabled>>
        /\ audioPacketsSent + n < Word - 1 /\ checkAge' = checkAge + 1 /\ slow' \in {slow + 1, 0}
    BY DEF Minute, settingVars
  <1>3. fewest' \in 0..Fastest
    <2>1. fewest \in Nat /\ Fastest \in Nat
      BY <1>1, RatesTyped
    <2>2. min2(fewest, n) \in 0..Fastest
      BY <1>1, <2>1 DEF min2
    <2> QED BY <1>1, <2>2 DEF Minute
  <1>4. statsAge' \in 0..Longest
    <2>1. statsAge < Longest /\ Longest - 1 \in Nat /\ statsAge + 1 \in Nat
      BY <1>1, RatesTyped DEF Minute
    <2>2. statsAge + 1 \in 0..Longest /\ min2(statsAge + 1, Longest - 1) \in 0..Longest
      BY <1>1, <2>1, RatesTyped DEF min2
    <2> QED BY <2>2 DEF Minute
  <1>5. resetAge' \in 0..2
    <2>1. min2(resetAge + 1, 2) \in 0..2
      BY <1>1 DEF min2
    <2> QED BY <2>1 DEF Minute, Cooldown
  <1>6. audioPacketsSent' \in 0..Word-1 /\ audioPacketsSent' < Word - 1
    BY <1>1, <1>2, RatesTyped
  <1>7. slow' \in Nat /\ checkAge' \in Nat
    BY <1>1, <1>2
  <1> QED BY <1>2, <1>3, <1>4, <1>5, <1>6, <1>7 DEF TypeInv, TypeOK, Cooldown

LEMMA TypeOther ==
  TypeInv /\ (Play \/ SessionEnds \/ checkPerformance \/ httpSet) => TypeInv'
  <1> SUFFICES ASSUME TypeInv, Play \/ SessionEnds \/ checkPerformance \/ httpSet PROVE TypeInv'
    OBVIOUS
  <1>0. 0 \in 0..Word-1 /\ 0 \in 0..Longest /\ 0 \in 0..CountWord-1 /\ Fastest \in 0..Fastest /\ 0 \in 0..Cooldown
    BY RatesTyped, WordAssumption DEF Cooldown
  <1>1. CASE Play
    BY <1>0, <1>1 DEF Play, TypeInv, TypeOK, settingVars
  <1>2. CASE SessionEnds
    BY <1>2 DEF SessionEnds, TypeInv, TypeOK, settingVars, statVars
  <1>3. CASE CheckSkips \/ CheckPasses \/ CheckLow
    <2>1. counted \in 0..CountWord-1
      BY WordAssumption DEF counted, TypeInv, TypeOK
    <2>2. consecutiveLowCount' \in 0..CountWord-1 /\ checkAge' = 0
      BY <1>0, <1>3, <2>1 DEF CheckSkips, CheckPasses, CheckLow, TypeInv, TypeOK
    <2>3. UNCHANGED <<isStreaming, nominal, audioPacketsSent, statsAge, fewest, excess, resetAge, slow,
                      minAcceptableRate, performanceCheckInterval, autoThresholdEnabled, autoRecoveryEnabled>>
      BY <1>3 DEF CheckSkips, CheckPasses, CheckLow, statVars, settingVars
    <2> QED BY <2>2, <2>3 DEF TypeInv, TypeOK
  <1>4. CASE Recover
    <2>1. audioPacketsSent' \in 0..Word-1
      <3>1. audioPacketsSent' \in {0, 1, audioPacketsSent + 1}
        BY <1>4 DEF Recover
      <3>2. audioPacketsSent \in Nat /\ audioPacketsSent < Word - 1
        BY <1>4 DEF Recover, recovers, low, judged, TypeInv, TypeOK
      <3> QED BY <3>1, <3>2, RatesTyped
    <2>2. excess' \in 0..Word-1
      <3>1. excess' = audioPacketsSent' - min2(audioPacketsSent', 1)
        BY <1>4 DEF Recover
      <3>2. /\ 0 - min2(0, 1) \in 0..Word-1 /\ 1 - min2(1, 1) \in 0..Word-1
            /\ (audioPacketsSent + 1) - min2(audioPacketsSent + 1, 1) \in 0..Word-1
        <4>1. audioPacketsSent \in 0..Word-1 /\ Word \in Nat \ {0}
          BY RatesTyped DEF TypeInv, TypeOK
        <4> QED BY <4>1 DEF min2
      <3>3. audioPacketsSent' \in {0, 1, audioPacketsSent + 1}
        BY <1>4 DEF Recover
      <3> QED BY <3>1, <3>2, <3>3
    <2>3. /\ statsAge' = 0 /\ fewest' = Fastest /\ checkAge' = 0 /\ consecutiveLowCount' = 0
          /\ isStreaming' \in BOOLEAN /\ resetAge' = 0 /\ slow' = 0
          /\ UNCHANGED <<nominal, minAcceptableRate, performanceCheckInterval, autoThresholdEnabled,
                         autoRecoveryEnabled>>
      BY <1>4 DEF Recover, settingVars
    <2> QED BY <1>0, <2>1, <2>2, <2>3 DEF TypeInv, TypeOK
  <1>5. CASE httpSet
    <2>1. /\ UNCHANGED <<isStreaming, audioPacketsSent, statsAge, fewest, excess, resetAge, checkAge,
                         consecutiveLowCount>>
          /\ slow' = 0
      BY <1>5 DEF httpSet, SetRate, SetThresholdMode, SetMinRate, SetInterval, SetRecovery, statVars
    <2>2. /\ nominal' \in Rates /\ performanceCheckInterval' \in Intervals
          /\ autoThresholdEnabled' \in BOOLEAN /\ autoRecoveryEnabled' \in BOOLEAN
          /\ minAcceptableRate' \in Limits \cup {recommended(r) : r \in Rates}
      BY <1>5 DEF httpSet, SetRate, SetThresholdMode, SetMinRate, SetInterval, SetRecovery, TypeInv, TypeOK
    <2> QED BY <2>1, <2>2 DEF TypeInv, TypeOK
  <1> QED BY <1>1, <1>2, <1>3, <1>4, <1>5 DEF checkPerformance

-----------------------------------------------------------------------------
(* Recovery in time. *)

LEMMA Budget ==
  ASSUME NEW c \in 0..CountWord-1, NEW age \in Nat, NEW k \in Intervals
  PROVE  /\ k \in Nat \ {0} /\ minutesLeft(age, k) \in 0..k
         /\ checksLeft(c) \in {1, 2, 3, 4}
         /\ (1 - 1) * k = 0 /\ (2 - 1) * k = k /\ (3 - 1) * k = k + k /\ (4 - 1) * k = k + k + k
         /\ 4 * k = k + k + k + k
  <1>1. k \in Nat \ {0}
    BY IntervalsAssumption
  <1>2. minutesLeft(age, k) \in 0..k
    BY <1>1 DEF minutesLeft
  <1>3. (c + 1) % CountWord \in Nat
    BY WordAssumption
  <1>4. checksLeft(c) \in {1, 2, 3, 4}
    BY <1>3 DEF checksLeft
  <1>5. /\ (1 - 1) * k = 0 /\ (2 - 1) * k = k /\ (3 - 1) * k = k + k /\ (4 - 1) * k = k + k + k
        /\ 4 * k = k + k + k + k
    BY <1>1
  <1> QED BY <1>1, <1>2, <1>4, <1>5

(* Whatever the count, it is four checks away from the third low rate.      *)
LEMMA FourChecks ==
  ASSUME NEW c \in 0..CountWord-1, NEW age \in Nat, NEW k \in Intervals, NEW s \in {0, 1, 2}
  PROVE  InTime(s, age, c, k)
  BY Budget DEF InTime, Cooldown

LEMMA AMinute ==
  ASSUME NEW c \in 0..CountWord-1, NEW age \in Nat, NEW k \in Intervals, NEW s \in Nat,
         InTime(s, age, c, k), age < k
  PROVE  InTime(s + 1, age + 1, c, k) /\ InTime(0, age + 1, c, k)
  <1>1. minutesLeft(age + 1, k) = minutesLeft(age, k) - 1 /\ k \in Nat
    BY Budget DEF minutesLeft
  <1> QED BY <1>1, Budget DEF InTime, Cooldown

(* A check that counts a low rate brings the third one nearer.              *)
LEMMA ACheck ==
  ASSUME NEW c \in 0..CountWord-1, NEW age \in Nat, NEW k \in Intervals, NEW s \in Nat,
         InTime(s, age, c, k), age >= k, (c + 1) % CountWord < 3
  PROVE  InTime(s, 0, (c + 1) % CountWord, k)
  <1> DEFINE n == (c + 1) % CountWord
  <1>1. n \in {0, 1, 2} /\ n \in 0..CountWord-1 /\ (n + 1) % CountWord = n + 1
    BY WordAssumption
  <1> HIDE DEF n
  <1>2. checksLeft(n) = IF n + 1 >= 3 THEN 1 ELSE 4 - (n + 1)
    BY <1>1 DEF checksLeft
  <1>3. checksLeft(c) = IF n = 0 THEN 4 ELSE 4 - n
    BY <1>1 DEF checksLeft, n
  <1>4. minutesLeft(age, k) = 0 /\ minutesLeft(0, k) = k
    BY Budget DEF minutesLeft
  <1>5. s + 0 + (checksLeft(c) - 1) * k <= 4 * k + 2
    BY <1>4 DEF InTime, Cooldown
  <1>6. s + k + (checksLeft(n) - 1) * k <= 4 * k + 2
    BY <1>1, <1>2, <1>3, <1>5, Budget
  <1> QED BY <1>4, <1>6 DEF InTime, Cooldown, n

LEMMA WithinBound ==
  ASSUME NEW c \in 0..CountWord-1, NEW age \in Nat, NEW k \in Intervals, NEW s \in Nat,
         InTime(s, age, c, k)
  PROVE  s <= 4 * k + Cooldown
  BY Budget DEF InTime, Cooldown

(* A rate that is too low looks too low, whatever the word keeps of it.     *)
LEMMA LooksLow ==
  ASSUME TypeOK, RecoveryInv, slow > 0, excess = 0, resetAge = Cooldown
  PROVE  low
  <1>1. /\ audioPacketsSent \in Nat /\ statsAge \in Nat /\ statsAge > 0 /\ isStreaming
        /\ minAcceptableRate \in Nat
    BY RatesTyped DEF TypeOK, RecoveryInv
  <1>2. audioPacketsSent < minAcceptableRate * statsAge
    <2>1. audioPacketsSent - 0 < minAcceptableRate * statsAge
      BY DEF RecoveryInv
    <2> QED BY <1>1, <2>1
  <1>3. currentRate < minAcceptableRate
    BY <1>1, <1>2, RateLow, RatesTyped DEF currentRate
  <1> QED BY <1>1, <1>3 DEF low, judged

LEMMA RecoveryMinute ==
  ASSUME TypeOK, RecoveryInv, NEW n \in {0, nominal}, Minute(n)
  PROVE  RecoveryInv'
  <1>1. /\ performanceCheckInterval \in Intervals /\ checkAge \in Nat /\ slow \in Nat
        /\ resetAge \in {0, 1, 2} /\ consecutiveLowCount \in 0..CountWord-1
        /\ performanceCheckInterval \in Nat
    BY IntervalsAssumption DEF TypeOK, Cooldown
  <1>2. /\ checkAge < performanceCheckInterval /\ checkAge' = checkAge + 1
        /\ resetAge' = min2(resetAge + 1, 2)
        /\ UNCHANGED <<isStreaming, nominal, excess, consecutiveLowCount, minAcceptableRate,
                       performanceCheckInterval, autoRecoveryEnabled>>
        /\ slow' = IF isStreaming /\ autoRecoveryEnabled
                        /\ audioPacketsSent' - excess < minAcceptableRate * statsAge'
                   THEN slow + 1 ELSE 0
    BY <1>1 DEF Minute, settingVars, Cooldown, due
  <1>3. resetAge' = IF resetAge < 2 THEN resetAge + 1 ELSE 2
    BY <1>1, <1>2 DEF min2
  <1>4. slow' > 0 => /\ isStreaming' /\ autoRecoveryEnabled' /\ statsAge' > 0
                     /\ audioPacketsSent' - excess' < minAcceptableRate' * statsAge'
    <2>1. isStreaming => statsAge' = statsAge + 1 /\ statsAge + 1 > 0
      BY RatesTyped DEF Minute, TypeOK
    <2> QED BY <1>2, <2>1
  <1>5. resetAge' < 2 => slow' <= resetAge'
    <2>1. CASE resetAge = 0
      BY <1>1, <1>2, <1>3, <2>1 DEF RecoveryInv, Cooldown
    <2>2. CASE resetAge # 0
      <3>1. resetAge' = 2
        BY <1>1, <1>3, <2>2
      <3> QED BY <3>1
    <2> QED BY <2>1, <2>2
  <1>6. ASSUME excess = 0, resetAge' = 2
        PROVE  InTime(slow', checkAge + 1, consecutiveLowCount, performanceCheckInterval)
    <2>1. CASE resetAge = 2
      <3>1. InTime(slow, checkAge, consecutiveLowCount, performanceCheckInterval)
        BY <1>6, <2>1 DEF RecoveryInv, Cooldown
      <3>2. /\ InTime(slow + 1, checkAge + 1, consecutiveLowCount, performanceCheckInterval)
            /\ InTime(0, checkAge + 1, consecutiveLowCount, performanceCheckInterval)
        BY <1>1, <1>2, <3>1, AMinute
      <3> QED BY <1>2, <3>2
    <2>2. CASE resetAge # 2
      <3>1. slow <= resetAge /\ resetAge = 1
        BY <1>1, <1>3, <1>6, <2>2 DEF RecoveryInv, Cooldown
      <3>2. slow + 1 \in {0, 1, 2} /\ checkAge + 1 \in Nat
        BY <1>1, <3>1
      <3>3. /\ InTime(slow + 1, checkAge + 1, consecutiveLowCount, performanceCheckInterval)
            /\ InTime(0, checkAge + 1, consecutiveLowCount, performanceCheckInterval)
        BY <1>1, <3>2, FourChecks
      <3> QED BY <1>2, <3>3
    <2> QED BY <2>1, <2>2
  <1> QED BY <1>2, <1>4, <1>5, <1>6 DEF RecoveryInv, Cooldown

LEMMA RecoveryCheck ==
  ASSUME TypeOK, TypeOK', RecoveryInv, CheckSkips \/ CheckPasses \/ CheckLow
  PROVE  RecoveryInv'
  <1>1. /\ performanceCheckInterval \in Intervals /\ checkAge \in Nat /\ slow \in Nat
        /\ resetAge \in {0, 1, 2} /\ consecutiveLowCount \in 0..CountWord-1
        /\ consecutiveLowCount' \in 0..CountWord-1
    BY DEF TypeOK, Cooldown
  <1>2. /\ checkAge >= performanceCheckInterval /\ checkAge' = 0
        /\ UNCHANGED <<isStreaming, audioPacketsSent, statsAge, excess, resetAge, minAcceptableRate,
                       performanceCheckInterval, autoRecoveryEnabled, slow>>
    BY DEF CheckSkips, CheckPasses, CheckLow, statVars, settingVars, due
  <1>3. ASSUME excess = 0, resetAge = Cooldown
        PROVE  InTime(slow, 0, consecutiveLowCount', performanceCheckInterval)
    <2>1. CASE slow = 0
      BY <1>1, <2>1, FourChecks
    <2>2. CASE slow > 0
      <3>1. low /\ autoRecoveryEnabled
        BY <1>3, <2>2, LooksLow DEF RecoveryInv
      <3>2. consecutiveLowCount' = counted /\ ~recovers
        BY <3>1 DEF CheckSkips, CheckPasses, CheckLow, low
      <3>3. (consecutiveLowCount + 1) % CountWord < 3
        <4>1. (consecutiveLowCount + 1) % CountWord \in Nat
          BY <1>1, WordAssumption
        <4> QED BY <3>1, <3>2, <4>1 DEF recovers, counted
      <3>4. InTime(slow, checkAge, consecutiveLowCount, performanceCheckInterval)
        BY <1>3 DEF RecoveryInv
      <3>5. InTime(slow, 0, (consecutiveLowCount + 1) % CountWord, performanceCheckInterval)
        BY <1>1, <1>2, <3>3, <3>4, ACheck
      <3> QED BY <3>2, <3>5 DEF counted
    <2> QED BY <1>1, <2>1, <2>2
  <1> QED BY <1>2, <1>3 DEF RecoveryInv

(* Whatever begins the account anew leaves four checks and a cool-down.     *)
LEMMA RecoveryReset ==
  ASSUME TypeOK', slow' = 0
  PROVE  RecoveryInv'
  <1>1. /\ performanceCheckInterval' \in Intervals /\ checkAge' \in Nat
        /\ consecutiveLowCount' \in 0..CountWord-1
    BY DEF TypeOK
  <1>2. InTime(0, checkAge', consecutiveLowCount', performanceCheckInterval')
    BY <1>1, FourChecks
  <1>3. resetAge' < Cooldown => 0 <= resetAge'
    <2>1. resetAge' \in {0, 1, 2}
      BY DEF TypeOK, Cooldown
    <2> QED BY <2>1
  <1> QED BY <1>2, <1>3 DEF RecoveryInv

-----------------------------------------------------------------------------
(* The theorems. *)

(* The packets counted since the statistics began cover the fewest of any   *)
(* minute times the minutes: the inductive invariant.                       *)
THEOREM HealthCorrect == Spec => []HealthInv
  <1>1. Init => HealthInv
    BY RatesTyped DEF Init, HealthInv
  <1>2. HealthInv /\ [Next]_vars => HealthInv'
    <2>1. HealthInv /\ UNCHANGED vars => HealthInv'
      BY DEF HealthInv, vars, statVars, settingVars
    <2> QED BY <2>1, MinuteStep, OtherStep DEF Next
  <1> QED BY <1>1, <1>2, PTL DEF Spec

(* checkPerformance restarts a stream by itself only after a minute that    *)
(* really was too slow, or when its 32-bit product has wrapped.             *)
THEOREM AlarmsAreReal == Spec => NoFalseAlarm
  <1>1. HealthInv /\ recovers => fewest < minAcceptableRate \/ wrapped
    <2> SUFFICES ASSUME HealthInv, recovers, ~wrapped PROVE fewest < minAcceptableRate
      OBVIOUS
    <2>1. /\ audioPacketsSent \in Nat /\ statsAge \in Nat \ {0} /\ fewest \in Nat
          /\ minAcceptableRate \in Nat /\ audioPacketsSent >= fewest * statsAge
          /\ currentRate < minAcceptableRate
      BY DEF HealthInv, recovers, low, judged
    <2>2. (audioPacketsSent * Milli) % Word = audioPacketsSent * Milli
      <3>1. audioPacketsSent * Milli \in 0..Word-1
        BY <2>1, RatesTyped DEF wrapped
      <3> QED BY <3>1, RatesTyped
    <2>3. currentRate >= fewest
      BY <2>1, <2>2, Average, RatesTyped DEF currentRate
    <2>4. currentRate \in Int
      <3>1. audioPacketsSent * Milli \in Nat /\ statsAge * Milli \in Nat /\ statsAge * Milli > 0
        BY <2>1, RatesTyped
      <3> QED BY <2>2, <3>1 DEF currentRate
    <2> QED BY <2>1, <2>3, <2>4
  <1> QED BY <1>1, HealthCorrect, PTL DEF NoFalseAlarm

(* The counters of checkPerformance keep their words and types.             *)
THEOREM TypeCorrect == Spec => []TypeInv
  <1>1. Init => TypeInv
    <2>1. /\ 0 \in 0..Word-1 /\ 0 \in 0..Longest /\ 0 \in 0..CountWord-1 /\ Fastest \in 0..Fastest
          /\ Cooldown \in 0..Cooldown
      BY RatesTyped, WordAssumption DEF Cooldown
    <2>2. Init => minAcceptableRate \in Limits \cup {recommended(r) : r \in Rates}
      BY DEF Init
    <2>3. Init => {isStreaming, autoThresholdEnabled, autoRecoveryEnabled} \subseteq BOOLEAN
      BY DEF Init
    <2>4. Init => TypeOK
      BY <2>1, <2>2, <2>3 DEF Init, TypeOK
    <2>5. Init => ~(statsAge > 0)
      BY DEF Init
    <2> QED BY <2>4, <2>5 DEF TypeInv
  <1>2. TypeInv /\ [Next]_vars => TypeInv'
    <2>1. TypeInv /\ UNCHANGED vars => TypeInv'
      BY DEF TypeInv, TypeOK, vars, statVars, settingVars
    <2> QED BY <2>1, TypeMinute, TypeOther DEF Next
  <1> QED BY <1>1, <1>2, PTL DEF Spec

(* checkPerformance acts in time on a rate that really is too low, whatever *)
(* the 8-bit count of low rates held when it became so.                     *)
THEOREM RecoveredInTime == Spec => []LowRateRecovered
  <1>1. Init => RecoveryInv
    <2>1. 0 \in 0..CountWord-1 /\ 0 \in Nat
      BY WordAssumption
    <2>2. Init => InTime(slow, checkAge, consecutiveLowCount, performanceCheckInterval)
      BY <2>1, FourChecks DEF Init
    <2> QED BY <2>2 DEF Init, RecoveryInv, Cooldown
  <1>2. TypeInv /\ TypeInv' /\ RecoveryInv /\ [Next]_vars => RecoveryInv'
    <2> SUFFICES ASSUME TypeInv, TypeInv', RecoveryInv, [Next]_vars PROVE RecoveryInv'
      OBVIOUS
    <2>0. TypeOK /\ TypeOK'
      BY DEF TypeInv
    <2>1. CASE UNCHANGED vars
      BY <2>1 DEF vars, statVars, settingVars, RecoveryInv
    <2>2. ASSUME NEW n \in {0, nominal}, Minute(n) PROVE RecoveryInv'
      BY <2>0, <2>2, RecoveryMinute
    <2>3. CASE CheckSkips \/ CheckPasses \/ CheckLow
      BY <2>0, <2>3, RecoveryCheck
    <2>4. CASE Play \/ SessionEnds \/ Recover \/ httpSet
      <3>1. slow' = 0
        BY <2>4 DEF Play, SessionEnds, Recover, httpSet, SetRate, SetThresholdMode, SetMinRate, SetInterval,
                    SetRecovery
      <3> QED BY <2>0, <3>1, RecoveryReset
    <2> QED BY <2>1, <2>2, <2>3, <2>4 DEF Next, checkPerformance
  <1>3. TypeInv /\ RecoveryInv => LowRateRecovered
    <2> SUFFICES ASSUME TypeOK, RecoveryInv, excess = 0
                 PROVE  slow <= 4 * performanceCheckInterval + 2
      <3>1. TypeOK => excess \in Nat
        BY RatesTyped DEF TypeOK
      <3> QED BY <3>1 DEF TypeInv, LowRateRecovered, Cooldown
    <2>1. /\ performanceCheckInterval \in Intervals /\ checkAge \in Nat /\ slow \in Nat
          /\ resetAge \in {0, 1, 2} /\ consecutiveLowCount \in 0..CountWord-1
      BY DEF TypeOK, Cooldown
    <2>2. CASE resetAge = 2
      <3>1. InTime(slow, checkAge, consecutiveLowCount, performanceCheckInterval)
        BY <2>2 DEF RecoveryInv, Cooldown
      <3> QED BY <2>1, <3>1, WithinBound DEF Cooldown
    <2>3. CASE resetAge # 2
      <3>1. slow <= 2 /\ performanceCheckInterval \in Nat
        BY <2>1, <2>3, IntervalsAssumption DEF RecoveryInv, Cooldown
      <3> QED BY <2>1, <3>1
    <2> QED BY <2>2, <2>3
  <1> QED BY <1>1, <1>2, <1>3, TypeCorrect, PTL DEF Spec
=============================================================================
