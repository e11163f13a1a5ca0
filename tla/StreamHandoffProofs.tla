------------------------ MODULE StreamHandoffProofs ------------------------
(* Theorems about StreamHandoff, for every set of tasks and buffer sizes. *)
EXTENDS StreamHandoff, TLAPS

-----------------------------------------------------------------------------
(* Typing, in every regime. *)

LEMMA TypeInit == Init => TypeOK
  BY SizeAssumption DEF Init, TypeOK, Label0, LoopLabel, Caller, Label1, Cause, NULL

(* Core 0's steps keep the types: every label a step goes to is a label. *)
LEMMA TypeCore0 == TypeOK /\ Core0 => TypeOK'
  <1> SUFFICES ASSUME TypeOK, Core0 PROVE TypeOK'
    OBVIOUS
  <1> USE DEF TypeOK, goto, Pass, Call, StopOr, Label0, LoopLabel, StopLabel, JoinLabel, RestartLabel,
              PlayLabel, Caller, loopVars, configVars, serverVars, sharedVars, streamVars,
              stopVars, joinVars, deviceVars, taskVars
  <1>1. CASE Skip
    BY <1>1 DEF Skip, AfterSkip
  <1>2. CASE httpStatus
    BY <1>2 DEF httpStatus
  <1>3. CASE httpActionServerStart
    <2>1. overheatLockoutActive' \in BOOLEAN /\ rtspServerEnabled' \in BOOLEAN
      BY <1>3, Zenon DEF httpActionServerStart
    <2> QED
      BY <1>3, <2>1 DEF httpActionServerStart
  <1>4. CASE httpThermalClear
    <2>1. overheatLatched' \in BOOLEAN /\ overheatLockoutActive' \in BOOLEAN /\ rtspServerEnabled' \in BOOLEAN
      BY <1>4, Zenon DEF httpThermalClear
    <2> QED
      BY <1>4, <2>1 DEF httpThermalClear
  <1>5. CASE httpSetThermal
    <2>1. overheatLockoutActive' \in BOOLEAN
      BY <1>5, Zenon DEF httpSetThermal
    <2> QED
      BY <1>5, <2>1 DEF httpSetThermal
  <1>6. CASE httpRestart
    BY <1>6 DEF httpRestart
  <1>7. CASE \E size \in BufferSizes : httpSetBuffer(size)
    BY <1>7 DEF httpSetBuffer
  <1>8. CASE httpActionServerStop
    BY <1>8 DEF httpActionServerStop
  <1>9. CASE checkTemperatureTrip
    <2>1. overheatLockoutActive' \in BOOLEAN /\ overheatLatched' \in BOOLEAN
      BY <1>9, Zenon DEF checkTemperatureTrip
    <2> QED
      BY <1>9, <2>1 DEF checkTemperatureTrip
  <1>10. CASE checkTemperatureRearm
    <2>1. overheatLockoutActive' \in BOOLEAN
      BY <1>10, Zenon DEF checkTemperatureRearm
    <2> QED
      BY <1>10, <2>1 DEF checkTemperatureRearm
  <1>11. CASE ServerOff
    <2>1. rtspServerEnabled' \in BOOLEAN
      BY <1>11, Zenon DEF ServerOff
    <2> QED
      BY <1>11, <2>1 DEF ServerOff
  <1>12. CASE checkPerformanceRecover
    BY <1>12 DEF checkPerformanceRecover
  <1>13. CASE checkWiFiHealthLost
    BY <1>13 DEF checkWiFiHealthLost
  <1>14. CASE StopEntry
    <2>1. stopStreamRequested' \in BOOLEAN
      BY <1>14, Zenon DEF StopEntry
    <2> QED
      BY <1>14, <2>1 DEF StopEntry, AfterStop
  <1>15. CASE StopPoll
    BY <1>15 DEF StopPoll
  <1>16. CASE StopDecide
    BY <1>16 DEF StopDecide
  <1>17. CASE StopConfirmed
    <2>1. isStreaming' \in BOOLEAN
      BY <1>17, Zenon DEF StopConfirmed
    <2> QED
      BY <1>17, <2>1 DEF StopConfirmed, NULL
  <1>18. CASE StopForced
    <2>1. isStreaming' \in BOOLEAN /\ core1OwnsLED' \in BOOLEAN
      BY <1>18, Zenon DEF StopForced
    <2> QED
      BY <1>18, <2>1 DEF StopForced, NULL
  <1>19. CASE StopAck
    <2>1. stopStreamRequested' \in BOOLEAN /\ streamCleanupDone' \in BOOLEAN
      BY <1>19, Zenon DEF StopAck
    <2> QED
      BY <1>19, <2>1 DEF StopAck, AfterStop
  <1>20. CASE TaskStop
    <2>1. audioTaskRunning' \in BOOLEAN
      BY <1>20, Zenon DEF TaskStop
    <2> QED
      BY <1>20, <2>1 DEF TaskStop
  <1>21. CASE TaskJoin
    BY <1>21 DEF TaskJoin
  <1>22. CASE TaskJoinTimeout
    BY <1>22 DEF TaskJoinTimeout
  <1>23. CASE TaskForget
    BY <1>23 DEF TaskForget, AfterJoin
  <1>24. CASE Restart
    BY <1>24 DEF Restart
  <1>25. CASE RestartStop
    BY <1>25 DEF RestartStop
  <1>26. CASE I2SSetup
    BY <1>26 DEF I2SSetup
  <1>27. CASE RestartDone
    <2>1. resume0' \in BOOLEAN
      BY <1>27, Zenon DEF RestartDone
    <2> QED
      BY <1>27, <2>1 DEF RestartDone, AfterRestart
  <1>28. CASE RestartResume
    BY <1>28 DEF RestartResume
  <1>29. CASE PlayClient
    BY <1>29 DEF PlayClient, rtspClient, NULL
  <1>30. CASE PlayStream
    <2>1. isStreaming' \in BOOLEAN
      BY <1>30, Zenon DEF PlayStream
    <2> QED
      BY <1>30, <2>1 DEF PlayStream
  <1>31. CASE StartTask
    <2>1. resume0' \in BOOLEAN
      BY <1>31, Zenon DEF StartTask
    <2> QED
      BY <1>31, <2>1 DEF StartTask, AfterRestart, NewTask, NoNewTask, Label1, StartLabel, live
  <1>32. CASE Idle
    BY <1>32 DEF Idle
  <1>33. CASE IdleCheck
    BY <1>33 DEF IdleCheck
  <1>34. CASE IdleStop
    <2>1. connected' \in BOOLEAN
      BY <1>34, Zenon DEF IdleStop
    <2> QED
      BY <1>34, <2>1 DEF IdleStop
  <1>35. CASE Detect
    <2>1. Call("rtsp", "detect", "ledCheck") \/ Pass("rtsp", "update")
      BY <1>35 DEF Detect
    <2> QED
      BY <2>1
  <1>36. CASE ServerDisabled
    BY <1>36 DEF ServerDisabled
  <1>37. CASE LedCheck
    BY <1>37 DEF LedCheck, AfterLed
  <1>38. CASE LedDraw
    BY <1>38 DEF LedDraw, AfterLed
  <1>39. CASE Update
    BY <1>39 DEF Update
  <1>40. CASE Admit
    BY <1>40 DEF Admit
  <1>41. CASE Accept
    <2>1. connected' \in BOOLEAN
      BY <1>41, Zenon DEF Accept
    <2> QED
      BY <1>41, <2>1 DEF Accept
  <1>42. CASE RtspOther
    BY <1>42 DEF RtspOther
  <1>43. CASE RtspPlay
    <2>1. stopStreamRequested' \in BOOLEAN /\ streamCleanupDone' \in BOOLEAN /\ core1OwnsLED' \in BOOLEAN
      BY <1>43, Zenon DEF RtspPlay
    <2> QED
      BY <1>43, <2>1 DEF RtspPlay
  <1>44. CASE RtspTeardown
    BY <1>44 DEF RtspTeardown
  <1> QED
    BY <1>1, <1>2, <1>3, <1>4, <1>5, <1>6, <1>7, <1>8, <1>9, <1>10, <1>11, <1>12, <1>13, <1>14, <1>15, <1>16, <1>17, <1>18, <1>19, <1>20, <1>21, <1>22, <1>23, <1>24, <1>25, <1>26, <1>27, <1>28, <1>29, <1>30, <1>31, <1>32, <1>33, <1>34, <1>35, <1>36, <1>37, <1>38, <1>39, <1>40, <1>41, <1>42, <1>43, <1>44 DEF Core0

(* So do the steps of a task. *)
LEMMA TypeCore1 == ASSUME TypeOK, NEW t \in Task, Core1(t) PROVE TypeOK'
  <1> USE DEF TypeOK, at, move, Label1, StartLabel, GateLabel, BlockLabel, CleanLabel,
              ExitLabel, Cause, core0Vars, loopVars, configVars, serverVars, sharedVars,
              streamVars, stopVars, joinVars, deviceVars, NULL, rtspClient
  <1>1. CASE TaskInit(t)
    <2>1. audioTaskRunning' \in BOOLEAN
      BY <1>1, Zenon DEF TaskInit
    <2> QED
      BY <1>1, <2>1 DEF TaskInit
  <1>2. CASE TaskAlloc(t)
    BY <1>2 DEF TaskAlloc
  <1>3. CASE TaskAllocFails(t)
    <2>1. audioTaskRunning' \in BOOLEAN
      BY <1>3, Zenon DEF TaskAllocFails
    <2> QED
      BY <1>3, <2>1 DEF TaskAllocFails
  <1>4. CASE TaskLoop(t)
    BY <1>4 DEF TaskLoop, Look
  <1>5. CASE TaskCheck(t)
    BY <1>5 DEF TaskCheck
  <1>6. CASE TaskGate(t)
    BY <1>6 DEF TaskGate, Look
  <1>7. CASE TaskGrab(t)
    BY <1>7 DEF TaskGrab
  <1>8. CASE TaskNoBlock(t)
    BY <1>8 DEF TaskNoBlock, Look
  <1>9. CASE TaskBlock(t)
    BY <1>9 DEF TaskBlock, Look
  <1>10. CASE TaskLed(t)
    BY <1>10 DEF TaskLed
  <1>11. CASE TaskConn(t)
    BY <1>11 DEF TaskConn, Look, GiveUp
  <1>12. CASE TaskWrite(t)
    BY <1>12 DEF TaskWrite, Look, GiveUp
  <1>13. CASE TaskRtspCheck(t)
    BY <1>13 DEF TaskRtspCheck, Look
  <1>14. CASE TaskRtspRead(t)
    BY <1>14 DEF TaskRtspRead, Look, GiveUp
  <1>15. CASE TaskClose(t)
    <2>1. connected' \in BOOLEAN
      BY <1>15, Zenon DEF TaskClose
    <2> QED
      BY <1>15, <2>1 DEF TaskClose
  <1>16. CASE TaskClearClient(t)
    BY <1>16 DEF TaskClearClient
  <1>17. CASE TaskClearStream(t)
    <2>1. isStreaming' \in BOOLEAN
      BY <1>17, Zenon DEF TaskClearStream
    <2> QED
      BY <1>17, <2>1 DEF TaskClearStream
  <1>18. CASE TaskClearLed(t)
    <2>1. core1OwnsLED' \in BOOLEAN
      BY <1>18, Zenon DEF TaskClearLed
    <2> QED
      BY <1>18, <2>1 DEF TaskClearLed, AfterClean
  <1>19. CASE TaskConfirm(t)
    <2>1. streamCleanupDone' \in BOOLEAN
      BY <1>19, Zenon DEF TaskConfirm
    <2> QED
      BY <1>19, <2>1 DEF TaskConfirm
  <1>20. CASE TaskPark(t)
    BY <1>20 DEF TaskPark, Look
  <1>21. CASE TaskExit(t)
    <2>1. core1OwnsLED' \in BOOLEAN
      BY <1>21, Zenon DEF TaskExit
    <2> QED
      BY <1>21, <2>1 DEF TaskExit
  <1>22. CASE TaskExitFlag(t)
    <2>1. audioTaskRunning' \in BOOLEAN
      BY <1>22, Zenon DEF TaskExitFlag
    <2> QED
      BY <1>22, <2>1 DEF TaskExitFlag
  <1>23. CASE TaskGive(t)
    BY <1>23 DEF TaskGive
  <1> QED
    BY <1>1, <1>2, <1>3, <1>4, <1>5, <1>6, <1>7, <1>8, <1>9, <1>10, <1>11, <1>12, <1>13, <1>14, <1>15, <1>16, <1>17, <1>18, <1>19, <1>20, <1>21, <1>22, <1>23 DEF Core1

LEMMA TypeStep == TypeOK /\ [Next]_vars => TypeOK'
  <1> SUFFICES ASSUME TypeOK, [Next]_vars PROVE TypeOK'
    OBVIOUS
  <1>1. CASE Core0
    BY <1>1, TypeCore0
  <1>2. CASE \E t \in Task : Core1(t)
    BY <1>2, TypeCore1
  <1>3. CASE PeerCloses
    <2>1. connected' \in BOOLEAN
      BY <1>3, Zenon DEF PeerCloses
    <2> QED
      BY <1>3, <2>1 DEF TypeOK, PeerCloses, core0Vars, loopVars, configVars, serverVars,
         sharedVars, streamVars, stopVars, joinVars, taskVars
  <1>4. CASE UNCHANGED vars
    BY <1>4 DEF TypeOK, vars, loopVars, serverVars, streamVars, stopVars, joinVars,
       deviceVars, taskVars
  <1> QED
    BY <1>1, <1>2, <1>3, <1>4 DEF Next

(* Every variable keeps its type, whatever stalls, wraps, fails or leaves. *)
THEOREM TypeCorrect == Spec => []TypeOK
  BY TypeInit, TypeStep, PTL DEF Spec

-----------------------------------------------------------------------------
(* The server switch and the thermal latch, in every regime.                *)

LEMMA ServerInit == Init => ServerInv
  <1> SUFFICES ASSUME Init PROVE ServerInv
    OBVIOUS
  <1>1. TypeOK
    BY TypeInit
  <1> QED
    BY <1>1 DEF Init, ServerInv, CallerInv, NeedsServer, ServerOnInv, QuietInv, QuietLabel,
       ThermalSilence, StopLabel, JoinLabel, RestartLabel, PlayLabel

(* Only Core 0 moves between labels, sets isStreaming or flips the switch.  *)
LEMMA ServerCore0 == ServerInv /\ Core0 => ServerInv'
  <1> SUFFICES ASSUME ServerInv, Core0 PROVE ServerInv'
    OBVIOUS
  <1>0. TypeOK'
    BY TypeCore0 DEF ServerInv
  <1> USE <1>0 DEF ServerInv, CallerInv, NeedsServer, ServerOnInv, QuietInv, QuietLabel,
      ThermalSilence, LoopLabel, StopLabel, JoinLabel, RestartLabel, PlayLabel, goto, Pass, Call,
      StopOr,       loopVars, configVars, serverVars, sharedVars, streamVars
  <1>1. CASE Skip
    BY <1>1 DEF Skip, AfterSkip
  <1>2. CASE httpStatus
    BY <1>2 DEF httpStatus
  <1>3. CASE httpActionServerStart
    BY <1>3 DEF httpActionServerStart
  <1>4. CASE httpThermalClear
    BY <1>4 DEF httpThermalClear
  <1>5. CASE httpSetThermal
    BY <1>5 DEF httpSetThermal
  <1>6. CASE httpRestart
    BY <1>6 DEF httpRestart
  <1>7. CASE \E size \in BufferSizes : httpSetBuffer(size)
    BY <1>7 DEF httpSetBuffer
  <1>8. CASE httpActionServerStop
    BY <1>8 DEF httpActionServerStop
  <1>9. CASE checkTemperatureTrip
    BY <1>9 DEF checkTemperatureTrip
  <1>10. CASE checkTemperatureRearm
    BY <1>10 DEF checkTemperatureRearm
  <1>11. CASE ServerOff
    BY <1>11 DEF ServerOff
  <1>12. CASE checkPerformanceRecover
    BY <1>12 DEF checkPerformanceRecover
  <1>13. CASE checkWiFiHealthLost
    BY <1>13 DEF checkWiFiHealthLost
  <1>14. CASE StopEntry
    BY <1>14 DEF StopEntry, AfterStop
  <1>15. CASE StopPoll
    BY <1>15 DEF StopPoll
  <1>16. CASE StopDecide
    BY <1>16 DEF StopDecide
  <1>17. CASE StopConfirmed
    BY <1>17 DEF StopConfirmed, NULL
  <1>18. CASE StopForced
    BY <1>18 DEF StopForced, NULL
  <1>19. CASE StopAck
    BY <1>19 DEF StopAck, AfterStop
  <1>20. CASE TaskStop
    BY <1>20 DEF TaskStop
  <1>21. CASE TaskJoin
    BY <1>21 DEF TaskJoin
  <1>22. CASE TaskJoinTimeout
    BY <1>22 DEF TaskJoinTimeout
  <1>23. CASE TaskForget
    BY <1>23 DEF TaskForget, AfterJoin
  <1>24. CASE Restart
    BY <1>24 DEF Restart
  <1>25. CASE RestartStop
    BY <1>25 DEF RestartStop
  <1>26. CASE I2SSetup
    BY <1>26 DEF I2SSetup
  <1>27. CASE RestartDone
    BY <1>27 DEF RestartDone, AfterRestart
  <1>28. CASE RestartResume
    BY <1>28 DEF RestartResume
  <1>29. CASE PlayClient
    BY <1>29 DEF PlayClient, rtspClient, NULL
  <1>30. CASE PlayStream
    BY <1>30 DEF PlayStream
  <1>31. CASE StartTask
    BY <1>31 DEF StartTask, AfterRestart, NewTask, NoNewTask
  <1>32. CASE Idle
    BY <1>32 DEF Idle
  <1>33. CASE IdleCheck
    BY <1>33 DEF IdleCheck
  <1>34. CASE IdleStop
    BY <1>34 DEF IdleStop
  <1>35. CASE Detect
    BY <1>35 DEF Detect
  <1>36. CASE ServerDisabled
    BY <1>36 DEF ServerDisabled
  <1>37. CASE LedCheck
    BY <1>37 DEF LedCheck, AfterLed
  <1>38. CASE LedDraw
    BY <1>38 DEF LedDraw, AfterLed
  <1>39. CASE Update
    BY <1>39 DEF Update
  <1>40. CASE Admit
    BY <1>40 DEF Admit
  <1>41. CASE Accept
    BY <1>41 DEF Accept
  <1>42. CASE RtspOther
    BY <1>42 DEF RtspOther
  <1>43. CASE RtspPlay
    BY <1>43 DEF RtspPlay
  <1>44. CASE RtspTeardown
    BY <1>44 DEF RtspTeardown
  <1> QED
    BY <1>1, <1>2, <1>3, <1>4, <1>5, <1>6, <1>7, <1>8, <1>9, <1>10, <1>11, <1>12, <1>13, <1>14, <1>15, <1>16, <1>17, <1>18, <1>19, <1>20, <1>21, <1>22, <1>23, <1>24, <1>25, <1>26, <1>27, <1>28, <1>29, <1>30, <1>31, <1>32, <1>33, <1>34, <1>35, <1>36, <1>37, <1>38, <1>39, <1>40, <1>41, <1>42, <1>43, <1>44 DEF Core0

(* A task never moves Core 0 and never starts a stream. *)
LEMMA TaskOnlyEnds ==
  ASSUME NEW t \in Task, Core1(t)
  PROVE  core0Vars' = core0Vars /\ (isStreaming' => isStreaming)
  <1> USE DEF Look, GiveUp, sharedVars, streamVars
  <1>1. CASE TaskInit(t)
    BY <1>1 DEF TaskInit
  <1>2. CASE TaskAlloc(t)
    BY <1>2 DEF TaskAlloc
  <1>3. CASE TaskAllocFails(t)
    BY <1>3 DEF TaskAllocFails
  <1>4. CASE TaskLoop(t)
    BY <1>4 DEF TaskLoop
  <1>5. CASE TaskCheck(t)
    BY <1>5 DEF TaskCheck
  <1>6. CASE TaskGate(t)
    BY <1>6 DEF TaskGate
  <1>7. CASE TaskGrab(t)
    BY <1>7 DEF TaskGrab
  <1>8. CASE TaskNoBlock(t)
    BY <1>8 DEF TaskNoBlock
  <1>9. CASE TaskBlock(t)
    BY <1>9 DEF TaskBlock
  <1>10. CASE TaskLed(t)
    BY <1>10 DEF TaskLed
  <1>11. CASE TaskConn(t)
    BY <1>11 DEF TaskConn
  <1>12. CASE TaskWrite(t)
    BY <1>12 DEF TaskWrite
  <1>13. CASE TaskRtspCheck(t)
    BY <1>13 DEF TaskRtspCheck
  <1>14. CASE TaskRtspRead(t)
    BY <1>14 DEF TaskRtspRead
  <1>15. CASE TaskClose(t)
    BY <1>15 DEF TaskClose
  <1>16. CASE TaskClearClient(t)
    BY <1>16 DEF TaskClearClient
  <1>17. CASE TaskClearStream(t)
    BY <1>17 DEF TaskClearStream
  <1>18. CASE TaskClearLed(t)
    BY <1>18 DEF TaskClearLed
  <1>19. CASE TaskConfirm(t)
    BY <1>19 DEF TaskConfirm
  <1>20. CASE TaskPark(t)
    BY <1>20 DEF TaskPark
  <1>21. CASE TaskExit(t)
    BY <1>21 DEF TaskExit
  <1>22. CASE TaskExitFlag(t)
    BY <1>22 DEF TaskExitFlag
  <1>23. CASE TaskGive(t)
    BY <1>23 DEF TaskGive
  <1> QED
    BY <1>1, <1>2, <1>3, <1>4, <1>5, <1>6, <1>7, <1>8, <1>9, <1>10, <1>11, <1>12, <1>13, <1>14, <1>15, <1>16, <1>17, <1>18, <1>19, <1>20, <1>21, <1>22, <1>23 DEF Core1

LEMMA ServerStep == ServerInv /\ [Next]_vars => ServerInv'
  <1> SUFFICES ASSUME ServerInv, [Next]_vars PROVE ServerInv'
    OBVIOUS
  <1>1. CASE Core0
    BY <1>1, ServerCore0
  <1>2. ASSUME core0Vars' = core0Vars, isStreaming' => isStreaming PROVE ServerInv'
    <2>1. TypeOK'
      BY TypeStep DEF ServerInv
    <2> QED
      BY <1>2, <2>1 DEF ServerInv, CallerInv, NeedsServer, ServerOnInv, QuietInv, ThermalSilence,
         core0Vars, loopVars, configVars, serverVars
  <1>3. CASE \E t \in Task : Core1(t)
    BY <1>2, <1>3, TaskOnlyEnds
  <1>4. CASE PeerCloses \/ UNCHANGED vars
    BY <1>2, <1>4 DEF PeerCloses, vars, core0Vars, configVars, sharedVars, streamVars
  <1> QED
    BY <1>1, <1>3, <1>4 DEF Next

THEOREM ServerInvariant == Spec => []ServerInv
  BY ServerInit, ServerStep, PTL DEF Spec

(* After a thermal trip nothing streams and nobody connects until the latch *)
(* is cleared, whatever times out or is left behind on the way.             *)
THEOREM LatchSilences == Spec => []ThermalSilence
  <1>1. ServerInv => ThermalSilence
    BY DEF ServerInv
  <1> QED
    BY <1>1, ServerInvariant, PTL

(* A server that is off does not stream and is not about to. *)
THEOREM OffSilences == Spec => []ServerOffSilent
  <1>1. ServerInv => ServerOffSilent
    BY DEF ServerInv, TypeOK, ServerOnInv, NeedsServer, ServerOffSilent, PlayLabel
  <1> QED
    BY <1>1, ServerInvariant, PTL

-----------------------------------------------------------------------------
(* The server's contract, in every regime. *)

(* A step that flips no switch and starts no stream, inside a trip or out.  *)
Quieter ==
  /\ isStreaming' = isStreaming \/ isStreaming' = FALSE
  /\ overheatLatched' = overheatLatched /\ rtspServerEnabled' = rtspServerEnabled
  /\ op0' = "overheat" <=> op0 = "overheat"

LEMMA QuieterKeeps == Quieter => [Server!Next]_(Server!vars)
  BY DEF Quieter, Server!Next, Server!EndStream, Server!vars

(* Five steps do more: the switch, the latch, the end of a trip, PLAY.      *)
LEMMA ContractCore0 == ASSUME ServerInv, Core0 PROVE [Server!Next]_(Server!vars)
  <1> USE DEF ServerInv, CallerInv, NeedsServer, ServerOnInv, QuietInv, QuietLabel, ThermalSilence,
      LoopLabel, StopLabel, JoinLabel, RestartLabel, PlayLabel, goto, Pass, Call,
      loopVars, configVars, serverVars, sharedVars, streamVars, Server!vars, Server!free
  <1>1. CASE httpActionServerStart
    <2>1. /\ ~overheatLatched /\ op0 # "overheat" /\ op0' = op0 /\ rtspServerEnabled' = TRUE
          /\ overheatLatched' = overheatLatched /\ isStreaming' = isStreaming
      BY <1>1 DEF httpActionServerStart
    <2>2. Server!Start
      BY <2>1, Zenon DEF Server!Start
    <2> QED BY <2>2 DEF Server!Next
  <1>2. CASE httpThermalClear
    <2>1. /\ overheatLatched /\ op0 # "overheat" /\ op0' # "overheat" /\ overheatLatched' = FALSE
          /\ rtspServerEnabled' = TRUE /\ isStreaming' = isStreaming
      BY <1>2 DEF httpThermalClear
    <2>2. Server!Clear
      BY <2>1, Zenon DEF Server!Clear
    <2> QED BY <2>2 DEF Server!Next
  <1>3. CASE checkTemperatureTrip
    <2>1. /\ op0 # "overheat" /\ op0' = "overheat" /\ overheatLatched' = TRUE
          /\ rtspServerEnabled' = rtspServerEnabled /\ isStreaming' = isStreaming
      BY <1>3 DEF checkTemperatureTrip
    <2>2. Server!Trip
      BY <2>1, Zenon DEF Server!Trip
    <2> QED BY <2>2 DEF Server!Next
  <1>4. CASE ServerOff
    <2>1. /\ op0 \in {"serverStop", "overheat"} /\ op0' = "none" /\ ~isStreaming
          /\ rtspServerEnabled' = FALSE
          /\ isStreaming' = isStreaming /\ overheatLatched' = overheatLatched
      BY <1>4 DEF ServerOff
    <2>2. isStreaming' = FALSE
      <3>1. isStreaming \in BOOLEAN
        BY DEF TypeOK
      <3> QED BY <2>1, <3>1, Zenon
    <2>3. CASE op0 = "overheat"
      <3>1. overheatLatched
        BY <2>3
      <3>2. Server!Silence
        BY <2>1, <2>2, <2>3, <3>1, Zenon DEF Server!Silence
      <3> QED BY <3>2 DEF Server!Next
    <2>4. CASE op0 # "overheat"
      BY <2>1, <2>2, <2>4 DEF Server!Next, Server!Stop
    <2> QED BY <2>3, <2>4
  <1>5. CASE PlayStream
    <2>1. /\ rtspServerEnabled /\ op0 # "overheat" /\ op0' = op0 /\ isStreaming' = TRUE
          /\ overheatLatched' = overheatLatched /\ rtspServerEnabled' = rtspServerEnabled
      BY <1>5 DEF PlayStream
    <2>2. ~overheatLatched
      BY <2>1
    <2>3. Server!Play
      BY <2>1, <2>2, Zenon DEF Server!Play
    <2> QED BY <2>3 DEF Server!Next
  <1>6. CASE \/ Skip \/ httpStatus \/ httpSetThermal \/ httpRestart
             \/ (\E size \in BufferSizes : httpSetBuffer(size)) \/ httpActionServerStop
             \/ checkTemperatureRearm \/ checkPerformanceRecover \/ checkWiFiHealthLost
    <2>1. Quieter
      BY <1>6 DEF Quieter, Skip, httpStatus, httpSetThermal, httpRestart, httpSetBuffer, httpActionServerStop,
         checkTemperatureRearm, checkPerformanceRecover, checkWiFiHealthLost
    <2> QED BY <2>1, QuieterKeeps
  <1>7. CASE \/ StopEntry \/ StopPoll \/ StopDecide \/ StopConfirmed \/ StopForced \/ StopAck
             \/ TaskStop \/ TaskJoin \/ TaskJoinTimeout \/ TaskForget
    <2>1. Quieter
      BY <1>7 DEF Quieter, StopEntry, StopPoll, StopDecide, StopConfirmed, StopForced, StopAck,
         TaskStop, TaskJoin, TaskJoinTimeout, TaskForget
    <2> QED BY <2>1, QuieterKeeps
  <1>8. CASE \/ Restart \/ RestartStop \/ I2SSetup \/ RestartDone \/ RestartResume \/ PlayClient
             \/ StartTask \/ Idle \/ IdleCheck \/ IdleStop
    <2>1. Quieter
      BY <1>8 DEF Quieter, Restart, RestartStop, I2SSetup, RestartDone, RestartResume, PlayClient,
         StartTask, Idle, IdleCheck, IdleStop
    <2> QED BY <2>1, QuieterKeeps
  <1>9. CASE \/ Detect \/ ServerDisabled \/ LedCheck \/ LedDraw \/ Update \/ Admit \/ Accept
             \/ RtspOther \/ RtspPlay \/ RtspTeardown
    <2>1. Quieter
      BY <1>9 DEF Quieter, Detect, ServerDisabled, LedCheck, LedDraw, Update, Admit, Accept,
         RtspOther, RtspPlay, RtspTeardown
    <2> QED BY <2>1, QuieterKeeps
  <1> QED
    BY <1>1, <1>2, <1>3, <1>4, <1>5, <1>6, <1>7, <1>8, <1>9 DEF Core0

LEMMA ContractNext == ASSUME ServerInv, [Next]_vars PROVE [Server!Next]_(Server!vars)
  <1>1. CASE Core0
    BY <1>1, ContractCore0
  <1>2. CASE \E t \in Task : Core1(t)
    <2>1. core0Vars' = core0Vars /\ (isStreaming' => isStreaming)
      BY <1>2, TaskOnlyEnds
    <2>2. isStreaming \in BOOLEAN /\ isStreaming' \in BOOLEAN
      BY TypeStep DEF ServerInv, TypeOK
    <2>3. Quieter
      BY <2>1, <2>2 DEF Quieter, core0Vars, loopVars, configVars, serverVars
    <2> QED BY <2>3, QuieterKeeps
  <1>3. CASE PeerCloses \/ UNCHANGED vars
    <2>1. Quieter
      BY <1>3 DEF Quieter, PeerCloses, vars, core0Vars, loopVars, configVars, serverVars, sharedVars, streamVars
    <2> QED BY <2>1, QuieterKeeps
  <1> QED BY <1>1, <1>2, <1>3 DEF Next

(* The hand-over implements the server's contract, with calls that stall,   *)
(* clocks that wrap and tasks that are left behind.                         *)
THEOREM ContractImplemented == Spec => ImplementsContract
  <1>1. Init => Server!Init
    <2> SUFFICES ASSUME Init PROVE Server!Init
      OBVIOUS
    <2>1. overheatLatched \in BOOLEAN /\ rtspServerEnabled \in BOOLEAN
      BY Zenon DEF Init
    <2> QED BY <2>1 DEF Init, Server!Init
  <1> QED BY <1>1, ContractNext, ServerInvariant, PTL DEF Spec, ImplementsContract, Server!Spec

-----------------------------------------------------------------------------
(* A pass of loop() is bounded, in every regime. *)

(* Outside the web server every step of Core 0 leaves less to do: it goes on *)
(* in its handler, or returns to a later label of loop() than the one the    *)
(* handler was called from, which op0 still names (CallerInv).               *)
LEMMA PassShrinks ==
  ASSUME ServerInv, Core0, pc0 # "web"
  PROVE  pc0' = "web" \/ Left(pc0', op0') < Left(pc0, op0)
  <1> USE DEF ServerInv, CallerInv, LoopLabel, StopLabel, JoinLabel, RestartLabel, PlayLabel,
      loopVars, configVars, goto, Pass, Call, StopOr, Left, CalledFrom, LoopLeft, HandlerLeft
  <1>1. CASE \/ httpActionServerStart \/ httpThermalClear \/ httpSetThermal \/ httpRestart \/ httpActionServerStop
              \/ \E size \in BufferSizes : httpSetBuffer(size)
    BY <1>1 DEF httpActionServerStart, httpThermalClear, httpSetThermal, httpRestart, httpActionServerStop, httpSetBuffer
  <1>2. CASE Skip
    BY <1>2 DEF Skip, AfterSkip
  <1>3. CASE httpStatus
    BY <1>3 DEF httpStatus
  <1>4. CASE checkTemperatureTrip
    BY <1>4 DEF checkTemperatureTrip
  <1>5. CASE checkTemperatureRearm
    BY <1>5 DEF checkTemperatureRearm
  <1>6. CASE ServerOff
    BY <1>6 DEF ServerOff
  <1>7. CASE checkPerformanceRecover
    BY <1>7 DEF checkPerformanceRecover
  <1>8. CASE checkWiFiHealthLost
    BY <1>8 DEF checkWiFiHealthLost
  <1>9. CASE StopEntry
    BY <1>9 DEF StopEntry, AfterStop
  <1>10. CASE StopPoll
    BY <1>10 DEF StopPoll
  <1>11. CASE StopDecide
    BY <1>11 DEF StopDecide
  <1>12. CASE StopConfirmed
    BY <1>12 DEF StopConfirmed
  <1>13. CASE StopForced
    BY <1>13 DEF StopForced
  <1>14. CASE StopAck
    BY <1>14 DEF StopAck, AfterStop
  <1>15. CASE TaskStop
    BY <1>15 DEF TaskStop
  <1>16. CASE TaskJoin
    BY <1>16 DEF TaskJoin
  <1>17. CASE TaskJoinTimeout
    BY <1>17 DEF TaskJoinTimeout
  <1>18. CASE TaskForget
    BY <1>18 DEF TaskForget, AfterJoin
  <1>19. CASE Restart
    BY <1>19 DEF Restart
  <1>20. CASE RestartStop
    BY <1>20 DEF RestartStop
  <1>21. CASE I2SSetup
    BY <1>21 DEF I2SSetup
  <1>22. CASE RestartDone
    BY <1>22 DEF RestartDone, AfterRestart
  <1>23. CASE RestartResume
    BY <1>23 DEF RestartResume
  <1>24. CASE PlayClient
    BY <1>24 DEF PlayClient
  <1>25. CASE PlayStream
    BY <1>25 DEF PlayStream
  <1>26. CASE StartTask
    BY <1>26 DEF StartTask, AfterRestart
  <1>27. CASE Idle
    BY <1>27 DEF Idle
  <1>28. CASE IdleCheck
    BY <1>28 DEF IdleCheck
  <1>29. CASE IdleStop
    BY <1>29 DEF IdleStop
  <1>30. CASE Detect
    BY <1>30 DEF Detect
  <1>31. CASE ServerDisabled
    BY <1>31 DEF ServerDisabled
  <1>32. CASE LedCheck
    BY <1>32 DEF LedCheck, AfterLed
  <1>33. CASE LedDraw
    BY <1>33 DEF LedDraw, AfterLed
  <1>34. CASE Update
    BY <1>34 DEF Update
  <1>35. CASE Admit
    BY <1>35 DEF Admit
  <1>36. CASE Accept
    BY <1>36 DEF Accept
  <1>37. CASE RtspOther
    BY <1>37 DEF RtspOther
  <1>38. CASE RtspPlay
    BY <1>38 DEF RtspPlay
  <1>39. CASE RtspTeardown
    BY <1>39 DEF RtspTeardown
  <1> QED
    BY <1>1, <1>2, <1>3, <1>4, <1>5, <1>6, <1>7, <1>8, <1>9, <1>10, <1>11, <1>12, <1>13,
       <1>14, <1>15, <1>16, <1>17, <1>18, <1>19, <1>20, <1>21, <1>22, <1>23, <1>24,
       <1>25, <1>26, <1>27, <1>28, <1>29, <1>30, <1>31, <1>32, <1>33, <1>34, <1>35,
       <1>36, <1>37, <1>38, <1>39 DEF Core0

(* Between two calls of web.handleClient the loop never comes back to a step *)
(* it has taken: every pass is bounded, and only a wait can hold it up.      *)
THEOREM PassIsBounded == Spec => PassEnds
  <1>1. ASSUME ServerInv, [Next]_vars, pc0' # pc0, pc0 # "web"
        PROVE  pc0' = "web" \/ Left(pc0', op0') < Left(pc0, op0)
    <2>1. CASE Core0
      BY <1>1, <2>1, PassShrinks
    <2>2. CASE \E t \in Task : Core1(t)
      BY <1>1, <2>2, TaskOnlyEnds DEF core0Vars
    <2>3. CASE PeerCloses \/ UNCHANGED vars
      BY <1>1, <2>3 DEF PeerCloses, vars, core0Vars
    <2> QED BY <1>1, <2>1, <2>2, <2>3 DEF Next
  <1>2. ServerInv /\ [Next]_vars =>
          [pc0' # pc0 /\ pc0 # "web" => pc0' = "web" \/ Left(pc0', op0') < Left(pc0, op0)]_vars
    BY <1>1
  <1> QED
    BY <1>2, ServerInvariant, PTL DEF Spec, PassEnds

-----------------------------------------------------------------------------
(* Who owns the stream, the socket and the task, while calls are short and  *)
(* millis() does not wrap.                                                  *)

Regular == ~Stalls /\ ~EarlyDeadline

LEMMA HandoffInit == Init => HandoffInv
  <1> SUFFICES ASSUME Init PROVE HandoffInv
    OBVIOUS
  <1>1. TypeOK
    BY TypeInit
  <1> QED
    BY <1>1 DEF Init, HandoffInv, HandleInv, JoinInv, StopInv, StreamInv, SessionInv, CleanInv,
       QuietInv, QuietLabel, WaitLabel, StreamOver, InSession, Answering, live, ExitLabel,
       BlockLabel, NULL, rtspClient

LEMMA HandoffCore0 == ASSUME Regular, HandoffInv, Core0 PROVE HandoffInv'
  <1>0. TypeOK'
    BY TypeCore0 DEF HandoffInv
  <1> USE <1>0 DEF Regular, HandoffInv, HandleInv, JoinInv, StopInv, StreamInv, SessionInv, CleanInv,
       QuietInv, QuietLabel, WaitLabel, StreamOver, InSession, Answering, live, ExitLabel,
       BlockLabel, NULL, rtspClient, goto, Pass, Call, StopOr,
      loopVars, configVars, serverVars, sharedVars, streamVars, stopVars, joinVars, deviceVars, taskVars
  <1>1. CASE Skip
    BY <1>1 DEF Skip, AfterSkip
  <1>2. CASE httpStatus
    BY <1>2 DEF httpStatus
  <1>3. CASE httpActionServerStart
    BY <1>3 DEF httpActionServerStart
  <1>4. CASE httpThermalClear
    BY <1>4 DEF httpThermalClear
  <1>5. CASE httpSetThermal
    BY <1>5 DEF httpSetThermal
  <1>6. CASE httpRestart
    BY <1>6 DEF httpRestart
  <1>7. CASE \E size \in BufferSizes : httpSetBuffer(size)
    BY <1>7 DEF httpSetBuffer
  <1>8. CASE httpActionServerStop
    BY <1>8 DEF httpActionServerStop
  <1>9. CASE checkTemperatureTrip
    BY <1>9 DEF checkTemperatureTrip
  <1>10. CASE checkTemperatureRearm
    BY <1>10 DEF checkTemperatureRearm
  <1>11. CASE ServerOff
    BY <1>11 DEF ServerOff
  <1>12. CASE checkPerformanceRecover
    BY <1>12 DEF checkPerformanceRecover
  <1>13. CASE checkWiFiHealthLost
    BY <1>13 DEF checkWiFiHealthLost
  <1>14. CASE StopEntry
    BY <1>14 DEF StopEntry, AfterStop
  <1>15. CASE StopPoll
    BY <1>15 DEF StopPoll, StopDeadline, SocketCall
  <1>16. CASE StopDecide
    BY <1>16 DEF StopDecide
  <1>17. CASE StopConfirmed
    BY <1>17 DEF StopConfirmed
  <1>18. CASE StopForced
    BY <1>18 DEF StopForced
  <1>19. CASE StopAck
    BY <1>19 DEF StopAck, AfterStop
  <1>20. CASE TaskStop
    BY <1>20, TaskAssumption DEF TaskStop
  <1>21. CASE TaskJoin
    BY <1>21 DEF TaskJoin
  <1>22. CASE TaskJoinTimeout
    BY <1>22 DEF TaskJoinTimeout, SocketCall
  <1>23. CASE TaskForget
    BY <1>23 DEF TaskForget, AfterJoin
  <1>24. CASE Restart
    BY <1>24 DEF Restart
  <1>25. CASE RestartStop
    BY <1>25 DEF RestartStop
  <1>26. CASE I2SSetup
    BY <1>26 DEF I2SSetup
  <1>27. CASE RestartDone
    BY <1>27 DEF RestartDone, AfterRestart
  <1>28. CASE RestartResume
    BY <1>28 DEF RestartResume
  <1>29. CASE PlayClient
    BY <1>29 DEF PlayClient
  <1>30. CASE PlayStream
    BY <1>30 DEF PlayStream
  <1>31. CASE StartTask
    <2> USE DEF StartTask, AfterRestart
    <2>1. ASSUME NEW t \in Task, NewTask(t) PROVE HandoffInv'
      <3> USE DEF NewTask, TypeOK
      <3>1. \A u \in Task : ~live(u)
        BY <2>1, TaskAssumption
      <3>2. isStreaming /\ streamClient = rtspClient
        BY <1>31, <2>1, <3>1
      <3>3. \A u \in Task : pc1'[u] = IF u = t THEN "init" ELSE "dead"
        BY <2>1, <3>1
      <3>4. HandleInv'
        BY <1>31, <2>1, <3>2, <3>3
      <3>5. JoinInv'
        BY <1>31, <2>1, <3>3
      <3>6. StopInv'
        BY <1>31, <2>1, <3>2
      <3>7. StreamInv' /\ SessionInv' /\ CleanInv'
        BY <1>31, <2>1, <3>2, <3>3
      <3> QED
        BY <3>4, <3>5, <3>6, <3>7
    <2>2. CASE NoNewTask
      BY <1>31, <2>2 DEF NoNewTask
    <2> QED
      BY <1>31, <2>1, <2>2
  <1>32. CASE Idle
    BY <1>32 DEF Idle
  <1>33. CASE IdleCheck
    BY <1>33 DEF IdleCheck
  <1>34. CASE IdleStop
    BY <1>34 DEF IdleStop
  <1>35. CASE Detect
    BY <1>35 DEF Detect
  <1>36. CASE ServerDisabled
    BY <1>36 DEF ServerDisabled
  <1>37. CASE LedCheck
    BY <1>37 DEF LedCheck, AfterLed
  <1>38. CASE LedDraw
    BY <1>38 DEF LedDraw, AfterLed
  <1>39. CASE Update
    BY <1>39 DEF Update
  <1>40. CASE Admit
    BY <1>40 DEF Admit
  <1>41. CASE Accept
    BY <1>41 DEF Accept
  <1>42. CASE RtspOther
    BY <1>42 DEF RtspOther
  <1>43. CASE RtspPlay
    BY <1>43 DEF RtspPlay
  <1>44. CASE RtspTeardown
    BY <1>44, SMTT(30) DEF RtspTeardown
  <1> QED
    BY <1>1, <1>2, <1>3, <1>4, <1>5, <1>6, <1>7, <1>8, <1>9, <1>10, <1>11, <1>12, <1>13, <1>14, <1>15, <1>16, <1>17, <1>18, <1>19, <1>20, <1>21, <1>22, <1>23, <1>24, <1>25, <1>26, <1>27, <1>28, <1>29, <1>30, <1>31, <1>32, <1>33, <1>34, <1>35, <1>36, <1>37, <1>38, <1>39, <1>40, <1>41, <1>42, <1>43, <1>44, Zenon DEF Core0

LEMMA HandoffCore1 == ASSUME HandoffInv, NEW t \in Task, Core1(t) PROVE HandoffInv'
  <1>0. TypeOK'
    BY TypeCore1 DEF HandoffInv
  <1> USE <1>0 DEF HandoffInv, HandleInv, JoinInv, StopInv, StreamInv, SessionInv, CleanInv,
       QuietInv, QuietLabel, WaitLabel, StreamOver, InSession, Answering, live, ExitLabel,
       BlockLabel, NULL, rtspClient, at, move, TypeOK,
      core0Vars, loopVars, configVars, serverVars, sharedVars, streamVars, stopVars, joinVars, deviceVars
  <1>1. CASE TaskInit(t)
    BY <1>1 DEF TaskInit
  <1>2. CASE TaskAlloc(t)
    BY <1>2 DEF TaskAlloc
  <1>3. CASE TaskAllocFails(t)
    BY <1>3 DEF TaskAllocFails
  <1>4. CASE TaskLoop(t)
    BY <1>4 DEF TaskLoop, Look
  <1>5. CASE TaskCheck(t)
    BY <1>5 DEF TaskCheck
  <1>6. CASE TaskGate(t)
    BY <1>6 DEF TaskGate, Look
  <1>7. CASE TaskGrab(t)
    BY <1>7 DEF TaskGrab
  <1>8. CASE TaskNoBlock(t)
    BY <1>8 DEF TaskNoBlock, Look
  <1>9. CASE TaskBlock(t)
    BY <1>9 DEF TaskBlock, Look
  <1>10. CASE TaskLed(t)
    BY <1>10 DEF TaskLed
  <1>11. CASE TaskConn(t)
    BY <1>11 DEF TaskConn, Look, GiveUp
  <1>12. CASE TaskWrite(t)
    BY <1>12 DEF TaskWrite, Look, GiveUp
  <1>13. CASE TaskRtspCheck(t)
    BY <1>13 DEF TaskRtspCheck, Look
  <1>14. CASE TaskRtspRead(t)
    BY <1>14 DEF TaskRtspRead, Look, GiveUp
  <1>15. CASE TaskClose(t)
    BY <1>15 DEF TaskClose
  <1>16. CASE TaskClearClient(t)
    BY <1>16 DEF TaskClearClient
  <1>17. CASE TaskClearStream(t)
    <2>1. HandleInv'
      BY <1>17, TaskAssumption DEF TaskClearStream
    <2>2. JoinInv'
      BY <1>17 DEF TaskClearStream
    <2>3. StopInv'
      BY <1>17 DEF TaskClearStream
    <2>4. StreamInv'
      BY <1>17 DEF TaskClearStream
    <2>5. SessionInv'
      BY <1>17 DEF TaskClearStream
    <2>6. CleanInv'
      BY <1>17 DEF TaskClearStream
    <2> QED
      BY <2>1, <2>2, <2>3, <2>4, <2>5, <2>6
  <1>18. CASE TaskClearLed(t)
    BY <1>18 DEF TaskClearLed, AfterClean
  <1>19. CASE TaskConfirm(t)
    BY <1>19 DEF TaskConfirm
  <1>20. CASE TaskPark(t)
    BY <1>20 DEF TaskPark, Look
  <1>21. CASE TaskExit(t)
    BY <1>21 DEF TaskExit
  <1>22. CASE TaskExitFlag(t)
    BY <1>22 DEF TaskExitFlag
  <1>23. CASE TaskGive(t)
    <2>1. HandleInv'
      BY <1>23 DEF TaskGive
    <2>2. JoinInv'
      BY <1>23 DEF TaskGive
    <2>3. StopInv'
      BY <1>23 DEF TaskGive
    <2>4. StreamInv'
      BY <1>23 DEF TaskGive
    <2>5. SessionInv'
      BY <1>23 DEF TaskGive
    <2>6. CleanInv'
      BY <1>23 DEF TaskGive
    <2> QED
      BY <2>1, <2>2, <2>3, <2>4, <2>5, <2>6
  <1> QED
    BY <1>1, <1>2, <1>3, <1>4, <1>5, <1>6, <1>7, <1>8, <1>9, <1>10, <1>11, <1>12, <1>13, <1>14, <1>15, <1>16, <1>17, <1>18, <1>19, <1>20, <1>21, <1>22, <1>23 DEF Core1

LEMMA HandoffStep == ASSUME Regular, HandoffInv, [Next]_vars PROVE HandoffInv'
  <1>1. CASE Core0
    BY <1>1, HandoffCore0
  <1>2. CASE \E t \in Task : Core1(t)
    BY <1>2, HandoffCore1
  <1>3. CASE PeerCloses \/ UNCHANGED vars
    <2>1. TypeOK'
      BY TypeStep DEF HandoffInv
    <2>2. connected' => connected
      BY <1>3 DEF PeerCloses, vars, deviceVars
    <2>3. UNCHANGED <<core0Vars, sharedVars, taskVars>>
      BY <1>3 DEF PeerCloses, vars, core0Vars, configVars, sharedVars
    <2> QED
      BY <2>1, <2>2, <2>3 DEF HandoffInv, HandleInv, JoinInv, StopInv, StreamInv, SessionInv,
         CleanInv, QuietInv, StreamOver, InSession, Answering, live, core0Vars, configVars,
         sharedVars, streamVars, stopVars, joinVars, taskVars
  <1> QED
    BY <1>1, <1>2, <1>3 DEF Next

(* The cores agree on the owner at every step, for any number of tasks.     *)
THEOREM HandoffInvariant == ASSUME Regular PROVE Spec => []HandoffInv
  <1>1. HandoffInv /\ [Next]_vars => HandoffInv'
    BY HandoffStep
  <1> QED
    BY <1>1, HandoffInit, PTL DEF Spec

(* The socket has one user at a time. *)
THEOREM SocketHasOneUser == ASSUME Regular PROVE Spec => []SocketExclusive
  <1>1. HandoffInv => SocketExclusive
    BY DEF HandoffInv, StreamInv, QuietInv, QuietLabel, SessionInv, CleanInv, InSession,
       Answering, SocketExclusive, Core0Uses, SocketCall
  <1> QED
    BY <1>1, HandoffInvariant, PTL

(* The microphone's driver is reinstalled only when nobody captures. *)
THEOREM DriverIsFree == ASSUME Regular PROVE Spec => []DriverExclusive
  <1>1. HandoffInv => DriverExclusive
    BY DEF HandoffInv, HandleInv, DriverExclusive, live
  <1> QED
    BY <1>1, HandoffInvariant, PTL

(* The LED has one writer at a time. *)
THEOREM LedHasOneWriter == ASSUME Regular PROVE Spec => []LedExclusive
  <1>1. HandoffInv => LedExclusive
    BY DEF HandoffInv, StreamInv, QuietInv, QuietLabel, SessionInv, InSession, LedExclusive
  <1> QED
    BY <1>1, HandoffInvariant, PTL

(* There is never more than one pipeline. *)
THEOREM OnePipeline == ASSUME Regular PROVE Spec => []OneTask
  <1>1. HandoffInv => OneTask
    BY DEF HandoffInv, HandleInv, OneTask
  <1> QED
    BY <1>1, HandoffInvariant, PTL

(* No task calls through a null client. *)
THEOREM ClientIsThere == ASSUME Regular PROVE Spec => []NoNullClient
  <1>1. HandoffInv => NoNullClient
    BY DEF HandoffInv, SessionInv, NoNullClient, SocketCall, BlockLabel, NULL, rtspClient
  <1> QED
    BY <1>1, HandoffInvariant, PTL

(* requestStreamStop never answers true too early. *)
THEOREM ConfirmationIsTrue == ASSUME Regular PROVE Spec => []ConfirmedMeansClosed
  <1>1. HandoffInv => ConfirmedMeansClosed
    BY DEF HandoffInv, StopInv, StreamOver, ConfirmedMeansClosed
  <1> QED
    BY <1>1, HandoffInvariant, PTL

-----------------------------------------------------------------------------
(* The refinement: every step is a step of SocketOwnership or none.         *)

SameUses == (Core0Uses' <=> Core0Uses) /\ (TaskUses' <=> TaskUses)
SameAsks == (Core0Asks' <=> Core0Asks) /\ (TaskAsks' <=> TaskAsks)
NoUse == ~Core0Uses /\ ~TaskUses
Kept == isStreaming' = isStreaming /\ connected' = connected

(* The steps of SocketOwnership in terms of the flag and the labels: a core *)
(* begins or ends a question, or the owner a use, or the socket changes.    *)
OwnerStep ==
  \/ Kept /\ SameUses /\ SameAsks
  \/ Kept /\ SameUses /\ (TaskAsks' <=> TaskAsks) /\ (Core0Asks' => ~Core0Uses)
  \/ Kept /\ SameUses /\ (Core0Asks' <=> Core0Asks) /\ (TaskAsks' => isStreaming /\ ~TaskUses)
  \/ connected' = FALSE /\ isStreaming' = isStreaming /\ SameUses /\ SameAsks
  \/ /\ Kept /\ NoUse /\ ~isStreaming /\ Core0Uses' /\ ~TaskUses'
     /\ ~Core0Asks' /\ (TaskAsks' <=> TaskAsks)
  \/ /\ Kept /\ NoUse /\ isStreaming /\ ~Core0Uses' /\ TaskUses'
     /\ ~TaskAsks' /\ (Core0Asks' <=> Core0Asks)
  \/ Kept /\ ~NoUse /\ NoUse' /\ SameAsks
  \/ /\ ~isStreaming /\ ~isStreaming' /\ connected' = TRUE
     /\ Core0Uses /\ ~TaskUses /\ Core0Uses' /\ ~TaskUses' /\ SameAsks
  \/ /\ connected' = FALSE /\ ~isStreaming /\ ~isStreaming'
     /\ Core0Uses /\ ~TaskUses /\ NoUse' /\ SameAsks
  \/ /\ connected' = FALSE /\ isStreaming /\ isStreaming'
     /\ TaskUses /\ ~Core0Uses /\ NoUse' /\ SameAsks
  \/ /\ connected' = connected /\ NoUse /\ NoUse' /\ SameAsks
     /\ IF isStreaming THEN ~TaskAsks ELSE ~Core0Asks

LEMMA Mapped ==
  ASSUME isStreaming \in BOOLEAN, isStreaming' \in BOOLEAN,
         connected \in BOOLEAN, connected' \in BOOLEAN, OwnerStep
  PROVE  [Ownership!Next]_(Ownership!vars)
  BY SMTT(60) DEF OwnerStep, SameUses, SameAsks, NoUse, Kept, Ownership!Next, Ownership!vars,
     Ownership!Party, Ownership!Ask, Ownership!Answered, Ownership!Enter, Ownership!Leave,
     Ownership!Accept, Ownership!Close, Ownership!Hand, Ownership!HandOver,
     Ownership!HandBack, Ownership!PeerCloses

(* Who may be in a call when. *)
LEMMA CallsOfOwner ==
  ASSUME HandoffInv
  PROVE  /\ Core0Uses => ~isStreaming /\ ~TaskUses
         /\ TaskUses \/ TaskAsks => isStreaming
         /\ pc0 \in QuietLabel => ~isStreaming /\ ~TaskUses
         /\ pc0 \in {"confirmed", "forced"} => ~TaskUses /\ ~TaskAsks
  <1> USE DEF TaskUses, TaskAsks, SocketCall
  <1>1. TaskUses \/ TaskAsks => isStreaming
    BY DEF HandoffInv, SessionInv, InSession
  <1>2. pc0 \in QuietLabel => ~isStreaming
    BY DEF HandoffInv, StreamInv, QuietInv
  <1>3. Core0Uses => ~isStreaming
    BY <1>2 DEF Core0Uses, QuietLabel
  <1>4. pc0 \in {"confirmed", "forced"} => ~TaskUses /\ ~TaskAsks
    BY DEF HandoffInv, StopInv, WaitLabel
  <1> QED BY <1>1, <1>2, <1>3, <1>4

LEMMA OwnerCore0 == ASSUME Regular, HandoffInv, Core0 PROVE OwnerStep
  <1> USE CallsOfOwner DEF OwnerStep, SameUses, SameAsks, NoUse, Kept, Core0Uses, Core0Asks, goto, Pass, Call, StopOr,
          loopVars, configVars, serverVars, sharedVars, streamVars, stopVars, joinVars,
          deviceVars, taskVars
  <1>0. pc1' = pc1 => (TaskUses' <=> TaskUses) /\ (TaskAsks' <=> TaskAsks)
    BY DEF TaskUses, TaskAsks
  <1>1. CASE Skip
    BY <1>1, <1>0 DEF Skip, AfterSkip
  <1>2. CASE httpStatus
    BY <1>2, <1>0 DEF httpStatus
  <1>3. CASE httpActionServerStart
    BY <1>3, <1>0 DEF httpActionServerStart
  <1>4. CASE httpThermalClear
    BY <1>4, <1>0 DEF httpThermalClear
  <1>5. CASE httpSetThermal
    BY <1>5, <1>0 DEF httpSetThermal
  <1>6. CASE httpRestart
    BY <1>6, <1>0 DEF httpRestart
  <1>7. CASE \E size \in BufferSizes : httpSetBuffer(size)
    BY <1>7, <1>0 DEF httpSetBuffer
  <1>8. CASE httpActionServerStop
    BY <1>8, <1>0 DEF httpActionServerStop
  <1>9. CASE checkTemperatureTrip
    BY <1>9, <1>0 DEF checkTemperatureTrip
  <1>10. CASE checkTemperatureRearm
    BY <1>10, <1>0 DEF checkTemperatureRearm
  <1>11. CASE ServerOff
    BY <1>11, <1>0 DEF ServerOff
  <1>12. CASE checkPerformanceRecover
    BY <1>12, <1>0 DEF checkPerformanceRecover
  <1>13. CASE checkWiFiHealthLost
    BY <1>13, <1>0 DEF checkWiFiHealthLost
  <1>14. CASE StopEntry
    BY <1>14, <1>0 DEF StopEntry, AfterStop
  <1>15. CASE StopPoll
    BY <1>15, <1>0 DEF StopPoll
  <1>16. CASE StopDecide
    BY <1>16, <1>0 DEF StopDecide
  <1>17. CASE StopConfirmed
    BY <1>17, <1>0 DEF StopConfirmed
  <1>18. CASE StopForced
    BY <1>18, <1>0 DEF StopForced
  <1>19. CASE StopAck
    BY <1>19, <1>0 DEF StopAck, AfterStop, QuietLabel
  <1>20. CASE TaskStop
    BY <1>20, <1>0 DEF TaskStop
  <1>21. CASE TaskJoin
    BY <1>21, <1>0 DEF TaskJoin
  <1>22. CASE TaskJoinTimeout
    BY <1>22, <1>0 DEF TaskJoinTimeout
  <1>23. CASE TaskForget
    BY <1>23, <1>0 DEF TaskForget, AfterJoin
  <1>24. CASE Restart
    BY <1>24, <1>0 DEF Restart
  <1>25. CASE RestartStop
    BY <1>25, <1>0 DEF RestartStop
  <1>26. CASE I2SSetup
    BY <1>26, <1>0 DEF I2SSetup, QuietLabel
  <1>27. CASE RestartDone
    BY <1>27, <1>0 DEF RestartDone, AfterRestart
  <1>28. CASE RestartResume
    BY <1>28, <1>0 DEF RestartResume
  <1>29. CASE PlayClient
    BY <1>29, <1>0 DEF PlayClient
  <1>30. CASE PlayStream
    BY <1>30, <1>0 DEF PlayStream
  <1>31. CASE StartTask
    <2>1. Kept /\ (Core0Uses' <=> Core0Uses) /\ (Core0Asks' <=> Core0Asks)
      BY <1>31 DEF StartTask, AfterRestart
    <2>2. (TaskUses' <=> TaskUses) /\ (TaskAsks' <=> TaskAsks)
      <3>1. CASE \E t \in Task : NewTask(t)
        BY <1>31, <3>1 DEF StartTask, NewTask, live, TaskUses, TaskAsks, SocketCall, HandoffInv, TypeOK
      <3>2. CASE NoNewTask
        BY <1>31, <3>2 DEF StartTask, NoNewTask, TaskUses, TaskAsks
      <3> QED BY <1>31, <3>1, <3>2 DEF StartTask
    <2> QED BY <2>1, <2>2
  <1>32. CASE Idle
    BY <1>32, <1>0 DEF Idle
  <1>33. CASE IdleCheck
    BY <1>33, <1>0 DEF IdleCheck
  <1>34. CASE IdleStop
    BY <1>34, <1>0 DEF IdleStop
  <1>35. CASE Detect
    BY <1>35, <1>0 DEF Detect
  <1>36. CASE ServerDisabled
    BY <1>36, <1>0 DEF ServerDisabled
  <1>37. CASE LedCheck
    BY <1>37, <1>0 DEF LedCheck, AfterLed
  <1>38. CASE LedDraw
    BY <1>38, <1>0 DEF LedDraw, AfterLed
  <1>39. CASE Update
    BY <1>39, <1>0 DEF Update
  <1>40. CASE Admit
    BY <1>40, <1>0 DEF Admit
  <1>41. CASE Accept
    BY <1>41, <1>0 DEF Accept
  <1>42. CASE RtspOther
    BY <1>42, <1>0 DEF RtspOther
  <1>43. CASE RtspPlay
    BY <1>43, <1>0 DEF RtspPlay
  <1>44. CASE RtspTeardown
    BY <1>44, <1>0 DEF RtspTeardown
  <1> QED
    BY <1>1, <1>2, <1>3, <1>4, <1>5, <1>6, <1>7, <1>8, <1>9, <1>10, <1>11, <1>12, <1>13, <1>14, <1>15, <1>16, <1>17, <1>18, <1>19, <1>20, <1>21, <1>22, <1>23, <1>24, <1>25, <1>26, <1>27, <1>28, <1>29, <1>30, <1>31, <1>32, <1>33, <1>34, <1>35, <1>36, <1>37, <1>38, <1>39, <1>40, <1>41, <1>42, <1>43, <1>44 DEF Core0

LEMMA OwnerCore1 == ASSUME HandoffInv, NEW t \in Task, Core1(t) PROVE OwnerStep
  <1>1. pc0' = pc0 /\ op0' = op0
    BY TaskOnlyEnds DEF core0Vars, loopVars
  <1>2. (Core0Uses' <=> Core0Uses) /\ (Core0Asks' <=> Core0Asks)
    BY <1>1 DEF Core0Uses, Core0Asks
  <1>3. live(t) /\ pc1 \in [Task -> Label1]
    BY DEF Core1, HandoffInv, TypeOK, live, TaskInit, TaskAlloc, TaskAllocFails, TaskLoop, TaskCheck,
           TaskGate, TaskGrab, TaskNoBlock, TaskBlock, TaskLed, TaskConn, TaskWrite, TaskRtspCheck,
           TaskRtspRead, TaskClose, TaskClearClient, TaskClearStream, TaskClearLed, TaskConfirm,
           TaskPark, TaskExit, TaskExitFlag, TaskGive, Look, GiveUp, at
  <1>4. \A u \in Task : u # t => pc1[u] = "dead"
    BY <1>3 DEF HandoffInv, HandleInv, live
  <1>5. /\ TaskUses <=> pc1[t] \in SocketCall \ {"conn"}
        /\ TaskAsks <=> pc1[t] = "conn"
    BY <1>4 DEF TaskUses, TaskAsks, SocketCall
  <1>6. \A l \in Label1 : pc1' = [pc1 EXCEPT ![t] = l] =>
          /\ TaskUses' <=> l \in SocketCall \ {"conn"}
          /\ TaskAsks' <=> l = "conn"
    BY <1>3, <1>4 DEF TaskUses, TaskAsks, SocketCall
  <1>7. pc1[t] = "close" => isStreaming
    BY DEF HandoffInv, SessionInv
  <1>8. pc1[t] \in {"capture", "led", "conn", "write", "rtspRead"} => isStreaming
    BY DEF HandoffInv, SessionInv, InSession
  <1> USE CallsOfOwner, <1>2, <1>5, <1>6, <1>7, <1>8
      DEF OwnerStep, SameUses, SameAsks, NoUse, Kept, SocketCall, at, move, Look, GiveUp, sharedVars, streamVars,
          deviceVars, Label1, StartLabel, GateLabel, BlockLabel, CleanLabel, ExitLabel
  <1>11. CASE TaskInit(t)
    BY <1>11 DEF TaskInit
  <1>12. CASE TaskAlloc(t)
    BY <1>12 DEF TaskAlloc
  <1>13. CASE TaskAllocFails(t)
    BY <1>13 DEF TaskAllocFails
  <1>14. CASE TaskLoop(t)
    <2>1. CASE audioTaskRunning
      BY <1>14, <2>1 DEF TaskLoop
    <2>2. CASE ~audioTaskRunning
      BY <1>14, <2>2 DEF TaskLoop
    <2> QED BY <2>1, <2>2
  <1>15. CASE TaskCheck(t)
    <2>1. CASE stopStreamRequested /\ streamClient # NULL
      <3>1. isStreaming /\ ~Core0Uses
        BY <1>3, <1>15, <2>1 DEF HandoffInv, StopInv, StreamInv, WaitLabel, TypeOK, Core0Uses, NULL, rtspClient
      <3> QED BY <1>15, <2>1, <3>1 DEF TaskCheck
    <2>2. CASE stopStreamRequested /\ streamClient = NULL
      BY <1>15, <2>2 DEF TaskCheck
    <2>3. CASE ~stopStreamRequested
      BY <1>15, <2>3 DEF TaskCheck
    <2> QED BY <2>1, <2>2, <2>3
  <1>16. CASE TaskGate(t)
    BY <1>16 DEF TaskGate
  <1>17. CASE TaskGrab(t)
    BY <1>17 DEF TaskGrab
  <1>18. CASE TaskNoBlock(t)
    BY <1>18 DEF TaskNoBlock
  <1>19. CASE TaskBlock(t)
    BY <1>19 DEF TaskBlock
  <1>20. CASE TaskLed(t)
    BY <1>20 DEF TaskLed
  <1>21. CASE TaskConn(t)
    BY <1>21 DEF TaskConn
  <1>22. CASE TaskWrite(t)
    BY <1>22 DEF TaskWrite
  <1>23. CASE TaskRtspCheck(t)
    BY <1>23 DEF TaskRtspCheck
  <1>24. CASE TaskRtspRead(t)
    BY <1>24 DEF TaskRtspRead
  <1>25. CASE TaskClose(t)
    BY <1>25 DEF TaskClose
  <1>26. CASE TaskClearClient(t)
    BY <1>26 DEF TaskClearClient
  <1>27. CASE TaskClearStream(t)
    <2>1. ~Core0Uses
      BY <1>27 DEF TaskClearStream, HandoffInv, SessionInv, CleanInv, Answering, Core0Uses
    <2>2. isStreaming' = FALSE /\ connected' = connected /\ SameUses /\ SameAsks /\ NoUse /\ ~TaskAsks
      BY <1>27, <2>1 DEF TaskClearStream
    <2>3. NoUse'
      BY <2>1, <2>2
    <2>4. isStreaming \in BOOLEAN
      BY DEF HandoffInv, TypeOK
    <2> QED BY <2>2, <2>3, <2>4
  <1>28. CASE TaskClearLed(t)
    <2>1. AfterClean(cause[t]) \in {"confirm", "rtspCheck", "loop"}
      BY DEF AfterClean
    <2> QED BY <1>28, <2>1 DEF TaskClearLed
  <1>29. CASE TaskConfirm(t)
    BY <1>29 DEF TaskConfirm
  <1>30. CASE TaskPark(t)
    BY <1>30 DEF TaskPark
  <1>31. CASE TaskExit(t)
    BY <1>31 DEF TaskExit
  <1>32. CASE TaskExitFlag(t)
    BY <1>32 DEF TaskExitFlag
  <1>33. CASE TaskGive(t)
    BY <1>33 DEF TaskGive
  <1> QED
    BY <1>11, <1>12, <1>13, <1>14, <1>15, <1>16, <1>17, <1>18, <1>19, <1>20, <1>21, <1>22, <1>23, <1>24, <1>25, <1>26, <1>27, <1>28, <1>29, <1>30, <1>31, <1>32, <1>33 DEF Core1

LEMMA OwnerNext == ASSUME Regular, HandoffInv, [Next]_vars PROVE [Ownership!Next]_(Ownership!vars)
  <1>1. OwnerStep
    <2>1. CASE Core0
      BY <2>1, OwnerCore0
    <2>2. CASE \E t \in Task : Core1(t)
      BY <2>2, OwnerCore1
    <2>3. CASE PeerCloses \/ UNCHANGED vars
      <3>1. /\ connected' = FALSE \/ connected' = connected
            /\ isStreaming' = isStreaming /\ pc0' = pc0 /\ op0' = op0 /\ pc1' = pc1
        BY <2>3 DEF PeerCloses, vars, core0Vars, loopVars, sharedVars, streamVars, deviceVars, taskVars
      <3>2. SameUses /\ SameAsks
        BY <3>1 DEF SameUses, SameAsks, Core0Uses, Core0Asks, TaskUses, TaskAsks
      <3> QED BY <3>1, <3>2 DEF OwnerStep, Kept
    <2> QED BY <2>1, <2>2, <2>3 DEF Next
  <1>2. TypeOK /\ TypeOK'
    BY TypeStep DEF HandoffInv
  <1> QED BY <1>1, <1>2, Mapped DEF TypeOK

(* The hand-over implements SocketOwnership. *)
THEOREM OwnershipImplemented == ASSUME Regular PROVE Spec => ImplementsOwnership
  <1>1. Init => Ownership!Init
    BY DEF Init, Ownership!Init, Core0Uses, Core0Asks, TaskUses, TaskAsks, SocketCall
  <1>2. HandoffInv /\ [Next]_vars => [Ownership!Next]_(Ownership!vars)
    BY OwnerNext
  <1> QED
    BY <1>1, <1>2, HandoffInvariant, PTL DEF Spec, ImplementsOwnership, Ownership!Spec

-----------------------------------------------------------------------------
(* Buffers and the size i2s_read is told. *)

(* Core 0's steps: a new size starts a restart, which keeps to its labels    *)
(* until the task is joined; every other step leaves size and task alone.    *)
LEMMA SizeCore0 == ASSUME Regular, HandoffInv, SizeInv, Core0 PROVE SizeInv'
  <1> DEFINE SameTasks == pc1' = pc1 /\ bufLen' = bufLen /\ currentBufferSize' = currentBufferSize
  <1> USE DEF configVars, sharedVars, taskVars, loopVars, goto, Pass, Call
  <1>1. pc0' \in {"taskForget"} => SizeInv'
    <2>1. HandoffInv'
      BY HandoffStep DEF Next
    <2> QED BY <2>1 DEF HandoffInv, HandleInv, SizeInv, Outdated
  <1>2. SameTasks /\ pc0 \notin OldSizeLabel => SizeInv'
    BY DEF SizeInv, Outdated, live
  <1>3. SameTasks /\ op0' = op0 /\ (op0 = "restart" => pc0' \in OldSizeLabel) => SizeInv'
    BY DEF SizeInv, Outdated, live
  <1>4. CASE \E size \in BufferSizes : httpSetBuffer(size)
    BY <1>4 DEF httpSetBuffer, SizeInv, OldSizeLabel
  <1>5. CASE StartTask
    <2>1. /\ pc0 = "startTask" /\ bufLen' = bufLen /\ currentBufferSize' = currentBufferSize
          /\ pc1' = pc1 \/ \E t \in Task : pc1' = [pc1 EXCEPT ![t] = "init"]
      BY <1>5 DEF StartTask, NewTask, NoNewTask
    <2>2. pc1 \in [Task -> Label1]
      BY DEF HandoffInv, TypeOK
    <2>3. \A t \in Task : Outdated(t)' => Outdated(t)
      BY <2>1, <2>2 DEF Outdated, live, StartLabel
    <2> QED BY <2>1, <2>3 DEF SizeInv, OldSizeLabel, WaitLabel
  <1>6. CASE StopEntry
    BY <1>6, <1>3 DEF StopEntry, AfterStop, OldSizeLabel, WaitLabel
  <1>7. CASE StopPoll \/ StopDecide \/ StopConfirmed \/ StopForced
    BY <1>7, <1>3 DEF StopPoll, StopDecide, StopConfirmed, StopForced, OldSizeLabel, WaitLabel
  <1>8. CASE StopAck
    BY <1>8, <1>3 DEF StopAck, AfterStop, OldSizeLabel
  <1>9. CASE TaskStop \/ TaskJoin \/ TaskJoinTimeout
    BY <1>9, <1>1, <1>3 DEF TaskStop, TaskJoin, TaskJoinTimeout, OldSizeLabel
  <1>10. CASE Restart \/ RestartStop
    BY <1>10, <1>3 DEF Restart, RestartStop, StopOr, OldSizeLabel
  <1>11. CASE \/ Skip \/ httpStatus \/ httpActionServerStart \/ httpThermalClear
              \/ httpSetThermal \/ httpRestart \/ httpActionServerStop
              \/ checkTemperatureTrip \/ checkTemperatureRearm \/ ServerOff
              \/ checkPerformanceRecover \/ checkWiFiHealthLost
    BY <1>11, <1>2 DEF Skip, AfterSkip, httpStatus, httpActionServerStart, httpThermalClear,
       httpSetThermal, httpRestart, httpActionServerStop, checkTemperatureTrip, checkTemperatureRearm,
       ServerOff, checkPerformanceRecover, checkWiFiHealthLost, OldSizeLabel, WaitLabel
  <1>12. CASE \/ TaskForget \/ I2SSetup \/ RestartDone \/ RestartResume \/ PlayClient \/ PlayStream
              \/ Idle \/ IdleCheck \/ IdleStop \/ Detect \/ ServerDisabled \/ LedCheck \/ LedDraw
              \/ Update \/ Admit \/ Accept \/ RtspOther \/ RtspPlay \/ RtspTeardown
    BY <1>12, <1>2 DEF TaskForget, I2SSetup, RestartDone, RestartResume, PlayClient, PlayStream, Idle,
       IdleCheck, IdleStop, Detect, ServerDisabled, LedCheck, LedDraw, Update, Admit, Accept, RtspOther,
       RtspPlay, RtspTeardown, OldSizeLabel, WaitLabel
  <1> QED
    BY <1>4, <1>5, <1>6, <1>7, <1>8, <1>9, <1>10, <1>11, <1>12 DEF Core0

(* A task's steps: it allocates what the size is, and keeps it to its end.   *)
LEMMA SizeCore1 == ASSUME HandoffInv, SizeInv, NEW t \in Task, Core1(t) PROVE SizeInv'
  <1>1. pc0' = pc0 /\ op0' = op0 /\ currentBufferSize' = currentBufferSize
    BY TaskOnlyEnds DEF core0Vars, loopVars, configVars
  <1>2. pc1 \in [Task -> Label1] /\ bufLen \in [Task -> BufferSizes \cup {0}]
    BY DEF HandoffInv, TypeOK
  <1>3. \A u \in Task : Outdated(u)' => Outdated(u)
    <2> USE <1>1, <1>2 DEF Outdated, live, StartLabel
    <2>1. CASE TaskInit(t) \/ TaskAlloc(t) \/ TaskAllocFails(t) \/ TaskGive(t)
      BY <2>1 DEF TaskInit, TaskAlloc, TaskAllocFails, TaskGive, at, move
    <2>2. CASE ~(TaskInit(t) \/ TaskAlloc(t) \/ TaskAllocFails(t) \/ TaskGive(t))
      <3>1. /\ bufLen' = bufLen /\ pc1[t] \notin {"dead", "init", "alloc"}
            /\ \E l \in Label1 : pc1' = [pc1 EXCEPT ![t] = l]
        BY <2>2 DEF Core1, TaskLoop, TaskCheck, TaskGate, TaskGrab, TaskNoBlock, TaskBlock, TaskLed,
           TaskConn, TaskWrite, TaskRtspCheck, TaskRtspRead, TaskClose, TaskClearClient, TaskClearStream,
           TaskClearLed, TaskConfirm, TaskPark, TaskExit, TaskExitFlag, Look, GiveUp, at, move, AfterClean,
           Label1, StartLabel, GateLabel, BlockLabel, CleanLabel, ExitLabel
      <3> QED BY <3>1
    <2> QED BY <2>1, <2>2
  <1> QED BY <1>1, <1>3 DEF SizeInv

LEMMA SizeStep == ASSUME Regular, HandoffInv, SizeInv, [Next]_vars PROVE SizeInv'
  <1>1. CASE Core0
    BY <1>1, SizeCore0
  <1>2. CASE \E t \in Task : Core1(t)
    BY <1>2, SizeCore1
  <1>3. CASE PeerCloses \/ UNCHANGED vars
    BY <1>3 DEF PeerCloses, vars, core0Vars, loopVars, configVars, taskVars, SizeInv, Outdated, live
  <1> QED BY <1>1, <1>2, <1>3 DEF Next

(* The pipeline captures into buffers of another size only while the handler *)
(* that stored the size is stopping it.                                      *)
THEOREM OldBuffersEnd == ASSUME Regular PROVE Spec => []StaleBufferEnds
  <1>1. Init => SizeInv
    BY DEF Init, SizeInv, Outdated, live
  <1>2. HandoffInv /\ SizeInv /\ [Next]_vars => SizeInv'
    BY SizeStep
  <1>3. HandoffInv /\ SizeInv => StaleBufferEnds
    <2> SUFFICES ASSUME HandoffInv, SizeInv, NEW t \in Task, pc1[t] = "capture", bufLen[t] # currentBufferSize
                 PROVE op0 = "restart" /\ pc0 \in {"restart", "restartStop", "stopEntry", "stopPoll"}
      BY DEF StaleBufferEnds
    <2>1. op0 = "restart" /\ pc0 \in OldSizeLabel
      BY DEF SizeInv, Outdated, live, StartLabel
    <2>2. isStreaming /\ pc0 \notin WaitLabel \ {"stopPoll"}
      BY DEF HandoffInv, SessionInv, InSession, StopInv
    <2> QED BY <2>1, <2>2 DEF HandoffInv, StreamInv, QuietInv, QuietLabel, OldSizeLabel, WaitLabel
  <1> QED
    BY <1>1, <1>2, <1>3, HandoffInvariant, PTL DEF Spec

=============================================================================
