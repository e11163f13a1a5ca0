--------------------------- MODULE StreamHandoff ---------------------------
(***************************************************************************)
(* The hand-over of the RTSP client's socket between the main loop ("Core  *)
(* 0": web requests, thermal, performance and WiFi checks, RTSP            *)
(* negotiation) and the audio pipeline task ("Core 1": capture and RTP).   *)
(*                                                                         *)
(* Core 0 is one thread: pc0 is the label of its next step, in the order   *)
(* of loop().  A task is one thread as well: pc1[t] is its label.  Each    *)
(* step performs one access to a variable the threads share; consecutive   *)
(* writes that no thread can tell apart from one write are one step.       *)
(***************************************************************************)
EXTENDS Naturals

CONSTANTS
  Task,          \* audio pipeline tasks that can exist at the same time
  NoTask,        \* the null audioCaptureTaskHandle
  BufferSizes,   \* values the web UI may give currentBufferSize
  Stalls,        \* may a WiFiClient call outlast the 3 s and 2 s waits of Core 0?
  EarlyDeadline, \* may millis() + 3000 wrap, so that the 3 s wait ends at once?
  HeapMayFail,   \* may xTaskCreate or malloc fail?
  ClientLeaves   \* may the peer close, stop reading or send TEARDOWN?

ASSUME TaskAssumption == NoTask \notin Task
ASSUME SizeAssumption == BufferSizes \subseteq Nat \ {0} /\ BufferSizes # {}
ASSUME RegimeAssumption == {Stalls, EarlyDeadline, HeapMayFail, ClientLeaves} \subseteq BOOLEAN

VARIABLES
  pc0,                    \* next step of Core 0
  op0,                    \* the handler that is stopping or restarting the stream
  resume0,                \* restartI2S's local wasStreaming
  wasStreaming,           \* loop's static wasStreaming
  rtspServerEnabled, overheatLatched, overheatLockoutActive,
  audioCaptureTaskHandle, currentBufferSize,
  isStreaming, streamClient, stopStreamRequested, streamCleanupDone,
  core1OwnsLED, audioTaskRunning,
  taskExitSemaphore,      \* tokens in the binary semaphore
  connected,              \* what rtspClient.connected() answers
  led,                    \* what the LED last showed
  pc1,                    \* next step of each task
  client,                 \* each task's local pointer to the client
  cause,                  \* why a task is closing the client
  bufLen                  \* samples each task's buffers were allocated for

loopVars == <<op0, resume0, wasStreaming>>
serverVars == <<rtspServerEnabled, overheatLatched, overheatLockoutActive>>
streamVars == <<isStreaming, streamClient>>
stopVars == <<stopStreamRequested, streamCleanupDone>>
joinVars == <<audioTaskRunning, taskExitSemaphore>>
deviceVars == <<connected, led>>
taskVars == <<pc1, client, cause, bufLen>>
vars == <<pc0, loopVars, serverVars, audioCaptureTaskHandle, currentBufferSize,
          streamVars, stopVars, core1OwnsLED, joinVars, deviceVars, taskVars>>

(* What each kind of step leaves alone. *)
sharedVars == <<streamVars, stopVars, core1OwnsLED, joinVars>>
configVars == <<serverVars, audioCaptureTaskHandle, currentBufferSize>>
core0Vars == <<pc0, loopVars, configVars>>

NULL == "NULL"
rtspClient == "rtspClient"

(* Core 0 while it runs requestStreamStop or stopAudioCaptureTask. *)
StopLabel == {"stopEntry", "stopPoll", "stopDecide", "confirmed", "forced", "stopAck"}
JoinLabel == {"taskStop", "taskJoin", "taskForget"}
RestartLabel == {"restart", "restartStop", "i2sSetup", "resume"}
PlayLabel == {"playClient", "playStream", "startTask"}
LoopLabel == {"web", "status", "temp", "perf", "wifi", "idle", "idleCheck", "idleStop",
              "serverOff", "rtsp", "ledCheck", "ledDraw", "update", "admit", "accept",
              "negotiate"}
Label0 == LoopLabel \cup StopLabel \cup JoinLabel \cup RestartLabel \cup PlayLabel
Caller == {"none", "serverStop", "overheat", "restart", "recover", "wifi", "disabled",
           "detect", "teardown"}

(* A task: start-up and exit, the top of the loop, one block, clean-up. *)
StartLabel == {"init", "alloc"}
GateLabel == {"loop", "check", "gate", "gate2", "grab"}
BlockLabel == {"capture", "led", "conn", "write", "rtspCheck", "rtspRead"}
CleanLabel == {"close", "clearClient", "clearStream", "clearLed", "confirm", "park"}
ExitLabel == {"exit", "exitFlag", "give"}
Label1 == {"dead"} \cup StartLabel \cup GateLabel \cup BlockLabel \cup CleanLabel \cup ExitLabel
Cause == {"none", "send", "teardown", "request"}

(* Steps of a task that are calls on the client: the WiFiClient may block. *)
SocketCall == {"conn", "write", "rtspRead", "close"}

live(t) == pc1[t] # "dead"

TypeOK ==
  /\ pc0 \in Label0 /\ op0 \in Caller
  /\ resume0 \in BOOLEAN /\ wasStreaming \in BOOLEAN
  /\ rtspServerEnabled \in BOOLEAN /\ overheatLatched \in BOOLEAN
  /\ overheatLockoutActive \in BOOLEAN /\ isStreaming \in BOOLEAN
  /\ stopStreamRequested \in BOOLEAN /\ streamCleanupDone \in BOOLEAN
  /\ core1OwnsLED \in BOOLEAN /\ audioTaskRunning \in BOOLEAN /\ connected \in BOOLEAN
  /\ audioCaptureTaskHandle \in Task \cup {NoTask}
  /\ currentBufferSize \in BufferSizes
  /\ streamClient \in {NULL, rtspClient}
  /\ taskExitSemaphore \in {0, 1}
  /\ led \in {"idle", "stream", "hot"}
  /\ pc1 \in [Task -> Label1]
  /\ client \in [Task -> {NULL, rtspClient}]
  /\ cause \in [Task -> Cause]
  /\ bufLen \in [Task -> BufferSizes \cup {0}]

Init ==
  /\ pc0 = "web" /\ op0 = "none" /\ resume0 = FALSE /\ wasStreaming = FALSE
  /\ overheatLatched \in BOOLEAN
  /\ rtspServerEnabled = ~overheatLatched
  /\ overheatLockoutActive = FALSE
  /\ audioCaptureTaskHandle = NoTask
  /\ currentBufferSize \in BufferSizes
  /\ isStreaming = FALSE /\ streamClient = NULL
  /\ stopStreamRequested = FALSE /\ streamCleanupDone = FALSE
  /\ core1OwnsLED = FALSE /\ audioTaskRunning = FALSE /\ taskExitSemaphore = 0
  /\ connected = FALSE
  /\ led = IF overheatLatched THEN "hot" ELSE "idle"
  /\ pc1 = [t \in Task |-> "dead"]
  /\ client = [t \in Task |-> NULL]
  /\ cause = [t \in Task |-> "none"]
  /\ bufLen = [t \in Task |-> 0]

-----------------------------------------------------------------------------
(* Core 0: the loop up to the RTSP phases. *)

goto(l) == pc0' = l

(* Core 0 goes from one label to another, or into handler op, and changes   *)
(* nothing else.                                                            *)
Pass(from, to) == /\ pc0 = from /\ goto(to)
                  /\ UNCHANGED <<loopVars, configVars, sharedVars, deviceVars, taskVars>>

Call(from, op, to) ==
  /\ pc0 = from /\ op0' = op /\ goto(to)
  /\ UNCHANGED <<resume0, wasStreaming, configVars, sharedVars, deviceVars, taskVars>>

(* A check that is not due, a request that changes nothing modelled here. *)
AfterSkip == [web |-> "temp", temp |-> "perf", perf |-> "wifi", wifi |-> "idle"]

Skip == \E l \in DOMAIN AfterSkip : Pass(l, AfterSkip[l])

(* httpStatus asks rtspClient.connected(), streaming or not. *)
httpStatus == Pass("web", "status") \/ Pass("status", "temp")

(* Mutant: the server starts although the thermal latch is set. *)
ServerStartLatched ==
  /\ pc0 = "web"
  /\ rtspServerEnabled' = TRUE
  /\ overheatLockoutActive' = (overheatLockoutActive /\ rtspServerEnabled)
  /\ goto("temp")
  /\ UNCHANGED <<loopVars, overheatLatched, audioCaptureTaskHandle, currentBufferSize,
                 sharedVars, deviceVars, taskVars>>

httpActionServerStart ==
  /\ pc0 = "web" /\ ~overheatLatched
  /\ rtspServerEnabled' = TRUE
  /\ overheatLockoutActive' = (overheatLockoutActive /\ rtspServerEnabled)
  /\ goto("temp")
  /\ UNCHANGED <<loopVars, overheatLatched, audioCaptureTaskHandle, currentBufferSize,
                 sharedVars, deviceVars, taskVars>>

httpThermalClear ==
  /\ pc0 = "web" /\ overheatLatched
  /\ overheatLatched' = FALSE /\ overheatLockoutActive' = FALSE
  /\ rtspServerEnabled' = TRUE
  /\ goto("temp")
  /\ UNCHANGED <<loopVars, audioCaptureTaskHandle, currentBufferSize, sharedVars,
                 deviceVars, taskVars>>

(* A new thermal limit, or thermal protection switched off. *)
httpSetThermal ==
  /\ pc0 = "web"
  /\ overheatLockoutActive' = FALSE
  /\ goto("temp")
  /\ UNCHANGED <<loopVars, rtspServerEnabled, overheatLatched, audioCaptureTaskHandle,
                 currentBufferSize, sharedVars, deviceVars, taskVars>>

(* reset_i2s, and a new gain or rate. *)
httpRestart == Call("web", "restart", "restart")

(* A new buffer size is stored before restartI2S stops the task. *)
httpSetBuffer(size) ==
  /\ pc0 = "web"
  /\ currentBufferSize' = size
  /\ op0' = "restart" /\ goto("restart")
  /\ UNCHANGED <<resume0, wasStreaming, serverVars, audioCaptureTaskHandle, sharedVars,
                 deviceVars, taskVars>>

(* Handlers test isStreaming: stop the stream, or go straight to l. *)
StopOr(l) == IF isStreaming THEN "stopEntry" ELSE l

(* Mutant: the server is switched off under a running stream. *)
ServerStopLive == Call("web", "serverStop", "serverOff")

httpActionServerStop == Call("web", "serverStop", StopOr("serverOff"))

checkTemperatureTrip ==
  /\ pc0 = "temp" /\ ~overheatLockoutActive
  /\ overheatLockoutActive' = TRUE /\ overheatLatched' = TRUE
  /\ op0' = "overheat" /\ goto(StopOr("taskStop"))
  /\ UNCHANGED <<resume0, wasStreaming, rtspServerEnabled, audioCaptureTaskHandle,
                 currentBufferSize, sharedVars, deviceVars, taskVars>>

checkTemperatureRearm ==
  /\ pc0 = "temp" /\ overheatLockoutActive
  /\ overheatLockoutActive' = FALSE
  /\ goto("perf")
  /\ UNCHANGED <<loopVars, rtspServerEnabled, overheatLatched, audioCaptureTaskHandle,
                 currentBufferSize, sharedVars, deviceVars, taskVars>>

(* Server stop and thermal trip end by closing the listening socket. *)
ServerOff ==
  /\ pc0 = "serverOff"
  /\ rtspServerEnabled' = FALSE
  /\ op0' = "none" /\ goto(IF op0 = "overheat" THEN "perf" ELSE "temp")
  /\ UNCHANGED <<resume0, wasStreaming, overheatLatched, overheatLockoutActive,
                 audioCaptureTaskHandle, currentBufferSize, sharedVars, deviceVars, taskVars>>

checkPerformanceRecover == isStreaming /\ Call("perf", "recover", "restart")

checkWiFiHealthLost == isStreaming /\ Call("wifi", "wifi", "stopEntry")

-----------------------------------------------------------------------------
(* requestStreamStop, and where its caller goes on. *)

AfterStop(op) == CASE op = "serverStop" -> "serverOff"
                   [] op = "teardown"   -> "ledCheck"
                   [] OTHER             -> "taskStop"

StopEntry ==
  /\ pc0 = "stopEntry"
  /\ IF ~isStreaming /\ streamClient = NULL
       THEN goto(AfterStop(op0)) /\ UNCHANGED stopStreamRequested
       ELSE goto("stopPoll") /\ stopStreamRequested' = TRUE
  /\ UNCHANGED <<loopVars, configVars, streamVars, streamCleanupDone, core1OwnsLED,
                 joinVars, deviceVars, taskVars>>

(* The 3 s wait ends unanswered only when no task can answer within it: a   *)
(* task in any other step reaches the top of its loop in milliseconds.      *)
StopDeadline ==
  \/ EarlyDeadline
  \/ \A t \in Task : \/ pc1[t] \in {"dead", "park"}
                     \/ Stalls /\ pc1[t] \in SocketCall

(* Mutants: no wait, and a wait without a deadline. *)
StopPollOnce == Pass("stopPoll", "stopDecide")

StopPollForever == streamCleanupDone /\ Pass("stopPoll", "stopDecide")

StopPoll == (streamCleanupDone \/ StopDeadline) /\ Pass("stopPoll", "stopDecide")

StopDecide == Pass("stopDecide", IF streamCleanupDone THEN "confirmed" ELSE "forced")

StopConfirmed ==
  /\ pc0 = "confirmed"
  /\ isStreaming' = FALSE /\ streamClient' = NULL
  /\ goto("stopAck")
  /\ UNCHANGED <<loopVars, configVars, stopVars, core1OwnsLED, joinVars, deviceVars, taskVars>>

StopForced ==
  /\ pc0 = "forced"
  /\ isStreaming' = FALSE /\ streamClient' = NULL /\ core1OwnsLED' = FALSE
  /\ goto("stopAck")
  /\ UNCHANGED <<loopVars, configVars, stopVars, joinVars, deviceVars, taskVars>>

StopAck ==
  /\ pc0 = "stopAck"
  /\ stopStreamRequested' = FALSE /\ streamCleanupDone' = FALSE
  /\ goto(AfterStop(op0))
  /\ UNCHANGED <<loopVars, configVars, streamVars, core1OwnsLED, joinVars, deviceVars, taskVars>>

-----------------------------------------------------------------------------
(* stopAudioCaptureTask, and where its caller goes on. *)

AfterJoin(op) == CASE op = "overheat" -> "serverOff"
                   [] op = "wifi"     -> "idle"
                   [] op = "disabled" -> "ledCheck"
                   [] OTHER           -> "i2sSetup"

TaskStop ==
  /\ pc0 = "taskStop"
  /\ IF audioCaptureTaskHandle = NoTask
       THEN goto("taskForget") /\ UNCHANGED audioTaskRunning
       ELSE goto("taskJoin") /\ audioTaskRunning' = FALSE
  /\ UNCHANGED <<loopVars, configVars, streamVars, stopVars, core1OwnsLED,
                 taskExitSemaphore, deviceVars, taskVars>>

TaskJoin ==
  /\ pc0 = "taskJoin" /\ taskExitSemaphore = 1
  /\ taskExitSemaphore' = 0
  /\ goto("taskForget")
  /\ UNCHANGED <<loopVars, configVars, streamVars, stopVars, core1OwnsLED,
                 audioTaskRunning, deviceVars, taskVars>>

(* The 2 s wait ends without a token when no task is on its way out.  *)
TaskJoinTimeout ==
  /\ taskExitSemaphore = 0
  /\ \A t \in Task : \/ ~live(t) \/ audioTaskRunning
                     \/ Stalls /\ pc1[t] \in SocketCall
  /\ Pass("taskJoin", "taskForget")

TaskForget ==
  /\ pc0 = "taskForget"
  /\ audioCaptureTaskHandle' = NoTask
  /\ op0' = IF op0 = "wifi" THEN "none" ELSE op0
  /\ goto(AfterJoin(op0))
  /\ UNCHANGED <<resume0, wasStreaming, serverVars, currentBufferSize, sharedVars,
                 deviceVars, taskVars>>

-----------------------------------------------------------------------------
(* restartI2S. *)

Restart ==
  /\ pc0 = "restart"
  /\ resume0' = isStreaming
  /\ goto("restartStop")
  /\ UNCHANGED <<op0, wasStreaming, configVars, sharedVars, deviceVars, taskVars>>

(* Mutant: the driver is reinstalled without stopping anything. *)
RestartLive == Pass("restartStop", "i2sSetup")

RestartStop == Pass("restartStop", StopOr("taskStop"))

(* setup_i2s_driver removes and reinstalls the driver the task captures from. *)
I2SSetup == Pass("i2sSetup", "resume")

AfterRestart(op) == CASE op = "restart" -> "temp"
                      [] op = "recover" -> "wifi"
                      [] OTHER          -> "web"

RestartDone ==
  /\ pc0 = "resume" /\ ~(resume0 /\ connected)
  /\ op0' = "none" /\ resume0' = FALSE /\ goto(AfterRestart(op0))
  /\ UNCHANGED <<wasStreaming, configVars, sharedVars, deviceVars, taskVars>>

RestartResume == resume0 /\ connected /\ Pass("resume", "playClient")

(* The end of PLAY and of restartI2S: publish the client, start the task. *)
PlayClient ==
  /\ pc0 = "playClient"
  /\ streamClient' = rtspClient
  /\ goto("playStream")
  /\ UNCHANGED <<loopVars, configVars, isStreaming, stopVars, core1OwnsLED, joinVars,
                 deviceVars, taskVars>>

PlayStream ==
  /\ pc0 = "playStream"
  /\ isStreaming' = TRUE
  /\ goto("startTask")
  /\ UNCHANGED <<loopVars, configVars, streamClient, stopVars, core1OwnsLED, joinVars,
                 deviceVars, taskVars>>

(* Mutant: the handle is not looked at. *)
NewTaskAlways(t) ==
  /\ ~live(t)
  /\ audioCaptureTaskHandle' = t
  /\ pc1' = [pc1 EXCEPT ![t] = "init"]

(* startAudioCaptureTask returns early on a handle it already holds. *)
NewTask(t) ==
  /\ audioCaptureTaskHandle = NoTask /\ ~live(t)
  /\ audioCaptureTaskHandle' = t
  /\ pc1' = [pc1 EXCEPT ![t] = "init"]

NoNewTask ==
  /\ \/ audioCaptureTaskHandle # NoTask
     \/ HeapMayFail
     \/ \A t \in Task : live(t)
  /\ UNCHANGED <<audioCaptureTaskHandle, pc1>>

StartTask ==
  /\ pc0 = "startTask"
  /\ (\E t \in Task : NewTask(t)) \/ NoNewTask
  /\ op0' = "none" /\ resume0' = FALSE /\ goto(AfterRestart(op0))
  /\ UNCHANGED <<wasStreaming, serverVars, currentBufferSize, sharedVars, deviceVars,
                 client, cause, bufLen>>

-----------------------------------------------------------------------------
(* Core 0: idle timeout and the RTSP phases of loop(). *)

(* rtspClient.connected() is asked before isStreaming is. *)
Idle == Pass("idle", IF connected THEN "idleCheck" ELSE "rtsp")

IdleCheck ==
  \/ ~isStreaming /\ Pass("idleCheck", "idleStop")
  \/ Pass("idleCheck", "rtsp")

IdleStop ==
  /\ pc0 = "idleStop"
  /\ connected' = FALSE
  /\ goto("rtsp")
  /\ UNCHANGED <<loopVars, configVars, sharedVars, led, taskVars>>

(* Mutant: the LED is redrawn on every pass after a stream has started. *)
DetectDraws ==
  /\ rtspServerEnabled
  /\ IF wasStreaming THEN Call("rtsp", "detect", "ledDraw") ELSE Pass("rtsp", "update")

(* Has the stream ended since the last pass? *)
Detect ==
  /\ rtspServerEnabled
  /\ IF wasStreaming /\ ~isStreaming
       THEN Call("rtsp", "detect", "ledCheck")
       ELSE Pass("rtsp", "update")

ServerDisabled == ~rtspServerEnabled /\ Call("rtsp", "disabled", StopOr("ledCheck"))

AfterLed(op) == IF op = "detect" THEN "update" ELSE "web"

LedCheck == IF core1OwnsLED
              THEN Call("ledCheck", "none", AfterLed(op0))
              ELSE Pass("ledCheck", "ledDraw")

LedDraw ==
  /\ pc0 = "ledDraw"
  /\ led' = IF op0 = "disabled" /\ overheatLatched THEN "hot" ELSE "idle"
  /\ op0' = "none" /\ goto(AfterLed(op0))
  /\ UNCHANGED <<resume0, wasStreaming, configVars, sharedVars, connected, taskVars>>

Update ==
  /\ pc0 = "update"
  /\ wasStreaming' = isStreaming
  /\ goto("admit")
  /\ UNCHANGED <<op0, resume0, configVars, sharedVars, deviceVars, taskVars>>

(* Mutant: a client is admitted during a stream. *)
AdmitAlways == Pass("admit", "accept")

Admit == Pass("admit", IF isStreaming THEN "web" ELSE "accept")

(* A connected client is kept; otherwise one may be waiting. *)
Accept ==
  /\ pc0 = "accept"
  /\ \/ goto("negotiate") /\ connected' = TRUE
     \/ ~connected /\ goto("web") /\ UNCHANGED connected
  /\ UNCHANGED <<loopVars, configVars, sharedVars, led, taskVars>>

(* No request yet, or one that leaves the stream alone. *)
RtspOther == Pass("negotiate", "web")

RtspPlay ==
  /\ pc0 = "negotiate" /\ connected
  /\ stopStreamRequested' = FALSE /\ streamCleanupDone' = FALSE /\ core1OwnsLED' = TRUE
  /\ goto("playClient")
  /\ UNCHANGED <<loopVars, configVars, streamVars, joinVars, deviceVars, taskVars>>

RtspTeardown == connected /\ Call("negotiate", "teardown", StopOr("ledCheck"))

Core0 ==
  \/ Skip \/ httpStatus \/ httpActionServerStart \/ httpThermalClear \/ httpSetThermal
  \/ httpRestart \/ (\E size \in BufferSizes : httpSetBuffer(size))
  \/ httpActionServerStop \/ checkTemperatureTrip \/ checkTemperatureRearm \/ ServerOff
  \/ checkPerformanceRecover \/ checkWiFiHealthLost
  \/ StopEntry \/ StopPoll \/ StopDecide \/ StopConfirmed \/ StopForced \/ StopAck
  \/ TaskStop \/ TaskJoin \/ TaskJoinTimeout \/ TaskForget
  \/ Restart \/ RestartStop \/ I2SSetup \/ RestartDone \/ RestartResume
  \/ PlayClient \/ PlayStream \/ StartTask
  \/ Idle \/ IdleCheck \/ IdleStop \/ Detect \/ ServerDisabled \/ LedCheck \/ LedDraw
  \/ Update \/ Admit \/ Accept \/ RtspOther \/ RtspPlay \/ RtspTeardown

-----------------------------------------------------------------------------
(* Core 1: audioCaptureTask. *)

at(t, l) == pc1[t] = l
move(t, l) == pc1' = [pc1 EXCEPT ![t] = l]

(* A step that reads shared state and changes none. *)
Look(t, from, to) ==
  /\ at(t, from) /\ move(t, to)
  /\ UNCHANGED <<core0Vars, sharedVars, deviceVars, client, cause, bufLen>>

TaskInit(t) ==
  /\ at(t, "init") /\ move(t, "alloc")
  /\ audioTaskRunning' = TRUE
  /\ UNCHANGED <<core0Vars, streamVars, stopVars, core1OwnsLED, taskExitSemaphore,
                 deviceVars, client, cause, bufLen>>

TaskAlloc(t) ==
  /\ at(t, "alloc") /\ move(t, "loop")
  /\ bufLen' = [bufLen EXCEPT ![t] = currentBufferSize]
  /\ UNCHANGED <<core0Vars, sharedVars, deviceVars, client, cause>>

TaskAllocFails(t) ==
  /\ HeapMayFail
  /\ at(t, "alloc") /\ move(t, "dead")
  /\ audioTaskRunning' = FALSE
  /\ UNCHANGED <<core0Vars, streamVars, stopVars, core1OwnsLED, taskExitSemaphore,
                 deviceVars, client, cause, bufLen>>

(* The top of the loop: leave, obey a stop request, or find work. *)
TaskLoop(t) == Look(t, "loop", IF audioTaskRunning THEN "check" ELSE "exit")

(* Mutant: a stop request is confirmed without closing the client. *)
TaskCheckLeaves(t) ==
  /\ at(t, "check")
  /\ IF stopStreamRequested
       THEN move(t, "clearClient") /\ cause' = [cause EXCEPT ![t] = "request"]
       ELSE move(t, "gate") /\ UNCHANGED cause
  /\ UNCHANGED <<core0Vars, sharedVars, deviceVars, client, bufLen>>

TaskCheck(t) ==
  /\ at(t, "check")
  /\ IF stopStreamRequested
       THEN /\ move(t, IF streamClient = NULL THEN "clearClient" ELSE "close")
            /\ client' = [client EXCEPT ![t] = streamClient]
            /\ cause' = [cause EXCEPT ![t] = "request"]
       ELSE move(t, "gate") /\ UNCHANGED <<client, cause>>
  /\ UNCHANGED <<core0Vars, sharedVars, deviceVars, bufLen>>

TaskGate(t) ==
  \/ Look(t, "gate", IF isStreaming THEN "gate2" ELSE "loop")
  \/ Look(t, "gate2", IF streamClient = NULL THEN "loop" ELSE "grab")

TaskGrab(t) ==
  /\ at(t, "grab") /\ move(t, "capture")
  /\ client' = [client EXCEPT ![t] = streamClient]
  /\ UNCHANGED <<core0Vars, sharedVars, deviceVars, cause, bufLen>>

(* One block: i2s_read delivers or not, the LED is due or not. *)
TaskNoBlock(t) == Look(t, "capture", "loop")

TaskBlock(t) == \E l \in {"led", "conn"} : Look(t, "capture", l)

TaskLed(t) ==
  /\ at(t, "led") /\ move(t, "conn")
  /\ led' = "stream"
  /\ UNCHANGED <<core0Vars, sharedVars, connected, client, cause, bufLen>>

(* Start cleaning up after the client. *)
GiveUp(t, from, why) ==
  /\ at(t, from) /\ move(t, "close")
  /\ cause' = [cause EXCEPT ![t] = why]
  /\ UNCHANGED <<core0Vars, sharedVars, deviceVars, client, bufLen>>

(* Mutant: packets are written without asking connected(). *)
TaskConnBlind(t) == Look(t, "conn", "write")

TaskConn(t) ==
  \/ connected /\ Look(t, "conn", "write")
  \/ ~connected /\ GiveUp(t, "conn", "send")

(* The packet is sent or dropped; the hundredth failure in a row gives up. *)
TaskWrite(t) ==
  \/ Look(t, "write", "rtspCheck")
  \/ ClientLeaves /\ GiveUp(t, "write", "send")

TaskRtspCheck(t) ==
  \E l \in {"loop"} \cup (IF isStreaming THEN {"rtspRead"} ELSE {}) : Look(t, "rtspCheck", l)

TaskRtspRead(t) ==
  \/ Look(t, "rtspRead", "loop")
  \/ ClientLeaves /\ GiveUp(t, "rtspRead", "teardown")

(* The three clean-ups write the same variables in the same order. *)
TaskClose(t) ==
  /\ at(t, "close") /\ move(t, "clearClient")
  /\ connected' = FALSE
  /\ UNCHANGED <<core0Vars, sharedVars, led, client, cause, bufLen>>

TaskClearClient(t) ==
  /\ at(t, "clearClient") /\ move(t, "clearStream")
  /\ streamClient' = NULL
  /\ UNCHANGED <<core0Vars, isStreaming, stopVars, core1OwnsLED, joinVars, deviceVars,
                 client, cause, bufLen>>

TaskClearStream(t) ==
  /\ at(t, "clearStream") /\ move(t, "clearLed")
  /\ isStreaming' = FALSE
  /\ UNCHANGED <<core0Vars, streamClient, stopVars, core1OwnsLED, joinVars, deviceVars,
                 client, cause, bufLen>>

AfterClean(why) == CASE why = "request" -> "confirm"
                     [] why = "send"    -> "rtspCheck"
                     [] OTHER           -> "loop"

TaskClearLed(t) ==
  /\ at(t, "clearLed") /\ move(t, AfterClean(cause[t]))
  /\ core1OwnsLED' = FALSE
  /\ cause' = [cause EXCEPT ![t] = "none"]
  /\ UNCHANGED <<core0Vars, streamVars, stopVars, joinVars, deviceVars, client, bufLen>>

TaskConfirm(t) ==
  /\ at(t, "confirm") /\ move(t, "park")
  /\ streamCleanupDone' = TRUE
  /\ UNCHANGED <<core0Vars, streamVars, stopStreamRequested, core1OwnsLED, joinVars,
                 deviceVars, client, cause, bufLen>>

(* Wait until Core 0 takes the request back or ends the task. *)
TaskPark(t) ==
  /\ ~(stopStreamRequested /\ audioTaskRunning)
  /\ Look(t, "park", "loop")

TaskExit(t) ==
  /\ at(t, "exit") /\ move(t, "exitFlag")
  /\ core1OwnsLED' = FALSE
  /\ UNCHANGED <<core0Vars, streamVars, stopVars, joinVars, deviceVars, client, cause, bufLen>>

TaskExitFlag(t) ==
  /\ at(t, "exitFlag") /\ move(t, "give")
  /\ audioTaskRunning' = FALSE
  /\ UNCHANGED <<core0Vars, streamVars, stopVars, core1OwnsLED, taskExitSemaphore,
                 deviceVars, client, cause, bufLen>>

TaskGive(t) ==
  /\ at(t, "give") /\ move(t, "dead")
  /\ taskExitSemaphore' = 1
  /\ client' = [client EXCEPT ![t] = NULL]
  /\ bufLen' = [bufLen EXCEPT ![t] = 0]
  /\ UNCHANGED <<core0Vars, streamVars, stopVars, core1OwnsLED, audioTaskRunning,
                 deviceVars, cause>>

Core1(t) ==
  \/ TaskInit(t) \/ TaskAlloc(t) \/ TaskAllocFails(t)
  \/ TaskLoop(t) \/ TaskCheck(t) \/ TaskGate(t) \/ TaskGrab(t)
  \/ TaskNoBlock(t) \/ TaskBlock(t) \/ TaskLed(t) \/ TaskConn(t) \/ TaskWrite(t)
  \/ TaskRtspCheck(t) \/ TaskRtspRead(t)
  \/ TaskClose(t) \/ TaskClearClient(t) \/ TaskClearStream(t) \/ TaskClearLed(t)
  \/ TaskConfirm(t) \/ TaskPark(t)
  \/ TaskExit(t) \/ TaskExitFlag(t) \/ TaskGive(t)

(* External: the peer's half of the connection. *)
PeerCloses ==
  /\ ClientLeaves /\ connected
  /\ connected' = FALSE
  /\ UNCHANGED <<core0Vars, sharedVars, led, taskVars>>

Next == Core0 \/ (\E t \in Task : Core1(t)) \/ PeerCloses

Spec == Init /\ [][Next]_vars

(* Both cores keep running, and the microphone keeps delivering blocks. *)
Fairness ==
  /\ WF_vars(Core0)
  /\ \A t \in Task : WF_vars(Core1(t)) /\ SF_vars(TaskBlock(t))

FairSpec == Spec /\ Fairness

-----------------------------------------------------------------------------
(* Safety while every socket call is short and millis() does not wrap. *)

(* Core 0 about to read, write, replace or close rtspClient, *)
Core0Uses ==
  \/ pc0 \in {"idleStop", "accept", "negotiate"}
  \/ pc0 = "ledCheck" /\ op0 = "teardown"

(* and about to ask rtspClient.connected(), streaming or not. *)
Core0Asks == pc0 \in {"status", "idle", "resume"}

(* The socket has one user: when the loop replaces, reads, answers on or    *)
(* closes the client, no task is in a call on it, however the task's own    *)
(* clean-up and the loop's tests of isStreaming interleave.                 *)
SocketExclusive == Core0Uses => \A t \in Task : pc1[t] \notin SocketCall

(* The hand-over implements SocketOwnership: owner, uses and questions,     *)
(* read off the flag and the labels.                                        *)
TaskUses == \E t \in Task : pc1[t] \in SocketCall \ {"conn"}
TaskAsks == \E t \in Task : pc1[t] = "conn"

Ownership == INSTANCE SocketOwnership WITH
  owner  <- IF isStreaming THEN "task" ELSE "loop",
  using  <- (IF Core0Uses THEN {"loop"} ELSE {}) \cup (IF TaskUses THEN {"task"} ELSE {}),
  asking <- (IF Core0Asks THEN {"loop"} ELSE {}) \cup (IF TaskAsks THEN {"task"} ELSE {}),
  open   <- connected

(* The core that does not own the socket neither reads, writes, replaces    *)
(* nor closes it, and isStreaming changes hands only between two such uses. *)
(* Core 0's tests of connected() (idle check, status page, restart) do run  *)
(* beside the task's uses; the task's own test does not outlive a stream.   *)
ImplementsOwnership == Ownership!Spec

(* The I2S driver is never taken down under a task that is capturing:       *)
(* setup_i2s_driver runs only after stopAudioCaptureTask has joined it.     *)
DriverExclusive == pc0 = "i2sSetup" => \A t \in Task : pc1[t] # "capture"

(* The LED has one writer: the loop draws only when no task is drawing.     *)
LedExclusive == pc0 = "ledDraw" => \A t \in Task : pc1[t] # "led"

(* Restarts, stops and failed allocations never leave two pipelines alive.  *)
OneTask == \A t, u \in Task : live(t) /\ live(u) => t = u

(* The pointer a task fetched after testing streamClient is still one: no   *)
(* clean-up by Core 0 fell between the test and the fetch.                  *)
NoNullClient == \A t \in Task : pc1[t] \in SocketCall => client[t] # NULL

(* requestStreamStop answers true only when the stream it was asked to stop *)
(* is over: socket closed, pointer withdrawn and no task left in a session. *)
ConfirmedMeansClosed ==
  pc0 = "confirmed" => /\ ~connected /\ streamClient = NULL /\ ~isStreaming
                       /\ \A t \in Task : pc1[t] \in {"dead", "park"}

(* A task captures into buffers of another size than i2s_read is told only  *)
(* while the handler that changed the size is still asking it to stop: no   *)
(* restart leaves a pipeline behind whose buffers are of the old size.      *)
StaleBufferEnds ==
  \A t \in Task : pc1[t] = "capture" /\ bufLen[t] # currentBufferSize =>
    op0 = "restart" /\ pc0 \in {"restart", "restartStop", "stopEntry", "stopPoll"}

-----------------------------------------------------------------------------
(* The inductive invariant behind these: who may do what while Core 0 is    *)
(* where.  No conjunct is inductive without the others.                     *)

(* Core 0 past a test or a stop that found no stream. *)
QuietLabel == {"stopAck", "taskStop", "taskJoin", "taskForget", "i2sSetup", "resume",
               "playClient", "playStream", "serverOff", "idleStop", "ledCheck", "ledDraw",
               "accept", "negotiate"}
QuietInv == pc0 \in QuietLabel => ~isStreaming

WaitLabel == {"stopPoll", "stopDecide", "confirmed", "forced", "stopAck"}

StreamOver == ~isStreaming /\ streamClient = NULL /\ ~connected

(* t serves, or was created to serve, the stream that is on. *)
InSession(t) ==
  \/ pc1[t] \in {"init", "alloc", "gate2", "grab", "capture", "led", "conn", "write", "rtspRead"}
  \/ pc1[t] \in {"close", "clearClient"} /\ cause[t] # "request"

(* t is answering a stop request. *)
Answering(t) ==
  \/ pc1[t] \in {"close", "clearClient", "clearStream", "clearLed"} /\ cause[t] = "request"
  \/ pc1[t] = "confirm"

HandleInv ==
  /\ \A t \in Task : live(t) => audioCaptureTaskHandle = t
  /\ pc0 \in {"taskForget", "i2sSetup", "resume"} => \A t \in Task : ~live(t)
  /\ pc0 = "startTask" /\ audioCaptureTaskHandle = NoTask => isStreaming

JoinInv ==
  /\ taskExitSemaphore = 1 => pc0 = "taskJoin" /\ \A t \in Task : ~live(t)
  /\ pc0 = "taskJoin" => ~audioTaskRunning
  /\ \A t \in Task : /\ live(t) /\ pc1[t] # "init" /\ pc0 # "taskJoin" => audioTaskRunning
                     /\ pc1[t] \in ExitLabel => pc0 = "taskJoin"

StopInv ==
  /\ stopStreamRequested <=> pc0 \in WaitLabel
  /\ pc0 \in WaitLabel \ {"stopPoll"} => \A t \in Task : pc1[t] \in {"dead", "park"}
  /\ streamCleanupDone => /\ pc0 \in WaitLabel \ {"forced"}
                         /\ StreamOver
                         /\ \A t \in Task : pc1[t] \in {"dead", "park"}
  /\ pc0 = "confirmed" => streamCleanupDone
  /\ pc0 = "stopPoll" /\ streamClient = NULL => ~connected

StreamInv ==
  /\ QuietInv
  /\ pc0 = "playStream" => streamClient = rtspClient
  /\ streamClient = rtspClient => isStreaming \/ pc0 = "playStream"
  /\ isStreaming => streamClient = rtspClient \/ \E t \in Task : pc1[t] = "clearStream"

SessionInv ==
  \A t \in Task :
    /\ InSession(t) => isStreaming /\ streamClient = rtspClient
    /\ pc1[t] = "clearStream" /\ cause[t] # "request" => isStreaming
    /\ pc1[t] = "close" => streamClient = rtspClient /\ isStreaming
    /\ \/ pc1[t] \in BlockLabel \cup {"close"}
       \/ pc1[t] \in {"clearClient", "clearStream", "clearLed"} /\ cause[t] = "send"
       => client[t] = rtspClient

CleanInv ==
  \A t \in Task :
    /\ Answering(t) => pc0 = "stopPoll"
    /\ pc1[t] \in {"clearClient", "clearStream"} => ~connected
    /\ pc1[t] = "clearStream" => streamClient = NULL
    /\ Answering(t) /\ pc1[t] \in {"clearLed", "confirm"} => StreamOver

(* Core 0 and the tasks agree on who owns the stream, the socket and the    *)
(* task at every step of the hand-over, the stop and the join.              *)
HandoffInv ==
  TypeOK /\ HandleInv /\ JoinInv /\ StopInv /\ StreamInv /\ SessionInv /\ CleanInv

(* A restart between storing a size and joining the task of the old one. *)
OldSizeLabel == {"restart", "restartStop", "stopEntry", "taskStop", "taskJoin"} \cup WaitLabel
Outdated(t) == live(t) /\ pc1[t] \notin StartLabel /\ bufLen[t] # currentBufferSize

(* A task whose buffers are of another size is being restarted. *)
SizeInv == (\E t \in Task : Outdated(t)) => op0 = "restart" /\ pc0 \in OldSizeLabel

-----------------------------------------------------------------------------
(* Safety in every regime, timeouts and orphaned tasks included. *)

(* Once the thermal latch is set and the trip handler has returned, nothing *)
(* streams and nobody can connect until the latch is cleared.               *)
ThermalSilence ==
  overheatLatched /\ op0 # "overheat" => ~rtspServerEnabled /\ ~isStreaming

(* A server that is off does not stream, whichever handler switched it off  *)
(* and whatever was restarting at the time.                                 *)
ServerOffSilent == ~rtspServerEnabled => ~isStreaming /\ pc0 \notin PlayLabel

(* The hand-over keeps the server's contract, whatever stalls or times out: *)
(* what happens between two cores is one stream for the contract, the trip  *)
(* handler is a trip, and the latch is saved as soon as it is set.          *)
Server == INSTANCE ServerContract WITH
  latched <- overheatLatched, saved <- overheatLatched, serving <- rtspServerEnabled,
  streaming <- isStreaming, tripping <- op0 = "overheat"
ImplementsContract == Server!Spec

(* The inductive invariant behind these: which handler Core 0 is in at  *)
(* each label, and which labels it reaches only with the server on.         *)
CallerInv ==
  /\ pc0 \in StopLabel => op0 \in {"serverStop", "overheat", "restart", "recover", "wifi",
                                  "disabled", "teardown"}
  /\ pc0 \in JoinLabel => op0 \in {"overheat", "restart", "recover", "wifi", "disabled"}
  /\ pc0 \in RestartLabel => op0 \in {"restart", "recover"}
  /\ pc0 \in PlayLabel => op0 \in {"none", "restart", "recover"}
  /\ pc0 = "serverOff" => op0 \in {"serverStop", "overheat"}
  /\ pc0 \in {"ledCheck", "ledDraw"} => op0 \in {"disabled", "detect", "teardown"}
  /\ pc0 \in LoopLabel \ {"serverOff", "ledCheck", "ledDraw"} => op0 = "none"
  /\ resume0 => op0 \in {"restart", "recover"}
  /\ op0 = "overheat" => overheatLatched

NeedsServer ==
  \/ pc0 \in {"update", "admit", "accept", "negotiate"} \cup PlayLabel
  \/ pc0 \in {"ledCheck", "ledDraw"} /\ op0 = "detect"
  \/ resume0
  \/ isStreaming

ServerOnInv == NeedsServer => rtspServerEnabled

ServerInv == TypeOK /\ CallerInv /\ ServerOnInv /\ QuietInv /\ ThermalSilence

-----------------------------------------------------------------------------
(* Progress of Core 0, in every regime: the safety half of LoopReturns. *)

(* The label of loop() a handler was called from, *)
CalledFrom == [serverStop |-> "web", restart |-> "web", overheat |-> "temp",
               recover |-> "perf", wifi |-> "wifi", disabled |-> "rtsp", detect |-> "rtsp",
               teardown |-> "negotiate"]

(* how much of loop() is left from there, and how much of the handler. *)
LoopLeft == [web |-> 12, status |-> 11, temp |-> 10, perf |-> 9, wifi |-> 8, idle |-> 7,
             idleCheck |-> 6, idleStop |-> 5, rtsp |-> 4, update |-> 3, admit |-> 2,
             accept |-> 1, negotiate |-> 0]
HandlerLeft == [restart |-> 16, restartStop |-> 15, stopEntry |-> 14, stopPoll |-> 13,
                stopDecide |-> 12, confirmed |-> 11, forced |-> 11, stopAck |-> 10,
                taskStop |-> 9, taskJoin |-> 8, taskForget |-> 7, serverOff |-> 6,
                i2sSetup |-> 6, resume |-> 5, playClient |-> 4, playStream |-> 3,
                startTask |-> 2, ledCheck |-> 2, ledDraw |-> 1]

(* Steps Core 0 can still take at label l of handler op before it is back   *)
(* at the web server: at most this many.                                    *)
Left(l, op) ==
  20 * LoopLeft[CASE op # "none" -> CalledFrom[op]
                  [] op = "none" /\ l \in PlayLabel -> "negotiate"
                  [] OTHER -> l]
  + (IF l \in DOMAIN HandlerLeft THEN HandlerLeft[l] ELSE 17)

(* A pass of loop() is bounded: every step Core 0 takes outside web.handle- *)
(* Client leaves fewer to take, so that no check, stop, join or restart     *)
(* starts another, or itself, over again, and only a wait can keep the loop *)
(* from coming round.                                                       *)
PassEnds ==
  [][pc0' # pc0 /\ pc0 # "web" => pc0' = "web" \/ Left(pc0', op0') < Left(pc0, op0)]_vars

-----------------------------------------------------------------------------
(* Liveness. *)

(* Core 0 always comes back to its loop: no stop, join or restart can hang  *)
(* the web UI, even when the task it waits for could not be started.        *)
LoopReturns == []<>(pc0 = "web")

(* A stream whose peer has gone is ended by the task that serves it, with   *)
(* no help from the loop, once the task has its buffers.  (One whose task   *)
(* could not be started is not: isStreaming then stays set.)                *)
served == isStreaming /\ \E t \in Task : InSession(t) /\ pc1[t] \notin {"init", "alloc"}
DeadPeerNoticed == (served /\ ~connected) ~> ~isStreaming

=============================================================================
