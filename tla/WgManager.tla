----------------------------- MODULE WgManager -----------------------------
(***************************************************************************)
(* The WireGuard manager: wg_tick and the web handlers, both steps of the  *)
(* main loop, and the task that resolves the endpoint's name.  They share  *)
(* the task handle, the result, its two flags and an 8-bit generation, all *)
(* without a lock.  Each step makes one access to a variable the other     *)
(* thread may write; what runs while no task exists is one step.           *)
(*                                                                         *)
(* An address is represented by the host it was resolved from.  Time is    *)
(* the number of 5 s steps since the last attempt.                         *)
(***************************************************************************)
EXTENDS Naturals

CONSTANTS
  Host,         \* endpoint names a user may configure
  NoHost,       \* the empty string
  Task,         \* identities of resolver tasks
  NoTask,       \* the null handle
  GenMod,       \* values of s_dnsGeneration: 256, a uint8_t
  Attempts,     \* lookups of one task: 5
  BackoffCap,   \* 30 s in steps of 5 s
  DownWait,     \* 30 s in steps of 5 s
  Window,       \* may a cancellation fall between a task's last test and its end?
  Wraps,        \* may the generation come round while one task lives?
  Edits         \* may the user change the configuration?

ASSUME HostAssumption == NoHost \notin Host
ASSUME TaskAssumption == NoTask \notin Task
ASSUME NumberAssumption == /\ GenMod \in Nat /\ GenMod > 1
                           /\ {Attempts, BackoffCap, DownWait} \subseteq Nat \ {0}
ASSUME RegimeAssumption == {Window, Wraps, Edits} \subseteq BOOLEAN

VARIABLES
  pc, op,                  \* the loop's next step, and the operation it is in
  s_enabled, s_endpointHost,
  restGiven,               \* are both keys and the tunnel address non-empty?
  addressValid,            \* does parseTunnelAddress accept the tunnel address?
  s_state, s_wasUp,
  backoff,                 \* s_backoffMs, in steps of 5 s
  sinceAttempt,            \* millis() - s_lastAttemptMs, in steps of 5 s
  initialized,             \* s_wg.is_initialized()
  endpoint,                \* the address the tunnel was started with
  s_dnsTaskHandle, s_dnsGeneration, s_dnsDone, s_dnsFailed, s_resolvedEndpointIP,
  pcd, myGen, asked, success, retry,  \* each task's next step and locals
  peerUp,                  \* s_wg.isPeerUp(), when initialized
  settled                  \* have outages and changes ended?

loopVars == <<pc, op>>
configVars == <<s_enabled, s_endpointHost, restGiven, addressValid>>
pacingVars == <<backoff, sinceAttempt>>
stateVars == <<s_state, s_wasUp>>
tunnelVars == <<initialized, endpoint, peerUp>>
resultVars == <<s_dnsDone, s_dnsFailed, s_resolvedEndpointIP>>
handleVars == <<s_dnsTaskHandle, s_dnsGeneration>>
taskVars == <<pcd, myGen, asked, success, retry>>
managerVars == <<configVars, pacingVars, stateVars, tunnelVars>>
dnsVars == <<resultVars, handleVars, taskVars>>
vars == <<loopVars, managerVars, dnsVars, settled>>

State == {"DISABLED", "WAIT_TIME", "WAIT_WIFI", "CONNECTING", "UP"}
Op == {"none", "on", "off", "set", "time", "wifi", "again", "clear"}
TickOp == {"time", "wifi", "again"}
Cancelling == {"bump", "stopBump"}
LoopLabel == {"tick", "look", "begin", "outer", "cancel", "stop", "end", "finish", "web",
              "restart"} \cup Cancelling
(* The labels of a task after its last test of the generation. *)
Publishing == {"done", "failed", "clear"}
TaskLabel == {"dead", "try", "lookup", "again", "publish", "quit"} \cup Publishing

live(t) == pcd[t] # "dead"
Cap == IF BackoffCap > DownWait THEN BackoffCap ELSE DownWait
complete == restGiven /\ s_endpointHost # NoHost
bumped == (s_dnsGeneration + 1) % GenMod
longer == IF backoff < BackoffCap THEN backoff + 1 ELSE backoff
current(t) == myGen[t] = s_dnsGeneration

TypeOK ==
  /\ pc \in LoopLabel /\ op \in Op
  /\ s_enabled \in BOOLEAN /\ s_endpointHost \in Host \cup {NoHost}
  /\ restGiven \in BOOLEAN /\ addressValid \in BOOLEAN
  /\ s_state \in State /\ s_wasUp \in BOOLEAN
  /\ backoff \in 1..BackoffCap /\ sinceAttempt \in 0..Cap
  /\ initialized \in BOOLEAN /\ endpoint \in Host \cup {NoHost} /\ peerUp \in BOOLEAN
  /\ s_dnsTaskHandle \in Task \cup {NoTask} /\ s_dnsGeneration \in 0..GenMod-1
  /\ s_dnsDone \in BOOLEAN /\ s_dnsFailed \in BOOLEAN
  /\ s_resolvedEndpointIP \in Host \cup {NoHost}
  /\ pcd \in [Task -> TaskLabel] /\ myGen \in [Task -> 0..GenMod-1]
  /\ asked \in [Task -> Host \cup {NoHost}] /\ success \in [Task -> BOOLEAN]
  /\ retry \in [Task -> 0..Attempts]
  /\ settled \in BOOLEAN

(* The configuration as it is in NVS: empty, or whatever was saved.  The    *)
(* rest starts as the static initialisers and wg_load leave it.              *)
Init ==
  /\ s_enabled \in BOOLEAN /\ s_endpointHost \in Host \cup {NoHost}
  /\ restGiven \in BOOLEAN /\ addressValid \in BOOLEAN
  /\ settled = FALSE
  /\ pc = "tick" /\ op = "none"
  /\ s_state = IF s_enabled THEN "WAIT_TIME" ELSE "DISABLED"
  /\ s_wasUp = FALSE /\ backoff = 1 /\ sinceAttempt = 0
  /\ initialized = FALSE /\ endpoint = NoHost /\ peerUp = FALSE
  /\ s_dnsTaskHandle = NoTask /\ s_dnsGeneration = 0
  /\ s_dnsDone = FALSE /\ s_dnsFailed = FALSE /\ s_resolvedEndpointIP = NoHost
  /\ pcd = [t \in Task |-> "dead"] /\ myGen = [t \in Task |-> 0]
  /\ asked = [t \in Task |-> NoHost] /\ success = [t \in Task |-> FALSE]
  /\ retry = [t \in Task |-> 0]

-----------------------------------------------------------------------------
(* The loop. *)

goto(l) == pc' = l
Pass(l) == goto(l) /\ UNCHANGED <<op, managerVars, dnsVars, settled>>
Start(o, l) == op' = o /\ goto(l)

(* wg_tick while disabled: nothing is left to cancel or stop. *)
TickDisabled == pc = "tick" /\ ~s_enabled /\ Pass("web")

(* The wall clock is not set: wait, after cancelling and stopping once. *)
TickNoTime ==
  /\ pc = "tick" /\ s_enabled /\ ~settled
  /\ IF s_state = "WAIT_TIME" THEN Pass("web")
     ELSE /\ Start("time", "outer") /\ s_state' = "WAIT_TIME"
          /\ UNCHANGED <<configVars, pacingVars, s_wasUp, tunnelVars, dnsVars, settled>>

(* WiFi is down: cancel and stop at every tick. *)
TickNoWifi ==
  /\ pc = "tick" /\ s_enabled /\ ~settled
  /\ Start("wifi", "outer")
  /\ UNCHANGED <<managerVars, dnsVars, settled>>

(* No tunnel yet: take a result at once, otherwise see what is under way. *)
TickConnect ==
  /\ pc = "tick" /\ s_enabled /\ ~initialized
  /\ Pass(IF s_dnsDone /\ ~s_dnsFailed THEN "begin" ELSE "look")

TickLook ==
  /\ pc = "look"
  /\ goto(IF s_dnsTaskHandle # NoTask \/ sinceAttempt < backoff THEN "web" ELSE "begin")
  /\ s_state' = IF s_dnsTaskHandle # NoTask THEN "CONNECTING" ELSE s_state
  /\ UNCHANGED <<op, configVars, pacingVars, s_wasUp, tunnelVars, dnsVars, settled>>

(* The tunnel is there: watch the peer, and start afresh after 30 s. *)
TickUp ==
  /\ pc = "tick" /\ s_enabled /\ initialized /\ peerUp
  /\ goto("web")
  /\ s_wasUp' = TRUE /\ s_state' = "UP"
  /\ backoff' = IF s_wasUp THEN backoff ELSE 1
  /\ UNCHANGED <<op, configVars, sinceAttempt, tunnelVars, dnsVars, settled>>

(* Mutant: the wait is forgotten: a peer that never answers is never given up. *)
TickDownWaits ==
  /\ pc = "tick" /\ s_enabled /\ initialized /\ ~peerUp /\ goto("web")
  /\ s_wasUp' = FALSE /\ s_state' = "CONNECTING"
  /\ UNCHANGED <<op, configVars, pacingVars, tunnelVars, dnsVars, settled>>

TickDown ==
  /\ pc = "tick" /\ s_enabled /\ initialized /\ ~peerUp
  /\ s_wasUp' = FALSE /\ s_state' = "CONNECTING"
  /\ IF sinceAttempt < DownWait THEN goto("web") /\ UNCHANGED op ELSE Start("again", "stop")
  /\ UNCHANGED <<configVars, pacingVars, tunnelVars, dnsVars, settled>>

(* wg_begin: its preconditions, a resolver that still runs, ...            *)
BeginNot ==
  /\ pc = "begin" /\ (~complete \/ s_dnsTaskHandle # NoTask)
  /\ Pass("web")

ClearResult == s_dnsDone' = FALSE /\ s_dnsFailed' = FALSE /\ s_resolvedEndpointIP' = NoHost

(* Mutant: the result is used but not consumed. *)
BeginTakeKeeps ==
  /\ pc = "begin" /\ complete /\ s_dnsTaskHandle = NoTask /\ s_dnsDone
  /\ ~s_dnsFailed /\ addressValid /\ goto("web")
  /\ initialized' = TRUE /\ endpoint' = s_resolvedEndpointIP /\ peerUp' = FALSE
  /\ sinceAttempt' = 0
  /\ UNCHANGED <<op, configVars, backoff, stateVars, dnsVars, settled>>

(* ... a result: a failure backs off, an address starts the tunnel, unless *)
(* the tunnel address does not parse; begin() may fail (no memory, a key   *)
(* that is no key) ...                                                     *)
BeginTake ==
  /\ pc = "begin" /\ complete /\ s_dnsTaskHandle = NoTask /\ s_dnsDone
  /\ goto("web") /\ ClearResult
  /\ \/ /\ s_dnsFailed \/ s_resolvedEndpointIP = NoHost
        /\ sinceAttempt' = 0 /\ backoff' = longer
        /\ UNCHANGED tunnelVars
     \/ /\ ~s_dnsFailed /\ s_resolvedEndpointIP # NoHost /\ ~addressValid
        /\ UNCHANGED <<pacingVars, tunnelVars>>
     \/ /\ ~s_dnsFailed /\ s_resolvedEndpointIP # NoHost /\ addressValid
        /\ sinceAttempt' = 0
        /\ \/ /\ initialized' = TRUE /\ endpoint' = s_resolvedEndpointIP /\ peerUp' = FALSE
              /\ UNCHANGED backoff
           \/ /\ ~settled /\ backoff' = longer /\ UNCHANGED tunnelVars
  /\ UNCHANGED <<op, configVars, stateVars, handleVars, taskVars, settled>>

(* Mutant: a resolution starts over although a result waits. *)
BeginResolveAnyway ==
  /\ pc = "begin" /\ complete /\ s_dnsTaskHandle = NoTask
  /\ goto("web") /\ s_dnsGeneration' = bumped /\ s_state' = "CONNECTING"
  /\ \E t \in Task :
       /\ ~live(t)
       /\ s_dnsTaskHandle' = t
       /\ pcd' = [pcd EXCEPT ![t] = "try"] /\ myGen' = [myGen EXCEPT ![t] = bumped]
  /\ UNCHANGED <<op, configVars, pacingVars, s_wasUp, tunnelVars, resultVars,
                 asked, success, retry, settled>>

(* ... or nothing yet: a task is created, if there is memory for it.       *)
BeginResolve ==
  /\ pc = "begin" /\ complete /\ s_dnsTaskHandle = NoTask /\ ~s_dnsDone
  /\ goto("web") /\ s_dnsGeneration' = bumped /\ s_state' = "CONNECTING"
  /\ \/ \E t \in Task :
          /\ ~live(t)
          /\ s_dnsTaskHandle' = t
          /\ pcd' = [pcd EXCEPT ![t] = "try"] /\ myGen' = [myGen EXCEPT ![t] = bumped]
          /\ UNCHANGED <<asked, success, retry, sinceAttempt>>
     \/ /\ ~settled /\ sinceAttempt' = 0 /\ UNCHANGED <<s_dnsTaskHandle, taskVars>>
  /\ UNCHANGED <<op, configVars, backoff, s_wasUp, tunnelVars, resultVars, settled>>

-----------------------------------------------------------------------------
(* _cancelDNS: with a task alive its generation is overtaken, without one   *)
(* the result is cleared.  Where it goes on from there:                     *)

(* Mutant: disabling cancels the resolver but leaves the tunnel. *)
AfterCancelOff == IF initialized /\ op \in {"set", "time", "wifi"} THEN "stop" ELSE "finish"

AfterCancel == IF op = "off" \/ (initialized /\ op \in {"set", "time", "wifi"})
                 THEN "stop" ELSE "finish"

(* The regimes: who may be where when a generation is overtaken. *)
MayCancel == Window \/ \A t \in Task : pcd[t] \notin Publishing
MayPublish == Window \/ pc \notin Cancelling
MayBump == Wraps \/ \A t \in Task : live(t) => myGen[t] # bumped

(* "if (s_dnsTaskHandle != NULL) _cancelDNS(...)" *)
Outer ==
  /\ pc = "outer"
  /\ Pass(IF s_dnsTaskHandle # NoTask THEN "cancel" ELSE AfterCancel)

(* Mutant: a finished result survives the cancellation. *)
CancelTestKeeps(from, bump, next) ==
  /\ pc = from
  /\ IF s_dnsTaskHandle # NoTask THEN MayCancel /\ goto(bump) ELSE goto(next)
  /\ UNCHANGED <<op, managerVars, dnsVars, settled>>

CancelTest(from, bump, next) ==
  /\ pc = from
  /\ IF s_dnsTaskHandle # NoTask
       THEN MayCancel /\ goto(bump) /\ UNCHANGED resultVars
       ELSE goto(next) /\ ClearResult
  /\ UNCHANGED <<op, managerVars, handleVars, taskVars, settled>>

(* Mutant: the handle is dropped while its task is still inside lwIP. *)
CancelBumpForgets(from, next) ==
  /\ pc = from /\ MayBump
  /\ s_dnsGeneration' = bumped /\ s_dnsTaskHandle' = NoTask /\ goto(next)
  /\ UNCHANGED <<op, managerVars, resultVars, taskVars, settled>>

CancelBump(from, next) ==
  /\ pc = from /\ MayBump
  /\ s_dnsGeneration' = bumped /\ goto(next)
  /\ UNCHANGED <<op, managerVars, resultVars, s_dnsTaskHandle, taskVars, settled>>

Cancel == \/ CancelTest("cancel", "bump", AfterCancel)
          \/ CancelBump("bump", AfterCancel)

(* wg_stop: cancel once more, then take the tunnel down. *)
StopCancel == \/ CancelTest("stop", "stopBump", "end")
              \/ CancelBump("stopBump", "end")

TearDown == initialized' = FALSE /\ endpoint' = NoHost /\ peerUp' = FALSE

StopEnd ==
  /\ pc = "end" /\ goto("finish") /\ TearDown
  /\ s_state' = IF s_enabled THEN "WAIT_TIME" ELSE "DISABLED"
  /\ s_wasUp' = FALSE
  /\ UNCHANGED <<op, configVars, pacingVars, dnsVars, settled>>

Finish(o) == /\ pc = "finish" /\ op = o /\ op' = "none"
             /\ goto(IF o \in TickOp THEN "web" ELSE "tick")
             /\ UNCHANGED <<dnsVars, settled>>

(* The rest of the handlers that set something, and of the tick's branches. *)
FinishPlain == \E o \in {"off", "set", "time"} : Finish(o) /\ UNCHANGED managerVars

FinishWifi ==
  /\ Finish("wifi") /\ s_state' = "WAIT_WIFI"
  /\ UNCHANGED <<configVars, pacingVars, s_wasUp, tunnelVars>>

FinishAgain ==
  /\ Finish("again") /\ sinceAttempt' = 0 /\ backoff' = longer
  /\ UNCHANGED <<configVars, stateVars, tunnelVars>>

(* s_lastAttemptMs = 0: the time since boot, which is at least as long. *)
FinishOn ==
  /\ Finish("on") /\ s_state' = "WAIT_TIME"
  /\ sinceAttempt' \in sinceAttempt..Cap
  /\ UNCHANGED <<configVars, backoff, s_wasUp, tunnelVars>>

ClearConfig == /\ s_enabled' = FALSE /\ s_endpointHost' = NoHost
               /\ restGiven' = FALSE /\ addressValid' = FALSE

(* wg_clear, which resetToDefaultSettings calls before it restarts. *)
FinishClear ==
  /\ pc = "finish" /\ op = "clear" /\ goto("restart")
  /\ ClearConfig /\ TearDown
  /\ s_state' = "DISABLED" /\ s_wasUp' = FALSE
  /\ backoff' = 1 /\ sinceAttempt' \in sinceAttempt..Cap
  /\ UNCHANGED <<op, dnsVars, settled>>

-----------------------------------------------------------------------------
(* Web requests.  A setter assigns and saves before it cancels. *)

NoRequest == pc = "web" /\ Pass("tick")

Request(o, l) == /\ pc = "web" /\ Edits /\ ~settled /\ Start(o, l)
                 /\ UNCHANGED <<pacingVars, stateVars, tunnelVars, dnsVars, settled>>

wg_setEnabled ==
  \/ /\ Request("off", "outer") /\ s_enabled' = FALSE
     /\ UNCHANGED <<s_endpointHost, restGiven, addressValid>>
  \/ /\ Request("on", "cancel") /\ s_enabled' = TRUE
     /\ UNCHANGED <<s_endpointHost, restGiven, addressValid>>

wg_setEndpoint ==
  /\ Request("set", "cancel") /\ s_endpointHost' \in Host
  /\ UNCHANGED <<s_enabled, restGiven, addressValid>>

wg_setTunnelAddress ==
  /\ Request("set", "cancel") /\ addressValid' \in BOOLEAN /\ restGiven' \in {restGiven, TRUE}
  /\ UNCHANGED <<s_enabled, s_endpointHost>>

(* wg_setPrivateKey, wg_setServerPublicKey. *)
wg_setKey ==
  /\ Request("set", "cancel") /\ restGiven' \in {restGiven, TRUE}
  /\ UNCHANGED <<s_enabled, s_endpointHost, addressValid>>

wg_setKeepalive == Request("set", "cancel") /\ UNCHANGED configVars

resetToDefaultSettings == Request("clear", "outer") /\ UNCHANGED configVars

(* A reset, ordered or not, at any point; wg_clear empties NVS first. *)
Reboot ==
  /\ ~settled /\ (Edits \/ pc = "restart")
  /\ IF op = "clear" THEN ClearConfig ELSE UNCHANGED configVars
  /\ pc' = "tick" /\ op' = "none"
  /\ s_state' = IF s_enabled' THEN "WAIT_TIME" ELSE "DISABLED"
  /\ s_wasUp' = FALSE /\ backoff' = 1 /\ sinceAttempt' = 0
  /\ TearDown /\ ClearResult
  /\ s_dnsTaskHandle' = NoTask /\ s_dnsGeneration' = 0
  /\ pcd' = [t \in Task |-> "dead"] /\ myGen' = [t \in Task |-> 0]
  /\ asked' = [t \in Task |-> NoHost] /\ success' = [t \in Task |-> FALSE]
  /\ retry' = [t \in Task |-> 0]
  /\ UNCHANGED settled

Loop ==
  \/ TickDisabled \/ TickNoTime \/ TickNoWifi \/ TickConnect \/ TickLook \/ TickUp \/ TickDown
  \/ BeginNot \/ BeginTake \/ BeginResolve
  \/ Outer \/ Cancel \/ StopCancel \/ StopEnd
  \/ FinishPlain \/ FinishWifi \/ FinishAgain \/ FinishOn \/ FinishClear
  \/ NoRequest

Requests == \/ wg_setEnabled \/ wg_setEndpoint \/ wg_setTunnelAddress \/ wg_setKey
            \/ wg_setKeepalive \/ resetToDefaultSettings

-----------------------------------------------------------------------------
(* _dnsResolveTask. *)

At(t, from, to) == pcd[t] = from /\ pcd' = [pcd EXCEPT ![t] = to]
Local(t, from, to) ==
  /\ At(t, from, to)
  /\ UNCHANGED <<loopVars, managerVars, resultVars, handleVars, myGen, asked, success, retry,
                 settled>>

(* The delay, whose ticks only look at the generation, and the two tests    *)
(* before the lookup.                                                       *)
TaskTry(t) ==
  Local(t, "try", IF current(t) /\ s_dnsTaskHandle # NoTask THEN "lookup" ELSE "quit")

(* lwip_getaddrinfo reads the name when it is called ...                    *)
TaskAsk(t) ==
  /\ At(t, "lookup", "again")
  /\ asked' = [asked EXCEPT ![t] = s_endpointHost]
  /\ UNCHANGED <<loopVars, managerVars, resultVars, handleVars, myGen, success, retry, settled>>

(* ... and answers much later; then the generation is tested once more.     *)
TaskAnswer(t) ==
  /\ pcd[t] = "again" /\ ~success[t]
  /\ \/ /\ asked[t] # NoHost
        /\ s_resolvedEndpointIP' = asked[t] /\ success' = [success EXCEPT ![t] = TRUE]
        /\ UNCHANGED <<pcd, retry>>
     \/ /\ ~settled \/ asked[t] = NoHost
        /\ retry' = [retry EXCEPT ![t] = @ + 1]
        /\ pcd' = [pcd EXCEPT ![t] = IF ~current(t) THEN "quit"
                                     ELSE IF retry[t] + 1 < Attempts THEN "try" ELSE "publish"]
        /\ UNCHANGED <<s_resolvedEndpointIP, success>>
  /\ UNCHANGED <<loopVars, managerVars, s_dnsDone, s_dnsFailed, handleVars, myGen, asked, settled>>

TaskRecheck(t) == success[t] /\ Local(t, "again", IF current(t) THEN "publish" ELSE "quit")

(* The last test, then done, failed, and the handle. *)
TaskPublish(t) ==
  /\ MayPublish
  /\ Local(t, "publish", IF current(t) /\ s_dnsTaskHandle # NoTask THEN "done" ELSE "quit")

TaskDone(t) ==
  /\ At(t, "done", "failed") /\ s_dnsDone' = TRUE
  /\ UNCHANGED <<loopVars, managerVars, s_dnsFailed, s_resolvedEndpointIP, handleVars,
                 myGen, asked, success, retry, settled>>

TaskFailed(t) ==
  /\ At(t, "failed", "clear") /\ s_dnsFailed' = ~success[t]
  /\ UNCHANGED <<loopVars, managerVars, s_dnsDone, s_resolvedEndpointIP, handleVars,
                 myGen, asked, success, retry, settled>>

(* Mutant: the task ends but its handle stays. *)
TaskClearKeeps(t) == \E from \in {"clear", "quit"} : Local(t, from, "dead")

(* cleanup: the handle is cleared and the task deletes itself, locals and all. *)
TaskClear(t) ==
  /\ \E from \in {"clear", "quit"} : At(t, from, "dead")
  /\ s_dnsTaskHandle' = NoTask
  /\ myGen' = [myGen EXCEPT ![t] = 0] /\ asked' = [asked EXCEPT ![t] = NoHost]
  /\ success' = [success EXCEPT ![t] = FALSE] /\ retry' = [retry EXCEPT ![t] = 0]
  /\ UNCHANGED <<loopVars, managerVars, resultVars, s_dnsGeneration, settled>>

DnsTask(t) == \/ TaskTry(t) \/ TaskAsk(t) \/ TaskAnswer(t) \/ TaskRecheck(t)
              \/ TaskPublish(t) \/ TaskDone(t) \/ TaskFailed(t) \/ TaskClear(t)

-----------------------------------------------------------------------------
(* The peer, the clock, and the end of outages and changes. *)

silent == initialized /\ ~peerUp
outside == <<loopVars, configVars, backoff, stateVars, initialized, endpoint, dnsVars>>

(* Any server may complete the handshake, also one at an address that was   *)
(* not resolved from the endpoint configured now: isPeerUp cannot tell.     *)
PeerAnswers == silent /\ peerUp' = TRUE /\ UNCHANGED <<outside, sinceAttempt, settled>>
PeerLost == ~settled /\ peerUp /\ peerUp' = FALSE /\ UNCHANGED <<outside, sinceAttempt, settled>>

(* Once settled, the configured server answers within 5 s. *)
Clock ==
  /\ sinceAttempt < Cap /\ (settled => ~(silent /\ endpoint = s_endpointHost))
  /\ sinceAttempt' = sinceAttempt + 1
  /\ UNCHANGED <<outside, peerUp, settled>>

Settle ==
  /\ ~settled /\ pc = "tick" /\ settled' = TRUE
  /\ UNCHANGED <<loopVars, managerVars, dnsVars>>

Next == \/ Loop \/ Requests \/ Reboot
        \/ \E t \in Task : DnsTask(t)
        \/ PeerAnswers \/ PeerLost \/ Clock \/ Settle

Spec == Init /\ [][Next]_vars

(* The loop and a task are scheduled for ever, time passes, and the         *)
(* configured server answers; any other server need not.                    *)
FairSpec == /\ Spec
            /\ WF_vars(Loop) /\ \A t \in Task : WF_vars(DnsTask(t))
            /\ WF_vars(PeerAnswers /\ endpoint = s_endpointHost) /\ WF_vars(Clock)

-----------------------------------------------------------------------------
(* Properties. *)

(* There is never a second resolver: a task is only created once the one    *)
(* before it has cleared the handle, however often it was cancelled.        *)
OneResolver == \A t \in Task : live(t) <=> s_dnsTaskHandle = t

(* While the tunnel exists nobody resolves and no result waits: wg_begin    *)
(* consumes a result before it starts the tunnel, and starts nothing else.  *)
QuietTunnel == initialized => s_dnsTaskHandle = NoTask /\ ~s_dnsDone

(* Between handlers, the tunnel leads to the endpoint that is configured:   *)
(* no result of a cancelled resolution is applied.  It needs ~Window and    *)
(* ~Wraps: a cancellation that falls between a task's last test of the      *)
(* generation and its end is too late, and so is one that brings the        *)
(* generation back to the task's own.                                       *)
TunnelMatches == pc \in {"tick", "web"} /\ initialized => endpoint = s_endpointHost

(* done is set before failed, yet a failure is never read as a success: a   *)
(* result that can be taken and claims success carries an address.          *)
SuccessHasAddress ==
  s_dnsDone /\ ~s_dnsFailed /\ s_dnsTaskHandle = NoTask => s_resolvedEndpointIP # NoHost

(* A tunnel that is switched off is down, whatever was under way.           *)
OffMeansDown == pc \in {"tick", "web"} /\ ~s_enabled => ~initialized /\ s_state = "DISABLED"

(* What the steps keep true in every regime.  A result only waits when its  *)
(* task is at its end or gone; whoever resolved an address has published    *)
(* it; an operation of an enabled tunnel finds it enabled.                  *)
ResultInv ==
  /\ s_dnsDone => s_dnsTaskHandle = NoTask \/ pcd[s_dnsTaskHandle] \in {"failed", "clear"}
  /\ \A t \in Task : /\ success[t] => live(t) /\ s_resolvedEndpointIP # NoHost
                     /\ pcd[t] = "clear" => (s_dnsFailed <=> ~success[t])
                     /\ pcd[t] \in {"dead", "try", "lookup", "again"} => retry[t] < Attempts
Stopping == {"outer", "cancel", "bump", "stop", "stopBump", "end"}
OperationInv ==
  /\ pc \in {"look", "begin"} => ~initialized
  /\ pc \in {"tick", "web", "look", "begin"} => op = "none"
  /\ op \in TickOp \cup {"on"} \/ pc \in {"look", "begin"} => s_enabled
  /\ ~s_enabled /\ ~(op = "off" /\ pc \in Stopping) => ~initialized /\ s_state = "DISABLED"
ManagerInv == OneResolver /\ QuietTunnel /\ SuccessHasAddress /\ ResultInv /\ OperationInv

(* What keeps stale results out while no cancellation falls into a task's   *)
(* last steps and no generation comes round: a task that will publish still *)
(* has the current generation, hence the name it resolved is the configured *)
(* one, but for the moment between a setter's assignment and its cancel.    *)
assigned == op = "set" /\ pc = "cancel"
unbumped == op = "set" /\ pc \in {"cancel", "bump"}
unstopped == op = "set" /\ pc \in Stopping
FreshInv ==
  /\ s_dnsTaskHandle = NoTask /\ s_dnsDone /\ ~s_dnsFailed /\ ~assigned /\ pc # "restart"
       => s_resolvedEndpointIP = s_endpointHost
  /\ pc \in Cancelling => ~s_dnsDone /\ \A t \in Task : pcd[t] \notin Publishing
  /\ \A t \in Task : pcd[t] \in Publishing => current(t)
  /\ \A t \in Task : live(t) /\ current(t) /\ ~unbumped /\ pc # "restart" =>
       /\ pcd[t] = "again" /\ ~success[t] => asked[t] = s_endpointHost
       /\ success[t] => s_resolvedEndpointIP = s_endpointHost
  /\ initialized /\ ~unstopped => endpoint = s_endpointHost

(* Once outages and changes end, a configured tunnel comes up and stays up, *)
(* whatever happened before and in every regime: a stale tunnel to a server *)
(* that does not answer is given up.  It need not be up with the endpoint   *)
(* that is configured: a stale tunnel whose server answers is kept.  That   *)
(* it is not stale is TunnelMatches, where that holds.                      *)
ready == s_enabled /\ complete /\ addressValid
TunnelRecovers == settled /\ ready ~> [](s_state = "UP" /\ initialized /\ peerUp)

(* A tunnel that is off leaves no resolver behind. *)
OffEndsResolver == settled /\ ~s_enabled ~> [](s_dnsTaskHandle = NoTask)
=============================================================================
