# A verification project for the Atom Echo RTSP microphone

The firmware turns an M5Stack Atom Echo into an RTSP microphone.  One main
loop ("Core 0" in the source) serves the web UI, negotiates RTSP, watches
temperature, WiFi and throughput, and drives an optional WireGuard tunnel; one
FreeRTOS task ("Core 1") captures audio and sends RTP while a client plays.
The two share a TCP client object, an I2S driver, an LED and a dozen plain
variables, without a lock: the order of the accesses is the protocol.  This
directory models that protocol, checks it with TLC and proves it with TLAPS.

## 1. Inventory

| component | state | operations | interacts with |
|---|---|---|---|
| Stream hand-over (`.ino` 590-1235, 1430-1522) | `isStreaming`, `streamClient`, `stopStreamRequested`, `streamCleanupDone`, `core1OwnsLED`, `audioTaskRunning`, task handle, exit semaphore | PLAY, TEARDOWN, `requestStreamStop`, `stopAudioCaptureTask`, `restartI2S`, the loop's RTSP phases, the pipeline task | everything that stops or restarts a stream |
| RTP sender (1045-1133) | sequence, timestamp, dropped and consecutive failures | `sendRTPPacket`, `writeAll` | client socket, hand-over |
| RTSP parser (1140-1277) | 1 KB buffer and its fill | `processRTSP`, `handleRTSPCommand` | client socket, hand-over |
| Thermal protection (280-374) | latch, lockout, limit, NVS note | `checkTemperature`, `recordOverheatTrip`, clear, boot | hand-over, NVS, LED |
| Performance and WiFi checks (376-437) | packet rates, thresholds | `checkPerformance`, `checkWiFiHealth` | hand-over |
| Settings and resets (440-590, WebUI 505-618) | NVS namespaces `audio` and `wg`, scheduled reboot | load, save, factory reset, WiFi reset, reboot | all |
| Web API (`WebUI.cpp`) | none of its own | one handler per URL | all |
| Log ring (`WebUI.cpp` 97-112, 472-479) | 80 lines, head, count | push, read | both cores |
| WireGuard manager (`WireGuardManager.cpp`) | configuration, state, backoff, DNS task handle, result, generation | `wg_tick`, `wg_begin`, `wg_stop`, setters, DNS task | tunnel glue, lwIP |
| Tunnel glue (`WireGuard.cpp`) | netif, peer index, previous default route | `begin`, `end`, `isPeerUp` | protocol, lwIP |
| WireGuard protocol (`wireguard.c`, `wireguardif.c`) | key pairs, handshake, timers, replay window | receive, send, timer | the network |
| Crypto, platform, DSP, web page, build | | | not modelled, see section 12 |

What is hard here, and what makes each part correct:

* **Hand-over.** Two threads use one `WiFiClient`, which is not thread-safe.
  Correct means: one user of the socket, of the I2S driver and of the LED at a
  time; at most one pipeline task; a stop that reports success really ended the
  session; a server that is off, or latched by heat, does not stream; the loop
  never gets stuck; a stream without a peer ends.
* **RTP.** Packets are numbered without a gap, whatever is dropped, and each
  session starts at 0.
* **RTSP.** Requests are handled once each, in order, however TCP cuts them.
* **Heat.** Once latched, off stays off, also across a reset, until somebody
  acknowledges it; whenever clients can connect, the guard is armed.
* **Health.** A stream is restarted by itself when it is too slow, and only
  then.
* **Tunnel manager.** A name resolved for one endpoint is never used for
  another; there is one resolver; failures back off; a tunnel is eventually up
  when everything it needs is there, and a dead one is replaced.
* **Tunnel glue.** The default route comes home whatever fails; a callback of
  lwIP finds its device gone only when `end` ran into it; the server is reached
  again after it has moved.
* **Tunnel protocol.** Every packet is delivered at most once; data is sent
  only under keys the peer has; keys die on time; the tunnel recovers from any
  finite loss.

## 2. Plan

Each module is written to be proved about (constants with assumptions, one
action per operation, no RECURSIVE operator).  All of the plan is built:

| module | what it models | proofs |
|---|---|---|
| `StreamHandoff` | two cores, one socket, one driver, one LED | `StreamHandoffProofs` |
| `SocketOwnership` | the abstract promise of the hand-over; `StreamHandoff` implements it | in `StreamHandoffProofs` |
| `ServerContract` | what thermal protection promises of the server; `StreamHandoff` and `ThermalGuard` implement it | `ServerContractProofs`, and with each of the two |
| `WgManager` | configuration, ticks, DNS task, generation, backoff, reboots | `WgManagerProofs` |
| `WgTunnel` | `begin` and `end` step by step under lwIP's timer and packets; routes; a server that moves | `WgTunnelProofs` |
| `WgSession` | key pairs, handshakes, timers and replay windows over a network that loses, duplicates and reorders | `WgSessionProofs` |
| `RtspConnection` | requests cut anywhere, answers, packet numbers, one connection after another | `RtspConnectionProofs` |
| `ThermalGuard` | latch, lockout, limits, what is saved in which order, resets at any moment | `ThermalGuardProofs` |
| `StreamHealth` | packet rate, its counters and its wrapping product, thresholds, recovery | `StreamHealthProofs` |

An `MC` module with a `.cfg` per run instantiates each for TLC.  `WgManager`
takes a tunnel as up or down, `WgTunnel` takes a key pair as its age, and
`WgSession` is what is in the pairs: three levels of one component, each with
the hazards of its own.  `ThermalGuard` and `StreamHealth` take the stop and the
restart of a stream as one step each; `StreamHandoff` is what such a step is.
`ServerContract` is what the two views of heat have in common: one follows the
cores through a trip, the other flash and resets, and both implement it.

What could still be added is in section 12.

## 3. `StreamHandoff`: two cores and one socket

**State.** `pc0` is the next step of the main loop, `op0` the handler that is
stopping or restarting the stream, `pc1[t]` the next step of pipeline task `t`.
The shared variables keep the names they have in the `.ino`; `connected` is what
`rtspClient.connected()` answers, `led` what the LED last showed,
`taskExitSemaphore` the tokens of the binary semaphore, `client[t]` the
pointer a task copied from `streamClient`, `bufLen[t]` the size it allocated.

**Actions.** Core 0 passes the phases of `loop()` in order: web request,
temperature, throughput, WiFi, idle check, LED, RTSP.  Any of them may start
`requestStreamStop`, `stopAudioCaptureTask` or `restartI2S`, each a chain of
labels (`stopEntry` ... `stopAck`, `taskStop` ... `taskForget`, `restart` ...
`resume`).  A task goes through start-up, the top of its loop, one audio block
(capture, LED, `connected()`, write, RTSP check), the clean-up it does on a
request, a dead peer or TEARDOWN, and its exit.  One step makes one access to a
variable the other thread may touch; consecutive writes that no thread can tell
apart are one step.

**Abstractions.**
* Audio and RTP contents, RTSP texts and timers are left out; whether a check
  is due, a request arrives or a measured value is bad is open.
* The untimed waits (3 s for a confirmation, 2 s for the semaphore) may expire
  only if no task can answer within them: there is none, or it is parked in the
  10 ms sleep after its answer, or, when `Stalls`, it is in a `WiFiClient` call.
  With `EarlyDeadline` the 3 s wait may end at once (`millis() + 3000` wraps
  every 49.7 days).
* Memory is sequentially consistent: the code has `memw` after the hand-over
  writes, and both cores share uncached internal RAM.
* The tests of `isStreaming` in TEARDOWN and in the disabled branch of the loop
  that can only have one outcome there are kept as the code has them.
* Reboots and NVS are in `ThermalGuard`.

**What it promises.**  `SocketOwnership` is the hand-over seen from the socket:
it has an owner, the loop or the task; only the owner uses it (reads, writes,
replaces, closes), and it changes hands between two uses and never during one.
Asking `connected()` is kept apart, because the code does not keep it to the
owner: the loop asks at its idle check (`.ino` 1464) and in `httpStatus`
(`WebUI.cpp` 372) at any time, also while the task uses the socket; the task asks
only while the socket is its own, and has its answer before it gives the socket
back.  `StreamHandoff` implements this with `isStreaming` as the owner and the
labels of each core's uses (`Core0Uses`, `TaskUses`) and questions (`Core0Asks`,
`TaskAsks`): `ImplementsOwnership`, with the mapping in `Ownership`.  It says
more than `SocketExclusive`, which forbids two users at a time: a core that does
not own the socket does not use it either, and nobody changes the owner under a
use.  That Core 0 "never touches" the socket while the task streams
(`docs/DETAILS.md:25`) is not true of the code, and not claimed (section 13).

`ServerContract` is the server seen by thermal protection: it is switched on and
streams only while no trip is in force, in memory or in flash, and a trip ends
by switching both off, after it was saved.  Here the latch counts as saved when
it is set, since there are no resets, and the trip is on while `op0` is
`overheat`; `ImplementsContract` holds in every regime.  A Core 0 that resumes a
stream after its trip, or a handler that switches the server on without looking
at the latch, would break it at a step of its own, long before anything shows.

| run | instance | question |
|---|---|---|
| `handoff_safe` | 2 tasks, 2 buffer sizes, allocation failures, leaving peer, fair | one user of socket, driver and LED; one pipeline; true confirmations; no null client; old buffers end; the ownership protocol; the loop always comes round; a dead peer is noticed |
| `handoff_regimes` | 1 task, every regime | off and latched servers stay silent, and the server's contract is kept, although waits expire and tasks are orphaned |
| `handoff_double_task` | `Stalls` | refutes "prevents double-task creation" |

Two task identities are enough for the safe regime: the invariant shows that a
second one is never alive, and two are what a violation needs.  In the regimes
where orphans exist one identity keeps the instance small; the theorems hold
for any number.  One buffer size suffices where no property depends on it; with two,
`StaleBufferEnds` shows that a pipeline whose buffers are of another size than
`i2s_read` is told only captures while the handler that stored the size is
asking it to stop.

**Fairness.** Core 0 is a loop that FreeRTOS never starves (weak), a task is
pinned alone to the other core (weak), and the microphone delivers a block
again and again (strong, `TaskBlock`): while `i2s_read` fails for ever the task
never looks at the connection, so without this the peer's end goes unnoticed.

## 4. `WgManager`: the tunnel and its resolver

**State.** The loop's next step `pc` and operation `op`; the configuration
(`restGiven`: both keys and the tunnel address are non-empty; `addressValid`:
`parseTunnelAddress` accepts it); `s_state`, `s_wasUp`, backoff and time since
the last attempt, in steps of 5 s; the tunnel (`initialized`, and `endpoint`,
the host its address was resolved from); the task handle, generation, `done`,
`failed` and the resolved address, which the loop and the task share without a
lock; each task's next step, captured generation, the name it asked for, its
success and its count of lookups.

**Actions.** `Tick*` are the branches of `wg_tick`, `Begin*` those of
`wg_begin`; `Outer`, `CancelTest`, `CancelBump`, `StopCancel`, `StopEnd` are the
tests and steps of `_cancelDNS` and `wg_stop` that another thread can fall
between; `Finish*` are what each handler does afterwards.  A setter (`wg_set*`)
assigns and saves, then cancels, as in the code.  `Task*` follow
`_dnsResolveTask`: the lookup reads the name when it is called and answers much
later; the generation is tested before, after, and before publishing; `done`,
`failed` and the handle are written one after the other.  `Reboot` may strike
anywhere and leaves what NVS holds; `wg_clear` empties NVS first, so a reset in
the middle of it finds it empty.

**Abstractions.** An address is the host it came from.  `s_endpointHost` is read
and assigned in one step: the data race on the Arduino String object itself is
not modelled.  Saving to NVS is one step with the assignment.  The 100 ms ticks
of the task's delay only look at the generation and are part of `TaskTry`.
`xTaskCreatePinnedToCore` stores the handle before the task can run.  Lines
248-251 (disabling found late by the tick) cannot be reached: `OffMeansDown`
shows that the state is already `DISABLED`.

**Regimes.** `Window`: may a cancellation fall between a task's last test of the
generation (line 102) and its end?  `Wraps`: may the 8-bit generation come round
to the one a live task has captured?  Both can happen.  With either, a stale
result is applied; without them, never.  So `TunnelMatches` is checked and proved
of the code without the gap and the wrap, as the statement that nothing else
makes the tunnel lead elsewhere; `wg_cancelled` shows the gap do it.

| run | instance | question |
|---|---|---|
| `wg_fresh` | 2 tasks, 2 hosts, generation modulo 4, 2 lookups, neither regime | the tunnel leads to the configured endpoint; one resolver |
| `wg_cancelled` | `Window` | refutes "preventing stale DNS results from being applied to a different endpoint" |
| `wg_recovers` | 1 task, 2 hosts, generation modulo 2, both regimes, fair | quiet tunnels, off means down, `ManagerInv`; the tunnel comes up and stays up, and a switched-off one has no resolver for long |

Two hosts are the least with which an address can be wrong; two tasks the least
with which there could be a second one; a small generation makes wrapping
cheap.  Backoff and waiting are capped at two steps: what matters is shorter,
equal and longer.

**Fairness.** The loop and a task are scheduled for ever (weak), time passes
(weak), and the server of the configured endpoint answers a tunnel that leads to
it (weak).  A server of another endpoint may answer or not: `isPeerUp` does not
ask which one it is, so after a stale result the tunnel may be up to the wrong
server for good, and `TunnelRecovers` promises a tunnel with a peer that is up,
not the right one; which one it is, is what `TunnelMatches` is about.  `settled` is the moment after
which there are no more outages, edits, resets, failed allocations and failed
lookups; before it everything may happen, and `TunnelRecovers` says that
whatever happened does not keep the tunnel down.  Whether a peer is up is taken
from outside here; `WgTunnel` (section 8) has what the protocol makes of it.

## 5. `WgSession`: key pairs, handshakes and replay windows

One `wireguard_peer` of `wireguard.c` and `wireguardif.c`.  All of it runs in
lwIP's thread, so every handler is one step; what makes it hard is that two
parties begin handshakes when they like, over a network that loses, duplicates
and reorders, while key pairs move between three slots by copying.

| state | code |
|---|---|
| `slot` | `curr_keypair`, `next_keypair`, `prev_keypair`: validity, session, `last_rx # 0`, age, replay counter and bitmap |
| `handshake` | the handshake slot: the initiation it awaits a response to, if any |
| `greatest`, `send_handshake` | the fields of those names |
| `txIdle`, `initIdle`, `timerDue` | whether `last_tx`, `last_initiation_tx` and the 400 ms timer are due |
| `received` | how often each packet went to `ip_input` |
| `network`, `server*` | every handshake message ever sent (loss is never delivering one); the server, external |

A session is the keys both sides derive from one handshake; cryptography is
ideal, so a message is accepted exactly by the state it was made for.
`Output`, `ReceiveInitiation`, `ReceiveResponse`, `ReceiveData` and
`wireguardif_tmr` are the entry points, each with all it does: the timer resets,
destroys, sends a keepalive and begins a handshake in this order, in one step.
Memory may be short at each packet, and UDP may refuse it.  The bitmap is the set
of its bits.  Time passes in units longer than the keepalive and rekey
intervals (two initiations 5 s apart within a unit do not occur; no property depends
on them); 120 and 155 s are one unit, 180 s two and 540 s three.  The sending counter and its
limits near 2^60 are left out, as is the rate limit, which is only in force
within one millisecond; roaming
and the removal of a peer are in `WgTunnel`; cookies are left out (section 12).

| run | instance | question |
|---|---|---|
| `session_safe` | 2 handshakes of the device, 1 of the server, packets 0 to 3, window 2 of 3 bits | no session in two slots, the current pair is the server's too, nothing but time takes the ability to send away, and no packet is delivered twice but the one that makes a pair current |

Three sessions fill three slots while a fourth handshake may be under way, and
an old initiation of the server can be repeated after its pair has moved.  Three
packets are one more than the window, which in the code is 4 (`sizeof`) of a
word of 32 bits: the same relation at another size.  The server sends as much as
it likes in a session it knows, and what it sends arrives in any order or not at
all, so a packet needs no step of its own before it is received.  When the
bounds are reached there are no further handshakes; every property is a safety
property, which that cannot make true.

## 6. `RtspConnection`: requests, answers and packets

The RTSP side of the firmware: `processRTSP` and `handleRTSPCommand` on Core 0
while nobody streams, `sendRTPPacket` and the command check of the task on Core
1 while somebody does.  `StreamHandoff` shows who runs when; here a hand-over is
one step, and what matters is what goes over the connection.

| state | code |
|---|---|
| `open`, `streaming` | `rtspClient.connected()`, `isStreaming` |
| `inbound`, `buffer` | bytes received but not read; `rtspParseBuffer` up to its position |
| `rtpSequence`, `failures` | `rtpSequence`, `consecutiveWriteFailures` |
| `asked`, `typed`, `conn` | the client's requests and how far it has sent them; which connection a line is from |
| `handled`, `answers`, `expected`, `gap` | history: what was answered, and what the client sees of numbers |

The unit is a line of a request.  TCP may cut anywhere; the model cuts between
lines, so it does not show a word or the final empty line cut in two (the
accumulating buffer does not care; the task's search does: it misses a TEARDOWN
cut in two, `.ino` 884, and streams on until the client closes).  A
read takes as much as there is and fits, handles at most one request, and keeps
the rest; a buffer that is full without a whole request is emptied and what
remains of the request is then parsed as one.  A packet goes out or is dropped.
`NoRequestLost` is therefore about requests that fit: each was handled, or all
that was sent of it still waits, its lines next to each other and in order,
however the overlong ones around it were cut up.  It is about connections that
do not stream yet: a stream ends with its connection, and what was in the buffer
when it began is never parsed.
Only requests by the client and what the network does to writes
are open choices.

| run | instance | question |
|---|---|---|
| `rtsp_safe` | any number of connections with 3 requests of 2 or 5 lines each, buffers of 4 and 2 lines, numbers modulo 3, 2 failures | lost and repeated requests, other clients' leftovers, packet numbers; the parser is never stuck |

Four lines hold two whole requests, or one and half of the next, and not an
overlong one; three requests put an overlong one between two that fit.  Numbers
modulo 3 wrap within an instance.

**Fairness.** The loop and the task come round again and again (weak, on each of
their handlers): FreeRTOS gives each its core.

## 7. `ThermalGuard`: heat, flash and resets

Everything here runs in the main loop, one handler after the other; what can
come between two steps is a reset, by power, by the watchdog or by the task
behind `ship_ready_reset`, and `Preferences` writes one key after another.  So
every put is a step, in the order of the code, and `Crash` may fall between any
two.

`pc` is the loop's next step and `writer` the handler whose puts are under way;
the settings and flags have the code's names; `flash` holds the three keys of
namespace `audio` that are about heat; `temperature` is what the sensor returns,
valid or not.  `checkTemperature`, `CheckRestored`, `SensorFault` and `TripStop`
are `checkTemperature` with `recordOverheatTrip` and `persistOverheatNote`; the
requests are those of `WebUI.cpp` that touch heat or save (`SetOther` is every
other setting, since each saves the whole namespace; what gain, rate and buffer
do to the stream besides is in `StreamHandoff`); `setup` is what the start loads.
`owed` is history: a trip has run to its end, stop included, and nobody has
acknowledged it.  Stopping stream, task and server is one step; how is
in `StreamHandoff`.  When a scheduled reboot is due is left open, which covers the
comparison of `millis()` that is not modular near the wrap (`.ino` 1524).

| run | instance | question |
|---|---|---|
| `thermal_safe` | limits 80 and 93 (stored as 80 and 90) and 3 readings below, between and above them; 2 crashes | what a restart would load is what is in force; a complete trip stays in force across resets until acknowledged; a device one can connect to is armed; the server's contract is kept; one that stays hot stops serving |

A trip that a reset interrupts before its last put (`ohLatched` is the last of
four) is not remembered: the device starts with its server on.  That is in the
model, and the reason why `AcknowledgedFirst` is about trips that are complete.
`ImplementsContract` says the same of every step: with `saved` as the latch in
flash, a trip ends, by `TripStop`, only after its last put; a reset forgets
what was not saved, a trip or an acknowledgement; and a device that is off keeps
what flash has.
Two crashes are enough for one in a trip and another in the save or the start
that follows; the theorems hold for any number and any limits.

**Fairness.** A handler that has begun goes on (weak), and the temperature is
checked again and again, however many requests come in between (strong, since
requests may keep the loop elsewhere at any moment) - if the device stays up: the
check runs only after 60 s since the start (`.ino` 1438, with `lastTempCheck` 0), so
one that is reset within every minute never compares.  `Fairness` therefore asks
for the check only of a device that is not switched off or reset again and again, and
`HotStops` exempts those.

## 8. `WgTunnel`: begin, end and what runs meanwhile

`WireGuard::begin` and `end` run on the main loop without lwIP's lock; the
400 ms timer and the packets run on lwIP's thread between any two of their
steps.  `pc` is the next step of `begin` or `end`; `listed`, `device`, `timer`
and `udp` are what exists of the interface; `route` and `previous` are
`netif_default` and `previous_default_netif`; `peer` is the one slot of
`device->peers`, its pairs known by their age; `asked` is where the initiation
went that awaits a response.  The server moves, restarts
and forgets, and the DNS follows it when it likes; the public key may be
one that base64 cannot decode or that the peer cannot be computed from.
`Begin`, `Reconnect` and `Stop` are what the manager does with the tunnel.

**What `end` may run into.**  `wireguardif_shutdown` is four steps: `Untimeout`,
`UdpRemove`, `Free`, `Unset`.  Where they are under way a callback is steps of its own:
lwIP takes the timer off its list and calls `wireguardif_tmr` (`Fire`), which puts
itself on the list again (`Rearm`) and then works (`Tmr`); a packet arrives
(`Arrive`) and is worked on.  `call` says how far it is, `caught` what `end` found
under way.  Anywhere else entering and working are one step, as nothing between
tells them apart.  A timer that is being served is not on the list, so
`sys_untimeout` does not find it, and re-arms itself afterwards: then `free(device)`
leaves it pending (`stray`) for ever.  A callback that is under way when the device is
freed is `dangling`.  What runs on freed memory (`UseFreed`), and what sends through an
interface without a device (`OutputFreed`, between `free` and `netif_remove`), is
undefined in C; the model lets it do nothing, take the next device for its own, or
restart the firmware.  A callback that loads part of the peer before a step of
`begin` or `end` and stores it after is not modelled, nor are lwIP's lists torn by
two threads.

`FreedUnderCallback` says that this is the only way it happens: the comment "Disable
timer." (`wireguardif.c:903`) is true unless the timer was being served just then.

| run | instance | question |
|---|---|---|
| `tunnel_safe` | 2 addresses, 3 kinds of key, fair | the default route comes home unless a tunnel without a peer was taken down; the device is freed under a callback only if `end` ran into it; the server is reached, unless a left-over pair hides that it is not or a callback has freed memory to work on |
| `tunnel_misled` | the same | refutes "If the tunnel drops, the firmware retries automatically" |

**Fairness and the environment.** The loop, the timer and a callback that has been
called keep running and time passes (weak); `begin` does not fail for ever and a server that is asked again
and again sometimes answers (strong: both are enabled and disabled by the
back-off and by new initiations).  The timer runs before time passes, since 400 ms
are less than any interval here; `begin` and `end` finish before 30 or 60 s pass.
`settled` is the moment after which server, DNS and configuration stay as they
are.  A server that has settled leaves the initiative to the device, which is
what one with no traffic of its own does: were it to begin handshakes for ever, it
could take over the device's each time.
Not modelled here: the interface's link flag, which only lwIP reads, to route packets;
cookies, because the device never claims to be under load
(`wireguard-platform.c:65`) and a server's cookie reply only delays a handshake;
more than one peer, because the glue adds one.

## 9. `StreamHealth`: the rate and its alarm

The streaming task counts packets, PLAY and the recovery reset the count, the
main loop divides it by the time since, in one 32-bit product, and compares it
with a threshold that settings move.  Three low rates in a row restart the
stream.  `Minute` is a minute of packets, at the nominal rate or none; a check
that is due comes first.  `Recover` is the restart with the reset of the count
after it: `audioPacketsSent` is not atomic, so an increment of the resumed task may
bring the old count back, which is `excess`.  `fewest` and `slow` are history.

| run | instance | question |
|---|---|---|
| `health_safe` | rates 1 and 4, floor 2, checks every 1 or 2 minutes, product modulo 32, count modulo 4, sessions of 11 minutes | a stream is restarted only after a minute below the threshold, or because the product wrapped; an average that is too low is acted on within a cool-down and four checks |

The small word makes the wrap cheap: 16 packets instead of 4,294,968.  Eleven
minutes hold a cool-down, four checks of two minutes each and one more.  The
lower rate is below the floor, as it is in the device with blocks of 4096
samples at 16 kHz (section 13).  `LowRateRecovered` allows four checks where the
code counts three: the count of low rates is a byte, and when it comes round to
0 one check is lost.  That needs a count with more than three values, which is
what `WordAssumption` asks.

## 10. Proofs

They hold for every value of the constants.  Assumptions: null values are not
members of their sets; sizes, counts and limits are numbers in their ranges, and
intervals and words positive; the generation has at least two values; there is a
largest rate; the count of low rates has more than three values; regimes are
Booleans.  The theorems about a single user of the
socket and its kin also assume `Regular`: no `Stalls`, no `EarlyDeadline`.
No less would do: with either of the two alone, TLC finds each of `SocketExclusive`,
`DriverExclusive`, `LedExclusive`, `OneTask`, `NoNullClient`,
`ConfirmedMeansClosed` and `StaleBufferEnds` violated.

*Hand-over.*  `ServerInv` is inductive in every regime: it records in which
handler Core 0 may be at each label, and that every label and flag that leads to
a stream is only reached with the server on.  From it follow `ThermalSilence`
and `ServerOffSilent`, even with timeouts and orphans.  `HandoffInv` is
inductive while calls are short and the clock does not wrap (`Regular`): at most
the task in the handle is alive; the semaphore's token belongs to the join under
way; a stop request exists exactly while Core 0 waits; a confirmation means the
stream is over and the task parked; a task in a session has its pointer.  None
of these is inductive alone: that Core 0 may replace the client needs the
confirmation to be true, which needs the request to be single, which needs one
task.  `SocketExclusive`, `DriverExclusive`, `LedExclusive`, `OneTask`,
`NoNullClient` and `ConfirmedMeansClosed` follow from it.  `ImplementsOwnership`
is proved by giving each step of either core its step of the abstract socket,
with `HandoffInv` to show that the other core is in no use.  `StaleBufferEnds`
needs `SizeInv` beside it: a live task whose buffers are of another size means
that a restart is between storing the size and joining the task; the stream is
over before that restart has passed its stop.

*A pass of the loop.*  `PassIsBounded` is the safety half of `LoopReturns`, in
every regime: outside the web server each step of Core 0 leaves fewer steps to
take before it is back there (`Left` counts them: the labels of `loop()` that
remain from the call of the handler, then the labels of the handler).  The proof
needs `CallerInv`: the chains of stop, join and restart are shared by handlers,
and that none of them returns into an earlier phase, or into itself, depends on
`op0` still naming the caller at every label.  What is left for `LoopReturns` is
that the two waits end.

*The server's contract.*  `ContractSilences`: who keeps `ServerContract` is silent
from the end of a trip to its acknowledgement, streams only while the server is
on, and does not lose a complete trip.  Both `ContractImplemented` theorems give
each step of their module its step of the contract.  For the hand-over this needs
`ServerInv` and no more, so it holds with waits that expire and tasks that are
left behind; most steps change nothing of the contract's state but may end a stream
(`Quieter`).  For the guard it needs `GuardInv`: a trip's `TripStop` finds
its latch saved, and the saving that follows a factory reset finds the latch
cleared already, in memory and in flash.

*Manager.*  `TypeCorrect` needs that a task with lookups left has not made all
(`RetryInv`).  `ManagerInv` is inductive in every regime: a live task is the
handle's; a waiting result's task is at its end; a success has an address;
`failed` is right before the handle is cleared; operations of an enabled tunnel
find it enabled.  `FreshInv` is inductive when `~Window` and `~Wraps`: a task in
its last steps has the current generation, and a task with the current
generation asked for the configured name, but between a setter's assignment and
its cancel.  `TunnelMatches` follows.

*Tunnel.*  `TunnelInv` gives, for each label of `begin` and `end`, what exists
(`LabelInv`), what `end` has run into (`CallInv`: after `Untimeout` a timer is pending
again only if its callback was caught before re-arming itself) and where both routes
are (`RouteInv`).  The default route is `wg` exactly while the tunnel holds
it, and what it will be given back is the network's, or nothing once
a tunnel without a peer was taken down.

*Session.*  `SessionInv` adds to the three invariants: only sessions that have
begun are in slots, and the server's alone in the next (`SlotInv`); the handshake
under way is in none (`HandshakeInv`); the server has what it answered
(`AnsweredInv`); nothing was received on a session before its pair left the next
slot (`UnusedInv`); and what was received is marked in the window of whichever
slot holds the session, the packet excepted that made the pair current
(`ReplayInv`).  Most steps only shrink the slots (copy one over another and clear
it, destroy, age: `ShrunkInv`).  Three put a pair where none was: the response, the
server's initiation, and the first packet on the next pair; there `OneSlot`,
`SharedKeys` and `TwiceIsFirst` are at stake.  `MarkHolds` is about
`wireguard_check_replay` alone: it keeps every mark and sets that of the number
it accepts, wherever the window moves.

*RTSP.*  `RtspInv` says that the lines that wait, read or not, are in the order in
which the client sent them, from this connection, and belong to requests not
answered yet.  The lemmas are about sequences: what a step leaves waiting is a
tail of what waited.  `NoMoreAnswers` and `NoForeignRequest` follow from that;
`Gapless` from the equality of the next number and the expected one.
`NothingLost` needs more (`LostInv`): what waits ends with the line that was sent
last; a first line comes only after the end of a request, so no request is cut
into another; and a buffer that is full holds no end of a request, so what is
thrown away with it belongs to one that does not fit.  Handling a request or
emptying the buffer cuts the waiting lines at such a border, and every other
request keeps its lines in one piece.

*Heat.*  `GuardInv` follows each put: the keys written so far agree with memory,
and so do those no put of this handler is about to write (`FlashInv`); a latch
is set at each label of a trip and its server off after it (`LatchInv`).

*Health.*  `NoFalseAlarm` follows from one inequality, kept by every step: a
stream has sent, in each of its minutes, the fewest packets of any minute
(`HealthInv`).  An average below the threshold thus means a minute below it.
The product is multiplied out with lemmas on quotients and remainders.
`RecoveredInTime` bounds two counts at once, of minutes and of checks:
`RecoveryInv` says how many checks are left before one acts, from the count of low
rates (and that it may come round), and that the minutes spent and those still
needed keep within the bound; and that as long as the rate is too low every check
in between sees it, because the count of packets stays below the threshold times
the minutes.

The inductive invariants that the runs do not list (`HandoffInv`, `ServerInv`,
`FreshInv`, `SessionInv`, `TunnelInv`, `RtspInv`, `LostInv`, `GuardInv`, `HealthInv`,
`RecoveryInv`, `SizeInv`), `ThermalSilence`, `PassEnds` and the type invariants
need no run: they are proved, and the runs check what follows from them.

**Only model-checked.**  Every invariant and every safety property of a step that
a passing run checks is also a theorem.  What is left to TLC is liveness, which is
out of the proof system's reach: `LoopReturns`, `DeadPeerNoticed`,
`TunnelRecovers`, `OffEndsResolver`, `InputDrained`, `HotStops`,
`ServerReachedUnlessMisled`.

## 11. Bounds

`Task`, `BufferSizes`, `Host`, `GenMod`, `Attempts`, `BackoffCap`, `DownWait`
bound the first two models, all constants; no action there is guarded by a bound
the code does not have, except that `sinceAttempt` stops counting at the larger
of backoff and wait, beyond which nothing depends on it.  In `WgSession`,
`MaxOurs`, `MaxTheirs` and `MaxSeq` guard the beginning of handshakes and the
server's packets, and ages stop at `ResetAfter`; in `RtspConnection`,
`MaxRequests` bounds the requests of a connection, not the connections.  In
`ThermalGuard`, `MaxCrashes` bounds resets at arbitrary moments (reboots and
factory resets are not bounded).  `WgTunnel` has no bound but the addresses; ages
stop where nothing else depends on them.  In `StreamHealth`, `Longest` bounds the
minutes of one session's statistics, and the count stays below `Word`, which takes
`Milli` times as long to reach as the product's wrap.

## 12. Not modelled

* DSP: floating point, no control flow between components.  The cryptographic
  primitives: arithmetic on words, taken as ideal in the protocol models.  The
  platform's clock and random numbers, which are inputs there.  Web page, build
  and flasher.
* The log ring: what is hard about it is that `httpLogs` reads Arduino Strings
  while the other core assigns them, and the source does not bound the outcomes
  of that; without it nothing is left but a ring.  The same holds for the DNS
  task's reading of `s_endpointHost`.
* Settings that only tune the DSP, the CPU clock or the radio; parsing of
  arguments; status pages.
* A task's last 600 ms before a scheduled reboot: the factory reset clears
  `isStreaming` and the block size under it (`.ino` 588) and reboots; what the
  task does in between is not followed.
* Framing: `RtspConnection` numbers packets and does not follow their bytes.
* Cookies, more than one peer, the sending counter's limits near 2^60.

## 13. Disagreements between code and text

Three claims are refuted by a run:

* `handoff_double_task`: a socket call that outlasts the join leaves two
  pipelines alive; `docs/DETAILS.md:354` says the semaphore "prevents double-task
  creation", but the wait for it (`.ino` 957) may end without it.
* `tunnel_misled`: `isPeerUp` is true as long as a previous key pair exists, which
  nothing but a new handshake removes, so a server that moved after a rekeying
  is not looked up again; `README.md:96` promises that the firmware "retries
  automatically", and `docs/DETAILS.md:87-88` a reconnect 30 s after peer-down.
  The 540 s reset with its comment "we should wipe out all crypto state" cannot
  help: it asks for a current pair of that age, and at 180 s the pair is gone.

* `wg_cancelled`: a cancellation between the DNS task's last test of its generation
  (`WireGuardManager.cpp:102`) and its end goes unseen, so a cancelled task publishes
  and its result is applied; `docs/DETAILS.md:100-102` and the comment at
  `WireGuardManager.cpp:149-151` say that it never is.

Others were met while modelling; no run is spent on them:

* `httpSet` stores a new buffer size before it stops the task (`WebUI.cpp:572`):
  until the stop request is answered, `i2s_read` is told the new size for buffers
  of the old one.  `StaleBufferEnds` bounds how long.
* The first packet of a session the server began is accepted twice: its number
  goes into the window of the slot that has just been cleared
  (`wireguardif.c:319-320`), so the copy in `curr_keypair` does not know it.  The
  comment there says "Check for packet replay / dupes".
* A frame of which a part has been written is dropped (`.ino` 1057, 1109), and the
  client takes the next header for payload.
* The automatic threshold is never below 5 packets a second (`.ino` 541), more
  than blocks of 4096 samples at 16 kHz give: such a stream restarts by itself
  for ever.
* The loop's idle check (`.ino` 1464) and `httpStatus` (`WebUI.cpp:372`) call
  `connected()` on the streaming client while the task may be in a call on it;
  `docs/DETAILS.md:25` says that Core 0 "never touches it".
* `consecutiveWriteFailures` is not reset by PLAY, so a client may inherit 99
  failures of the one before it.
* A second request that is already in the parse buffer is handled only when
  more bytes arrive; `InputDrained` is therefore about what has not been read.
* After a restart `RestartDone` never finds the client connected, because the
  stop the restart begins with closed it; the comment at `.ino` 616 expects to
  "restart the pipeline with the existing client".
* A stream that ends between the reads of `isStreaming` at 1476 and 1486 leaves
  the LED green; `docs/DETAILS.md:30` says the loop "detects the transition".
* When `millis() + 3000` wraps, the stop wait ends at once and the forced
  clean-up can withdraw `streamClient` between the task's test (730) and fetch
  (735): `NoNullClient` then fails.
* When the task cannot be started after PLAY, `isStreaming` stays set with
  nobody to serve or end the stream; `DeadPeerNoticed` is therefore stated for
  streams whose task has its buffers.
* `wireguardif_shutdown` frees the device without lwIP's lock; "Disable timer."
  (`wireguardif.c:903`) does not hold of a timer that is being served (section 8).
* A stale tunnel whose server still answers stays up: `isPeerUp`
  (`WireGuardManager.cpp:289`) does not know for which endpoint it was begun.
* 256 ticks without WiFi during one lookup bring the generation back to the
  task's own, and its result is applied (`Wraps`).
* The replay window is `sizeof` of the bitmap, 4 packets; the comment beside it
  (`wireguard.c:327`) says "32 bits".
* The previous pair is never encrypted with (`wireguardif.c:110-112`): a
  responder's pair becomes current by the packet that sets its `last_rx`, which
  is what the second half of `SharedKeys` says.
