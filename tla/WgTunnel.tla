------------------------------ MODULE WgTunnel ------------------------------
(***************************************************************************)
(* The tunnel below the manager: WireGuard::begin and end on the main      *)
(* loop, step by step; the interface, the default route and the peer they  *)
(* build and take down; and on the lwIP thread the 400 ms timer and the    *)
(* packets.  Neither side takes lwIP's lock: a callback runs between any   *)
(* two of those steps, and the steps of wireguardif_shutdown also run      *)
(* between the moment lwIP calls it and the moment it does its work.       *)
(*                                                                         *)
(* A server moves from address to address, restarts and forgets; the DNS   *)
(* follows it.  Key pairs are known by their age alone (WgSession has what *)
(* is in them).                                                            *)
(***************************************************************************)
EXTENDS Naturals

CONSTANTS
  Addr,     \* where the server may be
  Nowhere   \* no address

ASSUME AddrAssumption == Nowhere \notin Addr

VARIABLES
  pc,             \* next step of begin or end, "idle" between them
  initialized, hasIndex,   \* _is_initialized; s_peer_index is not INVALID
  route, previous,         \* netif_default and previous_default_netif
  waited,         \* have the back-off or the 30 s since the last attempt passed?
  listed,         \* does lwIP know the interface?
  device, timer, udp,      \* device context, its timer, its socket
  call,           \* the callback the lwIP thread is in, and how far
  dangling,       \* was its device freed under it?
  stray,          \* is a timer pending for a device that was freed?
  caught,         \* (history) which callback did an end run into?
  peer,           \* the one slot of device->peers
  asked,          \* where our initiation went
  ticked,         \* has the timer run since time last passed?
  server, dns,    \* where the server is, and where the DNS says it is
  was,            \* where a packet still on its way left from
  knows,          \* does it have our sessions?
  peerless,       \* (history) was a tunnel without a peer ever taken down?
  settled         \* have moves, restarts and changes ended?

glueVars == <<pc, initialized, hasIndex, route, previous, waited, listed, peerless>>
deviceVars == <<device, timer, udp>>
callVars == <<call, dangling, stray, caught>>
callbackVars == <<deviceVars, callVars>>
lwipVars == <<peer, asked, ticked>>
serverVars == <<server, dns, was, knows, settled>>
vars == <<glueVars, callbackVars, lwipVars, serverVars>>

(* A key pair's age: 0 young, 1 due for a rekey (120 s), 2 to be rejected   *)
(* (180 s), 3 old enough to reset the peer (540 s).                         *)
NoPair == 4
Pair == 0..3 \cup {NoPair}
older(k, last) == IF k < last THEN k + 1 ELSE k

(* A slot as crypto_zero leaves it. *)
Zero == [valid |-> FALSE, active |-> FALSE, connect |-> Nowhere, ip |-> Nowhere,
         curr |-> NoPair, prev |-> NoPair, next |-> NoPair]
Peer == [valid : BOOLEAN, active : BOOLEAN, connect : Addr \cup {Nowhere},
         ip : Addr \cup {Nowhere}, curr : Pair, prev : Pair, next : Pair]

(* The server's public key: its own, one that base64 cannot decode to 32    *)
(* bytes, or one the peer cannot be computed from.                          *)
Key == {"right", "garbled", "refused"}
Label == {"idle", "arm", "list", "addPeer", "connect", "setDefault", "endRoute", "disconnect",
          "removePeer", "untimeout", "udpRemove", "free", "unset", "remove"}

(* The timer's callback before and after it has re-armed itself, and the    *)
(* socket's.                                                                *)
Call == {"none", "fired", "timer", "packet"}

TypeOK ==
  /\ pc \in Label
  /\ {initialized, hasIndex, waited, listed, peerless, device, timer, udp, dangling, stray,
      ticked, knows, settled} \subseteq BOOLEAN
  /\ call \in Call /\ caught \subseteq Call
  /\ {route, previous} \subseteq {"wifi", "wg", "none"}
  /\ peer \in Peer
  /\ {asked, server, was} \subseteq Addr \cup {Nowhere} /\ dns \in Addr

Init ==
  /\ pc = "idle" /\ initialized = FALSE /\ hasIndex = FALSE
  /\ route = "wifi" /\ previous = "none"
  /\ waited = TRUE /\ listed = FALSE /\ peerless = FALSE
  /\ device = FALSE /\ timer = FALSE /\ udp = FALSE
  /\ call = "none" /\ dangling = FALSE /\ stray = FALSE /\ caught = {}
  /\ peer = Zero /\ asked = Nowhere /\ ticked = FALSE
  /\ server \in Addr \cup {Nowhere} /\ dns \in Addr /\ was = Nowhere
  /\ knows = FALSE /\ settled = FALSE

-----------------------------------------------------------------------------
(* The main loop: begin. *)

at(l) == pc = l

(* wg_tick's attempt, with what the DNS says now: the literal does not      *)
(* resolve, or wireguardif_init finds a bad private key or no memory.       *)
BeginFails ==
  /\ at("idle") /\ ~initialized /\ waited
  /\ waited' = FALSE
  /\ UNCHANGED <<pc, initialized, hasIndex, route, previous, listed, peerless,
                 callbackVars, lwipVars, serverVars>>

(* netif_add calls wireguardif_init: the device has empty slots, and a      *)
(* socket that calls it from here on, ...  The endpoint is kept in the      *)
(* slot's connect field, where add_peer copies it from begin's local.       *)
Begin ==
  /\ at("idle") /\ ~initialized /\ waited
  /\ pc' = "arm"
  /\ device' = TRUE /\ udp' = TRUE
  /\ peer' = [Zero EXCEPT !.connect = dns]
  /\ asked' = Nowhere /\ ticked' = FALSE
  /\ UNCHANGED <<initialized, hasIndex, route, previous, waited, listed, peerless, timer,
                 callVars, serverVars>>

(* ... then a timer; then lwIP lists the interface. *)
BeginArm ==
  /\ at("arm") /\ pc' = "list"
  /\ timer' = TRUE
  /\ UNCHANGED <<initialized, hasIndex, route, previous, waited, listed, peerless, device, udp,
                 callVars, lwipVars, serverVars>>

BeginList ==
  /\ at("list") /\ pc' = "addPeer"
  /\ listed' = TRUE
  /\ UNCHANGED <<initialized, hasIndex, route, previous, waited, peerless, callbackVars,
                 lwipVars, serverVars>>

(* add_peer gives an index also for a slot it could not fill. *)
AddPeer(key) ==
  /\ at("addPeer") /\ (settled => key = "right")
  /\ hasIndex' = (key # "garbled")
  /\ peer' = IF key = "right"
               THEN [peer EXCEPT !.valid = TRUE, !.ip = peer.connect] ELSE Zero
  /\ IF key = "garbled"
       THEN pc' = "idle" /\ initialized' = TRUE /\ waited' = FALSE
       ELSE pc' = "connect" /\ UNCHANGED <<initialized, waited>>
  /\ UNCHANGED <<route, previous, listed, peerless, callbackVars, asked,
                 ticked, serverVars>>

(* wireguardif_connect, whose error begin ignores. *)
Connect ==
  /\ at("connect") /\ pc' = "setDefault"
  /\ peer' = IF peer.valid THEN [peer EXCEPT !.active = TRUE, !.ip = peer.connect] ELSE peer
  /\ UNCHANGED <<initialized, hasIndex, route, previous, waited, listed, peerless,
                 callbackVars, asked, ticked, serverVars>>

(* Mutant: the old default is read after the new one is set. *)
SetDefaultFirst ==
  /\ at("setDefault") /\ pc' = "idle"
  /\ previous' = "wg" /\ route' = "wg"
  /\ initialized' = TRUE /\ waited' = FALSE /\ ticked' = FALSE
  /\ UNCHANGED <<hasIndex, listed, peerless, callbackVars, peer, asked, serverVars>>

SetDefault ==
  /\ at("setDefault") /\ pc' = "idle"
  /\ previous' = route /\ route' = "wg"
  /\ initialized' = TRUE /\ waited' = FALSE /\ ticked' = FALSE
  /\ UNCHANGED <<hasIndex, listed, peerless, callbackVars, peer, asked, serverVars>>

-----------------------------------------------------------------------------
(* The main loop: isPeerUp and end. *)

peerUp ==
  initialized /\ hasIndex /\ peer.valid /\ (peer.curr # NoPair \/ peer.prev # NoPair)

(* wg_tick: the peer has been down for 30 s. *)
Reconnect ==
  /\ at("idle") /\ initialized /\ ~peerUp /\ waited
  /\ pc' = "endRoute" /\ waited' = FALSE
  /\ UNCHANGED <<initialized, hasIndex, route, previous, listed, peerless,
                 callbackVars, lwipVars, serverVars>>

(* A setter, an outage of WiFi or of the clock: wg_stop. *)
Stop ==
  /\ at("idle") /\ initialized /\ ~settled
  /\ pc' = "endRoute"
  /\ UNCHANGED <<initialized, hasIndex, route, previous, waited, listed, peerless, callbackVars,
                 lwipVars, serverVars>>

EndRoute ==
  /\ at("endRoute") /\ pc' = "disconnect"
  /\ route' = previous /\ previous' = "none"
  /\ peerless' = (peerless \/ ~hasIndex)
  /\ UNCHANGED <<initialized, hasIndex, waited, listed, callbackVars, lwipVars,
                 serverVars>>

Disconnect ==
  /\ at("disconnect") /\ pc' = "removePeer"
  /\ peer' = IF hasIndex /\ peer.valid
               THEN [peer EXCEPT !.active = FALSE, !.curr = NoPair, !.prev = NoPair, !.next = NoPair]
               ELSE peer
  /\ UNCHANGED <<initialized, hasIndex, route, previous, waited, listed, peerless,
                 callbackVars, asked, ticked, serverVars>>

RemovePeer ==
  /\ at("removePeer") /\ pc' = "untimeout"
  /\ IF hasIndex /\ peer.valid
       THEN peer' = Zero /\ asked' = Nowhere ELSE UNCHANGED <<peer, asked>>
  /\ hasIndex' = FALSE
  /\ UNCHANGED <<initialized, route, previous, waited, listed, peerless, callbackVars,
                 ticked, serverVars>>

(* wireguardif_shutdown.  A step that finds the callback whose source it    *)
(* removes already under way does not wait for it.                          *)

(* Mutant: the timer stays. *)
UntimeoutNothing ==
  /\ at("untimeout") /\ pc' = "udpRemove"
  /\ UNCHANGED <<initialized, hasIndex, route, previous, waited, listed, peerless,
                 callbackVars, lwipVars, serverVars>>

(* sys_untimeout removes a timer that is pending, not one being served. *)
Untimeout ==
  /\ at("untimeout") /\ pc' = "udpRemove"
  /\ timer' = FALSE
  /\ caught' = {call} \cap {"fired", "timer"}
  /\ UNCHANGED <<initialized, hasIndex, route, previous, waited, listed, peerless, device, udp,
                 call, dangling, stray, lwipVars, serverVars>>

UdpRemove ==
  /\ at("udpRemove") /\ pc' = "free"
  /\ udp' = FALSE
  /\ caught' = caught \cup ({call} \cap {"packet"})
  /\ UNCHANGED <<initialized, hasIndex, route, previous, waited, listed, peerless, device, timer,
                 call, dangling, stray, lwipVars, serverVars>>

(* free(device): whoever still has the pointer keeps it, *)
Free ==
  /\ at("free") /\ pc' = "unset"
  /\ device' = FALSE
  /\ timer' = FALSE /\ stray' = (stray \/ timer)
  /\ dangling' = (call # "none")
  /\ UNCHANGED <<initialized, hasIndex, route, previous, waited, listed, peerless, udp, call,
                 caught, lwipVars, serverVars>>

(* the interface until netif->state is NULL. *)
Unset ==
  /\ at("unset") /\ pc' = "remove"
  /\ UNCHANGED <<initialized, hasIndex, route, previous, waited, listed, peerless,
                 callbackVars, lwipVars, serverVars>>

(* netif_remove also takes the interface out of netif_default. *)
Remove ==
  /\ at("remove") /\ pc' = "idle"
  /\ listed' = FALSE /\ initialized' = FALSE
  /\ caught' = {}
  /\ route' = IF route = "wg" THEN "none" ELSE route
  /\ UNCHANGED <<hasIndex, previous, waited, peerless, deviceVars, call, dangling, stray,
                 lwipVars, serverVars>>

Loop ==
  \/ BeginFails \/ Begin \/ BeginArm \/ BeginList \/ (\E key \in Key : AddPeer(key))
  \/ Connect \/ SetDefault
  \/ Reconnect \/ Stop
  \/ EndRoute \/ Disconnect \/ RemovePeer \/ Untimeout \/ UdpRemove \/ Free \/ Unset \/ Remove

-----------------------------------------------------------------------------
(* The lwIP thread: what calls its callbacks. *)

(* A callback is under way for a while only where end takes away what calls *)
(* it: before, calling it and its work may as well be one step.             *)
removing == pc \in {"untimeout", "udpRemove", "free"}

(* The timer expires: it is taken off the list, then its callback called.   *)
Fire ==
  /\ timer /\ call = "none" /\ removing
  /\ timer' = FALSE /\ call' = "fired"
  /\ UNCHANGED <<glueVars, device, udp, dangling, stray, caught, lwipVars, serverVars>>

(* The first thing wireguardif_tmr does, whatever became of the device.     *)
Rearm ==
  /\ call = "fired" /\ call' = "timer"
  /\ IF dangling THEN stray' = TRUE /\ UNCHANGED timer ELSE timer' = TRUE /\ UNCHANGED stray
  /\ UNCHANGED <<glueVars, device, udp, dangling, caught, lwipVars, serverVars>>

Arrive ==
  /\ udp /\ call = "none" /\ removing
  /\ call' = "packet"
  /\ UNCHANGED <<glueVars, deviceVars, dangling, stray, caught, lwipVars, serverVars>>

(* A callback does its work and returns. *)
Work(kind) ==
  /\ \/ call = kind /\ ~dangling
     \/ call = "none" /\ ~removing /\ (IF kind = "timer" THEN timer ELSE udp)
  /\ call' = "none"
  /\ UNCHANGED <<glueVars, deviceVars, dangling, stray, caught>>

(* A message that is not for us, or for a peer that is gone. *)
Ignore == Work("packet") /\ UNCHANGED <<lwipVars, serverVars>>

-----------------------------------------------------------------------------
(* The lwIP thread: what the callbacks do. *)

(* should_reset_peer, should_destroy_current_keypair. *)
AfterReset(p) ==
  IF p.curr = 3 THEN [p EXCEPT !.curr = NoPair, !.prev = NoPair, !.next = NoPair, !.ip = p.connect]
  ELSE p

AfterExpiry(p) == IF p.curr \in {2, 3} THEN [p EXCEPT !.curr = NoPair] ELSE p

(* Mutant: no initiation but to renew a session. *)
initiatesToRenew(p) == p.curr = 1

(* should_send_initiation: a rekey that traffic or age asks for, or a       *)
(* connected peer without a session.                                        *)
initiates(p) == p.curr = 1 \/ (p.curr = NoPair /\ p.active)

(* wireguardif_tmr, as often as REKEY_TIMEOUT lets it send. *)
Tick ==
  /\ ticked' = TRUE
  /\ LET p == IF peer.valid THEN AfterExpiry(AfterReset(peer)) ELSE peer IN
     /\ peer' = p
     /\ IF p.valid /\ initiates(p)
          THEN asked' = p.ip
          ELSE UNCHANGED asked

Tmr == Work("timer") /\ Tick /\ UNCHANGED serverVars

(* Our handshake's answer: a new current pair (add_new_keypair). *)
WithNew(p) ==
  [p EXCEPT !.prev = IF p.next # NoPair THEN p.next ELSE p.curr,
            !.next = NoPair, !.curr = 0, !.ip = server]

ReceiveResponse ==
  /\ Work("packet") /\ server # Nowhere /\ asked = server
  /\ peer.valid
  /\ peer' = WithNew(peer)
  /\ asked' = Nowhere /\ knows' = TRUE
  /\ UNCHANGED <<ticked, server, dns, was, settled>>

(* The server's initiation: a next pair, and our handshake is over.  A      *)
(* server that has settled leaves the initiative to the device.             *)
ReceiveInitiation ==
  /\ Work("packet") /\ ~settled /\ server # Nowhere /\ knows
  /\ peer.valid
  /\ peer' = [peer EXCEPT !.next = 0, !.prev = NoPair, !.ip = server]
  /\ asked' = Nowhere
  /\ UNCHANGED <<ticked, serverVars>>

(* keypair_update. *)
Updated(p, slot) ==
  IF slot = "next" THEN [p EXCEPT !.prev = p.curr, !.curr = p.next, !.next = NoPair] ELSE p

(* A data packet on a pair, from an address: a rejected pair is destroyed,  *)
(* any other takes the peer's address with it.                              *)
Data(slot, from) ==
  /\ Work("packet") /\ peer.valid /\ peer[slot] # NoPair
  /\ peer' = IF peer[slot] \in 0..1
       THEN [Updated(peer, slot) EXCEPT !.ip = from]
       ELSE [peer EXCEPT ![slot] = NoPair]
  /\ UNCHANGED <<asked, ticked, server, dns, knows, settled>>

(* The server sends on its newest pair. *)
ReceiveData ==
  /\ server # Nowhere /\ knows /\ UNCHANGED was
  /\ Data(IF peer.next # NoPair THEN "next" ELSE "curr", server)

(* A packet that left before the server moved. *)
ReceiveLate ==
  /\ was # Nowhere /\ was' = Nowhere
  /\ \E slot \in {"curr", "prev"} : Data(slot, was)

-----------------------------------------------------------------------------
(* The lwIP thread after free(device). *)

Restart ==
  /\ pc' = "idle" /\ initialized' = FALSE /\ hasIndex' = FALSE
  /\ route' = "wifi" /\ previous' = "none"
  /\ waited' = TRUE /\ listed' = FALSE /\ peerless' = FALSE
  /\ device' = FALSE /\ timer' = FALSE /\ udp' = FALSE
  /\ call' = "none" /\ dangling' = FALSE /\ stray' = FALSE /\ caught' = {}
  /\ peer' = Zero /\ asked' = Nowhere /\ ticked' = FALSE
  /\ UNCHANGED serverVars

(* A callback works on freed memory.  It may still hold what was left       *)
(* there, a device without a peer; it may be the next device; or it is      *)
(* anything, and the firmware panics and starts again.                      *)
UseFreed ==
  /\ \/ call \in {"timer", "packet"} /\ dangling
     \/ call = "none" /\ stray
  /\ \/ /\ call' = "none" /\ dangling' = FALSE
        /\ UNCHANGED <<glueVars, deviceVars, stray, caught, serverVars>>
        /\ UNCHANGED lwipVars \/ (call # "packet" /\ device /\ Tick)
     \/ Restart

(* A packet is routed through an interface without a device.                *)
OutputFreed == listed /\ ~device /\ Restart

Enter == Fire \/ Rearm \/ Arrive
Handle == Tmr \/ ReceiveResponse \/ ReceiveInitiation \/ ReceiveData \/ ReceiveLate \/ Ignore
LwIP == Enter \/ Handle \/ UseFreed \/ OutputFreed

-----------------------------------------------------------------------------
(* External: time, and the server. *)

(* begin or end and the callbacks are short: when seconds pass they have    *)
(* finished, and the timer has run meanwhile.                               *)
Quiet == at("idle") /\ call = "none" /\ (timer => ticked)

(* 60 s or more. *)
TimePasses ==
  /\ Quiet
  /\ ticked' = FALSE /\ waited' = TRUE
  /\ peer' = [peer EXCEPT !.curr = older(@, 3), !.prev = older(@, 2), !.next = older(@, 2)]
  /\ UNCHANGED <<pc, initialized, hasIndex, route, previous, listed, peerless,
                 callbackVars, asked, serverVars>>

(* The back-off, or 30 s. *)
Wait ==
  /\ Quiet
  /\ ~waited /\ waited' = TRUE /\ ticked' = FALSE
  /\ UNCHANGED <<pc, initialized, hasIndex, route, previous, listed, peerless,
                 callbackVars, peer, asked, serverVars>>

(* What the server does during a callback comes after it as well. *)
ServerChanges ==
  /\ ~settled /\ call = "none"
  /\ \/ server' \in (Addr \cup {Nowhere}) \ {server} /\ was' = server /\ UNCHANGED dns
     \/ server # Nowhere /\ dns' = server /\ UNCHANGED <<server, was>>
  /\ knows' \in {knows, FALSE}
  /\ UNCHANGED <<glueVars, callbackVars, lwipVars, settled>>

Settle ==
  /\ ~settled /\ settled' = TRUE
  /\ UNCHANGED <<glueVars, callbackVars, lwipVars, server, dns, was, knows>>

Next == Loop \/ LwIP \/ TimePasses \/ Wait \/ ServerChanges \/ Settle

Spec == Init /\ [][Next]_vars

(* The loop, the timer and a callback under way keep running, and time goes *)
(* on; begin does not fail for ever, and a server that keeps being asked is *)
(* sometimes heard.                                                         *)
Fairness ==
  /\ WF_vars(Loop) /\ SF_vars(Begin)
  /\ WF_vars(Tmr) /\ WF_vars(Rearm \/ Handle \/ UseFreed)
  /\ WF_vars(TimePasses) /\ WF_vars(Wait)
  /\ SF_vars(ReceiveResponse)

FairSpec == Spec /\ Fairness

-----------------------------------------------------------------------------
(* Properties. *)

(* The default route comes home: it is gone exactly when a tunnel that had  *)
(* no peer has been taken down (its end restores a route its begin had not  *)
(* replaced); no other sequence of begins, failures and ends loses it, and  *)
(* none after that brings it back.                                          *)
RouteComesHome ==
  (IF initialized /\ hasIndex /\ pc \in {"idle", "endRoute"} THEN previous ELSE route)
     = (IF peerless THEN "none" ELSE "wifi")

(* A callback outlives its device only if end ran into it: a timer is       *)
(* pending for a freed device only if sys_untimeout came between an expiry  *)
(* and its re-arming, and a callback that free catches was under way when   *)
(* its own source was removed.  Nothing else that end, lwIP and packets do  *)
(* in any order frees a device under a callback.                            *)
FreedUnderCallback ==
  [][/\ stray' /\ ~stray => "fired" \in caught \/ dangling
     /\ dangling' /\ ~dangling => call \in caught \/ (call # "packet" /\ "fired" \in caught)]_vars

(* The inductive invariant behind these two: what exists at each label,     *)
(* what end has run into so far, and where the two routes are while the     *)
(* tunnel holds the default route.                                          *)
Beginning == {"arm", "list", "addPeer", "connect", "setDefault"}
Freeing == {"untimeout", "udpRemove", "free", "unset", "remove"}
Ending == {"endRoute", "disconnect", "removePeer"} \cup Freeing

Up == at("idle") /\ initialized

LabelInv ==
  /\ device <=> Up \/ pc \in (Beginning \cup Ending) \ {"unset", "remove"}
  /\ udp <=> device /\ ~at("free")
  /\ timer => device
  /\ listed <=> Up \/ pc \in (Beginning \cup Ending) \ {"arm", "list"}
  /\ pc \in Beginning => ~initialized
  /\ pc \in Ending => initialized
  /\ pc \in {"connect", "setDefault"} => hasIndex
  /\ pc \in Freeing \cup {"arm", "list", "addPeer"} \/ (at("idle") /\ ~initialized) => ~hasIndex

CallInv ==
  /\ dangling => call # "none"
  /\ call # "none" /\ ~dangling => removing
  /\ pc \in {"udpRemove", "free"} =>
       /\ timer => "fired" \in caught
       /\ ~dangling /\ call = "fired" => "fired" \in caught
       /\ ~dangling /\ call = "timer" => {"fired", "timer"} \cap caught # {}
  /\ at("free") /\ ~dangling /\ call = "packet" => "packet" \in caught

home == IF peerless THEN "none" ELSE "wifi"
Holding == initialized /\ hasIndex /\ pc \in {"idle", "endRoute"}

RouteInv ==
  /\ Holding => route = "wg" /\ previous = home
  /\ ~Holding => route = home /\ previous = "none"

TunnelInv == TypeOK /\ LabelInv /\ CallInv /\ RouteInv

(* A session with the server, at the address packets are sent to. *)
reached == initialized /\ peer.curr \in {0, 1} /\ peer.ip = server

(* What keeps the manager from resolving again: a pair that will not be     *)
(* used again and that nothing destroys.                                    *)
misled == peer.curr = NoPair /\ peer.prev # NoPair /\ peer.ip # server

reachable == settled /\ server # Nowhere /\ dns = server

(* A callback has, or will have, freed memory to work on: no promise holds. *)
freedUnder == dangling \/ stray

(* Once the server and the configuration stay as they are, the device       *)
(* reaches the server again and again, whatever moves, restarts and         *)
(* failures came before, unless an old pair has misled it or end ran into a *)
(* callback.                                                                *)
ServerReachedUnlessMisled == reachable ~> reached \/ misled \/ freedUnder

(* "If the tunnel drops, the firmware retries automatically in the          *)
(* background": the server is reached, without exception.                   *)
ServerReached == reachable ~> reached
=============================================================================
