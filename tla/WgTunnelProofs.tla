--------------------------- MODULE WgTunnelProofs ---------------------------
(***************************************************************************)
(* For any number of addresses: the tunnel's state is typed, the default   *)
(* route comes home, and free(device) finds a callback or a timer only if  *)
(* end ran into the callback before.  One inductive invariant, TunnelInv,  *)
(* carries all of it; the server and time only meet its typing.            *)
(***************************************************************************)
EXTENDS WgTunnel, TLAPS

LEMMA Ages == 0 \in Pair /\ NoPair \in Pair
  BY DEF Pair, NoPair

(* What a slot of the peer may be replaced with. *)
LEMMA ZeroIsPeer == Zero \in Peer
  BY DEF Zero, Peer, Pair, NoPair

(* The handlers of the lwIP thread keep the slot typed. *)
LEMMA SlotTyped ==
  ASSUME NEW p \in Peer
  PROVE  /\ AfterReset(p) \in Peer /\ AfterExpiry(p) \in Peer
         /\ \A slot \in {"curr", "prev", "next"} : Updated(p, slot) \in Peer
  BY DEF AfterReset, AfterExpiry, Updated, Peer, Pair, NoPair

LEMMA TunnelInit == Init => TunnelInv
  BY ZeroIsPeer DEF Init, TunnelInv, TypeOK, LabelInv, CallInv, RouteInv, Label, Call, home, Holding,
     Beginning, Ending, Freeing, Up, at, removing

(* begin and the manager's decisions. *)
LEMMA BeginStep ==
  ASSUME TunnelInv, BeginFails \/ Begin \/ BeginArm \/ BeginList \/ (\E key \in Key : AddPeer(key))
                    \/ Connect \/ SetDefault \/ Reconnect \/ Stop
  PROVE  TunnelInv'
  <1> USE DEF TunnelInv, LabelInv, CallInv, RouteInv, Label, Call, home, Holding, Beginning, Ending,
              Freeing, Up, at, removing, deviceVars, callVars, callbackVars, lwipVars, serverVars
  <1>1. CASE BeginFails
    BY <1>1 DEF BeginFails, TypeOK
  <1>2. CASE Begin
    <2>1. peer' \in Peer
      BY <1>2 DEF Begin, TypeOK, Zero, Peer, Pair, NoPair
    <2> QED BY <1>2, <2>1 DEF Begin, TypeOK
  <1>3. CASE BeginArm
    BY <1>3 DEF BeginArm, TypeOK
  <1>4. CASE BeginList
    BY <1>4 DEF BeginList, TypeOK
  <1>5. ASSUME NEW key \in Key, AddPeer(key) PROVE TunnelInv'
    <2>1. peer' \in Peer
      BY <1>5, ZeroIsPeer DEF AddPeer, TypeOK, Peer
    <2>2. CASE key = "garbled"
      BY <1>5, <2>1, <2>2 DEF AddPeer, TypeOK
    <2>3. CASE key # "garbled"
      BY <1>5, <2>1, <2>3 DEF AddPeer, TypeOK
    <2> QED BY <2>2, <2>3
  <1>6. CASE Connect
    <2>1. peer' \in Peer
      BY <1>6 DEF Connect, TypeOK, Peer
    <2> QED BY <1>6, <2>1 DEF Connect, TypeOK
  <1>7. CASE SetDefault
    BY <1>7 DEF SetDefault, TypeOK
  <1>8. CASE Reconnect
    BY <1>8 DEF Reconnect, TypeOK
  <1>9. CASE Stop
    BY <1>9 DEF Stop, TypeOK
  <1> QED BY <1>1, <1>2, <1>3, <1>4, <1>5, <1>6, <1>7, <1>8, <1>9

(* end. *)
LEMMA EndStep ==
  ASSUME TunnelInv, EndRoute \/ Disconnect \/ RemovePeer \/ Untimeout \/ UdpRemove \/ Free
                    \/ Unset \/ Remove
  PROVE  TunnelInv'
  <1> USE DEF TunnelInv, LabelInv, CallInv, RouteInv, Label, Call, home, Holding, Beginning, Ending,
              Freeing, Up, at, removing, deviceVars, callVars, callbackVars, lwipVars, serverVars
  <1>1. CASE EndRoute
    BY <1>1 DEF EndRoute, TypeOK
  <1>2. CASE Disconnect
    <2>1. peer' \in Peer
      BY <1>2 DEF Disconnect, TypeOK, Peer, Pair, NoPair
    <2> QED BY <1>2, <2>1 DEF Disconnect, TypeOK
  <1>3. CASE RemovePeer
    <2>1. peer' \in Peer /\ asked' \in Addr \cup {Nowhere}
      BY <1>3, ZeroIsPeer DEF RemovePeer, TypeOK
    <2> QED BY <1>3, <2>1 DEF RemovePeer, TypeOK
  <1>4. CASE Untimeout
    BY <1>4 DEF Untimeout, TypeOK
  <1>5. CASE UdpRemove
    BY <1>5 DEF UdpRemove, TypeOK
  <1>6. CASE Free
    BY <1>6 DEF Free, TypeOK
  <1>7. CASE Unset
    BY <1>7 DEF Unset, TypeOK
  <1>8. CASE Remove
    BY <1>8 DEF Remove, TypeOK
  <1> QED BY <1>1, <1>2, <1>3, <1>4, <1>5, <1>6, <1>7, <1>8

(* lwIP calls a callback, and the timer's re-arms itself. *)
LEMMA EnterStep ==
  ASSUME TunnelInv, Enter
  PROVE  TunnelInv'
  <1> USE DEF TunnelInv, LabelInv, CallInv, RouteInv, TypeOK, Call, home, Holding, Beginning, Ending,
              Freeing, Up, at, removing, glueVars, deviceVars, callVars, lwipVars, serverVars
  <1>1. CASE Fire
    BY <1>1 DEF Fire
  <1>2. CASE Rearm
    BY <1>2 DEF Rearm
  <1>3. CASE Arrive
    BY <1>3 DEF Arrive
  <1> QED BY <1>1, <1>2, <1>3 DEF Enter

(* What the timer does keeps the slot and the address asked typed. *)
LEMMA TickTyped ==
  ASSUME TypeOK, Tick
  PROVE  peer' \in Peer /\ asked' \in Addr \cup {Nowhere} /\ ticked' \in BOOLEAN
  <1> DEFINE p == IF peer.valid THEN AfterExpiry(AfterReset(peer)) ELSE peer
  <1>1. p \in Peer
    BY SlotTyped DEF TypeOK
  <1>2. p.ip \in Addr \cup {Nowhere}
    BY <1>1 DEF Peer
  <1>3. peer' = p /\ asked' \in {asked, p.ip} /\ ticked' = TRUE
    BY DEF Tick
  <1> QED BY <1>1, <1>2, <1>3 DEF TypeOK

(* A callback's work, time and the server touch no label, no device and no  *)
(* route: they only end a call.                                             *)
LEMMA Apart ==
  ASSUME TunnelInv, TypeOK',
         UNCHANGED <<pc, initialized, hasIndex, route, previous, listed, peerless, deviceVars,
                     caught, stray>>,
         \/ call' = "none" /\ dangling' = FALSE
         \/ call' = "none" /\ UNCHANGED dangling /\ ~dangling
         \/ UNCHANGED <<call, dangling>>
  PROVE  TunnelInv'
  BY DEF TunnelInv, LabelInv, CallInv, RouteInv, Holding, home, Up, at, removing, deviceVars

(* The callbacks' work. *)
LEMMA HandleStep ==
  ASSUME TunnelInv, Handle
  PROVE  TunnelInv'
  <1> USE DEF TypeOK, glueVars, deviceVars, callVars, callbackVars, lwipVars, serverVars, Call
  <1>0. TypeOK /\ (dangling => call # "none")
    BY DEF TunnelInv, CallInv
  <1>1. /\ UNCHANGED <<glueVars, deviceVars, caught, stray, dangling>>
        /\ call' = "none" /\ ~dangling
    BY <1>0 DEF Handle, Tmr, ReceiveResponse, ReceiveInitiation, ReceiveData, ReceiveLate, Data,
                Ignore, Work
  <1>2. TypeOK'
    <2>1. CASE Tmr
      BY <1>0, <1>1, <2>1, TickTyped DEF Tmr
    <2>2. CASE ReceiveResponse
      <3>1. peer' \in Peer
        BY <1>0, <2>2, Ages DEF ReceiveResponse, WithNew, Peer
      <3> QED BY <1>0, <1>1, <2>2, <3>1 DEF ReceiveResponse
    <2>3. CASE ReceiveInitiation
      <3>1. peer' \in Peer
        BY <1>0, <2>3, Ages DEF ReceiveInitiation, Peer
      <3> QED BY <1>0, <1>1, <2>3, <3>1 DEF ReceiveInitiation
    <2>4. ASSUME NEW slot \in {"curr", "prev", "next"}, NEW from \in Addr \cup {Nowhere},
                 Data(slot, from), was' \in Addr \cup {Nowhere}
          PROVE  TypeOK'
      <3>1. peer' \in Peer
        BY <1>0, <2>4, SlotTyped DEF Data, Peer, Pair, NoPair
      <3> QED BY <1>0, <1>1, <2>4, <3>1 DEF Data
    <2>5. CASE ReceiveData
      BY <1>0, <2>4, <2>5 DEF ReceiveData
    <2>6. CASE ReceiveLate
      BY <1>0, <2>4, <2>6 DEF ReceiveLate
    <2>7. CASE Ignore
      BY <1>0, <1>1, <2>7 DEF Ignore
    <2> QED BY <2>1, <2>2, <2>3, <2>5, <2>6, <2>7 DEF Handle
  <1> QED BY <1>1, <1>2, Apart

(* Freed memory: harmless, the next device's, or a restart. *)
LEMMA FreedStep ==
  ASSUME TunnelInv, UseFreed \/ OutputFreed
  PROVE  TunnelInv'
  <1> USE DEF glueVars, deviceVars, callVars, callbackVars, lwipVars, serverVars
  <1>1. CASE Restart
    BY <1>1, ZeroIsPeer DEF Restart, TunnelInv, TypeOK, LabelInv, CallInv, RouteInv, Label, Call,
       home, Holding, Beginning, Ending, Freeing, Up, at, removing
  <1>2. CASE /\ call' = "none" /\ dangling' = FALSE
             /\ UNCHANGED <<glueVars, deviceVars, stray, caught, serverVars>>
             /\ UNCHANGED lwipVars \/ Tick
    <2>1. TypeOK
      BY DEF TunnelInv
    <2>2. peer' \in Peer /\ asked' \in Addr \cup {Nowhere} /\ ticked' \in BOOLEAN
      BY <1>2, <2>1, TickTyped DEF TypeOK
    <2>3. TypeOK'
      BY <1>2, <2>1, <2>2 DEF TypeOK, Call
    <2> QED BY <1>2, <2>3, Apart
  <1> QED BY <1>1, <1>2 DEF UseFreed, OutputFreed

LEMMA WorldStep ==
  ASSUME TunnelInv, TimePasses \/ Wait \/ ServerChanges \/ Settle
  PROVE  TunnelInv'
  <1> USE DEF TypeOK, glueVars, deviceVars, callVars, callbackVars, lwipVars, serverVars
  <1>0. TypeOK
    BY DEF TunnelInv
  <1>1. UNCHANGED <<pc, initialized, hasIndex, route, previous, listed, peerless, callbackVars>>
    BY DEF TimePasses, Wait, ServerChanges, Settle
  <1>2. TypeOK'
    <2>1. CASE TimePasses
      <3>1. \A k \in Pair : older(k, 3) \in Pair /\ older(k, 2) \in Pair
        BY DEF older, Pair, NoPair
      <3>2. peer' \in Peer
        BY <1>0, <2>1, <3>1 DEF TimePasses, Peer
      <3> QED BY <1>0, <2>1, <3>2 DEF TimePasses
    <2>2. CASE Wait
      BY <1>0, <2>2 DEF Wait
    <2>3. CASE ServerChanges
      BY <1>0, <2>3 DEF ServerChanges
    <2>4. CASE Settle
      BY <1>0, <2>4 DEF Settle
    <2> QED BY <2>1, <2>2, <2>3, <2>4
  <1> QED BY <1>1, <1>2, Apart

LEMMA TunnelNext == TunnelInv /\ [Next]_vars => TunnelInv'
  <1> SUFFICES ASSUME TunnelInv, [Next]_vars PROVE TunnelInv'
    OBVIOUS
  <1>1. CASE UNCHANGED vars
    BY <1>1 DEF vars, glueVars, deviceVars, callVars, callbackVars, lwipVars, serverVars, TunnelInv,
                TypeOK, LabelInv, CallInv, RouteInv, home, Holding, Up, at, removing
  <1>2. CASE Loop
    BY <1>2, BeginStep, EndStep DEF Loop
  <1>3. CASE LwIP
    BY <1>3, EnterStep, HandleStep, FreedStep DEF LwIP
  <1> QED BY <1>1, <1>2, <1>3, WorldStep DEF Next

(* What exists at each step of begin and end, what end has run into, and    *)
(* where the routes are, for every interleaving with timer and packets.     *)
THEOREM Tunnel == Spec => []TunnelInv
  <1> QED BY TunnelInit, TunnelNext, PTL DEF Spec

(* The default route is lost exactly by taking a peerless tunnel down. *)
THEOREM RouteHome == Spec => []RouteComesHome
  <1>1. TunnelInv => RouteComesHome
    BY DEF TunnelInv, RouteInv, RouteComesHome, Holding, home
  <1> QED BY <1>1, Tunnel, PTL

(* wireguardif_shutdown frees the device under a timer only if the timer    *)
(* had expired, and not re-armed itself, when sys_untimeout looked for it;  *)
(* and under a callback only if that one was under way when what calls it   *)
(* was removed.                                                             *)
THEOREM FreedOnlyUnderCaught == Spec => FreedUnderCallback
  <1> DEFINE A == /\ stray' /\ ~stray => "fired" \in caught \/ dangling
                  /\ dangling' /\ ~dangling =>
                       call \in caught \/ (call # "packet" /\ "fired" \in caught)
  <1>1. ASSUME TunnelInv, Next PROVE A
    <2> USE DEF glueVars, deviceVars, callVars, callbackVars
    <2>1. CASE Free
      <3>1. /\ timer => "fired" \in caught
            /\ call # "none" /\ ~dangling => call \in caught \/ (call # "packet" /\ "fired" \in caught)
        BY <1>1, <2>1 DEF Free, at, TunnelInv, CallInv, TypeOK, Call
      <3> QED BY <2>1, <3>1 DEF Free
    <2>2. CASE Rearm
      BY <1>1, <2>2 DEF Rearm
    <2>3. CASE Restart
      BY <2>3 DEF Restart
    <2>4. CASE UNCHANGED stray /\ (UNCHANGED dangling \/ dangling' = FALSE)
      BY <2>4
    <2> QED BY <1>1, <2>1, <2>2, <2>3, <2>4
        DEF Next, Loop, BeginFails, Begin, BeginArm, BeginList, AddPeer, Connect, SetDefault,
            Reconnect, Stop, EndRoute, Disconnect, RemovePeer, Untimeout, UdpRemove, Unset, Remove,
            LwIP, Enter, Fire, Arrive, Handle, Tmr, ReceiveResponse, ReceiveInitiation, ReceiveData,
            ReceiveLate, Data, Ignore, Work, UseFreed, OutputFreed, TimePasses, Wait, ServerChanges,
            Settle
  <1>2. TunnelInv /\ [Next]_vars => [A]_vars
    BY <1>1
  <1> QED BY <1>2, Tunnel, PTL DEF Spec, FreedUnderCallback
=============================================================================
