-------------------------- MODULE WgSessionProofs --------------------------
(***************************************************************************)
(* The properties of WgSession for any number of handshakes and packets,   *)
(* any window and any times that keep the order TimeAssumption states.     *)
(*                                                                         *)
(* SessionInv is inductive.  Most steps only take pairs out of slots or    *)
(* age them (Shrinks): one lemma, KeepsInv, covers those and the server's. *)
(* The three that put a pair into a slot have a lemma each.                *)
(***************************************************************************)
EXTENDS WgSession, TLAPS

(* The slots of T are those of S, but for pairs destroyed or aged. *)
Shrinks(S, T) ==
  \A i \in Slot : T[i].valid =>
    /\ S[i].valid /\ T[i].session = S[i].session /\ T[i].rx = S[i].rx
    /\ T[i].counter = S[i].counter /\ T[i].bitmap = S[i].bitmap

Slots == [Slot -> KeyPair]

-----------------------------------------------------------------------------
(* Typing of the operators. *)

LEMMA SessionShape ==
  \A s \in Session : /\ s[1] \in {"us", "server"} /\ s[2] \in Nat \ {0}
                     /\ s[1] = "us" => s[2] <= MaxOurs /\ s = <<"us", s[2]>>
                     /\ s[1] = "server" => s[2] <= MaxTheirs /\ s = <<"server", s[2]>>
                     /\ s # None
  BY BoundAssumption DEF Session, None

LEMMA SessionsOf ==
  /\ \A n \in 1..MaxOurs : <<"us", n>> \in Session
  /\ \A n \in 1..MaxTheirs : <<"server", n>> \in Session
  BY DEF Session

LEMMA PairTyped == /\ Destroyed \in KeyPair /\ ~Destroyed.valid
                   /\ Destroyed.counter = 0 /\ Destroyed.bitmap = {} /\ Destroyed.session = None
  BY BoundAssumption, WindowAssumption, TimeAssumption DEF Destroyed, KeyPair

LEMMA FreshTyped ==
  ASSUME NEW s \in Session
  PROVE  /\ Fresh(s) \in KeyPair /\ Fresh(s).valid /\ Fresh(s).session = s /\ ~Fresh(s).rx
         /\ Fresh(s).age = 0 /\ Fresh(s).counter = 0 /\ Fresh(s).bitmap = {}
  <1>1. DOMAIN Destroyed = {"valid", "session", "rx", "age", "counter", "bitmap"}
    BY DEF Destroyed
  <1>2. /\ Fresh(s).valid /\ Fresh(s).session = s /\ Fresh(s).rx = Destroyed.rx
        /\ Fresh(s).age = Destroyed.age /\ Fresh(s).counter = Destroyed.counter
        /\ Fresh(s).bitmap = Destroyed.bitmap
    BY <1>1 DEF Fresh
  <1>3. Fresh(s) \in KeyPair
    BY PairTyped DEF Fresh, KeyPair
  <1>4. ~Destroyed.rx /\ Destroyed.age = 0 /\ Destroyed.counter = 0 /\ Destroyed.bitmap = {}
    BY DEF Destroyed
  <1> QED BY <1>2, <1>3, <1>4

LEMMA ShrinksTrans ==
  ASSUME NEW S \in Slots, NEW T \in Slots, NEW U \in Slots, Shrinks(S, T), Shrinks(T, U)
  PROVE  Shrinks(S, U)
  BY DEF Shrinks

(* What the timer and the output path do to the slots. *)
LEMMA OutputShrinks ==
  ASSUME NEW S \in Slots
  PROVE  AfterOutput(S) \in Slots /\ Shrinks(S, AfterOutput(S))
  <1>1. chosen(S) \in Slot
    BY DEF chosen, Slot
  <1> QED BY <1>1, PairTyped DEF AfterOutput, Slots, Shrinks

LEMMA ResetShrinks ==
  ASSUME NEW S \in Slots
  PROVE  AfterReset(S) \in Slots /\ Shrinks(S, AfterReset(S))
  BY PairTyped DEF AfterReset, Slots, Shrinks

LEMMA ExpiryShrinks ==
  ASSUME NEW S \in Slots
  PROVE  AfterExpiry(S) \in Slots /\ Shrinks(S, AfterExpiry(S))
  BY PairTyped DEF AfterExpiry, Slots, Shrinks, Slot

LEMMA KeepaliveShrinks ==
  ASSUME NEW S \in Slots
  PROVE  AfterKeepalive(S) \in Slots /\ Shrinks(S, AfterKeepalive(S))
  BY OutputShrinks DEF AfterKeepalive, Shrinks

LEMMA OlderShrinks ==
  ASSUME NEW S \in Slots
  PROVE  [i \in Slot |-> Older(S[i])] \in Slots /\ Shrinks(S, [i \in Slot |-> Older(S[i])])
  BY TimeAssumption DEF Older, Slots, Shrinks, KeyPair

-----------------------------------------------------------------------------
(* The replay window.  What a packet's mark does: the packet is not fresh   *)
(* any more, and no other packet becomes fresh.                             *)

LEMMA MarkHolds ==
  ASSUME NEW k \in KeyPair, NEW m \in 1..MaxSeq, fresh(k, m)
  PROVE  /\ marked(k, m) \in KeyPair /\ marked(k, m).valid = k.valid
         /\ marked(k, m).session = k.session /\ marked(k, m).rx = k.rx /\ marked(k, m).age = k.age
         /\ ~fresh(marked(k, m), m)
         /\ \A n \in 1..MaxSeq : ~fresh(k, n) => ~fresh(marked(k, m), n)
  <1> USE BoundAssumption, WindowAssumption
  <1> DEFINE w == marked(k, m)
  <1>1. k.counter \in 0..MaxSeq /\ k.bitmap \subseteq 0..BitmapBits-1
    BY DEF KeyPair
  <1>2. CASE m > k.counter
    <2> DEFINE bits == IF m - k.counter < WindowSize
                         THEN {0} \cup {b \in 0..BitmapBits-1 :
                                          \E a \in k.bitmap : b = a + m - k.counter}
                         ELSE {0}
    <2>1. w = [k EXCEPT !.counter = m, !.bitmap = bits]
      BY <1>2 DEF marked
    <2>2. bits \subseteq 0..BitmapBits-1 /\ 0 \in bits
      OBVIOUS
    <2> HIDE DEF bits
    <2>0. m \in 0..MaxSeq /\ bits \in SUBSET (0..BitmapBits-1)
      BY <2>2
    <2>3. w \in KeyPair /\ w.counter = m /\ w.bitmap = bits /\ w.valid = k.valid
          /\ w.session = k.session /\ w.rx = k.rx /\ w.age = k.age
      BY <2>1, <2>0 DEF KeyPair
    <2>4. ~fresh(w, m)
      BY <2>2, <2>3 DEF fresh
    <2>5. ASSUME NEW n \in 1..MaxSeq, ~fresh(k, n) PROVE ~fresh(w, n)
      <3>1. n <= k.counter /\ (k.counter - n < WindowSize => k.counter - n \in k.bitmap)
        BY <1>1, <2>5 DEF fresh
      <3> USE DEF bits
      <3>2. CASE m - n < WindowSize
        <4>1. k.counter - n \in k.bitmap /\ m - k.counter < WindowSize
          BY <1>1, <1>2, <3>1, <3>2
        <4>2. m - n \in 0..BitmapBits-1 /\ m - n = (k.counter - n) + m - k.counter
          BY <1>1, <1>2, <3>1, <3>2
        <4>3. m - n \in bits
          BY <4>1, <4>2
        <4> QED BY <2>3, <4>3, <1>1, <1>2, <3>1 DEF fresh
      <3>3. CASE ~(m - n < WindowSize)
        BY <2>3, <3>1, <3>3, <1>1, <1>2 DEF fresh
      <3> QED BY <3>2, <3>3
    <2> QED BY <2>3, <2>4, <2>5
  <1>3. CASE ~(m > k.counter)
    <2>1. w = [k EXCEPT !.bitmap = k.bitmap \cup {k.counter - m}]
      BY <1>3 DEF marked
    <2>2. k.counter - m \in 0..BitmapBits-1
      BY <1>1, <1>3 DEF fresh
    <2>3. w \in KeyPair /\ w.counter = k.counter /\ w.bitmap = k.bitmap \cup {k.counter - m}
          /\ w.valid = k.valid /\ w.session = k.session /\ w.rx = k.rx /\ w.age = k.age
      BY <1>1, <2>1, <2>2 DEF KeyPair
    <2>4. ~fresh(w, m)
      BY <1>1, <1>3, <2>3 DEF fresh
    <2>5. \A n \in 1..MaxSeq : ~fresh(k, n) => ~fresh(w, n)
      BY <1>1, <2>3 DEF fresh
    <2> QED BY <2>3, <2>4, <2>5
  <1> QED BY <1>2, <1>3

-----------------------------------------------------------------------------
(* Steps that put no pair into a slot. *)

LEMMA ShrunkInv ==
  ASSUME SessionInv, TypeOK', Shrinks(slot, slot'),
         received' = received, greatest' = greatest, serverKnows \subseteq serverKnows',
         \/ initiations' = initiations /\ handshake' \in {handshake, None}
         \/ initiations' = initiations + 1 /\ handshake' = <<"us", initiations'>>
                                           /\ handshake' \in Session,
         \A n \in 1..MaxOurs : response(<<"us", n>>) \in network' =>
            response(<<"us", n>>) \in network \/ <<"us", n>> \in serverKnows'
  PROVE  SessionInv'
  <1> USE DEF SessionInv
  <1>0. /\ initiations \in Nat /\ initiations' \in Nat /\ initiations <= initiations'
        /\ \A s \in Session : begun(s) \in Nat /\ begun(s)' \in Nat /\ begun(s) <= begun(s)'
    BY BoundAssumption DEF TypeOK, begun
  <1>1. OneSlot'
    BY DEF OneSlot, Shrinks
  <1>2. SharedKeys'
    BY DEF SharedKeys, Shrinks, usable, initiator, Slot
  <1>3. SlotInv'
    <2>1. ASSUME NEW i \in Slot, slot'[i].valid
          PROVE  /\ slot'[i].session \in Session
                 /\ slot'[i].session[2] <= (IF slot'[i].session[1] = "us" THEN initiations' ELSE greatest')
      <3>1. slot[i].valid /\ slot'[i].session = slot[i].session
        BY <2>1 DEF Shrinks
      <3>2. /\ slot[i].session \in Session
            /\ slot[i].session[2] <= (IF slot[i].session[1] = "us" THEN initiations ELSE greatest)
        BY <3>1 DEF SlotInv, begun
      <3>3. slot[i].session[2] \in Nat
        BY <3>2, SessionShape
      <3> QED BY <1>0, <3>1, <3>2, <3>3
    <2>2. slot'.next.valid => ~initiator(slot'.next)
      BY DEF SlotInv, Shrinks, initiator, Slot
    <2> QED BY <2>1, <2>2 DEF SlotInv, begun, initiator
  <1>4. HandshakeInv'
    <2>1. CASE handshake' \in {handshake, None} /\ initiations' = initiations
      BY <2>1 DEF HandshakeInv, Shrinks
    <2>2. CASE initiations' = initiations + 1 /\ handshake' = <<"us", initiations'>>
                                              /\ handshake' \in Session
      <3>1. handshake'[2] <= initiations' /\ handshake'[1] = "us" /\ handshake'[2] = initiations + 1
        BY <1>0, <2>2
      <3>2. ASSUME NEW i \in Slot, slot'[i].valid PROVE slot'[i].session # handshake'
        <4>1. slot'[i].session = slot[i].session /\ slot[i].session[2] <= begun(slot[i].session)
          BY <3>2 DEF Shrinks, SlotInv
        <4> QED BY <1>0, <3>1, <4>1 DEF begun
      <3> QED BY <3>1, <3>2 DEF HandshakeInv
    <2> QED BY <2>1, <2>2
  <1>5. AnsweredInv'
    BY DEF AnsweredInv
  <1>6. UnusedInv'
    <2>1. \A s \in Session : unused(s)' <=> unused(s)
      BY DEF unused
    <2>2. ASSUME NEW s \in Session, s[2] > begun(s)' PROVE unused(s)'
      BY <1>0, <2>1, <2>2, SessionShape DEF UnusedInv
    <2>3. handshake' # None => unused(handshake)'
      <3>1. CASE handshake' \in {handshake, None}
        BY <3>1 DEF UnusedInv, unused
      <3>2. CASE initiations' = initiations + 1 /\ handshake' = <<"us", initiations'>>
                                                /\ handshake' \in Session
        <4>1. handshake'[1] = "us" /\ handshake'[2] = initiations + 1 /\ handshake'[2] > begun(handshake')
          BY <1>0, <3>2 DEF begun
        <4>2. unused(handshake')
          BY <3>2, <4>1 DEF UnusedInv
        <4> QED BY <4>2 DEF unused
      <3> QED BY <3>1, <3>2
    <2>4. slot'.next.valid => unused(slot'.next.session)
      BY DEF UnusedInv, Shrinks, Slot
    <2> QED BY <2>2, <2>3, <2>4 DEF UnusedInv, unused, begun
  <1>7. ReplayInv'
    <2> SUFFICES ASSUME NEW s \in Session
                 PROVE  \E f \in 0..MaxSeq : (s[1] = "us" => f = 0) /\ Marked(s, f)'
      BY DEF ReplayInv
    <2>1. PICK f \in 0..MaxSeq : (s[1] = "us" => f = 0) /\ Marked(s, f)
      BY DEF ReplayInv
    <2>2. ASSUME NEW i \in Slot, NEW n \in 1..MaxSeq, Holds(i, s)'
          PROVE  Holds(i, s) /\ (~fresh(slot[i], n) => ~fresh(slot'[i], n))
      BY <2>2 DEF Holds, Shrinks, fresh
    <2>3. Marked(s, f)'
      BY <2>1, <2>2 DEF Marked
    <2> QED BY <2>1, <2>3
  <1> QED BY <1>1, <1>2, <1>3, <1>4, <1>5, <1>6, <1>7

LEMMA OutputStep == SessionInv /\ Output => SessionInv'
  <1> SUFFICES ASSUME SessionInv, Output PROVE SessionInv'
    OBVIOUS
  <1>1. slot \in Slots /\ TypeOK
    BY DEF SessionInv, TypeOK, Slots
  <1>2. slot' \in Slots /\ Shrinks(slot, slot')
    BY <1>1, OutputShrinks DEF Output
  <1>3. txIdle' \in BOOLEAN /\ send_handshake' \in BOOLEAN
    BY <1>1 DEF Output, TypeOK
  <1>4. TypeOK'
    BY <1>1, <1>2, <1>3 DEF Output, TypeOK, Slots, serverVars
  <1> QED BY <1>2, <1>4, ShrunkInv DEF Output, serverVars

LEMMA TimerStep == SessionInv /\ wireguardif_tmr => SessionInv'
  <1> SUFFICES ASSUME SessionInv, wireguardif_tmr PROVE SessionInv'
    OBVIOUS
  <1> DEFINE T == AfterKeepalive(AfterExpiry(AfterReset(slot)))
  <1>1. slot \in Slots /\ TypeOK
    BY DEF SessionInv, TypeOK, Slots
  <1>2. T \in Slots /\ Shrinks(slot, T)
    <2>1. AfterReset(slot) \in Slots /\ Shrinks(slot, AfterReset(slot))
      BY <1>1, ResetShrinks
    <2>2. AfterExpiry(AfterReset(slot)) \in Slots /\ Shrinks(AfterReset(slot), AfterExpiry(AfterReset(slot)))
      BY <2>1, ExpiryShrinks
    <2>3. T \in Slots /\ Shrinks(AfterExpiry(AfterReset(slot)), T)
      BY <2>2, KeepaliveShrinks
    <2> QED BY <1>1, <2>1, <2>2, <2>3, ShrinksTrans
  <1>3. slot' = T
    BY DEF wireguardif_tmr
  <1> HIDE DEF T
  <1>4. txIdle' \in BOOLEAN /\ timerDue' = FALSE /\ UNCHANGED <<greatest, received, serverVars>>
    BY <1>1 DEF wireguardif_tmr, TypeOK
  <1>5. \/ /\ initiations' = initiations /\ handshake' \in {handshake, None}
           /\ send_handshake' \in BOOLEAN /\ UNCHANGED <<initIdle, network>>
        \/ /\ initiations < MaxOurs /\ initiations' = initiations + 1
           /\ handshake' = <<"us", initiations'>>
           /\ send_handshake' \in BOOLEAN /\ initIdle' \in BOOLEAN
           /\ network' \in {network, network \cup {initiation(<<"us", initiations'>>)}}
    BY <1>1 DEF wireguardif_tmr, TypeOK, deliver
  <1>6. initiations' = initiations + 1 /\ initiations < MaxOurs
          => /\ initiations' \in 1..MaxOurs /\ <<"us", initiations'>> \in Session
             /\ initiation(<<"us", initiations'>>) \in Message
    BY <1>1, BoundAssumption DEF TypeOK, Session, initiation, Message
  <1>7. TypeOK'
    <2>1. /\ slot' \in [Slot -> KeyPair] /\ txIdle' \in BOOLEAN /\ timerDue' \in BOOLEAN
          /\ greatest' \in 0..MaxTheirs /\ received' \in [Session -> [1..MaxSeq -> 0..2]]
          /\ serverGreatest' \in 0..MaxOurs /\ serverInitiations' \in 0..MaxTheirs
          /\ serverKnows' \subseteq Session
      BY <1>1, <1>2, <1>3, <1>4 DEF TypeOK, Slots, serverVars
    <2>2. /\ handshake' \in {None} \cup {"us"} \X (1..MaxOurs) /\ initiations' \in 0..MaxOurs
          /\ send_handshake' \in BOOLEAN /\ initIdle' \in BOOLEAN /\ network' \subseteq Message
      BY <1>1, <1>5, <1>6 DEF TypeOK
    <2> QED BY <2>1, <2>2 DEF TypeOK
  <1>8. \A n \in 1..MaxOurs : response(<<"us", n>>) \in network' => response(<<"us", n>>) \in network
    <2>1. \A n \in 1..MaxOurs : response(<<"us", n>>) # initiation(<<"us", initiations'>>)
      BY DEF response, initiation
    <2> QED BY <1>5, <2>1
  <1>9. \/ initiations' = initiations /\ handshake' \in {handshake, None}
        \/ initiations' = initiations + 1 /\ handshake' = <<"us", initiations'>> /\ handshake' \in Session
    BY <1>5, <1>6
  <1>10. Shrinks(slot, slot') /\ received' = received /\ greatest' = greatest /\ serverKnows \subseteq serverKnows'
    BY <1>2, <1>3, <1>4 DEF serverVars
  <1> QED BY <1>7, <1>8, <1>9, <1>10, ShrunkInv

LEMMA TickStep == SessionInv /\ Tick => SessionInv'
  <1> SUFFICES ASSUME SessionInv, Tick PROVE SessionInv'
    OBVIOUS
  <1>1. slot \in Slots /\ TypeOK
    BY DEF SessionInv, TypeOK, Slots
  <1>2. slot' \in Slots /\ Shrinks(slot, slot')
    BY <1>1, OlderShrinks DEF Tick
  <1>3. TypeOK'
    BY <1>1, <1>2 DEF Tick, TypeOK, Slots, serverVars
  <1> QED BY <1>2, <1>3, ShrunkInv DEF Tick, serverVars

LEMMA ServerStep == SessionInv /\ Server => SessionInv'
  <1> SUFFICES ASSUME SessionInv, Server PROVE SessionInv'
    OBVIOUS
  <1>0. TypeOK /\ Shrinks(slot, slot)
    BY DEF SessionInv, Shrinks
  <1>1. CASE ServerInitiates
    <2>1. /\ serverInitiations' \in 1..MaxTheirs
          /\ initiation(<<"server", serverInitiations'>>) \in Message
      BY <1>0, <1>1, BoundAssumption DEF TypeOK, ServerInitiates, Session, initiation, Message
    <2>2. TypeOK'
      BY <1>0, <1>1, <2>1 DEF TypeOK, ServerInitiates, deliver, deviceVars, peerVars, timerVars
    <2>3. \A n \in 1..MaxOurs : response(<<"us", n>>) # initiation(<<"server", serverInitiations'>>)
      BY DEF response, initiation
    <2>4. network' = network \cup {initiation(<<"server", serverInitiations'>>)}
      BY <1>1 DEF ServerInitiates, deliver
    <2> QED BY <1>0, <1>1, <2>2, <2>3, <2>4, ShrunkInv DEF ServerInitiates, deviceVars, peerVars
  <1>2. ASSUME NEW n \in 1..MaxOurs, ServerAnswers(n) PROVE SessionInv'
    <2>1. <<"us", n>> \in Session /\ response(<<"us", n>>) \in Message
      BY SessionsOf DEF response, Message
    <2>2. TypeOK'
      BY <1>0, <1>2, <2>1 DEF TypeOK, ServerAnswers, deliver, deviceVars, peerVars, timerVars
    <2>3. \A m \in 1..MaxOurs : response(<<"us", m>>) = response(<<"us", n>>) => m = n
      BY DEF response
    <2>4. network' = network \cup {response(<<"us", n>>)} /\ <<"us", n>> \in serverKnows'
      BY <1>2 DEF ServerAnswers, deliver
    <2> QED BY <1>0, <1>2, <2>2, <2>3, <2>4, ShrunkInv DEF ServerAnswers, deviceVars, peerVars
  <1>3. ASSUME NEW n \in 1..MaxTheirs, ServerAccepts(n) PROVE SessionInv'
    <2>1. TypeOK'
      BY <1>0, <1>3, SessionsOf DEF TypeOK, ServerAccepts, deviceVars, peerVars, timerVars
    <2> QED BY <1>0, <1>3, <2>1, ShrunkInv DEF ServerAccepts, deviceVars, peerVars
  <1> QED BY <1>1, <1>2, <1>3 DEF Server

-----------------------------------------------------------------------------
(* Steps that move pairs or put a new one into a slot. *)

(* A new session n is unknown to the slots, and what is in them moved. *)
LEMMA MovedReplay ==
  ASSUME TypeOK, ReplayInv, received' = received, NEW s \in Session, unused(s),
         \A i \in Slot : slot'[i].valid /\ slot'[i].session # s =>
                            \E j \in Slot : slot'[i] = slot[j]
  PROVE  ReplayInv'
  <1> SUFFICES ASSUME NEW t \in Session
               PROVE  \E f \in 0..MaxSeq : (t[1] = "us" => f = 0) /\ Marked(t, f)'
    BY DEF ReplayInv
  <1>1. 0 \in 0..MaxSeq
    BY BoundAssumption
  <1>2. CASE t = s
    BY <1>1, <1>2 DEF Marked, unused
  <1>3. CASE t # s
    <2>1. PICK f \in 0..MaxSeq : (t[1] = "us" => f = 0) /\ Marked(t, f)
      BY DEF ReplayInv
    <2>2. ASSUME NEW i \in Slot, Holds(i, t)'
          PROVE  \E j \in Slot : slot'[i] = slot[j] /\ Holds(j, t)
      BY <1>3, <2>2 DEF Holds
    <2>3. Marked(t, f)'
      BY <2>1, <2>2 DEF Marked
    <2> QED BY <2>1, <2>3
  <1> QED BY <1>2, <1>3

LEMMA InitiationStep ==
  ASSUME SessionInv, NEW n \in 1..MaxTheirs, ReceiveInitiation(n)
  PROVE  SessionInv'
  <1> DEFINE s == <<"server", n>>
  <1> USE DEF SessionInv
  <1>1. /\ s \in Session /\ s[1] = "server" /\ s[2] = n /\ response(s) \in Message
        /\ Fresh(s) \in KeyPair /\ Fresh(s).valid /\ Fresh(s).session = s
    BY SessionsOf, FreshTyped DEF response, Message
  <1>2. n > greatest /\ greatest \in Nat /\ greatest' = n
    BY BoundAssumption DEF ReceiveInitiation, TypeOK
  <1>3. slot' = [slot EXCEPT !.next = Fresh(s), !.prev = Destroyed]
    BY <1>1 DEF ReceiveInitiation, WithNew
  <1>4. unused(s) /\ \A i \in Slot : slot[i].valid => slot[i].session # s
    <2>1. s[2] > begun(s)
      BY <1>1, <1>2 DEF begun
    <2>2. \A i \in Slot : slot[i].valid => slot[i].session # s
      BY <1>1, <1>2 DEF SlotInv, begun
    <2> QED BY <1>1, <2>1, <2>2 DEF UnusedInv
  <1>5. /\ slot' \in [Slot -> KeyPair]
        /\ slot'.curr = slot.curr /\ slot'.next = Fresh(s) /\ slot'.prev = Destroyed
    BY <1>1, <1>3, PairTyped DEF TypeOK, Slot
  <1> HIDE DEF s
  <1>6. TypeOK'
    BY <1>1, <1>5 DEF TypeOK, ReceiveInitiation, deliver, timerVars, serverVars, s
  <1>7. OneSlot'
    BY <1>1, <1>4, <1>5, PairTyped DEF OneSlot, Slot
  <1>8. SharedKeys'
    BY <1>5 DEF SharedKeys, ReceiveInitiation, serverVars, usable, initiator
  <1>9. SlotInv'
    <2>1. initiations' = initiations
      BY DEF ReceiveInitiation
    <2>2. ASSUME NEW i \in Slot, slot'[i].valid
          PROVE  /\ slot'[i].session \in Session
                 /\ slot'[i].session[2] <= (IF slot'[i].session[1] = "us" THEN initiations' ELSE greatest')
      <3>1. CASE i = "curr"
        <4>1. /\ slot'[i] = slot.curr /\ slot.curr.session \in Session
              /\ slot.curr.session[2] <= (IF slot.curr.session[1] = "us" THEN initiations ELSE greatest)
          BY <1>5, <2>2, <3>1 DEF SlotInv, begun, Slot
        <4>2. slot.curr.session[2] \in Nat
          BY <4>1, SessionShape
        <4> QED BY <1>2, <2>1, <4>1, <4>2
      <3>2. CASE i = "next"
        BY <1>1, <1>2, <1>5, <3>2
      <3>3. CASE i = "prev"
        BY <1>5, <2>2, <3>3, PairTyped
      <3> QED BY <3>1, <3>2, <3>3 DEF Slot
    <2>3. ~initiator(slot'.next)
      BY <1>1, <1>5 DEF initiator
    <2> QED BY <2>2, <2>3 DEF SlotInv, begun, initiator
  <1>10. HandshakeInv' /\ handshake' = None
    BY DEF HandshakeInv, ReceiveInitiation
  <1>11. AnsweredInv'
    <2>1. \A m \in 1..MaxOurs : response(<<"us", m>>) # response(s)
      BY DEF response, s
    <2> QED BY <2>1 DEF AnsweredInv, ReceiveInitiation, deliver, serverVars, s
  <1>12. UnusedInv'
    <2>1. received' = received /\ initiations' = initiations
      BY DEF ReceiveInitiation
    <2>2. ASSUME NEW t \in Session, t[2] > (IF t[1] = "us" THEN initiations' ELSE greatest')
          PROVE  unused(t)'
      <3>1. t[2] > begun(t)
        BY <1>2, <2>1, <2>2, SessionShape DEF begun
      <3> QED BY <2>1, <3>1 DEF UnusedInv, unused
    <2>3. slot'.next.valid => unused(slot'.next.session)
      BY <1>1, <1>4, <1>5
    <2> QED BY <1>10, <2>1, <2>2, <2>3 DEF UnusedInv, unused, begun
  <1>13. ReplayInv'
    <2>1. received' = received
      BY DEF ReceiveInitiation
    <2>2. \A i \in Slot : slot'[i].valid /\ slot'[i].session # s => \E j \in Slot : slot'[i] = slot[j]
      BY <1>1, <1>5, PairTyped DEF Slot
    <2> QED BY <1>1, <1>4, <2>1, <2>2, MovedReplay
  <1> QED BY <1>6, <1>7, <1>8, <1>9, <1>10, <1>11, <1>12, <1>13

LEMMA ResponseStep ==
  ASSUME SessionInv, NEW n \in 1..MaxOurs, ReceiveResponse(n)
  PROVE  SessionInv'
  <1> DEFINE s == <<"us", n>>
  <1> USE DEF SessionInv
  <1>1. /\ s \in Session /\ s[1] = "us" /\ s[2] = n /\ s # None
        /\ Fresh(s) \in KeyPair /\ Fresh(s).valid /\ Fresh(s).session = s
    BY SessionsOf, FreshTyped, SessionShape
  <1>2. handshake = s /\ handshake' = None /\ response(s) \in network
        /\ UNCHANGED <<send_handshake, greatest, initiations, received, network, serverVars>>
    BY DEF ReceiveResponse
  <1>3. /\ s \in serverKnows /\ n <= initiations /\ unused(s)
        /\ \A i \in Slot : slot[i].valid => slot[i].session # s
    <2>1. s \in serverKnows
      BY <1>2 DEF AnsweredInv
    <2>2. n <= initiations /\ \A i \in Slot : slot[i].valid => slot[i].session # s
      BY <1>1, <1>2 DEF HandshakeInv
    <2>3. unused(s)
      BY <1>1, <1>2 DEF UnusedInv
    <2> QED BY <2>1, <2>2, <2>3
  <1>4. slot' = [slot EXCEPT !.prev = IF slot.next.valid THEN slot.next ELSE slot.curr,
                             !.next = IF slot.next.valid THEN Destroyed ELSE slot.next,
                             !.curr = Fresh(s)]
    BY <1>1 DEF ReceiveResponse, WithNew
  <1>5. /\ slot' \in [Slot -> KeyPair]
        /\ slot'.curr = Fresh(s) /\ ~slot'.next.valid
        /\ slot'.prev = IF slot.next.valid THEN slot.next ELSE slot.curr
    BY <1>1, <1>4, PairTyped DEF TypeOK, Slot
  <1>6. txIdle' \in BOOLEAN /\ UNCHANGED <<initIdle, timerDue>>
    BY DEF ReceiveResponse, TypeOK
  <1> HIDE DEF s
  <1>7. TypeOK'
    BY <1>2, <1>5, <1>6 DEF TypeOK, serverVars
  <1>8. OneSlot'
    BY <1>1, <1>3, <1>5 DEF OneSlot, Slot
  <1>9. SharedKeys'
    BY <1>1, <1>2, <1>3, <1>5 DEF SharedKeys, serverVars, usable, initiator
  <1>10. SlotInv'
    <2>1. ASSUME NEW i \in Slot, slot'[i].valid
          PROVE  slot'[i].session \in Session /\ slot'[i].session[2] <= begun(slot'[i].session)
      BY <1>1, <1>3, <1>5, <2>1 DEF SlotInv, begun, Slot
    <2> QED BY <1>2, <1>5, <2>1 DEF SlotInv, begun, initiator
  <1>11. HandshakeInv' /\ AnsweredInv'
    BY <1>2 DEF HandshakeInv, AnsweredInv, serverVars
  <1>12. UnusedInv'
    BY <1>2, <1>5 DEF UnusedInv, unused, begun
  <1>13. ReplayInv'
    <2>1. \A i \in Slot : slot'[i].valid /\ slot'[i].session # s => \E j \in Slot : slot'[i] = slot[j]
      BY <1>1, <1>5 DEF Slot
    <2> QED BY <1>1, <1>2, <1>3, <2>1, MovedReplay
  <1> QED BY <1>7, <1>8, <1>9, <1>10, <1>11, <1>12, <1>13

(* The first packet on the next pair. *)
LEMMA FirstPacketStep ==
  ASSUME SessionInv, NEW s \in Session, NEW n \in 0..MaxSeq,
         ReceiveData("next", s, n), ~dead(slot.next)
  PROVE  SessionInv' /\ slot'.curr.valid /\ slot'.curr.age = slot.next.age
  <1> DEFINE K == [slot.next EXCEPT !.rx = TRUE]
             R == [slot EXCEPT !.next.rx = TRUE]
             M == [slot EXCEPT !.prev = slot.curr, !.curr = K, !.next = Destroyed]
  <1> USE DEF SessionInv
  <1>1. /\ slot.next.valid /\ slot.next.session = s /\ s \in serverKnows /\ slot.next \in KeyPair
        /\ unused(s) /\ s[1] # "us" /\ s[2] <= begun(s)
    BY DEF ReceiveData, Holds, TypeOK, Slot, UnusedInv, SlotInv, initiator
  <1>2. K \in KeyPair /\ K.valid /\ K.session = s /\ K.rx /\ K.age = slot.next.age
    BY <1>1 DEF KeyPair
  <1>3. Updated(R, "next") = M
    <2>1. R = [slot EXCEPT !.next = K]
      OBVIOUS
    <2>2. R.curr = slot.curr /\ R.next = K
      BY <2>1 DEF TypeOK, Slot
    <2> HIDE DEF K
    <2> QED BY <2>1, <2>2 DEF Updated, TypeOK, Slot
  <1>4. /\ send_handshake' \in BOOLEAN
        /\ UNCHANGED <<handshake, greatest, timerVars, initiations, network, serverVars>>
        /\ IF fresh(Updated(R, "next").next, n)
             THEN /\ slot' = [Updated(R, "next") EXCEPT !.next = marked(Updated(R, "next").next, n)]
                  /\ received' = [received EXCEPT ![s][n] = @ + 1]
             ELSE slot' = Updated(R, "next") /\ UNCHANGED received
    BY DEF ReceiveData, TypeOK
  <1> HIDE DEF K, R
  <1>5. M \in [Slot -> KeyPair] /\ M.next = Destroyed /\ M.curr = K /\ M.prev = slot.curr
    BY <1>2, PairTyped DEF TypeOK, Slot
  <1>6. /\ slot' \in [Slot -> KeyPair] /\ slot'.curr = K /\ slot'.prev = slot.curr
        /\ ~slot'.next.valid
        /\ \/ received' = received
           \/ n # 0 /\ received' = [received EXCEPT ![s][n] = @ + 1]
    <2>1. CASE fresh(Destroyed, n)
      <3>1. n \in 1..MaxSeq
        BY <2>1, BoundAssumption DEF fresh
      <3>2. marked(Destroyed, n) \in KeyPair /\ ~marked(Destroyed, n).valid
        BY <2>1, <3>1, PairTyped, MarkHolds
      <3>3. slot' = [M EXCEPT !.next = marked(Destroyed, n)]
            /\ received' = [received EXCEPT ![s][n] = @ + 1]
        BY <1>3, <1>4, <1>5, <2>1
      <3> HIDE DEF M
      <3> QED BY <1>5, <3>1, <3>2, <3>3, BoundAssumption DEF Slot
    <2>2. CASE ~fresh(Destroyed, n)
      <3>1. slot' = M /\ received' = received
        BY <1>3, <1>4, <1>5, <2>2
      <3> QED BY <1>5, <3>1, PairTyped
    <2> QED BY <2>1, <2>2
  <1> HIDE DEF M
  <1>7. /\ received' \in [Session -> [1..MaxSeq -> 0..2]]
        /\ \A t \in Session : t # s => received'[t] = received[t]
        /\ \A m \in 1..MaxSeq : received'[s][m] <= IF m = n THEN 1 ELSE 0
    <2>1. received \in [Session -> [1..MaxSeq -> 0..2]] /\ \A m \in 1..MaxSeq : received[s][m] = 0
      BY <1>1 DEF TypeOK, unused
    <2>2. CASE received' = received
      BY <2>1, <2>2
    <2>3. CASE n # 0 /\ received' = [received EXCEPT ![s][n] = @ + 1]
      <3>1. n \in 1..MaxSeq
        BY <2>3, BoundAssumption
      <3>2. /\ received'[s] = [received[s] EXCEPT ![n] = @ + 1]
            /\ \A t \in Session : t # s => received'[t] = received[t]
        BY <2>1, <2>3
      <3>3. received'[s] \in [1..MaxSeq -> 0..2] /\ \A m \in 1..MaxSeq : received'[s][m] <= IF m = n THEN 1 ELSE 0
        BY <2>1, <3>1, <3>2
      <3>4. received' \in [Session -> [1..MaxSeq -> 0..2]]
        BY <2>1, <2>3, <3>2, <3>3
      <3> QED BY <3>2, <3>3, <3>4
    <2> QED BY <1>6, <2>2, <2>3
  <1>8. TypeOK'
    BY <1>4, <1>6, <1>7 DEF TypeOK, timerVars, serverVars
  <1>9. OneSlot'
    BY <1>1, <1>2, <1>6 DEF OneSlot, Slot
  <1>10. SharedKeys'
    BY <1>1, <1>2, <1>4, <1>6 DEF SharedKeys, serverVars, usable
  <1>11. SlotInv'
    <2>1. ASSUME NEW i \in Slot, slot'[i].valid
          PROVE  slot'[i].session \in Session /\ slot'[i].session[2] <= begun(slot'[i].session)
      BY <1>1, <1>2, <1>6, <2>1 DEF SlotInv, begun, Slot
    <2> QED BY <1>4, <1>6, <2>1 DEF SlotInv, begun, initiator
  <1>12. HandshakeInv' /\ AnsweredInv' /\ (handshake # None => handshake # s)
    BY <1>1, <1>2, <1>4, <1>6 DEF HandshakeInv, AnsweredInv, serverVars, Slot
  <1>13. UnusedInv'
    <2>1. ASSUME NEW t \in Session, t # s PROVE unused(t)' <=> unused(t)
      BY <1>7, <2>1 DEF unused
    <2>2. ASSUME NEW t \in Session, t[2] > begun(t) PROVE unused(t)'
      <3>1. t # s
        <4>1. s[2] \in Nat /\ begun(s) \in Nat
          BY SessionShape, BoundAssumption DEF TypeOK, begun
        <4> QED BY <1>1, <2>2, <4>1
      <3> QED BY <2>1, <2>2, <3>1 DEF UnusedInv
    <2>3. handshake # None => unused(handshake)'
      <3>1. handshake # None => handshake \in Session
        BY SessionsOf DEF TypeOK, Session
      <3> QED BY <1>4, <1>7, <1>12, <3>1 DEF UnusedInv, unused
    <2> QED BY <1>4, <1>6, <2>2, <2>3 DEF UnusedInv, unused, begun
  <1>14. ReplayInv'
    <2> SUFFICES ASSUME NEW t \in Session
                 PROVE  \E f \in 0..MaxSeq : (t[1] = "us" => f = 0) /\ Marked(t, f)'
      BY DEF ReplayInv
    <2>1. CASE t = s
      <3>1. \A m \in 1..MaxSeq : received'[s][m] \in 0..2 /\ (received'[s][m] <= IF m = n THEN 1 ELSE 0)
        BY <1>7
      <3>2. Marked(s, n)'
        BY <3>1 DEF Marked
      <3> QED BY <1>1, <2>1, <3>2
    <2>2. CASE t # s
      <3>1. PICK f \in 0..MaxSeq : (t[1] = "us" => f = 0) /\ Marked(t, f)
        BY DEF ReplayInv
      <3>2. ASSUME NEW i \in Slot, Holds(i, t)'
            PROVE  \E j \in Slot : slot'[i] = slot[j] /\ Holds(j, t)
        BY <1>2, <1>6, <2>2, <3>2 DEF Holds, Slot
      <3>3. Marked(t, f)'
        BY <1>7, <2>2, <3>1, <3>2 DEF Marked
      <3> QED BY <3>1, <3>3
    <2> QED BY <2>1, <2>2
  <1> QED BY <1>2, <1>6, <1>8, <1>9, <1>10, <1>11, <1>12, <1>13, <1>14

(* A later packet. *)
LEMMA LaterPacketStep ==
  ASSUME SessionInv, NEW i \in Slot, i # "next", NEW s \in Session, NEW n \in 0..MaxSeq,
         ReceiveData(i, s, n), ~dead(slot[i])
  PROVE  SessionInv' /\ \A j \in Slot : slot[j].valid => slot'[j].valid /\ slot'[j].age = slot[j].age
  <1> DEFINE K == [slot[i] EXCEPT !.rx = TRUE]
             R == [slot EXCEPT ![i].rx = TRUE]
  <1> USE DEF SessionInv
  <1>1. slot[i].valid /\ slot[i].session = s /\ s \in serverKnows /\ slot[i] \in KeyPair
    BY DEF ReceiveData, Holds, TypeOK
  <1>2. /\ K \in KeyPair /\ K.valid /\ K.session = s /\ K.rx
        /\ K.age = slot[i].age /\ K.counter = slot[i].counter /\ K.bitmap = slot[i].bitmap
    BY <1>1 DEF KeyPair
  <1>3. R = [slot EXCEPT ![i] = K] /\ R[i] = K /\ Updated(R, i) = R
    BY DEF TypeOK, Updated
  <1>4. /\ send_handshake' \in BOOLEAN
        /\ UNCHANGED <<handshake, greatest, timerVars, initiations, network, serverVars>>
        /\ IF fresh(Updated(R, i)[i], n)
             THEN /\ slot' = [Updated(R, i) EXCEPT ![i] = marked(Updated(R, i)[i], n)]
                  /\ received' = [received EXCEPT ![s][n] = @ + 1]
             ELSE slot' = Updated(R, i) /\ UNCHANGED received
    BY DEF ReceiveData, TypeOK
  <1> HIDE DEF K, R
  <1>5. PICK k \in KeyPair :
           /\ slot' = [slot EXCEPT ![i] = k] /\ k.valid /\ k.session = s /\ k.rx /\ k.age = slot[i].age
           /\ \A m \in 1..MaxSeq : ~fresh(slot[i], m) => ~fresh(k, m)
           /\ \/ received' = received
              \/ /\ n \in 1..MaxSeq /\ fresh(slot[i], n) /\ ~fresh(k, n)
                 /\ received' = [received EXCEPT ![s][n] = @ + 1]
    <2>0. \A m : fresh(slot[i], m) <=> fresh(K, m)
      BY <1>2 DEF fresh
    <2>1. CASE fresh(K, n)
      <3>1. n \in 1..MaxSeq
        BY <2>1, BoundAssumption DEF fresh
      <3>2. /\ marked(K, n) \in KeyPair /\ marked(K, n).valid /\ marked(K, n).session = s
            /\ marked(K, n).rx /\ marked(K, n).age = K.age /\ ~fresh(marked(K, n), n)
            /\ \A m \in 1..MaxSeq : ~fresh(K, m) => ~fresh(marked(K, n), m)
        BY <1>2, <2>1, <3>1, MarkHolds
      <3>3. slot' = [slot EXCEPT ![i] = marked(K, n)] /\ received' = [received EXCEPT ![s][n] = @ + 1]
        BY <1>3, <1>4, <2>1 DEF TypeOK
      <3> QED BY <1>2, <2>0, <2>1, <3>1, <3>2, <3>3
    <2>2. CASE ~fresh(K, n)
      <3>1. slot' = [slot EXCEPT ![i] = K] /\ received' = received
        BY <1>3, <1>4, <2>2
      <3> QED BY <1>2, <2>0, <3>1
    <2> QED BY <2>1, <2>2
  <1>6. /\ slot' \in [Slot -> KeyPair] /\ slot'[i] = k
        /\ \A j \in Slot : j # i => slot'[j] = slot[j]
    BY <1>5 DEF TypeOK
  <1>7. \A j \in Slot : slot[j].valid /\ slot[j].session = s => j = i
    BY <1>1 DEF OneSlot
  <1>8. PICK f \in 0..MaxSeq : (s[1] = "us" => f = 0) /\ Marked(s, f)
    BY DEF ReplayInv
  <1>9. /\ received' \in [Session -> [1..MaxSeq -> 0..2]]
        /\ \A t \in Session : t # s => received'[t] = received[t]
        /\ \A m \in 1..MaxSeq :
             LET least == IF m = f THEN 2 ELSE 1 IN
             received'[s][m] <= least /\ (received'[s][m] = least => ~fresh(k, m))
    <2>1. received \in [Session -> [1..MaxSeq -> 0..2]]
      BY DEF TypeOK
    <2>2. \A m \in 1..MaxSeq :
             LET least == IF m = f THEN 2 ELSE 1 IN
             received[s][m] <= least /\ (received[s][m] = least => ~fresh(slot[i], m))
      BY <1>1, <1>8 DEF Marked, Holds
    <2>3. CASE received' = received
      BY <1>5, <2>1, <2>2, <2>3
    <2>4. CASE /\ n \in 1..MaxSeq /\ fresh(slot[i], n) /\ ~fresh(k, n)
               /\ received' = [received EXCEPT ![s][n] = @ + 1]
      <3>1. /\ received'[s] = [received[s] EXCEPT ![n] = @ + 1]
            /\ \A t \in Session : t # s => received'[t] = received[t]
        BY <2>1, <2>4
      <3>2. received[s][n] \in Nat /\ received[s][n] + 1 <= (IF n = f THEN 2 ELSE 1)
            /\ received[s][n] + 1 \in 0..2
        <4>1. received[s][n] \in 0..2
          BY <2>1, <2>4
        <4>2. /\ received[s][n] <= (IF n = f THEN 2 ELSE 1)
              /\ received[s][n] # (IF n = f THEN 2 ELSE 1)
          BY <2>2, <2>4
        <4> QED BY <4>1, <4>2
      <3>3. received'[s] \in [1..MaxSeq -> 0..2]
        BY <2>1, <2>4, <3>1, <3>2
      <3>4. received' \in [Session -> [1..MaxSeq -> 0..2]]
        BY <2>1, <2>4, <3>1, <3>3
      <3>5. ASSUME NEW m \in 1..MaxSeq
            PROVE  LET least == IF m = f THEN 2 ELSE 1 IN
                   received'[s][m] <= least /\ (received'[s][m] = least => ~fresh(k, m))
        <4>1. CASE m = n
          BY <2>1, <2>4, <3>1, <3>2, <4>1
        <4>2. CASE m # n
          BY <1>5, <2>1, <2>2, <3>1, <4>2
        <4> QED BY <4>1, <4>2
      <3> QED BY <3>1, <3>4, <3>5
    <2> QED BY <1>5, <2>3, <2>4
  <1>10. TypeOK'
    BY <1>4, <1>6, <1>9 DEF TypeOK, timerVars, serverVars
  <1>11. \A j \in Slot : slot'[j].valid <=> slot[j].valid
    BY <1>1, <1>5, <1>6
  <1>12. \A j \in Slot : slot[j].valid => slot'[j].session = slot[j].session
    BY <1>1, <1>5, <1>6
  <1>13. OneSlot'
    BY <1>11, <1>12 DEF OneSlot
  <1>14. SharedKeys'
    BY <1>1, <1>4, <1>5, <1>6 DEF SharedKeys, serverVars, usable, Slot
  <1>15. SlotInv'
    <2>1. ASSUME NEW j \in Slot, slot'[j].valid
          PROVE  slot'[j].session \in Session /\ slot'[j].session[2] <= begun(slot'[j].session)
      BY <1>11, <1>12, <2>1 DEF SlotInv
    <2>2. slot'.next = slot.next
      BY <1>6 DEF Slot
    <2> QED BY <1>4, <2>1, <2>2 DEF SlotInv, begun, initiator
  <1>16. HandshakeInv' /\ AnsweredInv' /\ (handshake # None => handshake # s)
    BY <1>1, <1>4, <1>11, <1>12 DEF HandshakeInv, AnsweredInv, serverVars
  <1>17. UnusedInv'
    <2>1. ASSUME NEW t \in Session, t # s PROVE unused(t)' <=> unused(t)
      BY <1>9, <2>1 DEF unused
    <2>2. ASSUME NEW t \in Session, t[2] > begun(t) PROVE unused(t)'
      <3>1. t # s
        <4>1. s[2] \in Nat /\ begun(s) \in Nat /\ s[2] <= begun(s)
          BY <1>1, SessionShape, BoundAssumption DEF TypeOK, begun, SlotInv
        <4> QED BY <2>2, <4>1
      <3> QED BY <2>1, <2>2, <3>1 DEF UnusedInv
    <2>3. handshake # None => unused(handshake)'
      <3>1. handshake # None => handshake \in Session
        BY SessionsOf DEF TypeOK, Session
      <3> QED BY <1>4, <1>9, <1>16, <3>1 DEF UnusedInv, unused
    <2>4. slot'.next.valid => \A m \in 1..MaxSeq : received'[slot'.next.session][m] = 0
      <3>1. slot'.next = slot.next
        BY <1>6 DEF Slot
      <3>2. slot.next.valid => slot.next.session \in Session /\ slot.next.session # s
        BY <1>7 DEF SlotInv, Slot
      <3> QED BY <1>9, <3>1, <3>2 DEF UnusedInv, unused
    <2> QED BY <1>4, <2>2, <2>3, <2>4 DEF UnusedInv, unused, begun
  <1>18. ReplayInv'
    <2> SUFFICES ASSUME NEW t \in Session
                 PROVE  \E g \in 0..MaxSeq : (t[1] = "us" => g = 0) /\ Marked(t, g)'
      BY DEF ReplayInv
    <2>1. CASE t = s
      <3>1. \A j \in Slot : Holds(j, s)' => slot'[j] = k
        BY <1>6, <1>7 DEF Holds
      <3>2. Marked(s, f)'
        BY <1>9, <3>1 DEF Marked
      <3> QED BY <1>8, <2>1, <3>2
    <2>2. CASE t # s
      <3>1. PICK g \in 0..MaxSeq : (t[1] = "us" => g = 0) /\ Marked(t, g)
        BY DEF ReplayInv
      <3>2. \A j \in Slot : Holds(j, t)' => Holds(j, t) /\ slot'[j] = slot[j]
        BY <1>5, <1>6, <2>2 DEF Holds
      <3>3. Marked(t, g)'
        BY <1>9, <2>2, <3>1, <3>2 DEF Marked
      <3> QED BY <3>1, <3>3
    <2> QED BY <2>1, <2>2
  <1>19. \A j \in Slot : slot[j].valid => slot'[j].valid /\ slot'[j].age = slot[j].age
    BY <1>5, <1>6
  <1> QED BY <1>19, <1>10, <1>13, <1>14, <1>15, <1>16, <1>17, <1>18

LEMMA DataStep ==
  ASSUME SessionInv, NEW i \in Slot, NEW s \in Session, NEW n \in 0..MaxSeq, ReceiveData(i, s, n)
  PROVE  SessionInv'
  <1>1. CASE dead(slot[i])
    <2>1. slot' = [slot EXCEPT ![i] = Destroyed]
          /\ UNCHANGED <<send_handshake, handshake, greatest, timerVars, initiations, received, network, serverVars>>
      BY <1>1 DEF ReceiveData
    <2>2. Shrinks(slot, slot') /\ TypeOK'
      BY <2>1, PairTyped DEF SessionInv, TypeOK, Shrinks, timerVars, serverVars
    <2> QED BY <2>1, <2>2, ShrunkInv DEF serverVars
  <1>2. CASE ~dead(slot[i])
    BY <1>2, FirstPacketStep, LaterPacketStep
  <1> QED BY <1>1, <1>2

-----------------------------------------------------------------------------
(* The theorems. *)

LEMMA InitInv == Init => SessionInv
  <1> SUFFICES ASSUME Init PROVE SessionInv
    OBVIOUS
  <1>1. TypeOK
    <2>1. slot \in [Slot -> KeyPair] /\ received \in [Session -> [1..MaxSeq -> 0..2]]
      BY PairTyped DEF Init
    <2>2. 0 \in 0..MaxTheirs /\ 0 \in 0..MaxOurs
      BY BoundAssumption
    <2> QED BY <2>1, <2>2 DEF Init, TypeOK
  <1>2. \A i \in Slot : ~slot[i].valid
    BY PairTyped DEF Init
  <1>3. OneSlot /\ SharedKeys /\ SlotInv /\ HandshakeInv /\ AnsweredInv
    BY <1>2 DEF Init, OneSlot, SharedKeys, SlotInv, HandshakeInv, AnsweredInv, Slot
  <1>4. UnusedInv
    BY <1>2 DEF Init, UnusedInv, unused, Slot
  <1>5. ReplayInv
    <2>1. \A s \in Session : Marked(s, 0)
      BY <1>2 DEF Init, Marked, Holds
    <2> QED BY <2>1, BoundAssumption DEF ReplayInv
  <1> QED BY <1>1, <1>3, <1>4, <1>5 DEF SessionInv

(* What a data packet leaves in the current slot. *)
LEMMA DataKeepsSending ==
  ASSUME SessionInv, NEW i \in Slot, NEW s \in Session, NEW n \in 0..MaxSeq, ReceiveData(i, s, n),
         slot.curr.valid, usable(slot.curr), ~dead(slot.curr)
  PROVE  slot'.curr.valid /\ usable(slot'.curr) /\ ~dead(slot'.curr)
  <1>1. SessionInv' /\ slot \in [Slot -> KeyPair]
    BY DataStep DEF SessionInv, TypeOK
  <1>2. slot'.curr.valid /\ ~dead(slot'.curr)
    <2>1. CASE dead(slot[i])
      <3>1. i # "curr" /\ slot' = [slot EXCEPT ![i] = Destroyed]
        BY <2>1 DEF ReceiveData
      <3> QED BY <1>1, <3>1 DEF Slot
    <2>2. CASE ~dead(slot[i]) /\ i = "next"
      BY <2>2, FirstPacketStep DEF dead
    <2>3. CASE ~dead(slot[i]) /\ i # "next"
      BY <2>3, LaterPacketStep DEF dead, Slot
    <2> QED BY <2>1, <2>2, <2>3
  <1> QED BY <1>1, <1>2 DEF SessionInv, SharedKeys

(* What the peer's slots, counters and windows satisfy in every state:      *)
(* the inductive invariant.                                                 *)
THEOREM SessionCorrect == Spec => []SessionInv
  <1>1. SessionInv /\ [Next]_vars => SessionInv'
    <2> SUFFICES ASSUME SessionInv, [Next]_vars PROVE SessionInv'
      OBVIOUS
    <2>1. CASE Output
      BY <2>1, OutputStep
    <2>2. CASE wireguardif_tmr
      BY <2>2, TimerStep
    <2>3. ASSUME NEW n \in 1..MaxTheirs, ReceiveInitiation(n) PROVE SessionInv'
      BY <2>3, InitiationStep
    <2>4. ASSUME NEW n \in 1..MaxOurs, ReceiveResponse(n) PROVE SessionInv'
      BY <2>4, ResponseStep
    <2>5. ASSUME NEW i \in Slot, NEW s \in Session, NEW n \in 0..MaxSeq, ReceiveData(i, s, n)
          PROVE  SessionInv'
      BY <2>5, DataStep
    <2>6. CASE Tick
      BY <2>6, TickStep
    <2>7. CASE Server
      BY <2>7, ServerStep
    <2>8. CASE UNCHANGED vars
      <3>1. UNCHANGED <<slot, handshake, send_handshake, greatest, txIdle, initIdle, timerDue, initiations,
                        received, network, serverGreatest, serverInitiations, serverKnows>>
        BY <2>8 DEF vars, peerVars, timerVars, serverVars
      <3>2. TypeOK'
        BY <3>1 DEF SessionInv, TypeOK
      <3> QED BY <3>1, <3>2, ShrunkInv DEF Shrinks
    <2> QED BY <2>1, <2>2, <2>3, <2>4, <2>5, <2>6, <2>7, <2>8 DEF Next, Device
  <1> QED BY InitInv, <1>1, PTL DEF Spec

(* Every variable keeps its type: ages, counters and bitmaps in their       *)
(* ranges, handshakes within what was begun.                                *)
THEOREM TypeCorrect == Spec => []TypeOK
  <1>1. SessionInv => TypeOK
    BY DEF SessionInv
  <1> QED BY <1>1, SessionCorrect, PTL

(* keypair_update and add_new_keypair never leave two copies of a pair.     *)
THEOREM OneSlotHolds == Spec => []OneSlot
  <1>1. SessionInv => OneSlot
    BY DEF SessionInv
  <1> QED BY <1>1, SessionCorrect, PTL

(* wireguardif_output_to_peer encrypts only with keys the server has.       *)
THEOREM KeysShared == Spec => []SharedKeys
  <1>1. SessionInv => SharedKeys
    BY DEF SessionInv
  <1> QED BY <1>1, SessionCorrect, PTL

(* wireguard_check_replay lets no packet through twice but the one that     *)
(* made the pair current.                                                   *)
THEOREM TwiceOnlyFirst == Spec => []TwiceIsFirst
  <1>1. SessionInv => TwiceIsFirst
    <2> SUFFICES ASSUME SessionInv, NEW s \in Session
                 PROVE  \A n \in 1..MaxSeq :
                          /\ received[s][n] <= IF s[1] = "us" THEN 1 ELSE 2
                          /\ \A m \in 1..MaxSeq : received[s][n] = 2 /\ received[s][m] = 2 => m = n
      BY DEF TwiceIsFirst
    <2>1. PICK f \in 0..MaxSeq : (s[1] = "us" => f = 0) /\ Marked(s, f)
      BY DEF SessionInv, ReplayInv
    <2>2. \A n \in 1..MaxSeq : received[s][n] \in 0..2 /\ received[s][n] <= IF n = f THEN 2 ELSE 1
      BY <2>1 DEF Marked, SessionInv, TypeOK
    <2>3. s[1] = "us" => \A n \in 1..MaxSeq : n # f
      BY <2>1, BoundAssumption
    <2> QED BY <2>2, <2>3
  <1> QED BY <1>1, SessionCorrect, PTL

(* While the current pair is usable the device sends with it, and no        *)
(* handler, in whatever order messages come, leaves it without one: only    *)
(* age does.                                                                *)
THEOREM TimeAlone == Spec => OnlyTimeSilences
  <1> DEFINE Good(S) == S.curr.valid /\ usable(S.curr) /\ ~dead(S.curr)
  <1>1. ASSUME SessionInv, [Next]_vars, Sends(slot)
        PROVE  Sends(slot') \/ (timerDue' /\ ~timerDue)
    <2>1. Good(slot) /\ slot \in Slots
      <3>1. chosen(slot) = "curr"
        BY <1>1 DEF SessionInv, SharedKeys, chosen, usable
      <3> QED BY <1>1, <3>1 DEF Sends, SessionInv, TypeOK, usable, Slots
    <2>2. ASSUME NEW S \in Slots, Good(S) PROVE Sends(S) /\ AfterOutput(S) = S
      BY <2>2 DEF Sends, AfterOutput, chosen, usable
    <2> HIDE DEF Good
    <2>3. CASE Output
      BY <2>1, <2>2, <2>3 DEF Output
    <2>4. CASE wireguardif_tmr
      <3>1. AfterReset(slot) = slot
        <4>1. slot.curr.age \in Nat /\ slot.curr.age < RejectAfter
          BY <2>1, TimeAssumption DEF Good, dead, Slots, Slot, KeyPair
        <4> QED BY <4>1, TimeAssumption DEF AfterReset
      <3>2. AfterExpiry(slot) = slot
        BY <2>1 DEF AfterExpiry, Good
      <3>3. AfterKeepalive(slot) = slot
        BY <2>1, <2>2 DEF AfterKeepalive
      <3> QED BY <2>1, <2>2, <2>4, <3>1, <3>2, <3>3 DEF wireguardif_tmr
    <2>5. ASSUME Good(slot') PROVE Sends(slot')
      <3>1. chosen(slot') = "curr"
        BY <2>5 DEF Good, chosen, usable
      <3> QED BY <2>5, <3>1 DEF Good, Sends
    <2>6. ASSUME NEW n \in 1..MaxTheirs, ReceiveInitiation(n) PROVE Sends(slot')
      <3>1. slot'.curr = slot.curr
        BY <2>1, <2>6 DEF ReceiveInitiation, WithNew, Slots, Slot
      <3> QED BY <2>1, <2>5, <3>1 DEF Good
    <2>7. ASSUME NEW n \in 1..MaxOurs, ReceiveResponse(n) PROVE Sends(slot')
      <3>1. slot'.curr = Fresh(<<"us", n>>)
        BY <2>1, <2>7 DEF ReceiveResponse, WithNew, Slots, Slot
      <3>2. Fresh(<<"us", n>>).valid /\ Fresh(<<"us", n>>).session = <<"us", n>> /\ Fresh(<<"us", n>>).age = 0
        BY SessionsOf, FreshTyped
      <3> QED BY <2>5, <3>1, <3>2, TimeAssumption DEF Good, usable, initiator, dead
    <2>8. ASSUME NEW i \in Slot, NEW s \in Session, NEW n \in 0..MaxSeq, ReceiveData(i, s, n)
          PROVE  Sends(slot')
      BY <1>1, <2>1, <2>5, <2>8, DataKeepsSending DEF Good, Slots
    <2>9. CASE Tick
      BY <2>9 DEF Tick
    <2>10. CASE Server
      <3>1. slot' = slot
        BY <2>10 DEF Server, ServerAnswers, ServerInitiates, ServerAccepts, deviceVars, peerVars
      <3> QED BY <1>1, <3>1
    <2>11. CASE UNCHANGED vars
      BY <1>1, <2>11 DEF vars, peerVars
    <2> QED BY <1>1, <2>3, <2>4, <2>6, <2>7, <2>8, <2>9, <2>10, <2>11 DEF Next, Device
  <1> QED BY <1>1, SessionCorrect, PTL DEF Spec, OnlyTimeSilences
=============================================================================
