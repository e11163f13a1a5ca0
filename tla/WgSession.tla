----------------------------- MODULE WgSession -----------------------------
(***************************************************************************)
(* One WireGuard peer of the device: three key pair slots, a handshake     *)
(* slot, the replay windows and the 400 ms timer, against a server over a  *)
(* network that loses, duplicates and reorders.  Every handler runs in     *)
(* lwIP's thread, hence is one step.                                       *)
(*                                                                         *)
(* A session stands for the keys both sides derive from one handshake:     *)
(* <<"us", n>> for the n-th the device initiates, <<"server", n>> for the  *)
(* n-th of the server.  Cryptography is ideal.  Ages are in units longer   *)
(* than the keepalive interval and than REKEY_TIMEOUT.                     *)
(***************************************************************************)
EXTENDS Naturals

CONSTANTS
  MaxOurs,       \* bound: initiations by the device
  MaxTheirs,     \* bound: initiations by the server
  MaxSeq,        \* bound: data packets of the server in one session
  WindowSize,    \* ReplayWindowSize: sizeof(replay_bitmap)
  BitmapBits,    \* bits of replay_bitmap: 32
  RekeyAfter,    \* REKEY_AFTER_TIME: 120 s
  RekeySoon,     \* REJECT_AFTER_TIME less the keepalive interval (25 s by default)
                 \* and, on receiving, less REKEY_TIMEOUT: 155 s and 150 s
  RejectAfter,   \* REJECT_AFTER_TIME: 180 s
  ResetAfter     \* three times REJECT_AFTER_TIME

ASSUME BoundAssumption == {MaxOurs, MaxTheirs, MaxSeq} \subseteq Nat
ASSUME WindowAssumption == WindowSize \in Nat \ {0} /\ BitmapBits \in Nat /\ WindowSize <= BitmapBits
ASSUME TimeAssumption == /\ {RekeyAfter, RekeySoon, RejectAfter, ResetAfter} \subseteq Nat \ {0}
                         /\ RekeyAfter < RejectAfter /\ RejectAfter < ResetAfter

VARIABLES
  slot,            \* curr_keypair, next_keypair, prev_keypair
  handshake,       \* the session the handshake slot is about, when valid
  greatest,        \* greatest_timestamp
  send_handshake,
  txIdle,          \* is last_tx at least the keepalive interval ago?
  initIdle,        \* is last_initiation_tx 0, or REKEY_TIMEOUT ago?
  timerDue,        \* has time passed since wireguardif_tmr ran?
  initiations,     \* handshakes the device has begun
  received,        \* how often each packet of the server was given to lwIP
  network,         \* handshake messages that were ever sent
  serverGreatest, serverInitiations, serverKnows

peerVars == <<slot, handshake, send_handshake>>
timerVars == <<txIdle, initIdle, timerDue>>
serverVars == <<serverGreatest, serverInitiations, serverKnows>>
vars == <<peerVars, greatest, timerVars, initiations, received, network, serverVars>>

Slot == {"curr", "next", "prev"}
Session == {"us"} \X (1..MaxOurs) \cup {"server"} \X (1..MaxTheirs)
None == <<"none", 0>>
KeyPair == [valid : BOOLEAN, session : Session \cup {None}, rx : BOOLEAN, age : 0..ResetAfter,
            counter : 0..MaxSeq, bitmap : SUBSET (0..BitmapBits-1)]
Message == [type : {"initiation", "response"}, session : Session]

initiator(k) == k.session[1] = "us"

TypeOK ==
  /\ slot \in [Slot -> KeyPair] /\ handshake \in {None} \cup {"us"} \X (1..MaxOurs)
  /\ {send_handshake, txIdle, initIdle, timerDue} \subseteq BOOLEAN
  /\ greatest \in 0..MaxTheirs /\ initiations \in 0..MaxOurs
  /\ received \in [Session -> [1..MaxSeq -> 0..2]]
  /\ network \subseteq Message
  /\ serverGreatest \in 0..MaxOurs /\ serverInitiations \in 0..MaxTheirs
  /\ serverKnows \subseteq Session

(* keypair_destroy zeroes the slot. *)
Destroyed == [valid |-> FALSE, session |-> None, rx |-> FALSE, age |-> 0,
              counter |-> 0, bitmap |-> {}]
Fresh(s) == [Destroyed EXCEPT !.valid = TRUE, !.session = s]

Init ==
  /\ slot = [i \in Slot |-> Destroyed] /\ handshake = None
  /\ greatest = 0 /\ send_handshake = FALSE
  /\ txIdle = TRUE /\ initIdle = TRUE /\ timerDue = TRUE
  /\ initiations = 0 /\ network = {}
  /\ received = [s \in Session |-> [n \in 1..MaxSeq |-> 0]]
  /\ serverGreatest = 0 /\ serverInitiations = 0 /\ serverKnows = {}

-----------------------------------------------------------------------------
(* Slots. *)

(* Mutant: a responder's pair is current at once. *)
WithNewAtOnce(S, s) == [S EXCEPT !.prev = S.curr, !.next = Destroyed, !.curr = Fresh(s)]

(* add_new_keypair. *)
WithNew(S, s) ==
  IF s[1] = "us"
    THEN [S EXCEPT !.prev = IF S.next.valid THEN S.next ELSE S.curr,
                   !.next = IF S.next.valid THEN Destroyed ELSE S.next,
                   !.curr = Fresh(s)]
    ELSE [S EXCEPT !.next = Fresh(s), !.prev = Destroyed]

(* Mutant: the pair stays in the next slot as well. *)
UpdatedKeeps(S, i) == IF i = "next" THEN [S EXCEPT !.prev = S.curr, !.curr = S.next] ELSE S

(* Mutant: the next slot is zeroed before it is copied. *)
UpdatedEmpty(S, i) ==
  IF i = "next" THEN [S EXCEPT !.prev = S.curr, !.curr = Destroyed, !.next = Destroyed] ELSE S

(* keypair_update: the first packet on the next pair makes it current. *)
Updated(S, i) ==
  IF i = "next" THEN [S EXCEPT !.prev = S.curr, !.curr = S.next, !.next = Destroyed] ELSE S

(* The pair wireguardif_output_to_peer encrypts with, and whether it may.   *)
chosen(S) == IF S.curr.valid /\ ~initiator(S.curr) /\ ~S.curr.rx THEN "prev" ELSE "curr"
usable(k) == k.valid /\ (initiator(k) \/ k.rx)
dead(k) == k.age >= RejectAfter

(* A pair that is too old is destroyed instead of used; one that is old is  *)
(* to be replaced.                                                          *)
Sends(S) == usable(S[chosen(S)]) /\ ~dead(S[chosen(S)])
AfterOutput(S) ==
  IF usable(S[chosen(S)]) /\ dead(S[chosen(S)]) THEN [S EXCEPT ![chosen(S)] = Destroyed] ELSE S
AsksRekey(S) ==
  Sends(S) /\ initiator(S[chosen(S)]) /\ S[chosen(S)].age >= RekeyAfter

(* wireguard_check_replay on the window of a pair.  The bitmap is the set   *)
(* of its bits; a shift drops what leaves the word.                         *)
(* The whole word is the window where a packet is looked up, and a quarter  *)
(* of it still is where the window moves.                                   *)
freshWide(k, n) ==
  /\ n # 0
  /\ n > k.counter \/ (k.counter - n < BitmapBits /\ k.counter - n \notin k.bitmap)
fresh(k, n) ==
  /\ n # 0
  /\ n > k.counter \/ (k.counter - n < WindowSize /\ k.counter - n \notin k.bitmap)

marked(k, n) ==
  IF n > k.counter
    THEN [k EXCEPT !.counter = n,
                   !.bitmap = IF n - k.counter < WindowSize
                                THEN {0} \cup {b \in 0..BitmapBits-1 :
                                               \E a \in k.bitmap : b = a + n - k.counter}
                                ELSE {0}]
    ELSE [k EXCEPT !.bitmap = @ \cup {k.counter - n}]

-----------------------------------------------------------------------------
(* Handlers. *)

deliver(m) == network' = network \cup {m}
initiation(s) == [type |-> "initiation", session |-> s]
response(s) == [type |-> "response", session |-> s]

(* lwIP has a packet for the tunnel.  There may be no memory to encrypt it  *)
(* in, and UDP may refuse it after that.                                    *)
Output ==
  \E encrypted, sent \in BOOLEAN :
  /\ slot' = AfterOutput(slot)
  /\ txIdle' = (txIdle /\ ~(encrypted /\ sent /\ Sends(slot)))
  /\ send_handshake' = (send_handshake \/ (encrypted /\ AsksRekey(slot)))
  /\ UNCHANGED <<handshake, greatest, initIdle, timerDue, initiations, received, network, serverVars>>

(* An initiation of the server, unless it is an old one: it takes the       *)
(* handshake slot, which the response empties again.                        *)
ReceiveInitiation(n) ==
  /\ initiation(<<"server", n>>) \in network /\ n > greatest
  /\ greatest' = n /\ handshake' = None
  /\ slot' = WithNew(slot, <<"server", n>>)
  /\ deliver(response(<<"server", n>>))
  /\ UNCHANGED <<send_handshake, timerVars, initiations, received, serverVars>>

(* The response to the initiation in the slot, answered with a keepalive.   *)
ReceiveResponse(n) ==
  /\ response(<<"us", n>>) \in network /\ handshake = <<"us", n>>
  /\ handshake' = None /\ slot' = WithNew(slot, <<"us", n>>)
  /\ txIdle' \in {txIdle, FALSE}
  /\ UNCHANGED <<send_handshake, greatest, initIdle, timerDue, initiations, received, network, serverVars>>

(* get_peer_keypair_for_idx. *)
Holds(i, s) == slot[i].valid /\ slot[i].session = s

(* Data or, with n = 0, a keepalive or a first packet: the pair it came in  *)
(* becomes current, but the replay window consulted is the one in the slot  *)
(* it was in, which is empty then.                                          *)
ReceiveData(i, s, n) ==
  /\ Holds(i, s) /\ s \in serverKnows
  /\ IF dead(slot[i]) THEN slot' = [slot EXCEPT ![i] = Destroyed] /\ UNCHANGED <<send_handshake, received>>
     ELSE LET S == Updated([slot EXCEPT ![i].rx = TRUE], i) IN
          /\ send_handshake' = (send_handshake \/ (initiator(S[i]) /\ S[i].age >= RekeySoon))
          /\ IF fresh(S[i], n)
               THEN slot' = [S EXCEPT ![i] = marked(S[i], n)] /\ received' = [received EXCEPT ![s][n] = @ + 1]
               ELSE slot' = S /\ UNCHANGED received
  /\ UNCHANGED <<handshake, greatest, timerVars, initiations, network, serverVars>>

(* wireguardif_tmr: reset, destroy, keepalive, initiation. *)
AfterReset(S) == IF S.curr.valid /\ S.curr.age >= ResetAfter THEN [i \in Slot |-> Destroyed] ELSE S
AfterExpiry(S) == IF S.curr.valid /\ dead(S.curr) THEN [S EXCEPT !.curr = Destroyed] ELSE S
keepalive(S) == txIdle /\ (S.curr.valid \/ S.prev.valid)
AfterKeepalive(S) == IF keepalive(S) THEN AfterOutput(S) ELSE S
initiate(S, asked) ==
  initIdle /\ (asked \/ ~S.curr.valid \/ (~initiator(S.curr) /\ S.curr.age >= RekeySoon))

wireguardif_tmr == \E encrypted, sent \in BOOLEAN :
  LET S == AfterExpiry(AfterReset(slot))
      asked == send_handshake \/ (encrypted /\ keepalive(S) /\ AsksRekey(S))
      T == AfterKeepalive(S)
      reset == AfterReset(slot) # slot
  IN /\ timerDue' = FALSE /\ slot' = T
     /\ txIdle' = (txIdle /\ ~(encrypted /\ sent /\ keepalive(S) /\ Sends(S)))
     /\ IF initiate(T, asked) /\ initiations < MaxOurs   \* the bound
          THEN /\ initiations' = initiations + 1
               /\ handshake' = <<"us", initiations + 1>>
               /\ \/ /\ deliver(initiation(<<"us", initiations + 1>>))
                     /\ send_handshake' = FALSE /\ initIdle' = FALSE
                  \/ \* no memory for the packet
                     send_handshake' = asked /\ UNCHANGED <<initIdle, network>>
          ELSE /\ handshake' = IF reset THEN None ELSE handshake
               /\ send_handshake' = asked /\ UNCHANGED <<initiations, initIdle, network>>
     /\ UNCHANGED <<greatest, received, serverVars>>

(* Time passes, and the timer runs before more of it does. *)
Older(k) == IF k.valid /\ k.age < ResetAfter THEN [k EXCEPT !.age = @ + 1] ELSE k
Tick ==
  /\ ~timerDue /\ timerDue' = TRUE /\ txIdle' = TRUE /\ initIdle' = TRUE
  /\ slot' = [i \in Slot |-> Older(slot[i])]
  /\ UNCHANGED <<handshake, greatest, send_handshake, initiations, received, network, serverVars>>

-----------------------------------------------------------------------------
(* The server: external.  It answers an initiation newer than any before,   *)
(* initiates and accepts a response.  In a session it knows it sends as many  *)
(* packets as it likes, which arrive in any order, or not (ReceiveData).     *)

deviceVars == <<peerVars, greatest, timerVars, initiations, received>>

ServerAnswers(n) ==
  /\ initiation(<<"us", n>>) \in network /\ n > serverGreatest
  /\ serverGreatest' = n /\ serverKnows' = serverKnows \cup {<<"us", n>>}
  /\ deliver(response(<<"us", n>>))
  /\ UNCHANGED <<deviceVars, serverInitiations>>

ServerInitiates ==
  /\ serverInitiations < MaxTheirs
  /\ serverInitiations' = serverInitiations + 1
  /\ deliver(initiation(<<"server", serverInitiations + 1>>))
  /\ UNCHANGED <<deviceVars, serverGreatest, serverKnows>>

ServerAccepts(n) ==
  /\ response(<<"server", n>>) \in network /\ n = serverInitiations
  /\ serverKnows' = serverKnows \cup {<<"server", n>>}
  /\ UNCHANGED <<deviceVars, network, serverGreatest, serverInitiations>>

Device ==
  \/ Output \/ wireguardif_tmr
  \/ \E n \in 1..MaxTheirs : ReceiveInitiation(n)
  \/ \E n \in 1..MaxOurs : ReceiveResponse(n)
  \/ \E i \in Slot, s \in Session, n \in 0..MaxSeq : ReceiveData(i, s, n)

Server ==
  \/ ServerInitiates
  \/ \E n \in 1..MaxOurs : ServerAnswers(n)
  \/ \E n \in 1..MaxTheirs : ServerAccepts(n)

Next == Device \/ Tick \/ Server

Spec == Init /\ [][Next]_vars

-----------------------------------------------------------------------------
(* Properties. *)

(* A session is in one slot at most: slots are copied about, and a second   *)
(* copy would repeat its sending counter, or open its replay window again.  *)
OneSlot ==
  \A i, j \in Slot : slot[i].valid /\ slot[j].valid /\ slot[i].session = slot[j].session => i = j

(* The device only ever encrypts for a session the server has: a pair made  *)
(* as responder is not current before the server has used it.               *)
SharedKeys == slot.curr.valid => slot.curr.session \in serverKnows /\ usable(slot.curr)

(* Nothing but time takes the ability to send away: no message, however    *)
(* late and in whatever order with others, and no run of the timer does.   *)
OnlyTimeSilences == [][Sends(slot) => Sends(slot') \/ (timerDue' /\ ~timerDue)]_vars

(* No packet is given to lwIP twice, but the one that makes a pair current, *)
(* whose replay mark is left in the slot the pair has moved out of.         *)
TwiceIsFirst ==
  \A s \in Session, n \in 1..MaxSeq :
    /\ received[s][n] <= IF s[1] = "us" THEN 1 ELSE 2
    /\ \A m \in 1..MaxSeq : received[s][n] = 2 /\ received[s][m] = 2 => m = n

-----------------------------------------------------------------------------
(* The inductive invariant behind these. *)

(* A session's number is one that has been given out. *)
begun(s) == IF s[1] = "us" THEN initiations ELSE greatest
unused(s) == \A n \in 1..MaxSeq : received[s][n] = 0

(* Only sessions that have begun are in slots, the server's in the next.    *)
SlotInv ==
  /\ \A i \in Slot : slot[i].valid => slot[i].session \in Session
                                     /\ slot[i].session[2] <= begun(slot[i].session)
  /\ slot.next.valid => ~initiator(slot.next)

(* The handshake under way is not in a slot yet.                            *)
HandshakeInv ==
  handshake # None => /\ handshake[2] <= initiations
                      /\ \A i \in Slot : slot[i].valid => slot[i].session # handshake

(* The server has every session it answered.                                *)
AnsweredInv ==
  \A n \in 1..MaxOurs : response(<<"us", n>>) \in network => <<"us", n>> \in serverKnows

(* Nothing came on a session before its pair left the next slot, or was     *)
(* made.                                                                    *)
UnusedInv ==
  /\ \A s \in Session : s[2] > begun(s) => unused(s)
  /\ handshake # None => unused(handshake)
  /\ slot.next.valid => unused(slot.next.session)

(* What was received is marked in the window, the packet f excepted that    *)
(* made the pair current: it has to come a second time to be marked.        *)
Marked(s, f) ==
  \A n \in 1..MaxSeq :
    LET least == IF n = f THEN 2 ELSE 1 IN
    /\ received[s][n] <= least
    /\ received[s][n] = least => \A i \in Slot : Holds(i, s) => ~fresh(slot[i], n)
ReplayInv == \A s \in Session : \E f \in 0..MaxSeq : (s[1] = "us" => f = 0) /\ Marked(s, f)

SessionInv ==
  TypeOK /\ OneSlot /\ SharedKeys /\ SlotInv /\ HandshakeInv /\ AnsweredInv /\ UnusedInv /\ ReplayInv
=============================================================================
