-------------------------- MODULE SocketOwnership --------------------------
(***************************************************************************)
(* What the hand-over of the RTSP client promises: the socket has an       *)
(* owner, "loop" or "task".  Only the owner uses it (reads, writes,        *)
(* replaces or closes it), and it changes hands only between two uses.     *)
(* Asking connected() is another matter: the loop may ask at any time,     *)
(* the task only while the socket is its own.  StreamHandoff implements    *)
(* this.                                                                   *)
(***************************************************************************)

VARIABLES
  owner,   \* who may use the socket
  using,   \* who is reading, writing, replacing or closing it, or about to
  asking,  \* who is asking connected(), or about to
  open     \* is a client connected?

vars == <<owner, using, asking, open>>

Party == {"loop", "task"}

TypeOK ==
  owner \in Party /\ using \subseteq Party /\ asking \subseteq Party /\ open \in BOOLEAN

Init == owner = "loop" /\ using = {} /\ asking = {} /\ open = FALSE

(* A question does not wait for the other party's use to end. *)
Ask(p) ==
  /\ p \in {"loop", owner} /\ p \notin using
  /\ asking' = asking \cup {p}
  /\ UNCHANGED <<owner, using, open>>

Answered(p) ==
  /\ p \in asking
  /\ asking' = asking \ {p}
  /\ UNCHANGED <<owner, using, open>>

(* The owner goes on to use the socket, perhaps with the answer it got. *)
Enter ==
  /\ using = {}
  /\ using' = {owner} /\ asking' = asking \ {owner}
  /\ UNCHANGED <<owner, open>>

Leave == using # {} /\ using' = {} /\ UNCHANGED <<owner, asking, open>>

(* The loop takes the next client from the server. *)
Accept ==
  /\ owner = "loop" /\ using = {owner}
  /\ open' = TRUE
  /\ UNCHANGED <<owner, using, asking>>

(* The owner's last use. *)
Close ==
  /\ using = {owner}
  /\ using' = {} /\ open' = FALSE
  /\ UNCHANGED <<owner, asking>>

(* PLAY, and the end of a session. *)
Hand(from, to) ==
  /\ owner = from /\ using = {} /\ from \notin asking
  /\ owner' = to
  /\ UNCHANGED <<using, asking, open>>

HandOver == Hand("loop", "task")
HandBack == Hand("task", "loop")

PeerCloses == open /\ open' = FALSE /\ UNCHANGED <<owner, using, asking>>

Next ==
  \/ \E p \in Party : Ask(p) \/ Answered(p)
  \/ Enter \/ Leave \/ Accept \/ Close \/ HandOver \/ HandBack \/ PeerCloses

Spec == Init /\ [][Next]_vars
=============================================================================
