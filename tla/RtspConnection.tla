--------------------------- MODULE RtspConnection ---------------------------
(***************************************************************************)
(* One RTSP connection after another: the 1 KB buffer Core 0 collects      *)
(* requests in, the stream Core 1 interleaves with answers on the same     *)
(* connection, and the numbering of its packets.  Who may use the          *)
(* connection when is the subject of StreamHandoff; here a hand-over is    *)
(* one step.                                                               *)
(*                                                                         *)
(* A request is a sequence of lines that ends in an empty one.  TCP        *)
(* delivers it in any pieces, cut between lines.                           *)
(***************************************************************************)
EXTENDS Naturals, Sequences

CONSTANTS
  MaxRequests,   \* bound: requests of a client in one connection
  Sizes,         \* how many lines a request may have
  BufferLimit,   \* lines that fit rtspParseBuffer (1023 bytes)
  TaskLimit,     \* lines that fit rtspBuf of the task (511 bytes)
  Numbers,        \* 2^16
  MaxFailures    \* MAX_WRITE_FAILURES: 100

ASSUME LimitAssumption == {BufferLimit, TaskLimit, Numbers, MaxFailures} \subseteq Nat \ {0}
ASSUME RequestAssumption == MaxRequests \in Nat /\ Sizes \subseteq Nat \ {0, 1}

VARIABLES
  conn,          \* tells a connection from the one before it
  open,          \* rtspClient.connected()
  streaming,     \* isStreaming
  inbound,       \* lines that have arrived and are not read
  buffer,        \* rtspParseBuffer up to rtspParseBufferPos
  rtpSequence, failures,    \* rtpSequence, consecutiveWriteFailures
  asked, typed,  \* requests of the client; lines sent of the last one
  handled, answers,         \* requests handled by Core 0; answers to the client
  expected, gap  \* what the client makes of the numbers

clientVars == <<asked, typed>>
streamVars == <<rtpSequence, failures, expected, gap>>
vars == <<conn, open, streaming, inbound, buffer, clientVars, handled, answers, streamVars>>

Method == {"PLAY", "TEARDOWN", "GET_PARAMETER", "other", "unknown"}
Line == [conn : {0, 1}, n : 1..MaxRequests, method : Method, i : Nat \ {0}, size : Sizes]
isEnd(l) == l.i = l.size

TypeOK ==
  /\ conn \in {0, 1} /\ {open, streaming, gap} \subseteq BOOLEAN
  /\ {inbound, buffer} \subseteq Seq(Line) /\ Len(buffer) <= BufferLimit
  /\ asked \in Seq([method : Method, size : Sizes]) /\ typed \in Nat
  /\ handled \subseteq 1..MaxRequests /\ answers \in Nat
  /\ {rtpSequence, expected} \subseteq 0..Numbers-1 /\ failures \in 0..MaxFailures-1

Init ==
  /\ conn = 0 /\ open = FALSE /\ streaming = FALSE
  /\ inbound = <<>> /\ buffer = <<>> /\ rtpSequence = 0 /\ failures = 0
  /\ asked = <<>> /\ typed = 0 /\ handled = {} /\ answers = 0
  /\ expected = 0 /\ gap = FALSE

-----------------------------------------------------------------------------
(* The client: external. *)

unfinished == asked # <<>> /\ typed < asked[Len(asked)].size

ClientLines ==
  /\ open
  /\ \/ /\ unfinished /\ typed' = typed + 1 /\ UNCHANGED asked
     \/ /\ ~unfinished /\ Len(asked) < MaxRequests /\ typed' = 1
        /\ \E m \in Method, s \in Sizes : asked' = Append(asked, [method |-> m, size |-> s])
  /\ inbound' = Append(inbound, [conn |-> conn, n |-> Len(asked'), method |-> asked'[Len(asked')].method,
                                 i |-> typed', size |-> asked'[Len(asked')].size])
  /\ UNCHANGED <<conn, open, streaming, buffer, handled, answers, streamVars>>

ClientLeaves ==
  /\ open /\ open' = FALSE /\ inbound' = <<>>
  /\ UNCHANGED <<conn, streaming, buffer, clientVars, handled, answers, streamVars>>

-----------------------------------------------------------------------------
(* Core 0. *)

(* Mutant: the buffer is left as it was. *)
AcceptDirty ==
  /\ ~streaming /\ ~open
  /\ conn' = 1 - conn /\ open' = TRUE /\ inbound' = <<>> /\ UNCHANGED buffer
  /\ asked' = <<>> /\ typed' = 0 /\ handled' = {} /\ answers' = 0
  /\ UNCHANGED <<streaming, streamVars>>

Accept ==
  /\ ~streaming /\ ~open
  /\ conn' = 1 - conn /\ open' = TRUE /\ inbound' = <<>> /\ buffer' = <<>>
  /\ asked' = <<>> /\ typed' = 0 /\ handled' = {} /\ answers' = 0
  /\ UNCHANGED <<streaming, streamVars>>

IdleTimeout ==
  /\ open /\ ~streaming
  /\ open' = FALSE /\ inbound' = <<>> /\ buffer' = <<>>
  /\ UNCHANGED <<conn, streaming, clientVars, handled, answers, streamVars>>

(* PLAY starts the numbers anew. *)
Play == streaming' = TRUE /\ rtpSequence' = 0 /\ expected' = 0 /\ UNCHANGED <<failures, gap>>

(* handleRTSPCommand, of the text that begins with line l. *)
handleRTSPCommand(l) ==
  /\ handled' = IF l.i = 1 THEN handled \cup {l.n} ELSE handled
  /\ answers' = IF l.i = 1 /\ l.method # "unknown" THEN answers + 1 ELSE answers
  /\ IF l.i = 1 /\ l.method = "PLAY" THEN Play ELSE UNCHANGED <<streaming, streamVars>>

NotHandled == UNCHANGED <<handled, answers, streaming, streamVars>>

spaceLeft == BufferLimit - Len(buffer)
(* Mutant: as much as there is, whatever the space. *)
availableAll == IF spaceLeft = 0 THEN 0 ELSE Len(inbound)
available == IF Len(inbound) > spaceLeft THEN spaceLeft ELSE Len(inbound)

(* What stays in the buffer of b once the request up to line e is handled.  *)
remainingNone(b, e) == <<>>
remainingAll(b, e) == b
remaining(b, e) == SubSeq(b, e + 1, Len(b))

(* Mutant: the full buffer is only reported. *)
OverflowKept == UNCHANGED buffer
(* A buffer that is full, and holds no whole request, is emptied. *)
Overflow == buffer' = <<>>

(* One read and at most one request. *)
processRTSP ==
  /\ open /\ ~streaming /\ inbound # <<>>
  /\ inbound' = SubSeq(inbound, available + 1, Len(inbound))
  /\ LET b == buffer \o SubSeq(inbound, 1, available)
         ends == {k \in 1..Len(b) : isEnd(b[k])}
     IN IF available = 0 THEN Overflow /\ NotHandled
        ELSE IF ends = {} THEN buffer' = b /\ NotHandled
        ELSE \E e \in ends : /\ \A k \in ends : e <= k   \* strstr finds the first
                             /\ buffer' = remaining(b, e) /\ handleRTSPCommand(b[1])
  /\ UNCHANGED <<conn, open, clientVars>>

-----------------------------------------------------------------------------
(* Core 1. *)

Hangup == open' = FALSE /\ streaming' = FALSE /\ inbound' = <<>>
Continue == UNCHANGED <<open, streaming, inbound>>
next(n) == (n + 1) % Numbers

(* Mutant: the packet is numbered whether it went out or not. *)
DroppedNumbered == rtpSequence' = next(rtpSequence)
(* Only what went out has a number. *)
Dropped == UNCHANGED rtpSequence

sendRTPPacket ==
  /\ streaming
  /\ \/ ~open /\ Hangup /\ UNCHANGED <<streamVars>>
     \/ /\ open /\ Continue
        /\ rtpSequence' = next(rtpSequence) /\ failures' = 0
        /\ expected' = next(rtpSequence) /\ gap' = (gap \/ rtpSequence # expected)
     \/ /\ open /\ failures' = (failures + 1) % MaxFailures
        /\ IF failures + 1 = MaxFailures THEN Hangup ELSE Continue
        /\ Dropped /\ UNCHANGED <<expected, gap>>
  /\ UNCHANGED <<conn, buffer, clientVars, handled, answers>>

(* The task looks for two words in what has arrived. *)
TaskRtsp ==
  /\ streaming /\ open /\ inbound # <<>>
  /\ LET n == IF Len(inbound) > TaskLimit THEN TaskLimit ELSE Len(inbound)
         found(m) == \E k \in 1..n : inbound[k].i = 1 /\ inbound[k].method = m
     IN \/ /\ found("TEARDOWN") /\ Hangup
           /\ answers' = answers + 1
        \/ /\ ~found("TEARDOWN") /\ found("GET_PARAMETER")
           /\ inbound' = SubSeq(inbound, n + 1, Len(inbound))
           /\ answers' = answers + 1
           /\ UNCHANGED <<open, streaming>>
        \/ /\ ~found("TEARDOWN") /\ ~found("GET_PARAMETER")
           /\ inbound' = SubSeq(inbound, n + 1, Len(inbound))
           /\ UNCHANGED <<open, streaming, answers>>
  /\ UNCHANGED <<conn, buffer, clientVars, handled, streamVars>>

(* Core 0 has asked for the stream to stop. *)
TaskStop ==
  /\ streaming /\ Hangup
  /\ UNCHANGED <<conn, buffer, clientVars, handled, answers, streamVars>>

Core0 == Accept \/ IdleTimeout \/ processRTSP
Core1 == sendRTPPacket \/ TaskRtsp \/ TaskStop
Next == ClientLines \/ ClientLeaves \/ Core0 \/ Core1

(* The loop and the task come round again and again. *)
Spec == Init /\ [][Next]_vars /\ WF_vars(processRTSP) /\ WF_vars(TaskRtsp) /\ WF_vars(sendRTPPacket)

-----------------------------------------------------------------------------
(* Properties. *)

(* What is parsed on a connection was sent on it: the rest of a client that *)
(* stopped in the middle of a request, or streamed after pipelining one,    *)
(* never becomes part of the next client's first request.                   *)
NoForeignRequest == open => \A k \in 1..Len(buffer) : buffer[k].conn = conn

(* However requests are cut and joined, and whatever overlong ones come in  *)
(* between, one that fits the buffer is handled once it is whole: until     *)
(* then all that was sent of it still waits, in one piece and in order.     *)
(* What is in the buffer when a stream begins is never parsed.              *)
waiting == IF streaming THEN inbound ELSE buffer \o inbound
sent(n) == IF n = Len(asked) THEN typed ELSE asked[n].size
(* The lines of request n in q are the s that follow the p-th.              *)
Block(q, n, p, s) ==
  /\ p + s <= Len(q)
  /\ \A k \in 1..Len(q) : q[k].n = n <=> k \in p+1..p+s
  /\ \A i \in 1..s : q[p + i].i = i
NoRequestLost ==
  open /\ ~streaming =>
    \A n \in 1..Len(asked) :
      asked[n].size <= BufferLimit =>
        n \in handled \/ \E p \in 0..Len(waiting) : Block(waiting, n, p, sent(n))

(* No request is answered twice, by Core 0, Core 1 or each of them.         *)
NoMoreAnswers == answers <= Len(asked)

(* A client that gets its packets sees them numbered from 0 in each stream, *)
(* without a gap: what is dropped leaves no trace in the numbers.           *)
Gapless == ~gap

(* What has arrived is read, or the connection ends: no request, however    *)
(* long, stops the parser for good.                                         *)
InputDrained == (open /\ inbound # <<>>) ~> (inbound = <<>>)

-----------------------------------------------------------------------------
(* The inductive invariant behind the first, third and fourth of these. *)

(* Lines are of this connection.                                            *)
OwnInv ==
  open => /\ \A k \in 1..Len(buffer) : buffer[k].conn = conn
          /\ \A k \in 1..Len(inbound) : inbound[k].conn = conn

(* Requests wait in the order they were sent, each begun once, and only     *)
(* later ones than have been answered: a of m.                              *)
Ordered(q, a, m) ==
  \A k \in 1..Len(q) :
    /\ q[k].n <= m /\ (q[k].i = 1 => a < q[k].n)
    /\ \A j \in 1..k-1 : q[j].n <= q[k].n /\ (q[k].i = 1 => q[j].n < q[k].n)

OrderInv == open => Ordered(waiting, answers, Len(asked))

AskedInv == Len(asked) <= MaxRequests /\ (asked # <<>> => typed > 0)

RtspInv ==
  TypeOK /\ AskedInv /\ OwnInv /\ OrderInv /\ NoMoreAnswers /\ Gapless /\ rtpSequence = expected

(* And behind NoRequestLost: what waits is what was sent last, each request *)
(* begins where another ends, and a full buffer holds no whole one.         *)
LastInv ==
  /\ asked # <<>> => typed <= asked[Len(asked)].size
  /\ open /\ ~streaming =>
       /\ waiting # <<>> => LET l == waiting[Len(waiting)] IN l.n = Len(asked) /\ l.i = typed
       /\ \A k \in 1..Len(waiting) :
            /\ waiting[k].size = asked[waiting[k].n].size
            /\ k > 1 /\ waiting[k].i = 1 => isEnd(waiting[k - 1])
FullInv == Len(buffer) = BufferLimit => \A k \in 1..Len(buffer) : ~isEnd(buffer[k])
LostInv == LastInv /\ FullInv /\ NoRequestLost
=============================================================================
