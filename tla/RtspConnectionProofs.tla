------------------------ MODULE RtspConnectionProofs ------------------------
(***************************************************************************)
(* The safety properties of RtspConnection for any buffers, requests and   *)
(* numbers.  RtspInv is inductive by LEMMA TailOrdered: whatever is read,  *)
(* kept, dropped or answered, what waits is a tail of what waited, and its *)
(* head was answered at most once.  LostInv is inductive beside it: the    *)
(* front that goes holds a whole request or pieces of one that is too long.*)
(***************************************************************************)
EXTENDS RtspConnection, TLAPS

(* T is what is left of S without its first d elements. *)
Rest(S, T, d) == Len(T) = Len(S) - d /\ \A k \in 1..Len(T) : T[k] = S[k + d]

-----------------------------------------------------------------------------
(* Sequences of lines. *)

LEMMA LineTyped ==
  \A l \in Line : l.n \in Nat /\ l.n \in 1..MaxRequests /\ l.i \in Nat \ {0}
                  /\ l.conn \in {0, 1} /\ l.method \in Method /\ l.size \in Sizes
  BY RequestAssumption DEF Line

(* Lines keep their order, and those left were sent after one that went.    *)
LEMMA TailOrdered ==
  ASSUME NEW S \in Seq(Line), NEW T \in Seq(Line), NEW d \in 0..Len(S), Rest(S, T, d),
         NEW a \in Nat, NEW m \in Nat, Ordered(S, a, m)
  PROVE  /\ Ordered(T, a, m)
         /\ \A h \in 1..d : S[h].i = 1 => Ordered(T, a + 1, m) /\ a + 1 <= m
  <1>1. ASSUME NEW k \in 1..Len(T)
        PROVE  /\ k + d \in 1..Len(S) /\ T[k] = S[k + d]
               /\ S[k + d].n \in Nat
               /\ T[k].n <= m /\ (T[k].i = 1 => a < T[k].n)
               /\ \A j \in 1..k-1 : T[j].n <= T[k].n /\ (T[k].i = 1 => T[j].n < T[k].n)
               /\ \A h \in 1..d : T[k].i = 1 => S[h].n < T[k].n
    <2>1. /\ k + d \in 1..Len(S) /\ T[k] = S[k + d]
          /\ \A j \in 1..k-1 : j + d \in 1..(k+d)-1 /\ T[j] = S[j + d]
          /\ \A h \in 1..d : h \in 1..(k+d)-1
      BY DEF Rest
    <2>2. S[k + d].n \in Nat
      BY <2>1, LineTyped
    <2> QED BY <2>1, <2>2 DEF Ordered
  <1>2. Ordered(T, a, m)
    BY <1>1 DEF Ordered
  <1>3. ASSUME NEW h \in 1..d, S[h].i = 1 PROVE Ordered(T, a + 1, m) /\ a + 1 <= m
    <2>1. h \in 1..Len(S) /\ S[h].n \in Nat /\ S[h].n <= m /\ a < S[h].n
      BY <1>3, LineTyped DEF Ordered
    <2>2. \A k \in 1..Len(T) : T[k].n \in Nat /\ (T[k].i = 1 => a + 1 < T[k].n)
      <3> SUFFICES ASSUME NEW k \in 1..Len(T) PROVE T[k].n \in Nat /\ (T[k].i = 1 => a + 1 < T[k].n)
        OBVIOUS
      <3>1. T[k].n \in Nat /\ (T[k].i = 1 => S[h].n < T[k].n)
        BY <1>1
      <3> QED BY <2>1, <3>1
    <2> QED BY <1>1, <2>1, <2>2 DEF Ordered
  <1> QED BY <1>2, <1>3

LEMMA SubTail ==
  ASSUME NEW S \in Seq(Line), NEW d \in 0..Len(S)
  PROVE  SubSeq(S, d + 1, Len(S)) \in Seq(Line) /\ Rest(S, SubSeq(S, d + 1, Len(S)), d)
  BY DEF Rest

LEMMA Element ==
  ASSUME NEW R, NEW S \in Seq(R), NEW k \in 1..Len(S)
  PROVE  S[k] \in R
  OBVIOUS

LEMMA Joined ==
  ASSUME NEW S \in Seq(Line), NEW T \in Seq(Line)
  PROVE  /\ S \o T \in Seq(Line) /\ Len(S \o T) = Len(S) + Len(T)
         /\ \A k \in 1..Len(S \o T) : (S \o T)[k] = IF k <= Len(S) THEN S[k] ELSE T[k - Len(S)]
  OBVIOUS

(* Reading: the front of the input goes to the end of the buffer. *)
LEMMA ReadSplits ==
  ASSUME NEW B \in Seq(Line), NEW I \in Seq(Line), NEW v \in 0..Len(I),
         NEW b \in Seq(Line), Len(b) = Len(B) + v,
         \A k \in 1..Len(b) : b[k] = IF k <= Len(B) THEN B[k] ELSE I[k - Len(B)],
         NEW r \in Seq(Line), Rest(I, r, v)
  PROVE  /\ B \o I \in Seq(Line) /\ b \o r = B \o I
         /\ Rest(B \o I, r, Len(b)) /\ Len(b) <= Len(B \o I)
         /\ \A k \in 1..Len(b) : b[k] = (B \o I)[k]
         /\ \A e \in 0..Len(b) :
              SubSeq(b, e + 1, Len(b)) \o r \in Seq(Line) /\ Rest(B \o I, SubSeq(b, e + 1, Len(b)) \o r, e)
  <1>2. r \in Seq(Line) /\ Len(r) = Len(I) - v /\ \A k \in 1..Len(r) : r[k] = I[k + v]
    BY DEF Rest
  <1>3. b \in Seq(Line) /\ Len(b) = Len(B) + v
        /\ \A k \in 1..Len(b) : b[k] = IF k <= Len(B) THEN B[k] ELSE I[k - Len(B)]
    OBVIOUS
  <1>4. B \o I \in Seq(Line) /\ Len(B \o I) = Len(B) + Len(I)
        /\ \A k \in 1..Len(B \o I) : (B \o I)[k] = IF k <= Len(B) THEN B[k] ELSE I[k - Len(B)]
    BY Joined
  <1>0. /\ Len(B) \in Nat /\ Len(I) \in Nat /\ v \in Nat /\ v <= Len(I)
        /\ Len(b) = Len(B) + v /\ Len(r) = Len(I) - v /\ Len(b) \in Nat /\ Len(r) \in Nat
    BY <1>2, <1>3
  <1>5. b \o r \in Seq(Line) /\ Len(b \o r) = Len(b) + Len(r)
        /\ \A k \in 1..Len(b \o r) : (b \o r)[k] = IF k <= Len(b) THEN b[k] ELSE r[k - Len(b)]
    BY <1>2, <1>3, Joined
  <1>6. ASSUME NEW k \in 1..Len(B \o I) PROVE (b \o r)[k] = (B \o I)[k]
    <2>1. CASE k <= Len(b)
      BY <1>2, <1>3, <1>4, <1>5, <2>1
    <2>2. CASE ~(k <= Len(b))
      <3>1. k - Len(b) \in 1..Len(r) /\ (b \o r)[k] = r[k - Len(b)]
        BY <1>2, <1>3, <1>4, <1>5, <2>2
      <3>2. r[k - Len(b)] = I[(k - Len(b)) + v] /\ (k - Len(b)) + v = k - Len(B)
        <4>1. k \in Nat
          BY <1>0, <1>4
        <4>2. (k - Len(b)) + v = k - Len(B)
          BY <1>0, <4>1
        <4> QED BY <1>2, <3>1, <4>2
      <3> QED BY <1>3, <1>4, <2>2, <3>1, <3>2
    <2> QED BY <2>1, <2>2
  <1>7. b \o r = B \o I
    <2>1. Len(b \o r) = Len(B \o I)
      BY <1>0, <1>4, <1>5
    <2>2. \A S, T \in Seq(Line) : Len(S) = Len(T) /\ (\A k \in 1..Len(S) : S[k] = T[k]) => S = T
      OBVIOUS
    <2> QED BY <1>4, <1>5, <1>6, <2>1, <2>2
  <1>8. Rest(B \o I, r, Len(b)) /\ Len(b) <= Len(B \o I)
    <2>1. ASSUME NEW k \in 1..Len(r) PROVE r[k] = (B \o I)[k + Len(b)]
      <3>1. /\ k \in Nat /\ k + Len(b) \in 1..Len(b \o r) /\ ~(k + Len(b) <= Len(b))
            /\ (k + Len(b)) - Len(b) = k
        BY <1>0, <1>5
      <3> QED BY <1>5, <1>7, <3>1
    <2> QED BY <1>2, <1>3, <1>4, <2>1 DEF Rest
  <1>9. \A k \in 1..Len(b) : b[k] = (B \o I)[k]
    BY <1>2, <1>3, <1>5, <1>7
  <1>10. ASSUME NEW e \in 0..Len(b)
         PROVE  SubSeq(b, e + 1, Len(b)) \o r \in Seq(Line)
                /\ Rest(B \o I, SubSeq(b, e + 1, Len(b)) \o r, e)
    <2> DEFINE c == SubSeq(b, e + 1, Len(b))
    <2>1. c \in Seq(Line) /\ Len(c) = Len(b) - e /\ \A k \in 1..Len(c) : c[k] = b[k + e]
      BY <1>3, SubTail DEF Rest
    <2> HIDE DEF c
    <2>0. e \in Nat /\ Len(c) = Len(b) - e /\ Len(c) \in Nat
      BY <1>0, <2>1
    <2>2. c \o r \in Seq(Line) /\ Len(c \o r) = Len(c) + Len(r)
          /\ \A k \in 1..Len(c \o r) : (c \o r)[k] = IF k <= Len(c) THEN c[k] ELSE r[k - Len(c)]
      BY <1>2, <2>1, Joined
    <2>3. ASSUME NEW k \in 1..Len(c \o r) PROVE (c \o r)[k] = (b \o r)[k + e]
      <3>1. k + e \in 1..Len(b \o r)
        BY <1>2, <1>3, <1>5, <2>1, <2>2
      <3>2. CASE k <= Len(c)
        BY <1>3, <1>5, <2>1, <2>2, <3>1, <3>2
      <3>3. CASE ~(k <= Len(c))
        <4>1. (c \o r)[k] = r[k - Len(c)] /\ k - Len(c) = (k + e) - Len(b) /\ ~(k + e <= Len(b))
          BY <1>0, <2>0, <2>1, <2>2, <3>3
        <4> QED BY <1>5, <3>1, <4>1
      <3> QED BY <3>2, <3>3
    <2>4. Rest(B \o I, c \o r, e)
      <3>1. Len(c \o r) = Len(B \o I) - e
        BY <1>0, <1>4, <2>0, <2>1, <2>2
      <3> QED BY <1>7, <2>3, <3>1 DEF Rest
    <2> QED BY <2>2, <2>4 DEF c
  <1> QED BY <1>4, <1>7, <1>8, <1>9, <1>10

-----------------------------------------------------------------------------
(* The steps. *)

(* The line a client sends. *)
newLine == [conn |-> conn, n |-> Len(asked'), method |-> asked'[Len(asked')].method,
            i |-> typed', size |-> asked'[Len(asked')].size]

LEMMA ClientSends ==
  ASSUME RtspInv, ClientLines
  PROVE  /\ inbound \in Seq(Line) /\ buffer \in Seq(Line) /\ typed \in Nat /\ answers \in Nat
         /\ Len(asked) \in Nat /\ Len(asked) <= MaxRequests /\ MaxRequests \in Nat /\ conn \in {0, 1}
         /\ asked \in Seq([method : Method, size : Sizes])
         /\ open /\ inbound' = Append(inbound, newLine)
         /\ UNCHANGED <<conn, open, streaming, buffer, handled, answers, streamVars>>
         /\ asked' \in Seq([method : Method, size : Sizes]) /\ asked' # <<>>
         /\ typed' \in Nat \ {0} /\ Len(asked') \in 1..MaxRequests
         /\ \/ unfinished /\ asked' = asked /\ typed' = typed + 1 /\ typed' # 1
            \/ /\ ~unfinished /\ typed' = 1 /\ Len(asked') = Len(asked) + 1
               /\ \A n \in 1..Len(asked) : asked'[n] = asked[n]
         /\ newLine \in Line /\ newLine.conn = conn /\ newLine.n = Len(asked') /\ newLine.i = typed'
         /\ newLine.size = asked'[Len(asked')].size
         /\ waiting' = Append(waiting, newLine) /\ waiting \in Seq(Line)
  <1> USE DEF RtspInv
  <1>0. /\ inbound \in Seq(Line) /\ buffer \in Seq(Line) /\ typed \in Nat /\ answers \in Nat
        /\ Len(asked) \in Nat /\ Len(asked) <= MaxRequests /\ MaxRequests \in Nat /\ conn \in {0, 1}
        /\ asked \in Seq([method : Method, size : Sizes])
    BY RequestAssumption DEF TypeOK, AskedInv
  <1>1. open /\ inbound' = Append(inbound, newLine)
        /\ UNCHANGED <<conn, open, streaming, buffer, handled, answers, streamVars>>
    BY DEF ClientLines, newLine
  <1>2. /\ asked' \in Seq([method : Method, size : Sizes]) /\ asked' # <<>>
        /\ typed' \in Nat \ {0} /\ Len(asked') \in 1..MaxRequests
        /\ \/ unfinished /\ asked' = asked /\ typed' = typed + 1 /\ typed' # 1
           \/ /\ ~unfinished /\ typed' = 1 /\ Len(asked') = Len(asked) + 1
              /\ \A n \in 1..Len(asked) : asked'[n] = asked[n]
    <2>1. CASE unfinished /\ typed' = typed + 1 /\ UNCHANGED asked
      <3>1. asked # <<>> /\ typed > 0
        BY <2>1 DEF unfinished, AskedInv
      <3> QED BY <1>0, <2>1, <3>1
    <2>2. CASE /\ ~unfinished /\ Len(asked) < MaxRequests /\ typed' = 1
               /\ \E m \in Method, s \in Sizes : asked' = Append(asked, [method |-> m, size |-> s])
      <3>1. PICK m \in Method, s \in Sizes : asked' = Append(asked, [method |-> m, size |-> s])
        BY <2>2
      <3>2. [method |-> m, size |-> s] \in [method : Method, size : Sizes]
        OBVIOUS
      <3>3. asked' \in Seq([method : Method, size : Sizes]) /\ Len(asked') = Len(asked) + 1
            /\ \A n \in 1..Len(asked) : asked'[n] = asked[n]
        BY <1>0, <3>1, <3>2
      <3> QED BY <1>0, <2>2, <3>3
    <2> QED BY <2>1, <2>2 DEF ClientLines
  <1>3. newLine \in Line /\ newLine.conn = conn /\ newLine.n = Len(asked') /\ newLine.i = typed'
        /\ newLine.size = asked'[Len(asked')].size
    <2>1. asked'[Len(asked')] \in [method : Method, size : Sizes]
      <3>1. Len(asked') \in 1..Len(asked')
        BY <1>2, RequestAssumption
      <3> QED BY <1>2, <3>1, Element
    <2>2. asked'[Len(asked')].method \in Method /\ asked'[Len(asked')].size \in Sizes
      BY <2>1
    <2> QED BY <1>0, <1>2, <2>2 DEF Line, newLine
  <1>4. waiting' = Append(waiting, newLine) /\ waiting \in Seq(Line)
    BY <1>0, <1>1, <1>3 DEF waiting
  <1> QED BY <1>0, <1>1, <1>2, <1>3, <1>4

LEMMA ClientLinesStep == RtspInv /\ ClientLines => RtspInv'
  <1> SUFFICES ASSUME RtspInv, ClientLines PROVE RtspInv'
    OBVIOUS
  <1> USE DEF RtspInv
  <1>0. /\ inbound \in Seq(Line) /\ buffer \in Seq(Line) /\ typed \in Nat /\ answers \in Nat
        /\ Len(asked) \in Nat /\ Len(asked) <= MaxRequests /\ MaxRequests \in Nat /\ conn \in {0, 1}
        /\ asked \in Seq([method : Method, size : Sizes])
    BY ClientSends
  <1>1. open /\ inbound' = Append(inbound, newLine)
        /\ UNCHANGED <<conn, open, streaming, buffer, handled, answers, streamVars>>
    BY ClientSends
  <1>2. /\ asked' \in Seq([method : Method, size : Sizes]) /\ asked' # <<>>
        /\ typed' \in Nat \ {0} /\ Len(asked') \in 1..MaxRequests
        /\ \/ unfinished /\ asked' = asked /\ typed' = typed + 1 /\ typed' # 1
           \/ /\ ~unfinished /\ typed' = 1 /\ Len(asked') = Len(asked) + 1
              /\ \A n \in 1..Len(asked) : asked'[n] = asked[n]
    BY ClientSends
  <1>3. newLine \in Line /\ newLine.conn = conn /\ newLine.n = Len(asked') /\ newLine.i = typed'
        /\ newLine.size = asked'[Len(asked')].size
    BY ClientSends
  <1>4. inbound' \in Seq(Line) /\ Len(inbound') = Len(inbound) + 1
        /\ \A k \in 1..Len(inbound') : inbound'[k] = IF k = Len(inbound) + 1 THEN newLine ELSE inbound[k]
    BY <1>0, <1>1, <1>3
  <1>5. TypeOK' /\ AskedInv'
    BY <1>1, <1>2, <1>4 DEF TypeOK, AskedInv, streamVars
  <1>6. OwnInv'
    BY <1>0, <1>1, <1>3, <1>4 DEF OwnInv
  <1>7. waiting' = Append(waiting, newLine) /\ waiting \in Seq(Line)
    BY ClientSends
  <1>8. OrderInv'
    <2>1. Ordered(waiting, answers, Len(asked)) /\ answers <= Len(asked)
      BY <1>1 DEF OrderInv, NoMoreAnswers
    <2> DEFINE w == waiting
               v == waiting'
    <2>2. Len(v) = Len(w) + 1 /\ \A k \in 1..Len(v) : v[k] = IF k = Len(w) + 1 THEN newLine ELSE w[k]
      BY <1>3, <1>7
    <2>3. Len(w) \in Nat /\ w \in Seq(Line) /\ Ordered(w, answers, Len(asked))
      BY <1>7, <2>1
    <2> HIDE DEF w, v
    <2>4. \A k \in 1..Len(w) : w[k].n \in Nat
      BY <2>3, LineTyped
    <2>5. ASSUME NEW k \in 1..Len(v)
          PROVE  /\ v[k].n <= Len(asked') /\ (v[k].i = 1 => answers < v[k].n)
                 /\ \A j \in 1..k-1 : v[j].n <= v[k].n /\ (v[k].i = 1 => v[j].n < v[k].n)
      <3>1. CASE k = Len(w) + 1
        <4>1. v[k] = newLine /\ \A j \in 1..k-1 : j \in 1..Len(w) /\ v[j] = w[j]
          BY <2>2, <2>3, <3>1
        <4>2. \A j \in 1..Len(w) : w[j].n <= Len(asked) /\ w[j].n \in Nat
          BY <2>3, <2>4 DEF Ordered
        <4>3. newLine.i = 1 => Len(asked') = Len(asked) + 1
          BY <1>2, <1>3
        <4>4. Len(asked) <= Len(asked')
          BY <1>0, <1>2
        <4>5. Len(asked') \in Nat /\ newLine.n = Len(asked')
          BY <1>2, <1>3, RequestAssumption
        <4>6. newLine.i = 1 => answers < Len(asked')
          BY <1>0, <2>1, <4>3, <4>5
        <4>7. \A j \in 1..Len(w) : w[j].n <= Len(asked') /\ (newLine.i = 1 => w[j].n < Len(asked'))
          BY <1>0, <4>2, <4>3, <4>4, <4>5
        <4> QED BY <4>1, <4>5, <4>6, <4>7
      <3>2. CASE k # Len(w) + 1
        <4>1. k \in 1..Len(w) /\ v[k] = w[k] /\ \A j \in 1..k-1 : j \in 1..Len(w) /\ v[j] = w[j]
          BY <2>2, <2>3, <3>2
        <4>2. w[k].n <= Len(asked) /\ w[k].n \in Nat /\ Len(asked) <= Len(asked')
          BY <1>0, <1>2, <2>3, <2>4, <4>1 DEF Ordered
        <4>3. w[k].n <= Len(asked')
          BY <1>0, <1>2, <4>2
        <4>4. /\ w[k].i = 1 => answers < w[k].n
              /\ \A j \in 1..k-1 : w[j].n <= w[k].n /\ (w[k].i = 1 => w[j].n < w[k].n)
          BY <2>3, <4>1 DEF Ordered
        <4> QED BY <4>1, <4>3, <4>4
      <3> QED BY <3>1, <3>2
    <2>6. Ordered(v, answers, Len(asked'))
      BY <2>5 DEF Ordered
    <2> QED BY <1>1, <2>6 DEF OrderInv, v
  <1>9. NoMoreAnswers'
    <2>1. answers <= Len(asked) /\ Len(asked) <= Len(asked') /\ Len(asked') \in Nat
      BY <1>0, <1>2 DEF NoMoreAnswers
    <2>2. answers' = answers
      BY <1>1
    <2>3. answers <= Len(asked')
      BY <1>0, <2>1
    <2> QED BY <2>2, <2>3 DEF NoMoreAnswers
  <1> QED BY <1>1, <1>5, <1>6, <1>8, <1>9 DEF Gapless, streamVars

LEMMA EmptyTyped == <<>> \in Seq(Line) /\ Len(<<>>) = 0
  OBVIOUS

(* Steps that close the connection, or open one anew, and Core 1's but for  *)
(* the answers it gives.                                                    *)
LEMMA ClosingStep ==
  RtspInv /\ (ClientLeaves \/ Accept \/ IdleTimeout \/ TaskStop) => RtspInv'
  <1> SUFFICES ASSUME RtspInv, ClientLeaves \/ Accept \/ IdleTimeout \/ TaskStop PROVE RtspInv'
    OBVIOUS
  <1> USE DEF RtspInv
  <1>1. CASE ClientLeaves
    <2>1. TypeOK' /\ AskedInv'
      BY <1>1, EmptyTyped DEF ClientLeaves, TypeOK, AskedInv, clientVars, streamVars
    <2> QED BY <1>1, <2>1 DEF ClientLeaves, OwnInv, OrderInv, NoMoreAnswers, Gapless, clientVars, streamVars
  <1>2. CASE Accept
    <2>1. TypeOK'
      <3>1. <<>> \in Seq([method : Method, size : Sizes]) /\ conn' \in {0, 1}
        BY <1>2 DEF Accept, TypeOK
      <3>2. Len(buffer') <= BufferLimit
        BY <1>2, EmptyTyped, LimitAssumption DEF Accept
      <3> QED BY <1>2, EmptyTyped, <3>1, <3>2 DEF Accept, TypeOK, streamVars
    <2>2. AskedInv' /\ NoMoreAnswers'
      <3>1. asked' = <<>> /\ answers' = 0 /\ Len(<<>>) = 0 /\ 0 <= MaxRequests
        BY <1>2, RequestAssumption DEF Accept
      <3> QED BY <3>1 DEF AskedInv, NoMoreAnswers
    <2>3. OwnInv' /\ OrderInv'
      <3>1. buffer' = <<>> /\ inbound' = <<>> /\ Len(<<>>) = 0 /\ waiting' = <<>>
        BY <1>2 DEF Accept, waiting
      <3> QED BY <3>1 DEF OwnInv, OrderInv, Ordered
    <2> QED BY <1>2, <2>1, <2>2, <2>3 DEF Accept, Gapless, streamVars
  <1>3. CASE IdleTimeout
    <2>1. Len(buffer') <= BufferLimit
      BY <1>3, EmptyTyped, LimitAssumption DEF IdleTimeout
    <2>2. TypeOK' /\ AskedInv'
      BY <1>3, EmptyTyped, <2>1 DEF IdleTimeout, TypeOK, AskedInv, clientVars, streamVars
    <2> QED BY <1>3, <2>2 DEF IdleTimeout, OwnInv, OrderInv, NoMoreAnswers, Gapless, clientVars, streamVars
  <1>4. CASE TaskStop
    <2>1. TypeOK' /\ AskedInv'
      BY <1>4, EmptyTyped DEF TaskStop, Hangup, TypeOK, AskedInv, clientVars, streamVars
    <2> QED BY <1>4, <2>1 DEF TaskStop, Hangup, OwnInv, OrderInv, NoMoreAnswers, Gapless, clientVars, streamVars
  <1> QED BY <1>1, <1>2, <1>3, <1>4

LEMMA PacketStep == RtspInv /\ sendRTPPacket => RtspInv'
  <1> SUFFICES ASSUME RtspInv, sendRTPPacket PROVE RtspInv'
    OBVIOUS
  <1> USE DEF RtspInv
  <1>1. UNCHANGED <<conn, buffer, asked, typed, handled, answers>>
    BY DEF sendRTPPacket, clientVars
  <1>2. \/ open' = FALSE /\ streaming' = FALSE /\ inbound' = <<>>
        \/ UNCHANGED <<open, streaming, inbound>>
    BY DEF sendRTPPacket, Hangup, Continue
  <1>3. /\ rtpSequence' = expected' /\ gap' = FALSE
        /\ rtpSequence' \in 0..Numbers-1 /\ failures' \in 0..MaxFailures-1
    <2>0. /\ failures \in 0..MaxFailures-1 /\ rtpSequence \in 0..Numbers-1 /\ rtpSequence = expected
          /\ gap = FALSE /\ MaxFailures \in Nat \ {0} /\ Numbers \in Nat \ {0}
      BY LimitAssumption DEF TypeOK, Gapless
    <2>1. next(rtpSequence) \in 0..Numbers-1 /\ (failures + 1) % MaxFailures \in 0..MaxFailures-1
          /\ 0 \in 0..MaxFailures-1
      BY <2>0 DEF next
    <2> QED BY <2>0, <2>1 DEF sendRTPPacket, streamVars, Dropped
  <1>4. TypeOK' /\ AskedInv'
    BY <1>1, <1>2, <1>3, EmptyTyped DEF TypeOK, AskedInv
  <1>5. OwnInv' /\ OrderInv' /\ NoMoreAnswers'
    BY <1>1, <1>2 DEF OwnInv, OrderInv, NoMoreAnswers, waiting
  <1> QED BY <1>3, <1>4, <1>5 DEF Gapless

LEMMA TaskRtspStep == RtspInv /\ TaskRtsp => RtspInv'
  <1> SUFFICES ASSUME RtspInv, TaskRtsp PROVE RtspInv'
    OBVIOUS
  <1> USE DEF RtspInv
  <1> DEFINE n == IF Len(inbound) > TaskLimit THEN TaskLimit ELSE Len(inbound)
  <1>0. /\ inbound \in Seq(Line) /\ answers \in Nat /\ Len(asked) \in Nat /\ open /\ streaming
        /\ n \in 0..Len(inbound) /\ Ordered(inbound, answers, Len(asked))
    <2>1. inbound \in Seq(Line) /\ Len(inbound) \in Nat /\ TaskLimit \in Nat
      BY LimitAssumption DEF TypeOK
    <2>2. n \in 0..Len(inbound)
      BY <2>1
    <2> QED BY <2>1, <2>2 DEF TaskRtsp, TypeOK, OrderInv, waiting
  <1>1. UNCHANGED <<conn, buffer, asked, typed, handled, streamVars>>
    BY DEF TaskRtsp, clientVars
  <1>2. \/ /\ open' = FALSE /\ streaming' = FALSE /\ inbound' = <<>>
           /\ answers' = answers + 1 /\ \E k \in 1..n : inbound[k].i = 1
        \/ /\ UNCHANGED <<open, streaming>> /\ inbound' = SubSeq(inbound, n + 1, Len(inbound))
           /\ \/ answers' = answers
              \/ answers' = answers + 1 /\ \E k \in 1..n : inbound[k].i = 1
    BY DEF TaskRtsp, Hangup
  <1> HIDE DEF n
  <1>3. SubSeq(inbound, n + 1, Len(inbound)) \in Seq(Line)
        /\ Rest(inbound, SubSeq(inbound, n + 1, Len(inbound)), n)
    BY <1>0, SubTail
  <1>4. /\ Ordered(SubSeq(inbound, n + 1, Len(inbound)), answers, Len(asked))
        /\ (\E k \in 1..n : inbound[k].i = 1) =>
              Ordered(SubSeq(inbound, n + 1, Len(inbound)), answers + 1, Len(asked))
              /\ answers + 1 <= Len(asked)
    BY <1>0, <1>3, TailOrdered
  <1>5. TypeOK' /\ AskedInv'
    <2>1. inbound' \in Seq(Line) /\ answers' \in Nat /\ {open', streaming'} \subseteq BOOLEAN
      <3>1. {open, streaming} \subseteq BOOLEAN /\ {FALSE} \subseteq BOOLEAN
        BY DEF TypeOK
      <3>2. answers' \in Nat
        <4>1. answers' = answers \/ answers' = answers + 1
          BY <1>2
        <4> QED BY <1>0, <4>1
      <3>3. inbound' \in Seq(Line)
        BY <1>0, <1>2, <1>3, EmptyTyped
      <3> QED BY <1>2, <3>1, <3>2, <3>3
    <2> QED BY <1>1, <2>1 DEF TypeOK, AskedInv, streamVars
  <1>6. OwnInv'
    <2>1. CASE UNCHANGED open /\ inbound' = SubSeq(inbound, n + 1, Len(inbound))
      <3>1. \A k \in 1..Len(inbound') : k + n \in 1..Len(inbound) /\ inbound'[k] = inbound[k + n]
        BY <1>0, <1>3, <2>1 DEF Rest
      <3> QED BY <1>1, <2>1, <3>1 DEF OwnInv
    <2> QED BY <1>2, <2>1 DEF OwnInv
  <1>7. OrderInv' /\ NoMoreAnswers'
    BY <1>0, <1>1, <1>2, <1>4 DEF OrderInv, NoMoreAnswers, waiting
  <1> QED BY <1>1, <1>5, <1>6, <1>7 DEF Gapless, streamVars

(* What waits before a read, what is read of it, and what is not.           *)
queue == buffer \o inbound
read == buffer \o SubSeq(inbound, 1, available)
unread == SubSeq(inbound, available + 1, Len(inbound))

LEMMA ParserReads ==
  ASSUME RtspInv, processRTSP
  PROVE /\ /\ inbound \in Seq(Line) /\ buffer \in Seq(Line) /\ answers \in Nat /\ Len(asked) \in Nat
           /\ open /\ ~streaming /\ Ordered(queue, answers, Len(asked)) /\ BufferLimit \in Nat
           /\ Len(buffer) <= BufferLimit /\ Len(inbound) \in Nat /\ Len(buffer) \in Nat
           /\ waiting = queue
        /\ available \in 0..Len(inbound) /\ Len(buffer) + available <= BufferLimit
        /\ /\ UNCHANGED <<conn, open, asked, typed>> /\ inbound' = unread
           /\ \/ buffer' = <<>> /\ available = 0 /\ Len(buffer) = BufferLimit /\ NotHandled
              \/ /\ buffer' = read /\ NotHandled
                 /\ \A k \in 1..Len(read) : ~isEnd(read[k])
              \/ \E e \in 1..Len(read) :
                   /\ isEnd(read[e]) /\ \A k \in 1..e-1 : ~isEnd(read[k])
                   /\ buffer' = SubSeq(read, e + 1, Len(read)) /\ handleRTSPCommand(read[1])
        /\ /\ read \in Seq(Line) /\ unread \in Seq(Line) /\ Len(read) = Len(buffer) + available
           /\ queue \in Seq(Line) /\ read \o unread = queue
           /\ Rest(queue, unread, Len(read)) /\ Len(read) \in 0..Len(queue)
           /\ \A k \in 1..Len(read) : read[k] = queue[k]
           /\ \A d \in 0..Len(read) : SubSeq(read, d + 1, Len(read)) \o unread \in Seq(Line)
                                   /\ Rest(queue, SubSeq(read, d + 1, Len(read)) \o unread, d)
  <1> USE DEF RtspInv
  <1>0. /\ inbound \in Seq(Line) /\ buffer \in Seq(Line) /\ answers \in Nat /\ Len(asked) \in Nat
        /\ open /\ ~streaming /\ Ordered(queue, answers, Len(asked)) /\ BufferLimit \in Nat
        /\ Len(buffer) <= BufferLimit /\ Len(inbound) \in Nat /\ Len(buffer) \in Nat
        /\ waiting = queue
    BY LimitAssumption DEF processRTSP, TypeOK, OrderInv, waiting, queue
  <1>1. available \in 0..Len(inbound) /\ Len(buffer) + available <= BufferLimit
    BY <1>0 DEF available, spaceLeft
  <1>2. /\ UNCHANGED <<conn, open, asked, typed>> /\ inbound' = unread
        /\ \/ buffer' = <<>> /\ available = 0 /\ Len(buffer) = BufferLimit /\ NotHandled
           \/ /\ buffer' = read /\ NotHandled
              /\ \A k \in 1..Len(read) : ~isEnd(read[k])
           \/ \E e \in 1..Len(read) :
                /\ isEnd(read[e]) /\ \A k \in 1..e-1 : ~isEnd(read[k])
                /\ buffer' = SubSeq(read, e + 1, Len(read)) /\ handleRTSPCommand(read[1])
    <2>1. inbound # <<>> /\ Len(inbound) > 0
      BY <1>0 DEF processRTSP
    <2>2. available = 0 => Len(buffer) = BufferLimit
      BY <1>0, <2>1 DEF available, spaceLeft
    <2> DEFINE ends == {k \in 1..Len(read) : isEnd(read[k])}
    <2>3. /\ UNCHANGED <<conn, open, asked, typed>> /\ inbound' = unread
          /\ \/ available = 0 /\ buffer' = <<>> /\ NotHandled
             \/ ends = {} /\ buffer' = read /\ NotHandled
             \/ \E e \in ends : /\ \A k \in ends : e <= k
                               /\ buffer' = SubSeq(read, e + 1, Len(read)) /\ handleRTSPCommand(read[1])
      BY DEF processRTSP, clientVars, Overflow, remaining, read, unread
    <2>4. ASSUME NEW e \in ends, \A k \in ends : e <= k
          PROVE  e \in 1..Len(read) /\ isEnd(read[e]) /\ \A k \in 1..e-1 : ~isEnd(read[k])
      <3>1. \A k \in 1..e-1 : k \in 1..Len(read) /\ ~(e <= k)
        OBVIOUS
      <3> QED BY <2>4, <3>1
    <2> QED BY <2>2, <2>3, <2>4
  <1>3. /\ read \in Seq(Line) /\ unread \in Seq(Line) /\ Len(read) = Len(buffer) + available
        /\ queue \in Seq(Line) /\ read \o unread = queue
        /\ Rest(queue, unread, Len(read)) /\ Len(read) \in 0..Len(queue)
        /\ \A k \in 1..Len(read) : read[k] = queue[k]
        /\ \A d \in 0..Len(read) : SubSeq(read, d + 1, Len(read)) \o unread \in Seq(Line)
                                /\ Rest(queue, SubSeq(read, d + 1, Len(read)) \o unread, d)
    <2>1. Len(buffer) + available \in Nat
      BY <1>0, <1>1
    <2> DEFINE front == SubSeq(inbound, 1, available)
    <2>0. front \in Seq(Line) /\ Len(front) = available /\ \A k \in 1..available : front[k] = inbound[k]
      BY <1>0, <1>1
    <2>2. /\ read \in Seq(Line) /\ Len(read) = Len(buffer) + available
          /\ \A k \in 1..Len(read) : read[k] = IF k <= Len(buffer) THEN buffer[k] ELSE inbound[k - Len(buffer)]
          /\ unread \in Seq(Line) /\ Rest(inbound, unread, available)
      <3>1. read = buffer \o front
        BY DEF read, front
      <3>2. unread \in Seq(Line) /\ Rest(inbound, unread, available)
        BY <1>0, <1>1, SubTail DEF unread
      <3> HIDE DEF front
      <3>3. /\ read \in Seq(Line) /\ Len(read) = Len(buffer) + available
            /\ \A k \in 1..Len(read) : read[k] = IF k <= Len(buffer) THEN buffer[k] ELSE front[k - Len(buffer)]
        BY <1>0, <2>0, <3>1, Joined
      <3>4. \A k \in 1..Len(read) : ~(k <= Len(buffer)) => k - Len(buffer) \in 1..available
        BY <1>0, <1>1, <3>3
      <3> QED BY <2>0, <3>2, <3>3, <3>4
    <2>5. queue = buffer \o inbound
      BY DEF queue
    <2>3. /\ read \in Seq(Line) /\ unread \in Seq(Line) /\ Len(read) = Len(buffer) + available
          /\ queue \in Seq(Line) /\ read \o unread = queue
          /\ Rest(queue, unread, Len(read)) /\ Len(read) <= Len(queue)
          /\ \A k \in 1..Len(read) : read[k] = queue[k]
          /\ \A d \in 0..Len(read) : SubSeq(read, d + 1, Len(read)) \o unread \in Seq(Line)
                                  /\ Rest(queue, SubSeq(read, d + 1, Len(read)) \o unread, d)
      <3>1. /\ buffer \o inbound \in Seq(Line) /\ read \o unread = buffer \o inbound
            /\ Rest(buffer \o inbound, unread, Len(read)) /\ Len(read) <= Len(buffer \o inbound)
            /\ \A k \in 1..Len(read) : read[k] = (buffer \o inbound)[k]
            /\ \A d \in 0..Len(read) : SubSeq(read, d + 1, Len(read)) \o unread \in Seq(Line)
                                    /\ Rest(buffer \o inbound, SubSeq(read, d + 1, Len(read)) \o unread, d)
        BY <1>0, <1>1, <2>2, ReadSplits
      <3> QED BY <2>2, <2>5, <3>1
    <2>4. Len(read) \in 0..Len(queue)
      BY <2>1, <2>3
    <2> QED BY <2>3, <2>4
  <1> QED BY <1>0, <1>1, <1>2, <1>3

LEMMA ParserStep == RtspInv /\ processRTSP => RtspInv'
  <1> SUFFICES ASSUME RtspInv, processRTSP PROVE RtspInv'
    OBVIOUS
  <1> USE DEF RtspInv
  <1>0. /\ inbound \in Seq(Line) /\ buffer \in Seq(Line) /\ answers \in Nat /\ Len(asked) \in Nat
        /\ open /\ ~streaming /\ Ordered(queue, answers, Len(asked)) /\ BufferLimit \in Nat
        /\ Len(buffer) <= BufferLimit /\ Len(inbound) \in Nat /\ Len(buffer) \in Nat
        /\ waiting = queue
    BY ParserReads
  <1>1. available \in 0..Len(inbound) /\ Len(buffer) + available <= BufferLimit
    BY ParserReads
  <1>2. /\ UNCHANGED <<conn, open, asked, typed>> /\ inbound' = unread
        /\ \/ buffer' = <<>> /\ available = 0 /\ Len(buffer) = BufferLimit /\ NotHandled
           \/ /\ buffer' = read /\ NotHandled
              /\ \A k \in 1..Len(read) : ~isEnd(read[k])
           \/ \E e \in 1..Len(read) :
                /\ isEnd(read[e]) /\ \A k \in 1..e-1 : ~isEnd(read[k])
                /\ buffer' = SubSeq(read, e + 1, Len(read)) /\ handleRTSPCommand(read[1])
    BY ParserReads
  <1>3. /\ read \in Seq(Line) /\ unread \in Seq(Line) /\ Len(read) = Len(buffer) + available
        /\ queue \in Seq(Line) /\ read \o unread = queue
        /\ Rest(queue, unread, Len(read)) /\ Len(read) \in 0..Len(queue)
        /\ \A k \in 1..Len(read) : read[k] = queue[k]
        /\ \A d \in 0..Len(read) : SubSeq(read, d + 1, Len(read)) \o unread \in Seq(Line)
                                /\ Rest(queue, SubSeq(read, d + 1, Len(read)) \o unread, d)
    BY ParserReads
  <1>4. PICK d \in 0..Len(queue), T \in Seq(Line) :
           /\ Rest(queue, T, d) /\ waiting' = T
           /\ \/ answers' = answers
              \/ answers' = answers + 1 /\ \E h \in 1..d : queue[h].i = 1
    <2>1. CASE buffer' = <<>> /\ available = 0 /\ NotHandled
      <3>1. waiting' = unread
        BY <1>0, <1>2, <1>3, <2>1, EmptyTyped, Joined DEF NotHandled, waiting
      <3> QED BY <1>3, <2>1, <3>1 DEF NotHandled
    <2>2. CASE buffer' = read /\ NotHandled
      <3>1. waiting' = queue
        BY <1>0, <1>2, <1>3, <2>2 DEF NotHandled, waiting
      <3>2. Rest(queue, queue, 0) /\ 0 \in 0..Len(queue)
        BY <1>3 DEF Rest
      <3> QED BY <1>3, <2>2, <3>1, <3>2 DEF NotHandled
    <2>3. ASSUME NEW e \in 1..Len(read), buffer' = SubSeq(read, e + 1, Len(read)), handleRTSPCommand(read[1])
          PROVE  \E d \in 0..Len(queue), T \in Seq(Line) :
                   /\ Rest(queue, T, d) /\ waiting' = T
                   /\ \/ answers' = answers
                      \/ answers' = answers + 1 /\ \E h \in 1..d : queue[h].i = 1
      <3>1. e \in 1..Len(read) /\ e \in 0..Len(queue) /\ 1 \in 1..e /\ read[1] = queue[1] /\ Len(read) \in 0..Len(queue) /\ 1 \in 1..Len(read)
        BY <1>3
      <3>2. \/ answers' = answers
            \/ answers' = answers + 1 /\ queue[1].i = 1
        BY <2>3, <3>1 DEF handleRTSPCommand
      <3>3. CASE streaming'
        <4>1. waiting' = unread
          BY <1>2, <3>3 DEF waiting
        <4> QED BY <1>3, <3>1, <3>2, <4>1
      <3>4. CASE ~streaming'
        <4>1. waiting' = SubSeq(read, e + 1, Len(read)) \o unread
          BY <1>2, <2>3, <3>4 DEF waiting
        <4>2. e \in 0..Len(read)
          BY <3>1
        <4> QED BY <1>3, <3>1, <3>2, <4>1, <4>2
      <3> QED BY <3>3, <3>4
    <2> QED BY <1>2, <2>1, <2>2, <2>3
  <1>5. OrderInv' /\ NoMoreAnswers'
    <2>1. Ordered(T, answers, Len(asked))
          /\ \A h \in 1..d : queue[h].i = 1 => Ordered(T, answers + 1, Len(asked)) /\ answers + 1 <= Len(asked)
      BY <1>0, <1>3, <1>4, TailOrdered
    <2> QED BY <1>2, <1>4, <2>1 DEF OrderInv, NoMoreAnswers
  <1>6. buffer' \in Seq(Line) /\ Len(buffer') <= BufferLimit
        /\ \A k \in 1..Len(buffer') : \E j \in 1..Len(read) : buffer'[k] = read[j]
    <2>1. CASE buffer' = <<>>
      BY <1>0, <2>1, EmptyTyped
    <2>2. CASE buffer' = read
      BY <1>1, <1>3, <2>2
    <2>3. ASSUME NEW e \in 1..Len(read), buffer' = SubSeq(read, e + 1, Len(read))
          PROVE  buffer' \in Seq(Line) /\ Len(buffer') <= BufferLimit
                 /\ \A k \in 1..Len(buffer') : \E j \in 1..Len(read) : buffer'[k] = read[j]
      <3>1. e \in 0..Len(read) /\ Len(read) \in Nat /\ Len(read) <= BufferLimit
        BY <1>1, <1>3
      <3>2. buffer' \in Seq(Line) /\ Rest(read, buffer', e)
        BY <1>3, <2>3, <3>1, SubTail
      <3>3. Len(buffer') <= BufferLimit
        BY <1>0, <3>1, <3>2 DEF Rest
      <3>4. \A k \in 1..Len(buffer') : k + e \in 1..Len(read) /\ buffer'[k] = read[k + e]
        BY <3>1, <3>2 DEF Rest
      <3> QED BY <3>2, <3>3, <3>4
    <2> QED BY <1>2, <2>1, <2>2, <2>3
  <1>7. OwnInv'
    <2>1. \A k \in 1..Len(queue) : queue[k].conn = conn
      <3>1. \A k \in 1..Len(queue) : \/ k \in 1..Len(buffer) /\ queue[k] = buffer[k]
                                     \/ k - Len(buffer) \in 1..Len(inbound) /\ queue[k] = inbound[k - Len(buffer)]
        BY <1>0, Joined DEF queue
      <3> QED BY <1>0, <3>1 DEF OwnInv
    <2>2. \A k \in 1..Len(read) : read[k].conn = conn
      BY <1>3, <2>1
    <2>3. \A k \in 1..Len(unread) : k + Len(read) \in 1..Len(queue) /\ unread[k] = queue[k + Len(read)]
      BY <1>3 DEF Rest
    <2>4. \A k \in 1..Len(buffer') : buffer'[k].conn = conn
      BY <1>6, <2>2
    <2>5. \A k \in 1..Len(unread) : unread[k].conn = conn
      BY <2>1, <2>3
    <2> QED BY <1>2, <2>4, <2>5 DEF OwnInv
  <1>8. /\ {streaming', gap'} \subseteq BOOLEAN /\ handled' \subseteq 1..MaxRequests /\ answers' \in Nat
        /\ {rtpSequence', expected'} \subseteq 0..Numbers-1 /\ failures' \in 0..MaxFailures-1
        /\ rtpSequence' = expected' /\ gap' = FALSE
    <2>0. /\ {streaming, gap} \subseteq BOOLEAN /\ handled \subseteq 1..MaxRequests /\ answers \in Nat
          /\ {rtpSequence, expected} \subseteq 0..Numbers-1 /\ failures \in 0..MaxFailures-1
          /\ rtpSequence = expected /\ gap = FALSE /\ 0 \in 0..Numbers-1
      BY LimitAssumption DEF TypeOK, Gapless
    <2>1. CASE NotHandled
      BY <2>0, <2>1 DEF NotHandled, streamVars
    <2>2. ASSUME NEW e \in 1..Len(read), handleRTSPCommand(read[1])
          PROVE  /\ {streaming', gap'} \subseteq BOOLEAN /\ handled' \subseteq 1..MaxRequests /\ answers' \in Nat
                 /\ {rtpSequence', expected'} \subseteq 0..Numbers-1 /\ failures' \in 0..MaxFailures-1
                 /\ rtpSequence' = expected' /\ gap' = FALSE
      <3>1. read[1] \in Line
        <4>1. 1 \in 1..Len(read)
          BY <1>3
        <4> QED BY <1>3, <4>1, Element
      <3>2. read[1].n \in 1..MaxRequests
        BY <3>1, LineTyped
      <3>3. handled' \subseteq 1..MaxRequests /\ answers' \in Nat
        <4>1. handled' \in {handled, handled \cup {read[1].n}} /\ answers' \in {answers, answers + 1}
          BY <2>2 DEF handleRTSPCommand
        <4> QED BY <2>0, <3>2, <4>1
      <3>4. CASE read[1].i = 1 /\ read[1].method = "PLAY"
        BY <2>0, <2>2, <3>3, <3>4 DEF handleRTSPCommand, Play
      <3>5. CASE ~(read[1].i = 1 /\ read[1].method = "PLAY")
        BY <2>0, <2>2, <3>3, <3>5 DEF handleRTSPCommand, streamVars
      <3> QED BY <3>4, <3>5
    <2> QED BY <1>2, <2>1, <2>2
  <1>9. TypeOK' /\ AskedInv'
    BY <1>2, <1>3, <1>6, <1>8 DEF TypeOK, AskedInv
  <1> QED BY <1>5, <1>7, <1>8, <1>9 DEF Gapless

-----------------------------------------------------------------------------
(* No request is lost.  The lines of a request wait in one piece; a step    *)
(* that takes a front of what waits takes such a piece whole or leaves it.  *)

LEMMA BlockMoves ==
  ASSUME NEW S \in Seq(Line), NEW T \in Seq(Line), NEW d \in 0..Len(S), Rest(S, T, d),
         NEW n \in Nat, NEW s \in Nat, NEW p \in d..Len(S), Block(S, n, p, s)
  PROVE  p - d \in 0..Len(T) /\ Block(T, n, p - d, s)
  <1>1. /\ Len(S) \in Nat /\ Len(T) \in Nat /\ Len(T) = Len(S) - d /\ p \in Nat /\ d <= p /\ p <= Len(S)
        /\ p + s <= Len(S)
    BY DEF Rest, Block
  <1>2. p - d \in 0..Len(T) /\ (p - d) + s <= Len(T)
    BY <1>1
  <1>3. ASSUME NEW k \in 1..Len(T) PROVE T[k].n = n <=> k \in (p-d)+1..(p-d)+s
    <2>1. k + d \in 1..Len(S) /\ T[k] = S[k + d]
      BY <1>1 DEF Rest
    <2>2. k \in (p-d)+1..(p-d)+s <=> k + d \in p+1..p+s
      BY <1>1
    <2> QED BY <2>1, <2>2 DEF Block
  <1>4. ASSUME NEW i \in 1..s PROVE T[(p - d) + i].i = i
    <2>1. (p - d) + i \in 1..Len(T) /\ ((p - d) + i) + d = p + i
      BY <1>1
    <2> QED BY <2>1 DEF Rest, Block
  <1> QED BY <1>2, <1>3, <1>4 DEF Block

(* A request begins the queue or where another ends. *)
LEMMA BlockStart ==
  ASSUME NEW S \in Seq(Line), \A k \in 1..Len(S) : k > 1 /\ S[k].i = 1 => isEnd(S[k - 1]),
         NEW n \in Nat, NEW s \in Nat \ {0}, NEW p \in 1..Len(S), Block(S, n, p, s)
  PROVE  isEnd(S[p])
  <1>1. p + 1 \in 1..Len(S) /\ p + 1 > 1 /\ (p + 1) - 1 = p
    BY DEF Block
  <1>2. S[p + 1].i = 1
    <2>1. 1 \in 1..s
      OBVIOUS
    <2> QED BY <2>1 DEF Block
  <1> QED BY <1>1, <1>2

(* A line that comes in goes on with the last request, or begins the next.  *)
LEMMA BlockGrows ==
  ASSUME NEW S \in Seq(Line), NEW T \in Seq(Line), NEW r \in Line, Len(T) = Len(S) + 1,
         \A k \in 1..Len(T) : T[k] = IF k = Len(S) + 1 THEN r ELSE S[k]
  PROVE  /\ \A n \in Nat, s \in Nat, p \in 0..Len(S) :
              Block(S, n, p, s) =>
                /\ r.n # n => Block(T, n, p, s)
                /\ r.n = n /\ r.i = s + 1 /\ p + s = Len(S) => Block(T, n, p, s + 1)
         /\ (\A k \in 1..Len(S) : S[k].n # r.n) /\ r.i = 1 => Block(T, r.n, Len(S), 1)
  <1>1. /\ Len(S) \in Nat /\ Len(T) \in Nat /\ Len(S) + 1 \in 1..Len(T) /\ T[Len(S) + 1] = r
        /\ \A k \in 1..Len(S) : k \in 1..Len(T) /\ T[k] = S[k]
        /\ \A k \in 1..Len(T) : k \in 1..Len(S) \/ k = Len(S) + 1
    OBVIOUS
  <1>2. ASSUME NEW n \in Nat, NEW s \in Nat, NEW p \in 0..Len(S), Block(S, n, p, s), r.n # n
        PROVE  Block(T, n, p, s)
    <2>1. p + s <= Len(S) /\ \A i \in 1..s : p + i \in 1..Len(S)
      BY <1>1, <1>2 DEF Block
    <2>2. p + s <= Len(T) /\ \A i \in 1..s : T[p + i].i = i
      BY <1>1, <1>2, <2>1 DEF Block
    <2>3. ASSUME NEW k \in 1..Len(T) PROVE T[k].n = n <=> k \in p+1..p+s
      BY <1>1, <1>2, <2>1 DEF Block
    <2> QED BY <2>2, <2>3 DEF Block
  <1>3. ASSUME NEW n \in Nat, NEW s \in Nat, NEW p \in 0..Len(S), Block(S, n, p, s),
               r.n = n, r.i = s + 1, p + s = Len(S)
        PROVE  Block(T, n, p, s + 1)
    <2>1. ASSUME NEW k \in 1..Len(T) PROVE T[k].n = n <=> k \in p+1..p+(s+1)
      <3>1. CASE k \in 1..Len(S)
        <4>1. T[k].n = n <=> k \in p+1..p+s
          BY <1>1, <1>3, <3>1 DEF Block
        <4> QED BY <1>1, <1>3, <3>1, <4>1
      <3>2. CASE k = Len(S) + 1
        BY <1>1, <1>3, <3>2
      <3> QED BY <1>1, <3>1, <3>2
    <2>2. ASSUME NEW i \in 1..s+1 PROVE T[p + i].i = i
      <3>1. CASE i \in 1..s
        <4>1. p + i \in 1..Len(S)
          BY <1>1, <1>3, <3>1
        <4> QED BY <1>1, <1>3, <3>1, <4>1 DEF Block
      <3>2. CASE i = s + 1
        BY <1>1, <1>3, <3>2
      <3> QED BY <3>1, <3>2
    <2>3. p + (s + 1) <= Len(T)
      BY <1>1, <1>3
    <2> QED BY <2>1, <2>2, <2>3 DEF Block
  <1>4. ASSUME \A k \in 1..Len(S) : S[k].n # r.n, r.i = 1
        PROVE  Block(T, r.n, Len(S), 1)
    <2>1. \A k \in 1..Len(T) : T[k].n = r.n <=> k \in Len(S)+1..Len(S)+1
      BY <1>1, <1>4
    <2>2. \A i \in 1..1 : T[Len(S) + i].i = i
      BY <1>1, <1>4
    <2> QED BY <1>1, <2>1, <2>2 DEF Block
  <1> QED BY <1>2, <1>3, <1>4

LEMMA SizeTyped ==
  ASSUME NEW q \in Seq([method : Method, size : Sizes])
  PROVE  \A n \in 1..Len(q) : q[n].size \in Nat /\ q[n].size > 1
  <1> SUFFICES ASSUME NEW n \in 1..Len(q) PROVE q[n].size \in Nat /\ q[n].size > 1
    OBVIOUS
  <1>1. q[n] \in [method : Method, size : Sizes]
    BY Element
  <1>2. q[n].size \in Nat \ {0, 1}
    BY <1>1, RequestAssumption
  <1> QED BY <1>2

LEMMA LostClient == RtspInv /\ LostInv /\ ClientLines => LostInv'
  <1> SUFFICES ASSUME RtspInv, LostInv, ClientLines PROVE LostInv'
    OBVIOUS
  <1> DEFINE w == waiting
             v == waiting'
             m == Len(asked)
  <1>1. /\ w \in Seq(Line) /\ v = Append(w, newLine) /\ newLine \in Line
        /\ open /\ UNCHANGED <<open, streaming, buffer, handled>> /\ typed \in Nat /\ m \in Nat
        /\ asked' \in Seq([method : Method, size : Sizes]) /\ asked' # <<>> /\ typed' \in Nat \ {0}
        /\ \/ unfinished /\ asked' = asked /\ typed' = typed + 1 /\ typed' # 1
           \/ /\ ~unfinished /\ typed' = 1 /\ Len(asked') = m + 1
              /\ \A n \in 1..m : asked'[n] = asked[n]
        /\ newLine.n = Len(asked') /\ newLine.i = typed' /\ newLine.size = asked'[Len(asked')].size
    BY ClientSends
  <1>2. asked \in Seq([method : Method, size : Sizes]) /\ (asked # <<>> => typed > 0) /\ (asked # <<>> <=> m > 0)
        /\ (asked # <<>> => typed <= asked[m].size)
        /\ \A n \in 1..m : asked[n].size \in Nat
    <2>1. asked \in Seq([method : Method, size : Sizes]) /\ (asked # <<>> => typed > 0)
      BY DEF RtspInv, AskedInv, TypeOK
    <2>2. asked # <<>> => typed <= asked[m].size
      BY DEF LostInv, LastInv
    <2>3. \A n \in 1..m : asked[n].size \in Nat
      BY <2>1, SizeTyped
    <2>4. asked # <<>> <=> m > 0
      BY <2>1
    <2> QED BY <2>1, <2>2, <2>3, <2>4
  <1>3. /\ v \in Seq(Line) /\ Len(w) \in Nat /\ Len(v) = Len(w) + 1
        /\ \A k \in 1..Len(v) : v[k] = IF k = Len(w) + 1 THEN newLine ELSE w[k]
    BY <1>1
  <1>4. ~streaming =>
          /\ w # <<>> => w[Len(w)].n = m /\ w[Len(w)].i = typed
          /\ \A k \in 1..Len(w) :
               /\ w[k].n \in 1..m
               /\ w[k].size = asked[w[k].n].size
               /\ k > 1 /\ w[k].i = 1 => isEnd(w[k - 1])
    <2>1. ASSUME NEW k \in 1..Len(w), ~streaming PROVE w[k].n \in 1..m
      <3>1. w[k].n \in Nat \ {0}
        BY <1>1, LineTyped
      <3>2. w[k].n <= m
        BY <1>1, <2>1 DEF RtspInv, OrderInv, Ordered
      <3> QED BY <1>1, <3>1, <3>2
    <2> QED BY <1>1, <2>1 DEF LostInv, LastInv
  <1>5. asked'[Len(asked')].size \in Nat /\ asked'[Len(asked')].size > 1
    <2>1. Len(asked') \in 1..Len(asked')
      BY <1>1
    <2> QED BY <1>1, <2>1, SizeTyped
  <1> HIDE DEF w, v
  <1>6. \/ unfinished /\ Len(asked') = m /\ m > 0 /\ typed < asked[m].size
        \/ ~unfinished /\ Len(asked') = m + 1 /\ (m > 0 => typed = asked[m].size)
    <2>1. m > 0 => m \in 1..m
      BY <1>1
    <2> QED BY <1>1, <1>2, <2>1 DEF unfinished
  <1>7. \A n \in 1..m : asked'[n] = asked[n]
    BY <1>1
  <1>8. LastInv'
    <2>1. typed' <= asked'[Len(asked')].size
      <3>1. m > 0 => m \in 1..m
        BY <1>1
      <3> QED BY <1>1, <1>2, <1>5, <1>6, <3>1
    <2>2. ASSUME ~streaming, NEW k \in 1..Len(v)
          PROVE  /\ v[k].size = asked'[v[k].n].size
                 /\ k > 1 /\ v[k].i = 1 => isEnd(v[k - 1])
      <3>1. CASE k = Len(w) + 1
        <4>1. v[k] = newLine
          BY <1>3, <3>1
        <4>2. ASSUME k > 1, newLine.i = 1 PROVE isEnd(v[k - 1])
          <5>1. Len(w) \in 1..Len(w) /\ w # <<>> /\ v[k - 1] = w[Len(w)]
            BY <1>1, <1>3, <3>1, <4>2
          <5>2. w[Len(w)].n = m /\ w[Len(w)].i = typed /\ w[Len(w)].size = asked[m].size /\ m > 0
            BY <1>4, <2>2, <5>1
          <5>3. typed = asked[m].size
            BY <1>1, <1>6, <4>2, <5>2
          <5> QED BY <5>1, <5>2, <5>3 DEF isEnd
        <4> QED BY <1>1, <4>1, <4>2
      <3>2. CASE k # Len(w) + 1
        <4>1. k \in 1..Len(w) /\ v[k] = w[k] /\ (k > 1 => v[k - 1] = w[k - 1])
          BY <1>3, <3>2
        <4> QED BY <1>4, <1>7, <2>2, <4>1
      <3> QED BY <3>1, <3>2
    <2>3. v # <<>> /\ v[Len(v)].n = Len(asked') /\ v[Len(v)].i = typed'
      BY <1>1, <1>3
    <2> QED BY <1>1, <2>1, <2>2, <2>3 DEF LastInv, v
  <1>9. FullInv'
    BY <1>1 DEF LostInv, FullInv
  <1>9b. /\ \A k \in Nat, s \in Nat, q \in 0..Len(w) :
               Block(w, k, q, s) =>
                 /\ newLine.n # k => Block(v, k, q, s)
                 /\ newLine.n = k /\ newLine.i = s + 1 /\ q + s = Len(w) => Block(v, k, q, s + 1)
         /\ (\A k \in 1..Len(w) : w[k].n # newLine.n) /\ newLine.i = 1 => Block(v, newLine.n, Len(w), 1)
    <2>1. /\ w \in Seq(Line) /\ v \in Seq(Line) /\ newLine \in Line /\ Len(v) = Len(w) + 1
          /\ \A k \in 1..Len(v) : v[k] = IF k = Len(w) + 1 THEN newLine ELSE w[k]
      BY <1>1, <1>3
    <2> QED BY <2>1, BlockGrows
  <1>10. ASSUME ~streaming, NEW n \in 1..Len(asked'), asked'[n].size <= BufferLimit
         PROVE  n \in handled \/ \E p \in 0..Len(v) : Block(v, n, p, sent(n)')
    <2>1. CASE n = m + 1
      <3>1. Len(asked') = m + 1 /\ newLine.n = n /\ newLine.i = 1 /\ sent(n)' = 1
        BY <1>1, <1>6, <2>1 DEF sent
      <3>2. \A k \in 1..Len(w) : w[k].n # newLine.n
        BY <1>1, <1>4, <1>10, <2>1, <3>1
      <3>3. Block(v, n, Len(w), 1)
        BY <1>9b, <3>1, <3>2
      <3> QED BY <1>3, <3>1, <3>3
    <2>2. CASE n # m + 1 /\ n \notin handled
      <3>1. n \in 1..m /\ asked'[n] = asked[n] /\ n \in Nat /\ asked[n].size \in Nat
        BY <1>1, <1>2, <1>6, <1>7, <2>2
      <3>2. PICK p \in 0..Len(w) : Block(w, n, p, sent(n))
        BY <1>1, <1>10, <2>2, <3>1 DEF LostInv, NoRequestLost, w
      <3>3. sent(n) \in Nat /\ p \in 0..Len(v)
        BY <1>1, <1>3, <3>1 DEF sent
      <3>4. CASE n = Len(asked')
        <4>1. /\ newLine.n = n /\ n = m /\ sent(n) = typed /\ sent(n)' = typed + 1
              /\ newLine.i = typed + 1 /\ typed > 0
          BY <1>1, <1>2, <1>6, <3>1, <3>4 DEF sent
        <4>2. p + typed <= Len(w) /\ (w # <<>> => Len(w) \in p+1..p+typed)
          <5>1. p + typed <= Len(w)
            BY <3>2, <4>1 DEF Block
          <5>2. ASSUME w # <<>> PROVE Len(w) \in p+1..p+typed
            <6>1. Len(w) \in 1..Len(w) /\ w[Len(w)].n = n
              BY <1>1, <1>3, <1>4, <1>10, <4>1, <5>2
            <6> QED BY <3>2, <4>1, <6>1 DEF Block
          <5> QED BY <5>1, <5>2
        <4>3. p + typed = Len(w)
          <5>1. w # <<>>
            BY <1>1, <1>3, <4>1, <4>2
          <5> QED BY <1>1, <1>3, <4>2, <5>1
        <4>4. Block(v, n, p, typed + 1)
          <5>1. /\ Block(w, n, p, typed) /\ typed \in Nat /\ n \in Nat
                /\ newLine.n = n /\ newLine.i = typed + 1 /\ p + typed = Len(w)
            BY <3>1, <3>2, <3>3, <4>1, <4>3
          <5> QED BY <1>9b, <5>1
        <4> QED BY <3>3, <4>1, <4>4
      <3>5. CASE n # Len(asked')
        <4>1. newLine.n # n /\ sent(n)' = sent(n)
          BY <1>1, <1>6, <3>1, <3>5 DEF sent
        <4>2. \A s \in Nat : Block(w, n, p, s) => Block(v, n, p, s)
          BY <1>9b, <3>1, <3>2, <4>1
        <4>3. Block(v, n, p, sent(n))
          BY <3>2, <3>3, <4>2
        <4> QED BY <3>3, <4>1, <4>3
      <3> QED BY <3>4, <3>5
    <2> QED BY <2>1, <2>2
  <1>11. NoRequestLost'
    BY <1>1, <1>10 DEF NoRequestLost, v
  <1> QED BY <1>8, <1>9, <1>11 DEF LostInv

(* Nothing is claimed of a connection that is closed or streams.            *)
LEMMA LostOther ==
  RtspInv /\ LostInv /\ (ClientLeaves \/ Accept \/ IdleTimeout \/ TaskStop \/ sendRTPPacket \/ TaskRtsp)
    => LostInv'
  <1> SUFFICES ASSUME RtspInv, LostInv,
                      ClientLeaves \/ Accept \/ IdleTimeout \/ TaskStop \/ sendRTPPacket \/ TaskRtsp
               PROVE  LostInv'
    OBVIOUS
  <1>1. CASE Accept
    <2>1. buffer' = <<>> /\ inbound' = <<>> /\ asked' = <<>> /\ ~streaming' /\ Len(<<>>) = 0
      BY <1>1 DEF Accept
    <2>2. waiting' = <<>>
      BY <2>1 DEF waiting
    <2> QED BY <2>1, <2>2 DEF LostInv, LastInv, FullInv, NoRequestLost
  <1>2. CASE ClientLeaves \/ IdleTimeout \/ TaskStop \/ sendRTPPacket \/ TaskRtsp
    <2>1. /\ UNCHANGED <<asked, typed>>
          /\ ~open' \/ streaming'
          /\ UNCHANGED buffer \/ buffer' = <<>>
      BY <1>2 DEF ClientLeaves, IdleTimeout, TaskStop, sendRTPPacket, TaskRtsp, Hangup, Continue, clientVars
    <2>2. FullInv'
      <3>1. CASE UNCHANGED buffer
        BY <3>1 DEF LostInv, FullInv
      <3>2. CASE buffer' = <<>>
        BY <3>2, EmptyTyped DEF FullInv
      <3> QED BY <2>1, <3>1, <3>2
    <2> QED BY <2>1, <2>2 DEF LostInv, LastInv, NoRequestLost
  <1> QED BY <1>1, <1>2

(* The lines a step takes hold no part of a request that stays unhandled    *)
(* and fits: an overflow takes a piece of one that does not.                *)
LEMMA LostParser == RtspInv /\ LostInv /\ processRTSP => LostInv'
  <1> SUFFICES ASSUME RtspInv, LostInv, processRTSP PROVE LostInv'
    OBVIOUS
  <1> DEFINE q == queue
             m == Len(asked)
             Fits(n) == asked[n].size <= BufferLimit /\ n \notin handled
  <1>1. /\ inbound \in Seq(Line) /\ buffer \in Seq(Line) /\ m \in Nat /\ BufferLimit \in Nat
        /\ open /\ ~streaming /\ Len(buffer) <= BufferLimit /\ Len(buffer) \in Nat /\ waiting = q
        /\ available \in 0..Len(inbound) /\ Len(buffer) + available <= BufferLimit
        /\ UNCHANGED <<open, asked, typed>> /\ inbound' = unread
    BY ParserReads
  <1>2. \/ buffer' = <<>> /\ available = 0 /\ Len(buffer) = BufferLimit /\ NotHandled
        \/ /\ buffer' = read /\ NotHandled
           /\ \A k \in 1..Len(read) : ~isEnd(read[k])
        \/ \E e \in 1..Len(read) :
             /\ isEnd(read[e]) /\ \A k \in 1..e-1 : ~isEnd(read[k])
             /\ buffer' = SubSeq(read, e + 1, Len(read)) /\ handleRTSPCommand(read[1])
    BY ParserReads
  <1>3. /\ read \in Seq(Line) /\ unread \in Seq(Line) /\ Len(read) = Len(buffer) + available
        /\ q \in Seq(Line) /\ read \o unread = q
        /\ Rest(q, unread, Len(read)) /\ Len(read) \in 0..Len(q)
        /\ \A k \in 1..Len(read) : read[k] = q[k]
        /\ \A d \in 0..Len(read) : SubSeq(read, d + 1, Len(read)) \o unread \in Seq(Line)
                                /\ Rest(q, SubSeq(read, d + 1, Len(read)) \o unread, d)
    BY ParserReads
  <1>4. /\ q # <<>> => q[Len(q)].n = m /\ q[Len(q)].i = typed
        /\ \A k \in 1..Len(q) : q[k].size = asked[q[k].n].size
        /\ \A k \in 1..Len(q) : k > 1 /\ q[k].i = 1 => isEnd(q[k - 1])
        /\ \A n \in 1..m : Fits(n) => \E p \in 0..Len(q) : Block(q, n, p, sent(n))
        /\ asked # <<>> => typed <= asked[m].size
    BY <1>1 DEF LostInv, LastInv, NoRequestLost
  <1>5. /\ asked \in Seq([method : Method, size : Sizes]) /\ typed \in Nat
        /\ asked # <<>> => typed > 0
    BY DEF RtspInv, TypeOK, AskedInv
  <1> HIDE DEF q
  <1>6. \A n \in 1..m : /\ asked[n].size \in Nat \ {0} /\ sent(n) \in Nat \ {0}
                        /\ (sent(n) = asked[n].size \/ (n = m /\ sent(n) = typed /\ typed < asked[n].size))
    <2>1. \A n \in 1..m : asked[n].size \in Nat /\ asked[n].size > 1
      BY <1>5, SizeTyped
    <2>2. ASSUME NEW n \in 1..m
          PROVE  /\ asked[n].size \in Nat \ {0} /\ sent(n) \in Nat \ {0}
                 /\ (sent(n) = asked[n].size \/ (n = m /\ sent(n) = typed /\ typed < asked[n].size))
      <3>1. asked # <<>>
        BY <2>2
      <3>2. asked[n].size \in Nat /\ asked[n].size > 1
        BY <2>1
      <3>3. CASE n = m
        BY <1>4, <1>5, <3>1, <3>2, <3>3 DEF sent
      <3>4. CASE n # m
        BY <3>2, <3>4 DEF sent
      <3> QED BY <3>3, <3>4
    <2> QED BY <2>2
  <1>7. ASSUME NEW n \in 1..m, NEW p \in 1..Len(q), Block(q, n, p, sent(n))
        PROVE  isEnd(q[p])
    <2>1. n \in Nat /\ sent(n) \in Nat \ {0}
      BY <1>6
    <2> QED BY <1>3, <1>4, <1>7, <2>1, BlockStart
  (* Each case drops d lines, none of a request that fits. *)
  <1>8. ASSUME available = 0, Len(buffer) = BufferLimit,
               NEW n \in 1..m, Fits(n), NEW p \in 0..Len(q), Block(q, n, p, sent(n))
        PROVE  p >= Len(read)
    <2>1. Len(read) = BufferLimit /\ Len(read) \in Nat /\ Len(read) <= Len(q) /\ Len(q) \in Nat
      BY <1>1, <1>3, <1>8
    <2>2. \A k \in 1..BufferLimit : ~isEnd(q[k])
      <3>1. ASSUME NEW k \in 1..BufferLimit PROVE ~isEnd(q[k])
        <4>1. k \in 1..Len(buffer) /\ q[k] = buffer[k]
          BY <1>1, <1>3, <1>8, <2>1, Joined DEF q, queue
        <4> QED BY <1>8, <4>1 DEF LostInv, FullInv
      <3> QED BY <3>1
    <2>3. SUFFICES ASSUME p < BufferLimit PROVE FALSE
      BY <2>1
    <2>4. p = 0
      <3>1. ASSUME p # 0 PROVE FALSE
        <4>1. p \in 1..Len(q) /\ p \in 1..BufferLimit
          BY <1>1, <2>3, <3>1
        <4> QED BY <1>7, <1>8, <2>2, <4>1
      <3> QED BY <3>1
    <2>5. asked[n].size \in Nat \ {0} /\ asked[n].size <= BufferLimit /\ sent(n) \in Nat \ {0}
      BY <1>6, <1>8
    <2>6. CASE sent(n) = asked[n].size
      <3>1. sent(n) \in 1..BufferLimit /\ sent(n) \in 1..Len(q) /\ sent(n) \in 0+1..0+sent(n) /\ sent(n) \in 1..sent(n)
        BY <2>1, <2>5, <2>6
      <3>2. q[sent(n)].n = n /\ q[0 + sent(n)].i = sent(n) /\ 0 + sent(n) = sent(n)
        BY <1>8, <2>4, <2>5, <3>1 DEF Block
      <3>3. isEnd(q[sent(n)])
        BY <1>4, <2>6, <3>1, <3>2 DEF isEnd
      <3> QED BY <2>2, <3>1, <3>3
    <2>7. CASE n = m /\ sent(n) = typed /\ typed < asked[n].size
      <3>1. q # <<>> /\ Len(q) \in 1..Len(q)
        BY <1>3, <2>1, <2>5
      <3>2. q[Len(q)].n = n
        BY <1>4, <2>7, <3>1
      <3>3. Len(q) \in 0+1..0+typed
        BY <1>8, <2>4, <2>7, <3>1, <3>2 DEF Block
      <3> QED BY <1>5, <2>1, <2>5, <2>7, <3>3
    <2> QED BY <1>6, <2>6, <2>7
  <1>9. ASSUME NEW e \in 1..Len(read), \A k \in 1..e-1 : ~isEnd(read[k]), handleRTSPCommand(read[1]),
               NEW n \in 1..m, Fits(n), NEW p \in 0..Len(q), Block(q, n, p, sent(n))
        PROVE  n \in handled' \/ p >= e
    <2>1. CASE p = 0
      <3>0. sent(n) \in Nat \ {0} /\ Len(read) \in 1..Len(q)
        BY <1>3, <1>6
      <3>1. /\ 1 \in 1..Len(q) /\ 1 \in 1..Len(read) /\ 1 \in 0+1..0+sent(n) /\ 1 \in 1..sent(n)
            /\ read[1] = q[1] /\ 0 + 1 = 1
        BY <1>3, <3>0
      <3>2. q[1].n = n /\ q[1].i = 1
        BY <1>9, <2>1, <3>1 DEF Block
      <3> QED BY <1>9, <3>1, <3>2 DEF handleRTSPCommand
    <2>2. CASE p # 0 /\ p < e
      <3>1. p \in 1..Len(q) /\ p \in 1..e-1 /\ p \in 1..Len(read)
        BY <1>3, <2>2
      <3> QED BY <1>3, <1>7, <1>9, <3>1
    <2> QED BY <1>3, <2>1, <2>2
  <1>10. ~streaming' =>
          \E d \in 0..Len(q), T \in Seq(Line) :
            /\ Rest(q, T, d) /\ waiting' = T
            /\ \A n \in 1..m, p \in 0..Len(q) :
                 Fits(n) /\ Block(q, n, p, sent(n)) => n \in handled' \/ p >= d
    <2> SUFFICES ASSUME ~streaming'
                 PROVE  \E d \in 0..Len(q), T \in Seq(Line) :
                          /\ Rest(q, T, d) /\ waiting' = T
                          /\ \A n \in 1..m, p \in 0..Len(q) :
                               Fits(n) /\ Block(q, n, p, sent(n)) => n \in handled' \/ p >= d
      OBVIOUS
    <2>1. CASE buffer' = <<>> /\ available = 0 /\ Len(buffer) = BufferLimit
      <3>1. waiting' = unread
        BY <1>1, <1>3, <2>1, EmptyTyped, Joined DEF waiting
      <3>2. \A n \in 1..m, p \in 0..Len(q) : Fits(n) /\ Block(q, n, p, sent(n)) => p >= Len(read)
        BY <1>8, <2>1
      <3> QED BY <1>3, <3>1, <3>2
    <2>2. CASE buffer' = read
      <3>1. waiting' = q
        BY <1>1, <1>3, <2>2 DEF waiting
      <3>2. Rest(q, q, 0) /\ 0 \in 0..Len(q)
        BY <1>3 DEF Rest
      <3>3. \A p \in 0..Len(q) : p >= 0
        OBVIOUS
      <3> QED BY <1>3, <3>1, <3>2, <3>3
    <2>3. ASSUME NEW e \in 1..Len(read), \A k \in 1..e-1 : ~isEnd(read[k]),
                 buffer' = SubSeq(read, e + 1, Len(read)), handleRTSPCommand(read[1])
          PROVE  \E d \in 0..Len(q), T \in Seq(Line) :
                   /\ Rest(q, T, d) /\ waiting' = T
                   /\ \A n \in 1..m, p \in 0..Len(q) :
                        Fits(n) /\ Block(q, n, p, sent(n)) => n \in handled' \/ p >= d
      <3>1. waiting' = SubSeq(read, e + 1, Len(read)) \o unread
        BY <1>1, <2>3 DEF waiting
      <3>2. e \in 0..Len(q) /\ e \in 0..Len(read)
        BY <1>3
      <3>3. \A n \in 1..m, p \in 0..Len(q) : Fits(n) /\ Block(q, n, p, sent(n)) => n \in handled' \/ p >= e
        BY <1>9, <2>3
      <3> QED BY <1>3, <3>1, <3>2, <3>3
    <2> QED BY <1>2, <2>1, <2>2, <2>3
  <1>11. LastInv'
    <2>1. asked' # <<>> => typed' <= asked'[Len(asked')].size
      BY <1>1, <1>4
    <2>2. ASSUME ~streaming'
          PROVE  /\ waiting' # <<>> => waiting'[Len(waiting')].n = m /\ waiting'[Len(waiting')].i = typed
                 /\ \A k \in 1..Len(waiting') : waiting'[k].size = asked[waiting'[k].n].size
                 /\ \A k \in 1..Len(waiting') : k > 1 /\ waiting'[k].i = 1 => isEnd(waiting'[k - 1])
      <3>1. PICK d \in 0..Len(q), T \in Seq(Line) : Rest(q, T, d) /\ waiting' = T
        BY <1>10, <2>2
      <3>2. /\ Len(T) \in Nat /\ Len(q) \in Nat /\ Len(T) + d = Len(q)
            /\ \A k \in 1..Len(T) : k + d \in 1..Len(q) /\ T[k] = q[k + d]
        <4>1. Len(q) \in Nat /\ d \in Nat /\ Len(T) \in Nat
          BY <1>3
        <4>2. Len(T) = Len(q) - d /\ \A k \in 1..Len(T) : T[k] = q[k + d]
          BY <3>1 DEF Rest
        <4>3. \A k \in 1..Len(T) : k + d \in 1..Len(q)
          BY <4>1, <4>2
        <4> QED BY <4>1, <4>2, <4>3
      <3>3. T # <<>> => T[Len(T)] = q[Len(q)] /\ q # <<>>
        <4>1. T # <<>> => Len(T) \in 1..Len(T)
          BY <3>1
        <4>2. T # <<>> => Len(q) \in 1..Len(q)
          BY <3>2, <4>1
        <4> QED BY <3>2, <4>1, <4>2
      <3>4. ASSUME NEW k \in 1..Len(T)
            PROVE  /\ T[k].size = asked[T[k].n].size
                   /\ k > 1 /\ T[k].i = 1 => isEnd(T[k - 1])
        <4>1. k + d \in 1..Len(q) /\ T[k] = q[k + d]
          BY <3>2
        <4>2. ASSUME k > 1, T[k].i = 1 PROVE isEnd(T[k - 1])
          <5>1. k - 1 \in 1..Len(T) /\ (k - 1) + d = (k + d) - 1 /\ k + d > 1
            BY <3>2, <4>2
          <5> QED BY <1>4, <3>2, <4>1, <4>2, <5>1
        <4> QED BY <1>4, <4>1, <4>2
      <3> QED BY <1>4, <3>1, <3>3, <3>4
    <2> QED BY <1>1, <2>1, <2>2 DEF LastInv
  <1>12. FullInv'
    <2>1. CASE buffer' = <<>>
      BY <2>1, EmptyTyped DEF FullInv
    <2>2. CASE buffer' = read /\ \A k \in 1..Len(read) : ~isEnd(read[k])
      BY <2>2 DEF FullInv
    <2>3. ASSUME NEW e \in 1..Len(read), buffer' = SubSeq(read, e + 1, Len(read)) PROVE FullInv'
      <3>1. Len(read) \in Nat /\ Len(read) <= BufferLimit /\ e \in 0..Len(read)
        BY <1>1, <1>3
      <3>2. Len(buffer') = Len(read) - e
        BY <1>3, <2>3, <3>1, SubTail DEF Rest
      <3> QED BY <1>1, <3>1, <3>2 DEF FullInv
    <2> QED BY <1>2, <2>1, <2>2, <2>3
  <1>13. NoRequestLost'
    <2> SUFFICES ASSUME ~streaming', NEW n \in 1..m, asked[n].size <= BufferLimit, n \notin handled'
                 PROVE  \E p \in 0..Len(waiting') : Block(waiting', n, p, sent(n))
      BY <1>1 DEF NoRequestLost, sent
    <2>1. PICK d \in 0..Len(q), T \in Seq(Line) :
            /\ Rest(q, T, d) /\ waiting' = T
            /\ \A i \in 1..m, p \in 0..Len(q) :
                 Fits(i) /\ Block(q, i, p, sent(i)) => i \in handled' \/ p >= d
      BY <1>10
    <2>2. handled \subseteq handled'
      BY <1>2 DEF NotHandled, handleRTSPCommand
    <2>3. PICK p \in 0..Len(q) : Block(q, n, p, sent(n))
      BY <1>4, <2>2
    <2>4. p \in d..Len(q) /\ n \in Nat /\ sent(n) \in Nat
      BY <1>6, <2>1, <2>2, <2>3
    <2>5. p - d \in 0..Len(T) /\ Block(T, n, p - d, sent(n))
      BY <1>3, <2>1, <2>3, <2>4, BlockMoves
    <2> QED BY <2>1, <2>5
  <1> QED BY <1>11, <1>12, <1>13 DEF LostInv

-----------------------------------------------------------------------------
(* The theorems. *)

(* Requests wait in order, from this connection, none of them answered, and *)
(* the numbers sent are those the client expects: the inductive invariant.  *)
THEOREM RtspCorrect == Spec => []RtspInv
  <1>1. Init => RtspInv
    <2> SUFFICES ASSUME Init PROVE RtspInv
      OBVIOUS
    <2>1. Len(<<>>) = 0 /\ <<>> \in Seq(Line) /\ <<>> \in Seq([method : Method, size : Sizes])
          /\ 0 \in 0..Numbers-1 /\ 0 \in 0..MaxFailures-1 /\ 0 <= BufferLimit /\ 0 <= MaxRequests
      BY LimitAssumption, RequestAssumption
    <2>2. TypeOK /\ AskedInv
      BY <2>1 DEF Init, TypeOK, AskedInv
    <2> QED BY <2>1, <2>2 DEF Init, RtspInv, OwnInv, OrderInv, NoMoreAnswers, Gapless
  <1>2. RtspInv /\ [Next]_vars => RtspInv'
    <2>1. RtspInv /\ UNCHANGED vars => RtspInv'
      <3> SUFFICES ASSUME RtspInv, UNCHANGED vars PROVE RtspInv'
        OBVIOUS
      <3>1. UNCHANGED <<conn, open, streaming, inbound, buffer, asked, typed, handled, answers,
                        rtpSequence, failures, expected, gap>>
        BY DEF vars, clientVars, streamVars
      <3>2. TypeOK' /\ AskedInv'
        BY <3>1 DEF RtspInv, TypeOK, AskedInv
      <3> QED BY <3>1, <3>2 DEF RtspInv, OwnInv, OrderInv, NoMoreAnswers, Gapless, waiting
    <2> QED BY <2>1, ClientLinesStep, ClosingStep, PacketStep, TaskRtspStep, ParserStep
            DEF Next, Core0, Core1
  <1> QED BY <1>1, <1>2, PTL DEF Spec

(* Every variable keeps its type; the parse buffer never holds more than    *)
(* fits it.                                                                 *)
THEOREM TypeCorrect == Spec => []TypeOK
  <1>1. RtspInv => TypeOK
    BY DEF RtspInv
  <1> QED BY <1>1, RtspCorrect, PTL

(* processRTSP parses nothing a client before this one sent.                *)
THEOREM NothingForeign == Spec => []NoForeignRequest
  <1>1. RtspInv => NoForeignRequest
    BY DEF RtspInv, OwnInv, NoForeignRequest
  <1> QED BY <1>1, RtspCorrect, PTL

(* Core 0 and Core 1 together answer each request at most once.             *)
THEOREM AnsweredOnce == Spec => []NoMoreAnswers
  <1>1. RtspInv => NoMoreAnswers
    BY DEF RtspInv
  <1> QED BY <1>1, RtspCorrect, PTL

(* However input is cut and joined, and though processRTSP empties a full   *)
(* buffer, a request that fits one is handled, or all of it waits.          *)
THEOREM NothingLost == Spec => []NoRequestLost
  <1>1. Init => LostInv
    <2>1. Len(<<>>) = 0
      OBVIOUS
    <2> QED BY <2>1 DEF Init, LostInv, LastInv, FullInv, NoRequestLost
  <1>2. RtspInv /\ LostInv /\ [Next]_vars => LostInv'
    <2>1. LostInv /\ UNCHANGED vars => LostInv'
      <3> SUFFICES ASSUME LostInv, UNCHANGED vars PROVE LostInv'
        OBVIOUS
      <3>1. UNCHANGED <<open, streaming, inbound, buffer, asked, typed, handled>>
        BY DEF vars, clientVars
      <3>2. waiting' = waiting /\ \A n : sent(n)' = sent(n)
        BY <3>1 DEF waiting, sent
      <3> QED BY <3>1, <3>2 DEF LostInv, LastInv, FullInv, NoRequestLost
    <2> QED BY <2>1, LostClient, LostOther, LostParser DEF Next, Core0, Core1
  <1>3. LostInv => NoRequestLost
    BY DEF LostInv
  <1> QED BY <1>1, <1>2, <1>3, RtspCorrect, PTL DEF Spec

(* sendRTPPacket numbers what went out without a gap, in every stream.      *)
THEOREM NumbersGapless == Spec => []Gapless
  <1>1. RtspInv => Gapless
    BY DEF RtspInv
  <1> QED BY <1>1, RtspCorrect, PTL
=============================================================================
