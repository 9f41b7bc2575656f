---------------------------- MODULE JsonServer_proofs --------------------------
(***************************************************************************)
(* The JSON server keeps its streams and its answers in order for every    *)
(* number of clients, requests and connections, however much is unread and *)
(* however the requests are cut to pieces: its streams in any case, the    *)
(* answers of a websocket as long as every read found exactly one frame.   *)
(*                                                                         *)
(* The inductive invariant says of every connection                        *)
(*   that what the client waits for is accounted for: each request is      *)
(*   asked at least as often as it is answered in the socket or still to   *)
(*   be handled in the buffer and on the wire, and exactly as often unless *)
(*   the connection is a websocket of which a read was no single frame     *)
(*   (Accounted);                                                          *)
(*   that every update of a stream in the socket, and every stream that is *)
(*   on, is one that the client will still want when it reads it: after an *)
(*   answer that stops a stream there is one that starts it (Good);        *)
(*   and what may lie in the buffer and on the wire (Arriving).            *)
(***************************************************************************)
EXTENDS JsonServer, FiniteSetTheorems, SequenceTheorems, WellFoundedInduction, TLAPS

AllRequests == Requests \cup {UpgradeRequest} \cup Misreadings

PieceSet == [request : AllRequests, last : BOOLEAN]

MessageSet ==
    [kind : {"reply"}, to : AllRequests, success : BOOLEAN]
    \cup [kind : {"handshake", "pong", "error"} \cup Streams]

(* The types.                                                              *)
IsConn(x) ==
    x \in [open : {TRUE}, webSocket : BOOLEAN, buffer : Seq(PieceSet), forwarder : {x.forwarder},
           leds : BOOLEAN, images : Nat, ready : BOOLEAN, logs : Nat, logging : BOOLEAN,
           out : Seq(MessageSet)]

IsServer(s) ==
    /\ s \in [core : {s.core}, disk : {s.disk}, effects : {s.effects}, slave : {s.slave},
              conn : {s.conn}]
    /\ s.conn = [c \in Clients |-> s.conn[c]]
    /\ \A c \in Clients : s.conn[c] = Closed \/ IsConn(s.conn[c])

(* How many elements of the sequence s are in T.                           *)
CountIn(s, T) == Cardinality({i \in DOMAIN s : s[i] \in T})

(* The pieces that end the request q, and the messages that answer it.     *)
Ends(q) == {Piece(q, TRUE)}

IsAnswer(m, q) == \/ m.kind = "reply" /\ m.to = q
                  \/ m.kind = "handshake" /\ q = UpgradeRequest
Answers(q) == {m \in MessageSet : IsAnswer(m, q)}

(* out is what the client has to read, P what the server has to handle, A  *)
(* what the client waits for. An unknown adjustment is never answered, a   *)
(* program that has stopped answers nothing, and a websocket may lose      *)
(* requests: exact says that neither is the case.                          *)
Accounted(out, P, A, exact) ==
    \A q \in AllRequests : ~IsFrame(q) =>
        /\ CountIn(out, Answers(q)) + CountIn(P, Ends(q)) <= CountIn(A, {q})
        /\ exact /\ ~Unanswered(q) =>
              CountIn(out, Answers(q)) + CountIn(P, Ends(q)) = CountIn(A, {q})

(* W is what the client has asked for.                                     *)
Wanted(A, W) == \A i \in DOMAIN A : Starts(A[i]) \subseteq W /\ ~IsFrame(A[i])

(* The streams of which StreamsStop speaks.                                *)
Told == {w \in Streams : w = "log" => LogsDebug}
StartReply(m, w) == m.kind = "reply" /\ w \in Starts(m.to)
StopReply(m, w) == m.kind = "reply" /\ w \in Stops(m.to)

(* When the client has read the messages of out before the n-th one, it    *)
(* still wants the stream w.                                               *)
Covered(out, n, w, W) ==
    /\ w \in W
    /\ \A j \in DOMAIN out : j < n /\ StopReply(out[j], w) =>
           \E k \in DOMAIN out : k > j /\ StartReply(out[k], w)

(* The stream w of the connection x is on.                                 *)
On(x, w) ==
    \/ w = "leds" /\ x.leds
    \/ w = "images" /\ x.images > 0
    \/ w = "log" /\ x.logs > 0

Good(x, W) ==
    /\ LogsDebug /\ x.logs > 0 => x.logging
    /\ \A n \in DOMAIN x.out : x.out[n].kind \in Told => Covered(x.out, n, x.out[n].kind, W)
    /\ \A w \in Told : On(x, w) => Covered(x.out, Len(x.out) + 1, w, W)

(* The last part of anything on the wire is behind its first part.         *)
InPairs(wi) ==
    \A i \in DOMAIN wi : i > 1 /\ wi[i].last => wi[i - 1] = Piece(wi[i].request, FALSE)

(* A handshake comes alone; between two events no buffer holds the end of  *)
(* a request, and that of a websocket is empty or starts with a frame that *)
(* is never taken out of it.                                               *)
Arriving(x, wi, A) ==
    /\ InPairs(wi)
    /\ \A i \in DOMAIN wi : wi[i].request \in Requests \cup {UpgradeRequest}
    /\ (\E i \in DOMAIN wi : wi[i].request = UpgradeRequest) =>
           /\ ~x.webSocket /\ x.buffer = <<>>
           /\ wi = <<Piece(UpgradeRequest, TRUE)>>
           /\ A = <<UpgradeRequest>>
    /\ \A i \in DOMAIN x.buffer :
           /\ ~x.buffer[i].last
           /\ ~x.webSocket => x.buffer[i].request \in Requests
    /\ x.webSocket /\ x.buffer # <<>> => x.buffer[1].request.command \in {"ping", "other"}

ConnInv(x, wi, A, W, exact) ==
    /\ Wanted(A, W)
    /\ Accounted(x.out, x.buffer \o wi, A, exact)
    /\ Good(x, W)
    /\ Arriving(x, wi, A)

Types ==
    /\ IsServer(server)
    /\ wire \in [Clients -> Seq(PieceSet)]
    /\ asked \in [Clients -> Seq(AllRequests)]
    /\ wants \in [Clients -> SUBSET Streams]
    /\ whole \in [Clients -> BOOLEAN]

Exact(c) == Running /\ whole[c]

(* The inductive invariant.                                                *)
IInv ==
    /\ Types
    /\ \A c \in Clients : IsOpen(server, c) =>
           ConnInv(server.conn[c], wire[c], asked[c], wants[c], Exact(c))
-----------------------------------------------------------------------------
(* Counting in sequences.                                                  *)
LEMMA CountIsNat ==
  ASSUME NEW S, NEW s \in Seq(S), NEW T
  PROVE  IsFiniteSet({i \in DOMAIN s : s[i] \in T}) /\ CountIn(s, T) \in Nat
<1>1. IsFiniteSet(1 .. Len(s))
  BY FS_Interval
<1>2. {i \in DOMAIN s : s[i] \in T} \in SUBSET (1 .. Len(s))
  OBVIOUS
<1> QED
  BY <1>1, <1>2, FS_Subset, FS_CardinalityType DEF CountIn

LEMMA CountConcat ==
  ASSUME NEW S, NEW s \in Seq(S), NEW t \in Seq(S), NEW T
  PROVE  CountIn(s \o t, T) = CountIn(s, T) + CountIn(t, T)
<1> DEFINE A == {i \in DOMAIN s : s[i] \in T}
           B == {i \in DOMAIN t : t[i] \in T}
           C == {i \in DOMAIN (s \o t) : (s \o t)[i] \in T}
           D == {Len(s) + i : i \in B}
           f == [i \in B |-> Len(s) + i]
<1>1. IsFiniteSet(A) /\ IsFiniteSet(B)
  BY CountIsNat
<1>2. f \in Bijection(B, D)
  <2>1. f \in [B -> D] /\ \A x, y \in B : f[x] = f[y] => x = y
    OBVIOUS
  <2>2. \A d \in D : \E b \in B : f[b] = d
    OBVIOUS
  <2> QED
    BY <2>1, <2>2 DEF Bijection, Injection, Surjection, IsInjective
<1>3. IsFiniteSet(D) /\ Cardinality(D) = Cardinality(B)
  BY <1>1, <1>2, FS_Bijection DEF ExistsBijection
<1>4. C = A \cup D /\ A \cap D = {}
  <2>1. s \o t \in Seq(S) /\ Len(s \o t) = Len(s) + Len(t)
    OBVIOUS
  <2>2. ASSUME NEW i PROVE i \in C <=> i \in A \/ i \in D
    <3>1. CASE i \in 1 .. Len(s)
      BY <3>1, <2>1
    <3>2. CASE i \in Len(s) + 1 .. Len(s) + Len(t)
      <4>1. (s \o t)[i] = t[i - Len(s)] /\ i - Len(s) \in DOMAIN t
        BY <3>2
      <4>2. i \notin A
        BY <3>2
      <4>3. i \in C <=> i - Len(s) \in B
        BY <4>1, <2>1, <3>2
      <4>4. i \in D <=> i - Len(s) \in B
        <5>1. \A b \in B : b \in Int
          OBVIOUS
        <5> QED
          BY <5>1, <3>2
      <4> QED
        BY <4>2, <4>3, <4>4
    <3>3. CASE i \notin 1 .. Len(s) + Len(t)
      <4>1. i \notin A /\ i \notin C
        BY <3>3, <2>1
      <4>2. \A b \in B : Len(s) + b \in 1 .. Len(s) + Len(t)
        OBVIOUS
      <4> QED
        BY <4>1, <4>2, <3>3
    <3> QED
      BY <3>1, <3>2, <3>3
  <2> QED
    BY <2>2
<1>5. CountIn(s \o t, T) = Cardinality(C) /\ CountIn(s, T) = Cardinality(A)
      /\ CountIn(t, T) = Cardinality(B)
  BY DEF CountIn
<1> HIDE DEF A, B, C, D, f
<1>6. Cardinality(A \cup D) = Cardinality(A) + Cardinality(D) - Cardinality(A \cap D)
  BY <1>1, <1>3, FS_Union
<1>7. Cardinality(A) \in Nat /\ Cardinality(B) \in Nat
  BY <1>1, FS_CardinalityType
<1>8. Cardinality(A \cap D) = 0 /\ Cardinality(C) = Cardinality(A \cup D)
  BY <1>4, FS_EmptySet
<1> QED
  BY <1>3, <1>5, <1>6, <1>7, <1>8

LEMMA ConcatElements ==
  ASSUME NEW S, NEW s \in Seq(S), NEW t \in Seq(S), NEW i \in DOMAIN (s \o t)
  PROVE  \/ \E j \in DOMAIN s : (s \o t)[i] = s[j]
         \/ \E j \in DOMAIN t : (s \o t)[i] = t[j]
<1>1. CASE i <= Len(s)
  BY <1>1
<1>2. CASE i > Len(s)
  <2>1. (s \o t)[i] = t[i - Len(s)] /\ i - Len(s) \in DOMAIN t
    BY <1>2
  <2> QED
    BY <2>1
<1> QED
  BY <1>1, <1>2

LEMMA CountEmpty ==
  ASSUME NEW T
  PROVE  CountIn(<<>>, T) = 0
<1>1. {i \in DOMAIN <<>> : <<>>[i] \in T} = {}
  OBVIOUS
<1> QED
  BY <1>1, FS_EmptySet DEF CountIn

LEMMA CountOne ==
  ASSUME NEW e, NEW T
  PROVE  CountIn(<<e>>, T) = IF e \in T THEN 1 ELSE 0
<1>1. {i \in DOMAIN <<e>> : <<e>>[i] \in T} = IF e \in T THEN {1} ELSE {}
  OBVIOUS
<1> QED
  BY <1>1, FS_EmptySet, FS_Singleton DEF CountIn

LEMMA CountNone ==
  ASSUME NEW S, NEW s \in Seq(S), NEW T, \A i \in DOMAIN s : s[i] \notin T
  PROVE  CountIn(s, T) = 0
<1>1. {i \in DOMAIN s : s[i] \in T} = {}
  OBVIOUS
<1> QED
  BY <1>1, FS_EmptySet DEF CountIn

LEMMA CountPositive ==
  ASSUME NEW S, NEW s \in Seq(S), NEW T
  PROVE  CountIn(s, T) > 0 <=> \E i \in DOMAIN s : s[i] \in T
<1> DEFINE C == {i \in DOMAIN s : s[i] \in T}
<1>1. IsFiniteSet(C) /\ CountIn(s, T) = Cardinality(C) /\ CountIn(s, T) \in Nat
  BY CountIsNat DEF CountIn
<1>2. Cardinality(C) = 0 <=> C = {}
  BY <1>1, FS_EmptySet
<1> QED
  BY <1>1, <1>2

LEMMA CountAppend ==
  ASSUME NEW S, NEW s \in Seq(S), NEW e \in S, NEW T
  PROVE  CountIn(Append(s, e), T) = CountIn(s, T) + (IF e \in T THEN 1 ELSE 0)
<1>1. Append(s, e) = s \o <<e>> /\ <<e>> \in Seq(S)
  OBVIOUS
<1>2. CountIn(s \o <<e>>, T) = CountIn(s, T) + CountIn(<<e>>, T)
  BY <1>1, CountConcat
<1> QED
  BY <1>1, <1>2, CountOne

LEMMA CountTail ==
  ASSUME NEW S, NEW s \in Seq(S), s # <<>>, NEW T
  PROVE  CountIn(s, T) = CountIn(Tail(s), T) + (IF Head(s) \in T THEN 1 ELSE 0)
<1>1. s = <<Head(s)>> \o Tail(s) /\ <<Head(s)>> \in Seq(S) /\ Tail(s) \in Seq(S)
  BY HeadTailProperties
<1>2. CountIn(s, T) = CountIn(<<Head(s)>>, T) + CountIn(Tail(s), T)
  <2> DEFINE head == <<Head(s)>>
             tail == Tail(s)
  <2>1. s = head \o tail /\ head \in Seq(S) /\ tail \in Seq(S)
    BY <1>1
  <2> HIDE DEF head, tail
  <2>2. CountIn(head \o tail, T) = CountIn(head, T) + CountIn(tail, T)
    BY <2>1, CountConcat
  <2> QED
    BY <2>1, <2>2 DEF head, tail
<1>3. CountIn(Tail(s), T) \in Nat
  BY <1>1, CountIsNat
<1> QED
  BY <1>2, <1>3, CountOne

(* A set of numbers has a least one.                                       *)
LessThan == {ss \in Nat \X Nat : ss[1] < ss[2]}

LEMMA LeastOf ==
  ASSUME NEW T \in SUBSET Nat, T # {}
  PROVE  \E x \in T : \A y \in T : x <= y
<1>1. IsWellFoundedOn(LessThan, Nat)
  BY NatLessThanWellFounded, Zenon DEF OpToRel, LessThan
<1>2. \E x \in T : \A y \in T : <<y, x>> \notin LessThan
  BY <1>1, WFMin
<1>3. ASSUME NEW x \in Nat, NEW y \in Nat, <<y, x>> \notin LessThan
      PROVE  x <= y
  BY <1>3 DEF LessThan
<1> QED
  BY <1>2, <1>3

(* Induction: a set that has 0, and with each number the next one, has all *)
(* numbers.                                                                *)
LEMMA AllNumbers ==
  ASSUME NEW T, 0 \in T, \A n \in Nat : n \in T => n + 1 \in T
  PROVE  Nat \subseteq T
<1> SUFFICES ASSUME Nat \ T # {} PROVE FALSE
  OBVIOUS
<1>1. PICK x \in Nat \ T : \A y \in Nat \ T : x <= y
  BY LeastOf
<1>2. x # 0 /\ x - 1 \in Nat /\ x - 1 \in T
  BY <1>1
<1> QED
  BY <1>1, <1>2

LEMMA GreatestOf ==
  ASSUME NEW n \in Nat, NEW T \in SUBSET (0 .. n), T # {}
  PROVE  \E x \in T : \A y \in T : y <= x
<1> DEFINE D == {n - y : y \in T}
<1>1. D \in SUBSET Nat /\ D # {}
  <2>1. \A y \in T : n - y \in Nat
    OBVIOUS
  <2>2. PICK y \in T : TRUE
    OBVIOUS
  <2>3. n - y \in D
    OBVIOUS
  <2> QED
    BY <2>1, <2>3
<1>2. PICK d \in D : \A y \in D : d <= y
  BY <1>1, LeastOf
<1>3. PICK x \in T : d = n - x
  BY <1>2
<1>4. \A y \in T : n - x <= n - y
  BY <1>2, <1>3
<1>5. \A y \in T : y \in 0 .. n
  OBVIOUS
<1> QED
  BY <1>4, <1>5

(* A request is removed from those that wait for an answer.                *)
LEMMA CountRemoved ==
  ASSUME NEW S, NEW s \in Seq(S), NEW e \in S
  PROVE  /\ RemoveFirst(s, e) \in Seq(S)
         /\ CountIn(s, {e}) = 0 => RemoveFirst(s, e) = s
         /\ \A i \in DOMAIN RemoveFirst(s, e) : \E j \in DOMAIN s : s[j] = RemoveFirst(s, e)[i]
         /\ \A T : CountIn(RemoveFirst(s, e), T) =
                CountIn(s, T) - (IF e \in T /\ CountIn(s, {e}) > 0 THEN 1 ELSE 0)
<1> DEFINE I == {i \in 1 .. Len(s) : s[i] = e}
<1>1. CountIn(s, {e}) > 0 <=> I # {}
  BY CountPositive
<1>2. CASE I = {}
  <2>1. RemoveFirst(s, e) = s
    BY <1>2 DEF RemoveFirst
  <2>2. \A T : CountIn(s, T) \in Nat
    BY CountIsNat
  <2> QED
    BY <1>1, <1>2, <2>1, <2>2
<1>3. CASE I # {}
  <2>1. PICK k \in I : \A j \in I : k <= j
    <3>1. I \in SUBSET Nat
      OBVIOUS
    <3> QED
      BY <3>1, <1>3, LeastOf
  <2>2. Min(I) = k
    BY <2>1 DEF Min
  <2>3. SelectInSeq(s, LAMBDA v : v = e) = k
    BY <1>3, <2>2 DEF SelectInSeq
  <2> DEFINE before == SubSeq(s, 1, k - 1)
             after == SubSeq(s, k + 1, Len(s))
  <2>4. RemoveFirst(s, e) = before \o after
    BY <1>3, <2>3 DEF RemoveFirst, RemoveAt
  <2>5. before \in Seq(S) /\ after \in Seq(S) /\ <<e>> \in Seq(S) /\ before \o after \in Seq(S)
    OBVIOUS
  <2>6. s = before \o (<<e>> \o after)
    <3>1. before \o <<e>> = SubSeq(s, 1, k)
      <4>1. SubSeq(s, 1, k) = SubSeq(s, 1, k - 1) \o <<s[k]>>
        BY SubSeqRecursiveSecond
      <4> QED
        BY <4>1
    <3>2. s = SubSeq(s, 1, k) \o after
      BY ConcatAdjacentSubSeq, SubSeqFull
    <3>3. (before \o <<e>>) \o after = before \o (<<e>> \o after)
      <4> HIDE DEF before, after
      <4> QED
        BY <2>5, ConcatAssociative
    <3> QED
      BY <3>1, <3>2, <3>3
  <2>7. ASSUME NEW T
        PROVE  CountIn(RemoveFirst(s, e), T) = CountIn(s, T) - (IF e \in T THEN 1 ELSE 0)
    <3> HIDE DEF before, after
    <3>0. <<e>> \o after \in Seq(S)
      BY <2>5
    <3>1. CountIn(s, T) = CountIn(before, T) + CountIn(<<e>> \o after, T)
      <4> DEFINE rest == <<e>> \o after
      <4>1. rest \in Seq(S) /\ s = before \o rest
        BY <2>6, <3>0
      <4> HIDE DEF rest
      <4>2. CountIn(before \o rest, T) = CountIn(before, T) + CountIn(rest, T)
        BY <2>5, <4>1, CountConcat
      <4> QED
        BY <4>1, <4>2 DEF rest
    <3>2. CountIn(<<e>> \o after, T) = CountIn(<<e>>, T) + CountIn(after, T)
      BY <2>5, CountConcat
    <3>3. CountIn(before \o after, T) = CountIn(before, T) + CountIn(after, T)
      BY <2>5, CountConcat
    <3>4. CountIn(before, T) \in Nat /\ CountIn(after, T) \in Nat
      BY <2>5, CountIsNat
    <3> QED
      BY <2>4, <3>1, <3>2, <3>3, <3>4, CountOne
  <2>8. ASSUME NEW i \in DOMAIN (before \o after)
        PROVE  \E j \in DOMAIN s : s[j] = (before \o after)[i]
    <3>1. Len(before) = k - 1 /\ Len(after) = Len(s) - k
      OBVIOUS
    <3>2. /\ i \in 1 .. Len(s) - 1
          /\ (before \o after)[i] = IF i <= k - 1 THEN before[i] ELSE after[i - k + 1]
      <4> HIDE DEF before, after
      <4>0. k \in Int /\ Len(s) \in Int
        OBVIOUS
      <4>1. Len(before \o after) = Len(s) - 1
        <5>1. Len(before \o after) = Len(before) + Len(after)
          BY <2>5, ConcatProperties
        <5> QED
          BY <3>1, <4>0, <5>1
      <4>2. i \in 1 .. Len(s) - 1
        BY <2>5, <4>1
      <4>3. i \in 1 .. Len(before) + Len(after)
        BY <4>2, <3>1
      <4>4. (before \o after)[i] = IF i <= Len(before) THEN before[i] ELSE after[i - Len(before)]
        BY <2>5, <4>3, ConcatProperties
      <4>5. i - (k - 1) = i - k + 1
        BY <4>2
      <4> QED
        BY <3>1, <4>2, <4>4, <4>5
    <3>3. i \in 1 .. Len(s) - 1
      BY <3>2
    <3>4. CASE i <= k - 1
      BY <3>2, <3>3, <3>4
    <3>5. CASE i > k - 1
      <4>1. after[i - k + 1] = s[i + 1] /\ i + 1 \in DOMAIN s
        BY <3>3, <3>5
      <4>2. ~(i <= k - 1)
        BY <3>3, <3>5
      <4> HIDE DEF before, after
      <4>3. (before \o after)[i] = after[i - k + 1]
        BY <3>2, <4>2
      <4> QED
        BY <4>1, <4>3
    <3> QED
      BY <3>3, <3>4, <3>5
  <2> HIDE DEF before, after
  <2>9. \A i \in DOMAIN RemoveFirst(s, e) : \E j \in DOMAIN s : s[j] = RemoveFirst(s, e)[i]
    BY <2>4, <2>8
  <2> QED
    <3>1. CountIn(s, {e}) > 0 /\ CountIn(s, {e}) # 0
      BY <1>1, <1>3
    <3> QED
      BY <2>4, <2>5, <2>7, <2>9, <3>1
<1> QED
  BY <1>2, <1>3

-----------------------------------------------------------------------------
(* The streams of one connection.                                          *)
LEMMA StartIsNoStop ==
  ASSUME NEW r
  PROVE  Starts(r) \subseteq Streams /\ Starts(r) \cap Stops(r) = {}
BY DEF Starts, Stops, Streams

LEMMA CoveredLater ==
  ASSUME NEW out \in Seq(MessageSet), NEW L \in Seq(MessageSet), NEW W,
         NEW n \in 1 .. Len(out) + 1, NEW w, Covered(out, n, w, W)
  PROVE  \A j \in DOMAIN (out \o L) : j < n /\ StopReply((out \o L)[j], w) =>
             \E k \in DOMAIN (out \o L) : k > j /\ StartReply((out \o L)[k], w)
<1>1. \A j \in DOMAIN out : j \in DOMAIN (out \o L) /\ (out \o L)[j] = out[j]
  OBVIOUS
<1> SUFFICES ASSUME NEW j \in DOMAIN (out \o L), j < n, StopReply((out \o L)[j], w)
             PROVE  \E k \in DOMAIN (out \o L) : k > j /\ StartReply((out \o L)[k], w)
  OBVIOUS
<1>2. j \in DOMAIN out
  OBVIOUS
<1>3. StopReply(out[j], w)
  BY <1>1, <1>2
<1>4. PICK k \in DOMAIN out : k > j /\ StartReply(out[k], w)
  BY <1>2, <1>3 DEF Covered
<1> QED
  BY <1>1, <1>4

(* What is added is updates of streams that are on, or are turned on by    *)
(* the request whose answer comes last.                                    *)
LEMMA GoodExtended ==
  ASSUME NEW x, NEW y, NEW W, x.out \in Seq(MessageSet), NEW L \in Seq(MessageSet),
         Good(x, W), y.out = x.out \o L,
         \A i \in DOMAIN L : L[i].kind = "reply" => i = Len(L),
         \A i \in DOMAIN L : L[i].kind \in Told =>
             \/ On(x, L[i].kind)
             \/ L[i].kind \in W /\ StartReply(L[Len(L)], L[i].kind),
         \A w \in Told : On(y, w) =>
             \/ On(x, w) /\ \A i \in DOMAIN L : ~StopReply(L[i], w)
             \/ w \in W /\ L # <<>> /\ StartReply(L[Len(L)], w),
         LogsDebug /\ y.logs > 0 => y.logging
  PROVE  Good(y, W)
<1> DEFINE out == x.out
           all == out \o L
<1>1. /\ all \in Seq(MessageSet) /\ Len(all) = Len(out) + Len(L) /\ DOMAIN all = 1 .. Len(all)
      /\ (L # <<>> => Len(L) > 0)
      /\ Len(out) \in Nat /\ Len(L) \in Nat /\ DOMAIN out = 1 .. Len(out) /\ DOMAIN L = 1 .. Len(L)
      /\ \A j \in 1 .. Len(out) : all[j] = out[j]
      /\ \A j \in 1 .. Len(all) : j > Len(out) => all[j] = L[j - Len(out)] /\ j - Len(out) \in DOMAIN L
  OBVIOUS
<1>0. out = x.out /\ out \in Seq(MessageSet) /\ all = out \o L /\ y.out = all
  OBVIOUS
<1> HIDE DEF out, all
<1>2. ASSUME NEW n \in 1 .. Len(all) + 1, NEW w, Covered(out, Len(out) + 1, w, W), n > Len(out),
             \A j \in DOMAIN all : Len(out) < j /\ j < n => ~StopReply(all[j], w)
      PROVE  Covered(all, n, w, W)
  <2>1. ASSUME NEW j \in DOMAIN all, j < n, StopReply(all[j], w)
        PROVE  \E k \in DOMAIN all : k > j /\ StartReply(all[k], w)
    <3>1. j < Len(out) + 1
      BY <1>1, <1>2, <2>1
    <3>2. Len(out) + 1 \in 1 .. Len(out) + 1
      BY <1>1
    <3>3. \A i \in DOMAIN (out \o L) : i < Len(out) + 1 /\ StopReply((out \o L)[i], w) =>
              \E k \in DOMAIN (out \o L) : k > i /\ StartReply((out \o L)[k], w)
      BY <1>0, <1>2, <3>2, CoveredLater, Zenon
    <3> QED
      BY <1>0, <2>1, <3>1, <3>3, Zenon
  <2> QED
    BY <1>2, <2>1 DEF Covered
<1>3. ASSUME NEW n \in 1 .. Len(all) + 1, NEW w \in W, n > Len(out), L # <<>>,
             StartReply(L[Len(L)], w), n = Len(all) + 1 \/ L[n - Len(out)].kind # "reply"
      PROVE  Covered(all, n, w, W)
  <2>1. Len(all) \in DOMAIN all /\ all[Len(all)] = L[Len(L)]
    <3>1. Len(L) > 0 /\ Len(all) \in 1 .. Len(all) /\ Len(all) > Len(out)
      BY <1>1, <1>3
    <3>2. Len(all) - Len(out) = Len(L)
      BY <1>1
    <3> QED
      BY <1>1, <3>1, <3>2
  <2>2. ~StopReply(L[Len(L)], w)
    BY <1>3, StartIsNoStop DEF StartReply, StopReply
  <2>3. ASSUME NEW j \in DOMAIN all, j < n, StopReply(all[j], w)
        PROVE  Len(all) > j
    BY <1>1, <2>1, <2>2, <2>3
  <2> QED
    BY <1>3, <2>1, <2>3 DEF Covered
<1>4. ASSUME NEW n \in DOMAIN all, all[n].kind \in Told
      PROVE  Covered(all, n, all[n].kind, W)
  <2> DEFINE w == all[n].kind
  <2>1. CASE n <= Len(out)
    <3>1. Covered(out, n, w, W)
      BY <1>0, <1>1, <1>4, <2>1 DEF Good
    <3>2. n \in 1 .. Len(out) + 1 /\ w \in W
      BY <1>1, <2>1, <3>1 DEF Covered
    <3> HIDE DEF w
    <3>3. \A i \in DOMAIN (out \o L) : i < n /\ StopReply((out \o L)[i], w) =>
              \E k \in DOMAIN (out \o L) : k > i /\ StartReply((out \o L)[k], w)
      BY <1>0, <3>1, <3>2, CoveredLater, Zenon
    <3>4. Covered(all, n, w, W)
      BY <1>0, <3>2, <3>3, Zenon DEF Covered
    <3> QED
      BY <3>4 DEF w
  <2>2. CASE n > Len(out)
    <3> DEFINE i == n - Len(out)
    <3>1. i \in DOMAIN L /\ all[n] = L[i] /\ L # <<>>
      BY <1>1, <2>2
    <3>2. L[i].kind # "reply"
      BY <1>4, <3>1 DEF Told, Streams
    <3>3. CASE On(x, w)
      <4>1. Covered(out, Len(out) + 1, w, W)
        BY <1>0, <1>4, <3>3 DEF Good
      <4>2. ASSUME NEW j \in DOMAIN all, Len(out) < j, j < n
            PROVE  ~StopReply(all[j], w)
        <5>1. all[j] = L[j - Len(out)] /\ j - Len(out) \in DOMAIN L /\ j - Len(out) # Len(L)
          BY <1>1, <4>2
        <5> QED
          BY <5>1 DEF StopReply
      <4>3. n \in 1 .. Len(all) + 1
        BY <1>1, <1>4
      <4> HIDE DEF w
      <4>4. Covered(all, n, w, W)
        BY <1>2, <2>2, <4>1, <4>2, <4>3
      <4> QED
        BY <4>4 DEF w
    <3>4. CASE w \in W /\ StartReply(L[Len(L)], w)
      <4> HIDE DEF w
      <4>1. n \in 1 .. Len(all) + 1
        BY <1>1, <1>4
      <4>2. Covered(all, n, w, W)
        BY <1>3, <2>2, <3>1, <3>2, <3>4, <4>1
      <4> QED
        BY <4>2 DEF w
    <3> QED
      BY <1>4, <3>1, <3>3, <3>4
  <2> QED
    BY <1>1, <2>1, <2>2
<1>5. ASSUME NEW w \in Told, On(y, w)
      PROVE  Covered(all, Len(all) + 1, w, W)
  <2>1. CASE On(x, w) /\ \A i \in DOMAIN L : ~StopReply(L[i], w)
    <3>1. Covered(out, Len(out) + 1, w, W)
      BY <1>0, <2>1 DEF Good
    <3>2. ASSUME NEW j \in DOMAIN all, Len(out) < j
          PROVE  ~StopReply(all[j], w)
      BY <1>1, <2>1, <3>2
    <3> QED
      <4>1. Len(all) + 1 \in 1 .. Len(all) + 1 /\ Len(all) + 1 > Len(out)
        BY <1>1
      <4> QED
        BY <1>2, <3>1, <3>2, <4>1
  <2>2. CASE w \in W /\ L # <<>> /\ StartReply(L[Len(L)], w)
    <3>1. Len(all) + 1 \in 1 .. Len(all) + 1 /\ Len(all) + 1 > Len(out)
      BY <1>1
    <3> QED
      BY <1>3, <2>2, <3>1
  <2> QED
    BY <1>5, <2>1, <2>2
<1> QED
  BY <1>0, <1>4, <1>5 DEF Good

-----------------------------------------------------------------------------
(* What handling one request does.                                         *)
Logs(n) == [i \in 1 .. n |-> StreamUpdate("log")]

Active(x) == LogsDebug /\ x.logs > 0 => x.logging

(* x has become y by logging.                                              *)
Logged(y, x) ==
    /\ IsConn(y)
    /\ y.webSocket = x.webSocket /\ y.buffer = x.buffer
    /\ y.leds = x.leds /\ y.images = x.images /\ y.logs = x.logs
    /\ \/ y.out = x.out /\ y.logging = x.logging
       \/ x.logs > 0 /\ y.logging /\ y.out = x.out \o Logs(x.logs)

(* x has become y by handling r.                                           *)
Answered(y, x, r) ==
    /\ IsConn(y)
    /\ y.webSocket = x.webSocket /\ y.buffer = x.buffer
    /\ Active(y)
    /\ \A w \in Told : On(y, w) => (On(x, w) /\ w \notin Stops(r)) \/ w \in Starts(r)
    /\ \/ Unanswered(r) /\ y.out = x.out
       \/ \E n \in Nat, success \in BOOLEAN :
              /\ n > 0 => "log" \in Starts(r)
              /\ y.out = Append(x.out \o Logs(n), Reply(r, success))

(* s has become t by handling the request r of c.                          *)
Handled(t, s, c, r) ==
    /\ IsServer(t)
    /\ \/ \A d \in Clients : t.conn[d] = Closed
       \/ /\ Answered(t.conn[c], s.conn[c], r)
          /\ \A d \in Clients \ {c} :
                 IF IsOpen(s, d) THEN Logged(t.conn[d], s.conn[d]) ELSE t.conn[d] = Closed

(* u is s but for what is no connection's, and the forwarders.             *)
Plain(u, s) ==
    /\ IsServer(u)
    /\ \A d \in Clients :
           \/ u.conn[d] = s.conn[d]
           \/ IsOpen(s, d) /\ \E f : u.conn[d] = [s.conn[d] EXCEPT !.forwarder = f]

LEMMA ConnFields ==
  ASSUME NEW x, IsConn(x)
  PROVE  /\ x.open = TRUE /\ x.webSocket \in BOOLEAN /\ x.leds \in BOOLEAN
         /\ x.images \in Nat /\ x.ready \in BOOLEAN /\ x.logs \in Nat /\ x.logging \in BOOLEAN
         /\ x.buffer \in Seq(PieceSet) /\ x.out \in Seq(MessageSet)
BY DEF IsConn

LEMMA OpenIsConn ==
  ASSUME NEW s, IsServer(s), NEW c \in Clients, IsOpen(s, c)
  PROVE  IsConn(s.conn[c])
BY DEF IsServer, IsOpen, Closed

LEMMA ReplyTyped ==
  ASSUME NEW r \in AllRequests, NEW success \in BOOLEAN
  PROVE  Reply(r, success) \in MessageSet
BY DEF Reply, MessageSet

LEMMA LogsTyped ==
  ASSUME NEW n \in Nat
  PROVE  Logs(n) \in Seq(MessageSet) /\ Len(Logs(n)) = n
         /\ \A i \in 1 .. n : Logs(n)[i] = StreamUpdate("log")
<1>1. StreamUpdate("log") \in MessageSet
  BY DEF StreamUpdate, MessageSet, Streams
<1> QED
  BY <1>1 DEF Logs

LEMMA PlainKeeps ==
  ASSUME NEW u, NEW s, IsServer(s), Plain(u, s), NEW d \in Clients
  PROVE  IF IsOpen(s, d)
           THEN /\ IsConn(u.conn[d]) /\ Logged(u.conn[d], s.conn[d])
                /\ u.conn[d].out = s.conn[d].out
           ELSE s.conn[d] = Closed /\ u.conn[d] = Closed
<1>1. s.conn[d] = Closed \/ IsConn(s.conn[d])
  BY DEF IsServer
<1>2. CASE IsOpen(s, d)
  <2>1. IsConn(s.conn[d])
    BY <1>1, <1>2 DEF IsOpen, Closed
  <2>2. CASE u.conn[d] = s.conn[d]
    BY <1>2, <2>1, <2>2 DEF Logged
  <2>3. CASE \E f : u.conn[d] = [s.conn[d] EXCEPT !.forwarder = f]
    BY <1>2, <2>1, <2>3 DEF Logged, IsConn
  <2> QED
    BY <2>2, <2>3 DEF Plain
<1>3. CASE ~IsOpen(s, d)
  <2>1. s.conn[d] = Closed
    BY <1>1, <1>3 DEF IsOpen, IsConn
  <2> QED
    BY <1>3, <2>1 DEF Plain
<1> QED
  BY <1>2, <1>3

LEMMA SendMessageTo ==
  ASSUME NEW u, IsServer(u), NEW c \in Clients, IsOpen(u, c), NEW m \in MessageSet
  PROVE  /\ IsServer(SendMessage(u, c, m))
         /\ SendMessage(u, c, m).conn[c] = [u.conn[c] EXCEPT !.out = Append(@, m)]
         /\ IsConn(SendMessage(u, c, m).conn[c])
         /\ \A d \in Clients \ {c} : SendMessage(u, c, m).conn[d] = u.conn[d]
         /\ SendMessage(u, c, m).core = u.core
<1> DEFINE t == SendMessage(u, c, m)
<1>1. t = [core |-> u.core, disk |-> u.disk, effects |-> u.effects, slave |-> u.slave,
           conn |-> [u.conn EXCEPT ![c].out = Append(@, m)]]
  BY DEF SendMessage, IsServer
<1>2. DOMAIN u.conn = Clients /\ IsConn(u.conn[c])
  BY DEF IsServer, IsOpen, Closed
<1>3. /\ t.conn[c] = [u.conn[c] EXCEPT !.out = Append(@, m)]
      /\ \A d \in Clients \ {c} : t.conn[d] = u.conn[d]
      /\ t.conn = [d \in Clients |-> t.conn[d]]
  BY <1>1, <1>2 DEF IsServer
<1>4. IsConn(t.conn[c])
  <2>1. Append(u.conn[c].out, m) \in Seq(MessageSet)
    BY <1>2, ConnFields, AppendProperties
  <2> DEFINE x == u.conn[c]
             out == Append(x.out, m)
  <2>2. IsConn(x) /\ out \in Seq(MessageSet) /\ t.conn[c] = [x EXCEPT !.out = out]
    BY <1>2, <1>3, <2>1
  <2> HIDE DEF t, x, out
  <2>3. IsConn([x EXCEPT !.out = out])
    BY <2>2 DEF IsConn
  <2> QED
    BY <2>2, <2>3
<1> HIDE DEF t
<1>5. IsServer(t)
  BY <1>1, <1>3, <1>4 DEF IsServer
<1> QED
  BY <1>1, <1>3, <1>4, <1>5 DEF t

(* A request that stops nothing is answered.                               *)
LEMMA PlainAnswered ==
  ASSUME NEW u, NEW s, IsServer(s), Plain(u, s), NEW c \in Clients, IsOpen(s, c),
         Active(s.conn[c]), NEW r \in AllRequests, Stops(r) = {}, NEW success \in BOOLEAN
  PROVE  Handled(SendMessage(u, c, Reply(r, success)), s, c, r)
<1> DEFINE t == SendMessage(u, c, Reply(r, success))
           m == Reply(r, success)
<1>1. IsConn(u.conn[c]) /\ Logged(u.conn[c], s.conn[c]) /\ u.conn[c].out = s.conn[c].out
  BY PlainKeeps
<1>2. m \in MessageSet
  BY ReplyTyped
<1>3. IsServer(u) /\ IsOpen(u, c)
  BY <1>1 DEF Plain, IsOpen, IsConn
<1>4. /\ IsServer(t) /\ IsConn(t.conn[c])
      /\ t.conn[c] = [u.conn[c] EXCEPT !.out = Append(@, m)]
      /\ \A d \in Clients \ {c} : t.conn[d] = u.conn[d]
  BY <1>2, <1>3, SendMessageTo
<1>5. Answered(t.conn[c], s.conn[c], r)
  <2>1. t.conn[c].out = Append(s.conn[c].out \o Logs(0), m)
    <3>1. Logs(0) = <<>>
      BY LogsTyped
    <3>2. s.conn[c].out \o <<>> = s.conn[c].out
      BY <1>1 DEF IsConn
    <3>3. t.conn[c].out = Append(s.conn[c].out, m)
      <4> HIDE DEF t, m
      <4> QED
        BY <1>1, <1>4 DEF IsConn
    <3> QED
      BY <3>1, <3>2, <3>3
  <2>2. /\ t.conn[c].webSocket = s.conn[c].webSocket /\ t.conn[c].buffer = s.conn[c].buffer
        /\ t.conn[c].leds = s.conn[c].leds /\ t.conn[c].images = s.conn[c].images
        /\ t.conn[c].logs = s.conn[c].logs /\ t.conn[c].logging = u.conn[c].logging
    BY <1>1, <1>4 DEF IsConn, Logged
  <2>3. u.conn[c].logging = s.conn[c].logging \/ u.conn[c].logging
    BY <1>1 DEF Logged
  <2> HIDE DEF t, m
  <2>4. Active(t.conn[c])
    BY <2>2, <2>3 DEF Active
  <2>5. \A w \in Told : On(t.conn[c], w) => On(s.conn[c], w) /\ w \notin Stops(r)
    BY <2>2 DEF On
  <2>6. \E n \in Nat, b \in BOOLEAN :
            /\ n > 0 => "log" \in Starts(r)
            /\ t.conn[c].out = Append(s.conn[c].out \o Logs(n), Reply(r, b))
    <3>1. 0 \in Nat /\ ~(0 > 0)
      OBVIOUS
    <3> QED
      BY <2>1, <3>1 DEF m
  <2> QED
    BY <1>4, <2>2, <2>4, <2>5, <2>6 DEF Answered
<1>6. ASSUME NEW d \in Clients \ {c}
      PROVE  IF IsOpen(s, d) THEN Logged(t.conn[d], s.conn[d]) ELSE t.conn[d] = Closed
  BY <1>4, <1>6, PlainKeeps
<1> QED
  BY <1>4, <1>5, <1>6 DEF Handled

LEMMA SamePlain ==
  ASSUME NEW s, IsServer(s), NEW v
  PROVE  /\ Plain(s, s)
         /\ Plain([s EXCEPT !.core = v], s)
         /\ Plain([s EXCEPT !.slave = TRUE], s)
         /\ Plain([s EXCEPT !.disk = v], s)
         /\ Plain([s EXCEPT !.effects = v], s)
         /\ [s EXCEPT !.core = v].conn = s.conn
BY DEF Plain, IsServer

LEMMA PlainPlain ==
  ASSUME NEW s, IsServer(s), NEW u, Plain(u, s), u.conn = s.conn, NEW t, Plain(t, u)
  PROVE  Plain(t, s)
BY DEF Plain, IsOpen

LEMMA ForwardPlain ==
  ASSUME NEW s, IsServer(s), NEW c \in Clients, NEW r
  PROVE  /\ Plain(ForwardJsonMessage(s, c, r), s)
         /\ ForwardJsonMessage(s, c, r).conn = s.conn
BY SamePlain DEF ForwardJsonMessage, IsServer

LEMMA CorePlain ==
  ASSUME NEW s, IsServer(s), NEW u, Plain(u, s), u.conn = s.conn, NEW v
  PROVE  Plain([u EXCEPT !.core = v], s)
<1>1. IsServer(u)
  BY DEF Plain
<1> QED
  BY <1>1, SamePlain, PlainPlain

LEMMA PlainCommands ==
  ASSUME NEW s, IsServer(s), NEW c \in Clients, IsOpen(s, c), Active(s.conn[c]),
         NEW r \in AllRequests, Stops(r) = {}, NEW env
  PROVE  /\ Handled(SendErrorReply(s, c, r), s, c, r)
         /\ Handled(HandleColorCommand(s, c, r), s, c, r)
         /\ Handled(HandleImageCommand(s, c, r), s, c, r)
         /\ Handled(HandleEffectCommand(s, c, r), s, c, r)
         /\ Handled(HandleCreateEffectCommand(s, c, r), s, c, r)
         /\ Handled(HandleDeleteEffectCommand(s, c, r, env), s, c, r)
         /\ Handled(HandleServerInfoCommand(s, c, r), s, c, r)
         /\ Handled(HandleClearCommand(s, c, r), s, c, r)
         /\ Handled(HandleClearallCommand(s, c, r), s, c, r)
         /\ Handled(HandleSourceSelectCommand(s, c, r), s, c, r)
         /\ Handled(HandleProcessingCommand(s, c, r), s, c, r)
         /\ Handled(HandleComponentStateCommand(s, c, r), s, c, r)
<1> USE DEF SendSuccessReply, SendErrorReply
<1>1. \A u : \A success \in BOOLEAN : Plain(u, s) => Handled(SendMessage(u, c, Reply(r, success)), s, c, r)
  BY PlainAnswered
<1>2. Plain(s, s)
  BY SamePlain
<1> DEFINE f == ForwardJsonMessage(s, c, r)
<1>3. Plain(f, s) /\ \A v : Plain([f EXCEPT !.core = v], s)
  BY ForwardPlain, CorePlain
<1>4. \A v : Plain([s EXCEPT !.core = v], s)
  BY SamePlain
<1>5. \A v : Plain(ReloadEffects([s EXCEPT !.disk = v]), s)
  <2> TAKE v
  <2>1. Plain([s EXCEPT !.disk = v], s) /\ [s EXCEPT !.disk = v].conn = s.conn
    BY SamePlain DEF IsServer
  <2>2. \A e : Plain([[s EXCEPT !.disk = v] EXCEPT !.effects = e], [s EXCEPT !.disk = v])
    BY <2>1, SamePlain DEF Plain
  <2> QED
    BY <2>1, <2>2, PlainPlain DEF ReloadEffects
<1>6. Handled(HandleCreateEffectCommand(s, c, r), s, c, r)
  BY <1>1, <1>2, <1>5 DEF HandleCreateEffectCommand
<1>7. Handled(HandleDeleteEffectCommand(s, c, r, env), s, c, r)
  BY <1>1, <1>2, <1>5 DEF HandleDeleteEffectCommand
<1>8. Handled(HandleComponentStateCommand(s, c, r), s, c, r)
  <2>1. CASE r.option \in {"on", "off"}
    <3> DEFINE conns == [d \in Clients |-> IF IsOpen(s, d)
                                             THEN [s.conn[d] EXCEPT !.forwarder = (r.option = "on")]
                                             ELSE Closed]
               u == [s EXCEPT !.conn = conns]
    <3>1. u.conn = conns /\ u \in [core : {u.core}, disk : {u.disk}, effects : {u.effects},
                                   slave : {u.slave}, conn : {u.conn}]
      BY DEF IsServer
    <3>2. \A d \in Clients : IsOpen(s, d) => IsConn([s.conn[d] EXCEPT !.forwarder = (r.option = "on")])
      <4>1. \A d \in Clients : IsOpen(s, d) => IsConn(s.conn[d])
        BY DEF IsServer, IsOpen, Closed
      <4>2. ASSUME NEW x, IsConn(x) PROVE IsConn([x EXCEPT !.forwarder = (r.option = "on")])
        BY <4>2 DEF IsConn
      <4> QED
        BY <4>1, <4>2
    <3>3. \A d \in Clients : ~IsOpen(s, d) => s.conn[d] = Closed
      BY DEF IsServer, IsOpen, IsConn
    <3> HIDE DEF u
    <3>4. IsServer(u)
      BY <3>1, <3>2 DEF IsServer
    <3>5. Plain(u, s)
      BY <3>1, <3>3, <3>4 DEF Plain
    <3> QED
      BY <1>1, <2>1, <3>5 DEF HandleComponentStateCommand, u
  <2>2. CASE r.option \notin {"on", "off"}
    BY <1>1, <1>2, <2>2 DEF HandleComponentStateCommand
  <2> QED
    BY <2>1, <2>2
<1>9. Handled(HandleImageCommand(s, c, r), s, c, r)
  BY <1>1, <1>3 DEF HandleImageCommand
<1>10. Handled(HandleSourceSelectCommand(s, c, r), s, c, r)
  BY <1>1, <1>2, <1>4 DEF HandleSourceSelectCommand
<1>11. Handled(HandleColorCommand(s, c, r), s, c, r) /\ Handled(HandleEffectCommand(s, c, r), s, c, r)
  BY <1>1, <1>3 DEF HandleColorCommand, HandleEffectCommand
<1>12. Handled(HandleClearCommand(s, c, r), s, c, r) /\ Handled(HandleClearallCommand(s, c, r), s, c, r)
  BY <1>1, <1>3 DEF HandleClearCommand, HandleClearallCommand
<1>13. /\ Handled(SendErrorReply(s, c, r), s, c, r)
       /\ Handled(HandleServerInfoCommand(s, c, r), s, c, r)
       /\ Handled(HandleProcessingCommand(s, c, r), s, c, r)
  BY <1>1, <1>2 DEF HandleServerInfoCommand, HandleProcessingCommand
<1> QED
  BY <1>6, <1>7, <1>8, <1>9, <1>10, <1>11, <1>12, <1>13

(* An unknown adjustment gets no answer.                                   *)
LEMMA AdjustmentHandled ==
  ASSUME NEW s, IsServer(s), NEW c \in Clients, IsOpen(s, c), Active(s.conn[c]),
         NEW r \in AllRequests, r.command = "adjustment", Stops(r) = {}
  PROVE  Handled(HandleAdjustmentCommand(s, c, r), s, c, r)
<1>1. CASE r.option = "unknown"
  <2>1. \A d \in Clients : IF IsOpen(s, d) THEN Logged(s.conn[d], s.conn[d]) ELSE s.conn[d] = Closed
    BY SamePlain, PlainKeeps
  <2>2. Answered(s.conn[c], s.conn[c], r)
    <3>1. IsConn(s.conn[c])
      BY DEF IsServer, IsOpen, Closed
    <3> QED
      BY <1>1, <3>1 DEF Answered, Unanswered
  <2> QED
    BY <1>1, <2>1, <2>2 DEF Handled, HandleAdjustmentCommand
<1>2. CASE r.option # "unknown"
  <2>1. Plain([s EXCEPT !.core = Update(@, 0)], s)
    BY SamePlain
  <2> QED
    BY <1>2, <2>1, PlainAnswered DEF HandleAdjustmentCommand, SendSuccessReply
<1> QED
  BY <1>1, <1>2

(* The process is replaced, and all connections are closed; or it stops.   *)
LEMMA ConfigHandled ==
  ASSUME NEW s, IsServer(s), NEW c \in Clients, IsOpen(s, c), Active(s.conn[c]),
         NEW r \in AllRequests, Stops(r) = {}, NEW env \in Environments
  PROVE  Handled(HandleConfigCommand(s, c, r, env), s, c, r)
<1>1. CASE r.option \in {"getschema", "getconfig"}
  BY <1>1, SamePlain, PlainAnswered DEF HandleConfigCommand, SendSuccessReply
<1>2. CASE r.option \notin {"getschema", "getconfig"} /\ ~env.restarts
  <2>1. Plain([s EXCEPT !.core = FreeObjects(@, 0)], s)
    BY SamePlain
  <2> QED
    BY <1>2, <2>1, PlainAnswered DEF HandleConfigCommand, SendErrorReply
<1>3. CASE r.option \notin {"getschema", "getconfig"} /\ env.restarts
  <2> DEFINE t == [s EXCEPT !.core = NewCore, !.conn = [d \in Clients |-> Closed]]
  <2>1. IsServer(t) /\ \A d \in Clients : t.conn[d] = Closed
    BY DEF IsServer
  <2> QED
    BY <1>3, <2>1 DEF HandleConfigCommand, Handled
<1> QED
  BY <1>1, <1>2, <1>3

(* The connections other than that of c have done nothing but log.         *)
OthersLogged(u, s, c) ==
    \A d \in Clients \ {c} :
        IF IsOpen(s, d) THEN Logged(u.conn[d], s.conn[d]) ELSE u.conn[d] = Closed

(* The request r has turned streams on or off and logged n times.          *)
Switched(y, x, r, n) ==
    /\ y.webSocket = x.webSocket /\ y.buffer = x.buffer
    /\ Active(y)
    /\ \A w \in Told : On(y, w) => (On(x, w) /\ w \notin Stops(r)) \/ w \in Starts(r)
    /\ n \in Nat /\ (n > 0 => "log" \in Starts(r))
    /\ y.out = x.out \o Logs(n)

LEMMA RepliedHandled ==
  ASSUME NEW s, IsServer(s), NEW u, IsServer(u), NEW c \in Clients, IsOpen(u, c),
         NEW r \in AllRequests, NEW success \in BOOLEAN, NEW n,
         Switched(u.conn[c], s.conn[c], r, n), OthersLogged(u, s, c)
  PROVE  Handled(SendMessage(u, c, Reply(r, success)), s, c, r)
<1> DEFINE m == Reply(r, success)
           t == SendMessage(u, c, m)
<1>1. m \in MessageSet
  BY ReplyTyped
<1> HIDE DEF m
<1>2. /\ IsServer(t) /\ IsConn(t.conn[c])
      /\ t.conn[c] = [u.conn[c] EXCEPT !.out = Append(@, m)]
      /\ \A d \in Clients \ {c} : t.conn[d] = u.conn[d]
  BY <1>1, SendMessageTo
<1>3. IsConn(u.conn[c])
  BY OpenIsConn
<1>4. /\ t.conn[c].webSocket = u.conn[c].webSocket /\ t.conn[c].buffer = u.conn[c].buffer
      /\ t.conn[c].leds = u.conn[c].leds /\ t.conn[c].images = u.conn[c].images
      /\ t.conn[c].logs = u.conn[c].logs /\ t.conn[c].logging = u.conn[c].logging
      /\ t.conn[c].out = Append(u.conn[c].out, m)
  BY <1>2, <1>3 DEF IsConn
<1> HIDE DEF t
<1>5. Active(t.conn[c]) /\ \A w \in Told : On(t.conn[c], w) => On(u.conn[c], w)
  BY <1>4 DEF Active, On, Switched
<1>6. \E k \in Nat, b \in BOOLEAN :
          /\ k > 0 => "log" \in Starts(r)
          /\ t.conn[c].out = Append(s.conn[c].out \o Logs(k), Reply(r, b))
  BY <1>4 DEF m, Switched
<1>7. Answered(t.conn[c], s.conn[c], r)
  BY <1>2, <1>4, <1>5, <1>6 DEF Answered, Switched
<1> QED
  BY <1>2, <1>7 DEF Handled, OthersLogged, t, m

(* A connection is changed, and all others are left alone.                 *)
LEMMA SetConnection ==
  ASSUME NEW s, IsServer(s), NEW c \in Clients, NEW x, IsConn(x)
  PROVE  LET u == [s EXCEPT !.conn[c] = x]
         IN /\ IsServer(u) /\ u.conn[c] = x /\ IsOpen(u, c) /\ u.core = s.core
            /\ \A d \in Clients \ {c} : u.conn[d] = s.conn[d]
            /\ OthersLogged(u, s, c)
<1> DEFINE u == [s EXCEPT !.conn[c] = x]
<1>1. /\ u \in [core : {u.core}, disk : {u.disk}, effects : {u.effects}, slave : {u.slave},
                conn : {u.conn}]
      /\ u.conn[c] = x /\ \A d \in Clients \ {c} : u.conn[d] = s.conn[d]
      /\ u.conn = [d \in Clients |-> u.conn[d]]
      /\ u.core = s.core
  BY DEF IsServer
<1> HIDE DEF u
<1>2. IsServer(u)
  BY <1>1 DEF IsServer
<1>3. x.open
  BY ConnFields
<1>4. OthersLogged(u, s, c)
  <2>1. Plain(s, s)
    BY DEF Plain
  <2>2. \A d \in Clients : IF IsOpen(s, d) THEN Logged(s.conn[d], s.conn[d]) ELSE s.conn[d] = Closed
    BY <2>1, PlainKeeps
  <2> QED
    BY <1>1, <2>2 DEF OthersLogged
<1> QED
  BY <1>1, <1>2, <1>3, <1>4 DEF u, IsOpen

LEMMA LogMessageLogged ==
  ASSUME NEW s, IsServer(s)
  PROVE  /\ IsServer(LogMessage(s))
         /\ LogMessage(s).core = s.core
         /\ \A d \in Clients :
                IF IsOpen(s, d)
                  THEN /\ Logged(LogMessage(s).conn[d], s.conn[d])
                       /\ IF s.conn[d].logs > 0
                            THEN /\ LogMessage(s).conn[d].logging
                                 /\ LogMessage(s).conn[d].out = s.conn[d].out \o Logs(s.conn[d].logs)
                            ELSE LogMessage(s).conn[d] = s.conn[d]
                  ELSE LogMessage(s).conn[d] = Closed
<1> DEFINE t == LogMessage(s)
<1>1. /\ t \in [core : {t.core}, disk : {t.disk}, effects : {t.effects}, slave : {t.slave},
                conn : {t.conn}]
      /\ t.core = s.core
      /\ t.conn = [d \in Clients |-> IF IsOpen(s, d) /\ s.conn[d].logs > 0
                                       THEN IncommingLogMessage(s.conn[d]) ELSE s.conn[d]]
  BY DEF LogMessage, IsServer
<1> HIDE DEF t
<1>2. ASSUME NEW d \in Clients, IsOpen(s, d), s.conn[d].logs > 0
      PROVE  /\ Logged(t.conn[d], s.conn[d]) /\ t.conn[d].logging
             /\ t.conn[d].out = s.conn[d].out \o Logs(s.conn[d].logs)
  <2> DEFINE x == s.conn[d]
             y == t.conn[d]
  <2>1. IsConn(x)
    BY <1>2 DEF IsServer, IsOpen, Closed
  <2>2. y = [x EXCEPT !.logging = TRUE, !.out = @ \o Logs(x.logs)]
    BY <1>1, <1>2 DEF IncommingLogMessage, Logs
  <2>3. x.out \o Logs(x.logs) \in Seq(MessageSet)
    BY <2>1, ConnFields, LogsTyped, ConcatProperties
  <2> HIDE DEF x, y
  <2>4. /\ IsConn(y) /\ y.logging /\ y.out = x.out \o Logs(x.logs)
        /\ y.webSocket = x.webSocket /\ y.buffer = x.buffer
        /\ y.leds = x.leds /\ y.images = x.images /\ y.logs = x.logs
    BY <2>1, <2>2, <2>3 DEF IsConn
  <2>5. x.logs > 0
    BY <1>2 DEF x
  <2> QED
    BY <2>4, <2>5 DEF Logged, x, y
<1>3. ASSUME NEW d \in Clients, ~(IsOpen(s, d) /\ s.conn[d].logs > 0)
      PROVE  /\ t.conn[d] = s.conn[d]
             /\ IF IsOpen(s, d) THEN Logged(t.conn[d], s.conn[d]) ELSE t.conn[d] = Closed
  <2>1. t.conn[d] = s.conn[d]
    BY <1>1, <1>3
  <2>2. IF IsOpen(s, d) THEN Logged(s.conn[d], s.conn[d]) ELSE s.conn[d] = Closed
    BY SamePlain, PlainKeeps
  <2> QED
    BY <2>1, <2>2
<1>4. \A d \in Clients : t.conn[d] = Closed \/ IsConn(t.conn[d])
  BY <1>2, <1>3 DEF Logged
<1>5. IsServer(t)
  BY <1>1, <1>4 DEF IsServer
<1> QED
  BY <1>1, <1>2, <1>3, <1>5 DEF t

LEMMA LedColorsHandled ==
  ASSUME NEW s, IsServer(s), NEW c \in Clients, IsOpen(s, c), Active(s.conn[c]),
         NEW r \in AllRequests, r.command = "ledcolors"
  PROVE  Handled(HandleLedColorsCommand(s, c, r), s, c, r)
<1> DEFINE x == s.conn[c]
           y == CASE r.option = "ledstream-start"   -> [x EXCEPT !.leds = TRUE]
                  [] r.option = "ledstream-stop"    -> [x EXCEPT !.leds = FALSE]
                  [] r.option = "imagestream-start" -> [x EXCEPT !.images = @ + 1]
                  [] r.option = "imagestream-stop"  -> [x EXCEPT !.images = 0]
                  [] OTHER                          -> x
           u == [s EXCEPT !.conn[c] = y]
<1>1. IsConn(x)
  BY DEF IsServer, IsOpen, Closed
<1>2. CASE r.option \in {"ledstream-start", "ledstream-stop", "imagestream-start", "imagestream-stop"}
  <2>1. /\ IsConn(y) /\ y.webSocket = x.webSocket /\ y.buffer = x.buffer /\ y.out = x.out
        /\ y.logs = x.logs /\ y.logging = x.logging
        /\ y.leds = IF r.option = "ledstream-start" THEN TRUE
                    ELSE IF r.option = "ledstream-stop" THEN FALSE ELSE x.leds
        /\ y.images = IF r.option = "imagestream-start" THEN x.images + 1
                      ELSE IF r.option = "imagestream-stop" THEN 0 ELSE x.images
    <3> HIDE DEF x
    <3>1. CASE r.option = "ledstream-start"
      BY <1>1, <3>1 DEF IsConn
    <3>2. CASE r.option = "ledstream-stop"
      BY <1>1, <3>2 DEF IsConn
    <3>3. CASE r.option = "imagestream-start"
      <4>1. x.images \in Nat
        BY <1>1, ConnFields
      <4>2. x.images + 1 \in Nat
        BY <4>1
      <4> QED
        BY <1>1, <3>3, <4>2 DEF IsConn
    <3>4. CASE r.option = "imagestream-stop"
      BY <1>1, <3>4 DEF IsConn
    <3> QED
      BY <1>2, <3>1, <3>2, <3>3, <3>4
  <2> HIDE DEF y
  <2>2. IsServer(u) /\ u.conn[c] = y /\ IsOpen(u, c) /\ OthersLogged(u, s, c)
    BY <2>1, SetConnection
  <2>3. Active(y)
    BY <2>1 DEF Active
  <2>4. ASSUME NEW w \in Told, On(y, w)
        PROVE  (On(x, w) /\ w \notin Stops(r)) \/ w \in Starts(r)
    <3>1. CASE r.option = "ledstream-start"
      BY <2>1, <2>4, <3>1 DEF On, Starts, Stops
    <3>2. CASE r.option = "ledstream-stop"
      BY <2>1, <2>4, <3>2 DEF On, Starts, Stops
    <3>3. CASE r.option = "imagestream-start"
      BY <2>1, <2>4, <3>3 DEF On, Starts, Stops
    <3>4. CASE r.option = "imagestream-stop"
      BY <2>1, <2>4, <3>4 DEF On, Starts, Stops
    <3> QED
      BY <1>2, <3>1, <3>2, <3>3, <3>4
  <2>5. y.out = x.out \o Logs(0)
    <3>1. Logs(0) = <<>>
      BY LogsTyped
    <3> QED
      BY <1>1, <2>1, <3>1, ConnFields, ConcatEmptySeq
  <2> HIDE DEF u
  <2>6. 0 \in Nat /\ ~(0 > 0) /\ TRUE \in BOOLEAN
    OBVIOUS
  <2>7. Switched(u.conn[c], x, r, 0)
    BY <2>1, <2>2, <2>3, <2>4, <2>5, <2>6 DEF Switched
  <2>8. Handled(SendMessage(u, c, Reply(r, TRUE)), s, c, r)
    BY <2>2, <2>6, <2>7, RepliedHandled
  <2> QED
    BY <1>2, <2>8 DEF HandleLedColorsCommand, SendSuccessReply, u, y
<1>3. CASE r.option \notin {"ledstream-start", "ledstream-stop", "imagestream-start", "imagestream-stop"}
  <2>1. Stops(r) = {}
    BY <1>3 DEF Stops
  <2> QED
    BY <1>3, <2>1, SamePlain, PlainAnswered DEF HandleLedColorsCommand, SendErrorReply
<1> QED
  BY <1>2, <1>3

LEMMA LoggingHandled ==
  ASSUME NEW s, IsServer(s), NEW c \in Clients, IsOpen(s, c), Active(s.conn[c]),
         NEW r \in AllRequests, r.command = "logging"
  PROVE  Handled(HandleLoggingCommand(s, c, r), s, c, r)
<1> DEFINE x == s.conn[c]
           y == IF r.option = "start" /\ ~x.logging THEN [x EXCEPT !.logs = @ + 1]
                ELSE IF r.option = "stop" /\ x.logging
                  THEN [x EXCEPT !.logs = 0, !.logging = FALSE] ELSE x
           changed == (r.option = "start" /\ ~x.logging) \/ (r.option = "stop" /\ x.logging)
           v == [s EXCEPT !.conn[c] = y]
           u == IF changed /\ LogsDebug THEN LogMessage(v) ELSE v
           set == CASE r.option = "start" /\ ~x.logging ->
                         DebugMessage([s EXCEPT !.conn[c].logs = @ + 1])
                    [] r.option = "stop" /\ x.logging ->
                         DebugMessage([s EXCEPT !.conn[c].logs = 0, !.conn[c].logging = FALSE])
                    [] OTHER -> s
           n == IF changed /\ LogsDebug THEN y.logs ELSE 0
<1>1. IsConn(x) /\ x.logs \in Nat /\ x.logging \in BOOLEAN
  BY OpenIsConn, ConnFields
<1>2. CASE r.option \in {"start", "stop"}
  <2>1. /\ IsConn(y) /\ y.webSocket = x.webSocket /\ y.buffer = x.buffer /\ y.out = x.out
        /\ y.leds = x.leds /\ y.images = x.images
        /\ y.logs = IF r.option = "start" /\ ~x.logging THEN x.logs + 1
                    ELSE IF r.option = "stop" /\ x.logging THEN 0 ELSE x.logs
        /\ y.logging = IF r.option = "stop" THEN FALSE ELSE x.logging
    <3> HIDE DEF x
    <3>1. CASE r.option = "start" /\ ~x.logging
      <4>1. x.logs + 1 \in Nat
        BY <1>1
      <4> QED
        BY <1>1, <3>1, <4>1 DEF IsConn
    <3>2. CASE r.option = "stop" /\ x.logging
      BY <1>1, <3>2 DEF IsConn
    <3>3. CASE ~changed
      BY <1>1, <1>2, <3>3
    <3> QED
      BY <3>1, <3>2, <3>3
  <2>2. set = u
    <3>1. CASE r.option = "start" /\ ~x.logging
      <4>1. [s EXCEPT !.conn[c].logs = @ + 1] = v
        BY <3>1 DEF IsServer
      <4> QED
        BY <3>1, <4>1 DEF DebugMessage
    <3>2. CASE r.option = "stop" /\ x.logging
      <4>1. [s EXCEPT !.conn[c].logs = 0, !.conn[c].logging = FALSE] = v
        BY <3>2 DEF IsServer
      <4> QED
        BY <3>2, <4>1 DEF DebugMessage
    <3>3. CASE ~changed
      <4>1. v = s
        BY <3>3 DEF IsServer
      <4> QED
        BY <3>3, <4>1
    <3> QED
      BY <3>1, <3>2, <3>3
  <2> HIDE DEF y, set
  <2>3. /\ IsServer(v) /\ v.conn[c] = y /\ IsOpen(v, c) /\ OthersLogged(v, s, c)
        /\ \A d \in Clients \ {c} : v.conn[d] = s.conn[d]
    BY <2>1, SetConnection
  <2> HIDE DEF v
  <2>4. /\ IsServer(u) /\ IsOpen(u, c)
        /\ u.conn[c].webSocket = x.webSocket /\ u.conn[c].buffer = x.buffer
        /\ u.conn[c].leds = x.leds /\ u.conn[c].images = x.images /\ u.conn[c].logs = y.logs
        /\ n \in Nat /\ u.conn[c].out = x.out \o Logs(n)
        /\ IF n > 0 THEN u.conn[c].logging ELSE u.conn[c].logging = y.logging
        /\ OthersLogged(u, s, c)
    <3>0. x.out \o Logs(0) = x.out
      <4>1. Logs(0) = <<>>
        BY LogsTyped
      <4> QED
        BY <1>1, <4>1, ConnFields, ConcatEmptySeq
    <3>1. CASE changed /\ LogsDebug
      <4>1. u = LogMessage(v) /\ n = y.logs
        BY <3>1
      <4>2. y.logs \in Nat
        BY <2>1, ConnFields
      <4> HIDE DEF u, n, changed
      <4>3. IsServer(u) /\ Logged(u.conn[c], y)
        BY <2>3, <4>1, LogMessageLogged
      <4>4. y.logs > 0 => u.conn[c].logging /\ u.conn[c].out = y.out \o Logs(y.logs)
        BY <2>3, <4>1, LogMessageLogged
      <4>5. ASSUME ~(y.logs > 0) PROVE u.conn[c] = y /\ y.logs = 0
        <5>1. LogMessage(v).conn[c] = v.conn[c]
          BY <2>3, <4>5, LogMessageLogged
        <5>2. y.logs = 0
          BY <4>2, <4>5
        <5> QED
          BY <2>3, <4>1, <5>1, <5>2
      <4>6. IsOpen(u, c)
        BY <4>3, ConnFields DEF Logged, IsOpen
      <4>7. OthersLogged(u, s, c)
        <5>1. ASSUME NEW d \in Clients \ {c}
              PROVE  IF IsOpen(v, d) THEN Logged(u.conn[d], v.conn[d]) ELSE u.conn[d] = Closed
          BY <2>3, <4>1, LogMessageLogged
        <5> QED
          BY <2>3, <5>1 DEF OthersLogged, IsOpen
      <4>8. /\ u.conn[c].webSocket = x.webSocket /\ u.conn[c].buffer = x.buffer
            /\ u.conn[c].leds = x.leds /\ u.conn[c].images = x.images /\ u.conn[c].logs = y.logs
        BY <2>1, <4>3 DEF Logged
      <4>9. /\ n \in Nat /\ u.conn[c].out = x.out \o Logs(n)
            /\ IF n > 0 THEN u.conn[c].logging ELSE u.conn[c].logging = y.logging
        <5>1. CASE y.logs > 0
          BY <2>1, <4>1, <4>2, <4>4, <5>1
        <5>2. CASE ~(y.logs > 0)
          <6>1. n = 0 /\ u.conn[c] = y
            BY <4>1, <4>5, <5>2
          <6>2. u.conn[c].out = x.out \o Logs(n)
            BY <2>1, <3>0, <6>1
          <6> QED
            BY <6>1, <6>2
        <5> QED
          BY <5>1, <5>2
      <4> QED
        BY <4>3, <4>6, <4>7, <4>8, <4>9
    <3>2. CASE ~(changed /\ LogsDebug)
      <4>1. u = v /\ n = 0
        BY <3>2
      <4> HIDE DEF u, n, changed
      <4>2. IsServer(u) /\ IsOpen(u, c) /\ u.conn[c] = y
        BY <2>3, <4>1
      <4>3. /\ u.conn[c].out = x.out \o Logs(n) /\ n \in Nat /\ ~(n > 0)
        BY <2>1, <3>0, <4>1, <4>2
      <4>4. OthersLogged(u, s, c)
        BY <2>3, <4>1
      <4> QED
        BY <2>1, <4>2, <4>3, <4>4
    <3> QED
      BY <3>1, <3>2
  <2>5. Active(u.conn[c])
    <3>1. CASE changed /\ LogsDebug
      <4>1. n = y.logs
        BY <3>1
      <4> QED
        BY <2>4, <4>1 DEF Active
    <3>2. CASE ~(changed /\ LogsDebug)
      <4>1. CASE ~LogsDebug
        BY <4>1 DEF Active
      <4>2. CASE ~changed
        <5>1. n = 0 /\ y.logs = x.logs /\ y.logging = x.logging
          BY <1>1, <1>2, <2>1, <4>2
        <5> QED
          BY <2>4, <5>1 DEF Active
      <4> QED
        BY <3>2, <4>1, <4>2
    <3> QED
      BY <3>1, <3>2
  <2>6. n > 0 => "log" \in Starts(r)
    <3>1. n > 0 => r.option = "start"
      BY <2>1
    <3> QED
      BY <3>1 DEF Starts
  <2>7. ASSUME NEW w \in Told, On(u.conn[c], w)
        PROVE  (On(x, w) /\ w \notin Stops(r)) \/ w \in Starts(r)
    <3>1. CASE w = "log" /\ r.option = "start"
      BY <3>1 DEF Starts
    <3>2. CASE w = "log" /\ r.option = "stop"
      <4>1. y.logs > 0 /\ LogsDebug
        BY <2>4, <2>7, <3>2 DEF On, Told
      <4>2. ~x.logging /\ y.logs = x.logs
        BY <1>1, <2>1, <3>2, <4>1
      <4> QED
        BY <4>1, <4>2 DEF Active
    <3>3. CASE w # "log"
      BY <2>4, <2>7, <3>3 DEF On, Stops
    <3> QED
      BY <1>2, <3>1, <3>2, <3>3
  <2> HIDE DEF u, n
  <2>8. TRUE \in BOOLEAN
    OBVIOUS
  <2>9. Handled(SendMessage(u, c, Reply(r, TRUE)), s, c, r)
    <3>1. Switched(u.conn[c], x, r, n)
      BY <2>4, <2>5, <2>6, <2>7 DEF Switched
    <3> QED
      BY <2>4, <2>8, <3>1, RepliedHandled
  <2> QED
    BY <1>2, <2>2, <2>9 DEF HandleLoggingCommand, SendSuccessReply, set
<1>3. CASE r.option \notin {"start", "stop"}
  <2>1. Stops(r) = {}
    BY <1>3 DEF Stops
  <2> QED
    BY <1>3, <2>1, SamePlain, PlainAnswered DEF HandleLoggingCommand, SendErrorReply
<1> QED
  BY <1>2, <1>3

(* Whatever the request is, it is answered, unless it is an unknown        *)
(* adjustment or the program stops.                                        *)
LEMMA HandleMessageHandled ==
  ASSUME NEW s, IsServer(s), NEW c \in Clients, IsOpen(s, c), s.core.status = "running",
         Active(s.conn[c]), NEW r \in Requests, NEW env \in Environments
  PROVE  Handled(HandleMessage(s, c, r, env), s, c, r)
<1> DEFINE t == HandleMessage(s, c, r, env)
<1>1. r \in AllRequests
  BY DEF AllRequests
<1>2. CASE r \in RefusedRequests
  <2>1. Stops(r) = {}
    BY <1>2, StreamsAreAccepted DEF RefusedRequests
  <2>2. t = SendErrorReply(s, c, r)
    BY <1>2 DEF HandleMessage
  <2> QED
    BY <1>1, <2>1, <2>2, PlainCommands
<1>3. CASE r \notin RefusedRequests
  <2>0. t = CASE r.command = "color"     -> HandleColorCommand(s, c, r)
      [] r.command = "image"          -> HandleImageCommand(s, c, r)
      [] r.command = "effect"         -> HandleEffectCommand(s, c, r)
      [] r.command = "create-effect"  -> HandleCreateEffectCommand(s, c, r)
      [] r.command = "delete-effect"  -> HandleDeleteEffectCommand(s, c, r, env)
      [] r.command = "serverinfo"     -> HandleServerInfoCommand(s, c, r)
      [] r.command = "clear"          -> HandleClearCommand(s, c, r)
      [] r.command = "clearall"       -> HandleClearallCommand(s, c, r)
      [] r.command = "adjustment"     -> HandleAdjustmentCommand(s, c, r)
      [] r.command = "sourceselect"   -> HandleSourceSelectCommand(s, c, r)
      [] r.command = "config"         -> HandleConfigCommand(s, c, r, env)
      [] r.command = "componentstate" -> HandleComponentStateCommand(s, c, r)
      [] r.command = "ledcolors"      -> HandleLedColorsCommand(s, c, r)
      [] r.command = "logging"        -> HandleLoggingCommand(s, c, r)
      [] r.command = "processing"     -> HandleProcessingCommand(s, c, r)
      [] OTHER                        -> SendErrorReply(s, c, r)
    BY <1>3 DEF HandleMessage
  <2> HIDE DEF t
  <2>1. CASE r.command = "ledcolors"
    BY <1>1, <2>0, <2>1, LedColorsHandled DEF t
  <2>2. CASE r.command = "logging"
    BY <1>1, <2>0, <2>2, LoggingHandled DEF t
  <2>3. CASE r.command \notin {"ledcolors", "logging"}
    <3>1. Stops(r) = {}
      BY <2>3 DEF Stops
    <3>2. CASE r.command = "adjustment"
      BY <1>1, <2>0, <3>1, <3>2, AdjustmentHandled DEF t
    <3>3. CASE r.command = "config"
      BY <1>1, <2>0, <3>1, <3>3, ConfigHandled DEF t
    <3>4. CASE r.command \notin {"adjustment", "config"}
      <4>1. \/ t = HandleColorCommand(s, c, r)
            \/ t = HandleImageCommand(s, c, r)
            \/ t = HandleEffectCommand(s, c, r)
            \/ t = HandleCreateEffectCommand(s, c, r)
            \/ t = HandleDeleteEffectCommand(s, c, r, env)
            \/ t = HandleServerInfoCommand(s, c, r)
            \/ t = HandleClearCommand(s, c, r)
            \/ t = HandleClearallCommand(s, c, r)
            \/ t = HandleSourceSelectCommand(s, c, r)
            \/ t = HandleComponentStateCommand(s, c, r)
            \/ t = HandleProcessingCommand(s, c, r)
            \/ t = SendErrorReply(s, c, r)
        BY <2>0, <2>3, <3>4
      <4> QED
        BY <1>1, <3>1, <4>1, PlainCommands DEF t
    <3> QED
      BY <3>2, <3>3, <3>4
  <2> QED
    BY <2>1, <2>2, <2>3
<1> QED
  BY <1>2, <1>3

(* A stream's messages answer nothing.                                     *)
LEMMA UpdatesAnswerNothing ==
  ASSUME NEW out \in Seq(MessageSet), NEW n \in Nat, NEW q
  PROVE  CountIn(out \o Logs(n), Answers(q)) = CountIn(out, Answers(q))
<1>1. Logs(n) \in Seq(MessageSet) /\ \A i \in DOMAIN Logs(n) : Logs(n)[i] = StreamUpdate("log")
  BY LogsTyped
<1>2. \A i \in DOMAIN Logs(n) : Logs(n)[i] \notin Answers(q)
  BY <1>1 DEF Answers, IsAnswer, StreamUpdate
<1>3. CountIn(Logs(n), Answers(q)) = 0
  BY <1>1, <1>2, CountNone
<1>4. CountIn(out, Answers(q)) \in Nat
  BY CountIsNat
<1>5. CountIn(out \o Logs(n), Answers(q)) = CountIn(out, Answers(q)) + CountIn(Logs(n), Answers(q))
  BY <1>1, CountConcat
<1> QED
  BY <1>3, <1>4, <1>5

LEMMA LoggedGood ==
  ASSUME NEW x, IsConn(x), NEW y, Logged(y, x), NEW W, Good(x, W)
  PROVE  Good(y, W) /\ \A q : CountIn(y.out, Answers(q)) = CountIn(x.out, Answers(q))
<1>1. x.out \in Seq(MessageSet) /\ x.logs \in Nat
  BY ConnFields
<1>2. \A w \in Told : On(y, w) => On(x, w)
  BY DEF Logged, On
<1>3. CASE y.out = x.out /\ y.logging = x.logging
  BY <1>2, <1>3 DEF Logged, Good, On
<1>4. CASE x.logs > 0 /\ y.logging /\ y.out = x.out \o Logs(x.logs)
  <2> DEFINE L == Logs(x.logs)
  <2>1. L \in Seq(MessageSet) /\ \A i \in DOMAIN L : L[i] = StreamUpdate("log")
    BY <1>1, LogsTyped
  <2>2. y.out = x.out \o L
    BY <1>4
  <2> HIDE DEF L
  <2>3. /\ \A i \in DOMAIN L : L[i].kind = "reply" => i = Len(L)
        /\ \A i \in DOMAIN L : L[i].kind \in Told =>
               \/ On(x, L[i].kind)
               \/ L[i].kind \in W /\ StartReply(L[Len(L)], L[i].kind)
        /\ \A w \in Told : \A i \in DOMAIN L : ~StopReply(L[i], w)
    BY <1>4, <2>1 DEF StreamUpdate, On, StopReply
  <2>4. Good(y, W)
    BY <1>1, <1>2, <1>4, <2>1, <2>2, <2>3, GoodExtended
  <2>5. \A q : CountIn(y.out, Answers(q)) = CountIn(x.out, Answers(q))
    BY <1>1, <1>4, UpdatesAnswerNothing
  <2> QED
    BY <2>4, <2>5
<1> QED
  BY <1>3, <1>4 DEF Logged

(* One end of a request becomes at most one answer.                        *)
LEMMA OneAnswerMore ==
  ASSUME NEW after \in Nat, NEW before \in Nat, NEW left \in Nat, NEW all \in Nat,
         NEW due \in Nat, before + all <= due, after <= before + 1, all = left + 1
  PROVE  /\ after + left <= due
         /\ before + all = due /\ after = before + 1 => after + left = due
OBVIOUS

(* A request that is handled is answered once, and leaves the streams in   *)
(* order for a client that has asked for it.                               *)
LEMMA AnsweredGood ==
  ASSUME NEW x, IsConn(x), NEW r \in Requests, NEW y, Answered(y, x, r),
         NEW W, Good(x, W), Starts(r) \subseteq W
  PROVE  /\ Good(y, W)
         /\ \A q \in AllRequests : q # r => CountIn(y.out, Answers(q)) = CountIn(x.out, Answers(q))
         /\ ~Unanswered(r) => CountIn(y.out, Answers(r)) = CountIn(x.out, Answers(r)) + 1
         /\ CountIn(y.out, Answers(r)) <= CountIn(x.out, Answers(r)) + 1
<1>1. x.out \in Seq(MessageSet)
  BY ConnFields
<1>2. \A q : CountIn(x.out, Answers(q)) \in Nat
  BY <1>1, CountIsNat
<1>3. CASE Unanswered(r) /\ y.out = x.out
  <2>1. Starts(r) = {} /\ Stops(r) = {}
    BY <1>3 DEF Unanswered, Starts, Stops
  <2>2. Good(y, W)
    BY <1>3, <2>1 DEF Good, Answered, Active
  <2> QED
    BY <1>2, <1>3, <2>2
<1>4. ASSUME NEW n \in Nat, NEW success \in BOOLEAN, n > 0 => "log" \in Starts(r),
             y.out = Append(x.out \o Logs(n), Reply(r, success))
      PROVE  /\ Good(y, W)
             /\ \A q \in AllRequests : CountIn(y.out, Answers(q)) =
                    CountIn(x.out, Answers(q)) + (IF q = r THEN 1 ELSE 0)
  <2> DEFINE m == Reply(r, success)
             L == Logs(n) \o <<m>>
  <2>1. m \in MessageSet /\ r \in AllRequests
    BY ReplyTyped DEF AllRequests
  <2>2. Logs(n) \in Seq(MessageSet) /\ Len(Logs(n)) = n
        /\ \A i \in 1 .. n : Logs(n)[i] = StreamUpdate("log")
    BY LogsTyped
  <2>m. m.kind = "reply" /\ m.to = r
    BY DEF Reply
  <2> HIDE DEF m
  <2>3. /\ L \in Seq(MessageSet) /\ Len(L) = n + 1 /\ L[n + 1] = m /\ DOMAIN L = 1 .. n + 1
        /\ \A i \in 1 .. n : L[i] = StreamUpdate("log")
    BY <2>1, <2>2
  <2>4. y.out = x.out \o L
    <3> DEFINE K == Logs(n)
               O == x.out
    <3>1. O \in Seq(MessageSet) /\ K \in Seq(MessageSet) /\ O \o K \in Seq(MessageSet) /\ <<m>> \in Seq(MessageSet)
      BY <1>1, <2>1, <2>2, ConcatProperties
    <3>2. y.out = Append(O \o K, m) /\ L = K \o <<m>> /\ x.out = O
      BY <1>4 DEF m
    <3> HIDE DEF K, L, O
    <3>3. Append(O \o K, m) = (O \o K) \o <<m>>
      BY <2>1, <3>1, AppendIsConcat
    <3>4. (O \o K) \o <<m>> = O \o (K \o <<m>>)
      BY <3>1, ConcatAssociative
    <3> QED
      BY <3>2, <3>3, <3>4
  <2> HIDE DEF L
  <2>5. \A i \in DOMAIN L : L[i].kind = "reply" => i = Len(L)
    BY <2>3 DEF StreamUpdate
  <2>6. \A i \in DOMAIN L : L[i].kind \in Told =>
            L[i].kind \in W /\ StartReply(L[Len(L)], L[i].kind)
    <3>1. ASSUME NEW i \in 1 .. n PROVE L[i].kind = "log" /\ "log" \in Starts(r)
      BY <1>4, <2>3 DEF StreamUpdate
    <3>2. L[n + 1].kind \notin Told
      BY <2>3, <2>m DEF Told, Streams
    <3> QED
      BY <2>3, <2>m, <3>1, <3>2 DEF StartReply
  <2>7. ASSUME NEW w \in Told, On(y, w)
        PROVE  \/ On(x, w) /\ \A i \in DOMAIN L : ~StopReply(L[i], w)
               \/ w \in W /\ L # <<>> /\ StartReply(L[Len(L)], w)
    <3>1. CASE w \in Starts(r)
      <4>1. L # <<>>
        BY <2>3
      <4> QED
        BY <2>3, <2>m, <3>1, <4>1 DEF StartReply
    <3>2. CASE On(x, w) /\ w \notin Stops(r)
      BY <2>3, <2>m, <3>2 DEF StopReply, StreamUpdate
    <3> QED
      BY <2>7, <3>1, <3>2 DEF Answered
  <2>8. LogsDebug /\ y.logs > 0 => y.logging
    BY DEF Answered, Active
  <2>9. Good(y, W)
    BY <1>1, <2>3, <2>4, <2>5, <2>6, <2>7, <2>8, GoodExtended
  <2>10. ASSUME NEW q \in AllRequests
         PROVE  CountIn(y.out, Answers(q)) = CountIn(x.out, Answers(q)) + (IF q = r THEN 1 ELSE 0)
    <3>1. m \in Answers(q) <=> q = r
      BY <2>1, <2>m DEF Answers, IsAnswer
    <3>2. x.out \o Logs(n) \in Seq(MessageSet)
      BY <1>1, <2>2, ConcatProperties
    <3>3. y.out = Append(x.out \o Logs(n), m)
      BY <1>4 DEF m
    <3>4. CountIn(y.out, Answers(q)) =
              CountIn(x.out \o Logs(n), Answers(q)) + (IF m \in Answers(q) THEN 1 ELSE 0)
      <4>1. CountIn(Append(x.out \o Logs(n), m), Answers(q)) =
                CountIn(x.out \o Logs(n), Answers(q)) + (IF m \in Answers(q) THEN 1 ELSE 0)
        BY <2>1, <3>2, CountAppend
      <4> QED
        BY <3>3, <4>1
    <3>5. CountIn(x.out \o Logs(n), Answers(q)) = CountIn(x.out, Answers(q))
      BY <1>1, UpdatesAnswerNothing
    <3> QED
      BY <3>1, <3>4, <3>5
  <2> QED
    BY <2>9, <2>10
<1>5. r \in AllRequests
  BY DEF AllRequests
<1>6. CASE \E n \in Nat, success \in BOOLEAN :
               /\ n > 0 => "log" \in Starts(r)
               /\ y.out = Append(x.out \o Logs(n), Reply(r, success))
  <2>1. /\ Good(y, W)
        /\ \A q \in AllRequests : CountIn(y.out, Answers(q)) =
               CountIn(x.out, Answers(q)) + (IF q = r THEN 1 ELSE 0)
    BY <1>4, <1>6
  <2> QED
    BY <1>2, <1>5, <2>1
<1> QED
  BY <1>3, <1>6 DEF Answered

-----------------------------------------------------------------------------
(* What is kept while the server reads: p says which pieces of each        *)
(* connection are still to be handled, and the step makes whole' of whole. *)
Tracks(t, p) ==
    /\ IsServer(t)
    /\ \A d \in Clients : IsOpen(t, d) =>
           /\ Wanted(asked[d], wants[d])
           /\ Accounted(t.conn[d].out, p[d], asked[d], t.core.status = "running" /\ whole'[d])
           /\ Good(t.conn[d], wants[d])

(* What is open in t has the input that it has in s.                        *)
SameInput(t, s) ==
    \A d \in Clients : IsOpen(t, d) =>
        /\ IsOpen(s, d)
        /\ t.conn[d].webSocket = s.conn[d].webSocket
        /\ t.conn[d].buffer = s.conn[d].buffer

Pending == [Clients -> Seq(PieceSet)]

LEMMA SameTransitive ==
  ASSUME NEW s, NEW t, NEW u, SameInput(t, s), SameInput(u, t)
  PROVE  SameInput(u, s)
BY DEF SameInput

LEMMA FrameStartsNothing ==
  ASSUME NEW r, IsFrame(r)
  PROVE  Starts(r) = {}
BY DEF IsFrame, Starts

(* One request of c is handled.                                            *)
LEMMA RequestTracked ==
  ASSUME asked \in [Clients -> Seq(AllRequests)],
         NEW t, NEW c \in Clients, NEW r \in Requests, NEW env \in Environments,
         NEW p \in Pending, NEW P \in Seq(PieceSet), Tracks(t, p),
         \A q \in AllRequests :
             CountIn(p[c], Ends(q)) = CountIn(P, Ends(q)) + (IF q = r THEN 1 ELSE 0)
  PROVE  /\ Tracks(HandleMessage(t, c, r, env), [p EXCEPT ![c] = P])
         /\ SameInput(HandleMessage(t, c, r, env), t)
<1> DEFINE u == HandleMessage(t, c, r, env)
           pp == [p EXCEPT ![c] = P]
<1>0. pp[c] = P /\ \A d \in Clients \ {c} : pp[d] = p[d]
  BY DEF Pending
<1>t. IsServer(t)
  BY DEF Tracks
<1>n. \A q : CountIn(P, Ends(q)) \in Nat /\ CountIn(p[c], Ends(q)) \in Nat
  BY CountIsNat DEF Pending
<1> HIDE DEF pp
<1>1. CASE ~IsOpen(t, c)
  <2>1. u = t
    BY <1>1 DEF HandleMessage
  <2> QED
    BY <1>0, <1>1, <2>1 DEF Tracks, SameInput, pp
<1>2. CASE IsOpen(t, c) /\ t.core.status # "running"
  <2>1. u = t
    BY <1>2 DEF HandleMessage
  <2>2. CountIn(t.conn[c].out, Answers(r)) \in Nat
        /\ \A q : CountIn(t.conn[c].out, Answers(q)) \in Nat /\ CountIn(asked[c], {q}) \in Nat
    BY <1>2, <1>t, OpenIsConn, ConnFields, CountIsNat
  <2>3. Accounted(t.conn[c].out, p[c], asked[c], FALSE)
    BY <1>2 DEF Tracks, Accounted
  <2>4. Accounted(t.conn[c].out, P, asked[c], FALSE)
    <3>1. ASSUME NEW q \in AllRequests, ~IsFrame(q)
          PROVE  CountIn(t.conn[c].out, Answers(q)) + CountIn(P, Ends(q)) <= CountIn(asked[c], {q})
      <4>1. CountIn(t.conn[c].out, Answers(q)) + CountIn(p[c], Ends(q)) <= CountIn(asked[c], {q})
        BY <2>3, <3>1 DEF Accounted
      <4>2. CountIn(P, Ends(q)) <= CountIn(p[c], Ends(q))
        BY <1>n
      <4> QED
        BY <1>n, <2>2, <4>1, <4>2
    <3> QED
      BY <3>1 DEF Accounted
  <2>5. Tracks(t, pp)
    BY <1>0, <1>2, <2>4 DEF Tracks, Accounted
  <2> QED
    BY <2>1, <2>5 DEF SameInput, pp
<1>3. CASE IsOpen(t, c) /\ t.core.status = "running"
  <2> DEFINE x == t.conn[c]
             y == u.conn[c]
  <2>1. IsConn(x) /\ Wanted(asked[c], wants[c]) /\ Good(x, wants[c])
        /\ Accounted(x.out, p[c], asked[c], whole'[c])
    <3>1. IsConn(x) /\ Wanted(asked[c], wants[c]) /\ Good(x, wants[c])
          /\ Accounted(x.out, p[c], asked[c], t.core.status = "running" /\ whole'[c])
      BY <1>3, <1>t, OpenIsConn DEF Tracks
    <3> QED
      BY <1>3, <3>1 DEF Accounted
  <2>2. Active(x)
    BY <2>1 DEF Good, Active
  <2>3. Handled(u, t, c, r)
    BY <1>3, <1>t, <2>2, HandleMessageHandled
  <2> HIDE DEF u
  <2>4. IsServer(u)
    BY <2>3 DEF Handled
  <2>5. CASE \A d \in Clients : u.conn[d] = Closed
    <3>1. \A d \in Clients : ~IsOpen(u, d)
      BY <2>5 DEF IsOpen, Closed
    <3> QED
      BY <2>4, <3>1 DEF Tracks, SameInput, u, pp
  <2>6. CASE /\ Answered(y, x, r)
             /\ \A d \in Clients \ {c} :
                    IF IsOpen(t, d) THEN Logged(u.conn[d], t.conn[d]) ELSE u.conn[d] = Closed
    <3>1. r \in AllRequests
      BY DEF AllRequests
    <3>2. Starts(r) \subseteq wants[c]
      <4>1. CASE IsFrame(r)
        BY <4>1, FrameStartsNothing
      <4>2. CASE ~IsFrame(r)
        <5>1. CountIn(x.out, Answers(r)) \in Nat /\ CountIn(asked[c], {r}) \in Nat
          BY <2>1, ConnFields, CountIsNat
        <5>2. CountIn(x.out, Answers(r)) + CountIn(p[c], Ends(r)) <= CountIn(asked[c], {r})
          BY <2>1, <3>1, <4>2 DEF Accounted
        <5>3. CountIn(asked[c], {r}) > 0
          BY <1>n, <3>1, <5>1, <5>2
        <5>4. \E i \in DOMAIN asked[c] : asked[c][i] = r
          BY <5>3, CountPositive
        <5> QED
          BY <2>1, <5>4 DEF Wanted
      <4> QED
        BY <4>1, <4>2
    <3>3. /\ Good(y, wants[c])
          /\ \A q \in AllRequests : q # r => CountIn(y.out, Answers(q)) = CountIn(x.out, Answers(q))
          /\ ~Unanswered(r) => CountIn(y.out, Answers(r)) = CountIn(x.out, Answers(r)) + 1
          /\ CountIn(y.out, Answers(r)) <= CountIn(x.out, Answers(r)) + 1
      BY <2>1, <2>6, <3>2, AnsweredGood
    <3>4. Accounted(y.out, P, asked[c], whole'[c])
      <4>1. IsConn(y)
        BY <2>6 DEF Answered
      <4>2. \A q : /\ CountIn(y.out, Answers(q)) \in Nat /\ CountIn(x.out, Answers(q)) \in Nat
                   /\ CountIn(asked[c], {q}) \in Nat
        BY <2>1, <4>1, ConnFields, CountIsNat
      <4> HIDE DEF x, y
      <4>3. ASSUME NEW q \in AllRequests, ~IsFrame(q)
            PROVE  /\ CountIn(y.out, Answers(q)) + CountIn(P, Ends(q)) <= CountIn(asked[c], {q})
                   /\ whole'[c] /\ ~Unanswered(q) =>
                         CountIn(y.out, Answers(q)) + CountIn(P, Ends(q)) = CountIn(asked[c], {q})
        <5>1. /\ CountIn(x.out, Answers(q)) + CountIn(p[c], Ends(q)) <= CountIn(asked[c], {q})
              /\ whole'[c] /\ ~Unanswered(q) =>
                   CountIn(x.out, Answers(q)) + CountIn(p[c], Ends(q)) = CountIn(asked[c], {q})
          BY <2>1, <4>3 DEF Accounted
        <5>2. CountIn(p[c], Ends(q)) = CountIn(P, Ends(q)) + (IF q = r THEN 1 ELSE 0)
          BY <4>3
        <5>3. CASE q = r
          <6>1. /\ ~Unanswered(q) => CountIn(y.out, Answers(q)) = CountIn(x.out, Answers(q)) + 1
                /\ CountIn(y.out, Answers(q)) <= CountIn(x.out, Answers(q)) + 1
            BY <3>3, <5>3
          <6>2. CountIn(p[c], Ends(q)) = CountIn(P, Ends(q)) + 1
            BY <5>2, <5>3
          <6>3. /\ CountIn(y.out, Answers(q)) \in Nat /\ CountIn(x.out, Answers(q)) \in Nat
                /\ CountIn(P, Ends(q)) \in Nat
                /\ CountIn(p[c], Ends(q)) \in Nat /\ CountIn(asked[c], {q}) \in Nat
            BY <1>n, <4>2
          <6> DEFINE after  == CountIn(y.out, Answers(q))
                     before == CountIn(x.out, Answers(q))
                     left   == CountIn(P, Ends(q))
                     all    == CountIn(p[c], Ends(q))
                     due    == CountIn(asked[c], {q})
          <6> HIDE DEF after, before, left, all, due
          <6>4. /\ before + all <= due /\ (whole'[c] /\ ~Unanswered(q) => before + all = due)
                /\ after <= before + 1 /\ (~Unanswered(q) => after = before + 1)
                /\ all = left + 1
                /\ after \in Nat /\ before \in Nat /\ left \in Nat /\ all \in Nat /\ due \in Nat
            BY <5>1, <6>1, <6>2, <6>3 DEF after, before, left, all, due
          <6>5. after + left <= due /\ (whole'[c] /\ ~Unanswered(q) => after + left = due)
            BY <6>4, OneAnswerMore
          <6> QED
            BY <6>5 DEF after, before, left, all, due
        <5>4. CASE q # r
          BY <1>n, <3>3, <4>2, <4>3, <5>1, <5>2, <5>4
        <5> QED
          BY <5>3, <5>4
      <4> QED
        BY <4>3 DEF Accounted
    <3>5. ASSUME NEW d \in Clients, IsOpen(u, d)
          PROVE  /\ IsOpen(t, d)
                 /\ u.conn[d].webSocket = t.conn[d].webSocket
                 /\ u.conn[d].buffer = t.conn[d].buffer
                 /\ Wanted(asked[d], wants[d])
                 /\ Accounted(u.conn[d].out, pp[d], asked[d], u.core.status = "running" /\ whole'[d])
                 /\ Good(u.conn[d], wants[d])
      <4>1. CASE d = c
        <5>1. Accounted(u.conn[d].out, pp[d], asked[d], u.core.status = "running" /\ whole'[d])
          BY <1>0, <3>4, <4>1 DEF Accounted
        <5> QED
          BY <1>3, <2>1, <2>6, <3>3, <4>1, <5>1 DEF Answered
      <4>2. CASE d # c
        <5>1. IsOpen(t, d)
          BY <2>6, <3>5, <4>2 DEF IsOpen, Closed
        <5>2. Logged(u.conn[d], t.conn[d]) /\ IsConn(t.conn[d])
          BY <1>t, <2>6, <4>2, <5>1, OpenIsConn
        <5>3. /\ Wanted(asked[d], wants[d])
              /\ Accounted(t.conn[d].out, p[d], asked[d], whole'[d])
              /\ Good(t.conn[d], wants[d])
          <6>1. /\ Wanted(asked[d], wants[d])
                /\ Accounted(t.conn[d].out, p[d], asked[d],
                             t.core.status = "running" /\ whole'[d])
                /\ Good(t.conn[d], wants[d])
            BY <5>1 DEF Tracks
          <6> QED
            BY <1>3, <6>1 DEF Accounted
        <5>4. /\ Good(u.conn[d], wants[d])
              /\ \A q : CountIn(u.conn[d].out, Answers(q)) = CountIn(t.conn[d].out, Answers(q))
          BY <5>2, <5>3, LoggedGood
        <5>5. Accounted(u.conn[d].out, pp[d], asked[d], u.core.status = "running" /\ whole'[d])
          BY <1>0, <4>2, <5>3, <5>4 DEF Accounted
        <5> QED
          BY <5>1, <5>2, <5>3, <5>4, <5>5 DEF Logged
      <4> QED
        BY <4>1, <4>2
    <3> QED
      BY <2>4, <3>5 DEF Tracks, SameInput, u, pp
  <2> QED
    BY <2>3, <2>5, <2>6 DEF Handled
<1> QED
  BY <1>1, <1>2, <1>3

(* Requests are lost only where the connection's reads were not whole.     *)
LEMMA TracksCount ==
  ASSUME asked \in [Clients -> Seq(AllRequests)],
         NEW t, NEW c \in Clients, NEW p \in Pending, NEW P \in Seq(PieceSet), Tracks(t, p),
         \A q \in AllRequests : ~IsFrame(q) =>
             /\ CountIn(P, Ends(q)) <= CountIn(p[c], Ends(q))
             /\ whole'[c] => CountIn(P, Ends(q)) = CountIn(p[c], Ends(q))
  PROVE  Tracks(t, [p EXCEPT ![c] = P])
<1> DEFINE pp == [p EXCEPT ![c] = P]
<1>1. pp[c] = P /\ \A d \in Clients \ {c} : pp[d] = p[d]
  BY DEF Pending
<1> HIDE DEF pp
<1>2. ASSUME NEW d \in Clients, IsOpen(t, d)
      PROVE  Accounted(t.conn[d].out, pp[d], asked[d], t.core.status = "running" /\ whole'[d])
  <2>1. Accounted(t.conn[d].out, p[d], asked[d], t.core.status = "running" /\ whole'[d])
    BY <1>2 DEF Tracks
  <2>2. CASE d # c
    BY <1>1, <2>1, <2>2
  <2>3. CASE d = c
    <3>1. \A q : /\ CountIn(t.conn[c].out, Answers(q)) \in Nat /\ CountIn(P, Ends(q)) \in Nat
                 /\ CountIn(p[c], Ends(q)) \in Nat
      BY <1>2, <2>3, OpenIsConn, ConnFields, CountIsNat DEF Tracks, Pending
    <3>2. ASSUME NEW q \in AllRequests, ~IsFrame(q)
          PROVE  /\ CountIn(t.conn[c].out, Answers(q)) + CountIn(P, Ends(q)) <= CountIn(asked[c], {q})
                 /\ (t.core.status = "running" /\ whole'[c]) /\ ~Unanswered(q) =>
                       CountIn(t.conn[c].out, Answers(q)) + CountIn(P, Ends(q)) = CountIn(asked[c], {q})
      <4> DEFINE o == CountIn(t.conn[c].out, Answers(q))
                 n == CountIn(P, Ends(q))
                 m == CountIn(p[c], Ends(q))
                 a == CountIn(asked[c], {q})
      <4>1. o \in Nat /\ n \in Nat /\ m \in Nat /\ n <= m /\ (whole'[c] => n = m)
        BY <3>1, <3>2
      <4>2. o + m <= a /\ ((t.core.status = "running" /\ whole'[c]) /\ ~Unanswered(q) => o + m = a)
        BY <2>1, <2>3, <3>2 DEF Accounted
      <4>3. a \in Nat
        BY CountIsNat
      <4> HIDE DEF o, n, m, a
      <4>4. o + n <= a /\ ((t.core.status = "running" /\ whole'[c]) /\ ~Unanswered(q) => o + n = a)
        BY <4>1, <4>2, <4>3
      <4> QED
        BY <4>4 DEF o, n, a
    <3> QED
      BY <1>1, <2>3, <3>2 DEF Accounted
  <2> QED
    BY <2>2, <2>3
<1>3. Tracks(t, pp)
  BY <1>2 DEF Tracks
<1> QED
  BY <1>3 DEF pp

(* No complete line is left in the buffer.                                 *)
LEMMA RestHasNoLine ==
  ASSUME NEW B \in Seq(PieceSet)
  PROVE  /\ Rest(B) \in Seq(PieceSet)
         /\ \A i \in DOMAIN Rest(B) : ~Rest(B)[i].last /\ \E j \in DOMAIN B : Rest(B)[i] = B[j]
         /\ \A q : CountIn(Rest(B), Ends(q)) = 0
<1> DEFINE T == {0} \cup {i \in DOMAIN B : B[i].last}
           k == LastLine(B)
<1>1. T \in SUBSET (0 .. Len(B)) /\ T # {} /\ Len(B) \in Nat
  OBVIOUS
<1>2. \E x \in T : \A y \in T : y <= x
  <2> HIDE DEF T
  <2> QED
    BY <1>1, GreatestOf
<1>3. \E x \in T : \A y \in T : x >= y
  <2>1. \A y \in T : y \in Nat
    OBVIOUS
  <2> HIDE DEF T
  <2> QED
    BY <1>2, <2>1
<1>4. k \in T /\ \A y \in T : k >= y
  <2>1. k = CHOOSE x \in T : \A y \in T : x >= y
    BY DEF LastLine, Max
  <2> HIDE DEF T, k
  <2> QED
    BY <1>3, <2>1
<1>5. k \in 0 .. Len(B) /\ \A i \in DOMAIN B : B[i].last => i <= k
  BY <1>1, <1>4
<1>6. Rest(B) = SubSeq(B, k + 1, Len(B))
  BY DEF Rest
<1> HIDE DEF k
<1>7. /\ Rest(B) \in Seq(PieceSet)
      /\ \A i \in DOMAIN Rest(B) : Rest(B)[i] = B[k + i] /\ k + i \in DOMAIN B /\ k + i > k
  BY <1>5, <1>6
<1>8. \A i \in DOMAIN Rest(B) : ~Rest(B)[i].last
  <2> TAKE i \in DOMAIN Rest(B)
  <2>1. k + i \in DOMAIN B /\ ~(k + i <= k)
    BY <1>5, <1>7
  <2> QED
    BY <1>5, <1>7, <2>1
<1>9. \A q : CountIn(Rest(B), Ends(q)) = 0
  <2> TAKE q
  <2>1. \A i \in DOMAIN Rest(B) : Rest(B)[i] \notin Ends(q)
    BY <1>8 DEF Ends, Piece
  <2> QED
    BY <1>7, <2>1, CountNone
<1> QED
  BY <1>7, <1>8, <1>9

OthersSame(t, s, c) == \A d \in Clients \ {c} : t.conn[d] = s.conn[d]

WithBuffer(s, c, B) == [s EXCEPT !.conn[c].buffer = B]

LEMMA BufferSet ==
  ASSUME NEW s, NEW c \in Clients, IsOpen(s, c), NEW p, Tracks(s, p), NEW B \in Seq(PieceSet)
  PROVE  /\ Tracks(WithBuffer(s, c, B), p)
         /\ WithBuffer(s, c, B).conn[c] = [s.conn[c] EXCEPT !.buffer = B]
         /\ IsOpen(WithBuffer(s, c, B), c)
         /\ OthersSame(WithBuffer(s, c, B), s, c)
<1> DEFINE x == s.conn[c]
           y == [x EXCEPT !.buffer = B]
           t == [s EXCEPT !.conn[c] = y]
<1>1. IsServer(s) /\ IsConn(x)
  BY OpenIsConn DEF Tracks
<1>2. IsConn(y) /\ y.out = x.out /\ Good(y, wants[c]) = Good(x, wants[c])
  BY <1>1 DEF IsConn, Good, On
<1>3. [s EXCEPT !.conn[c].buffer = B] = t
  BY <1>1 DEF IsServer
<1> HIDE DEF y
<1>4. /\ IsServer(t) /\ t.conn[c] = y /\ IsOpen(t, c) /\ t.core = s.core
      /\ \A d \in Clients \ {c} : t.conn[d] = s.conn[d]
  BY <1>1, <1>2, SetConnection
<1> HIDE DEF t
<1>5. ASSUME NEW d \in Clients, IsOpen(t, d)
      PROVE  /\ Wanted(asked[d], wants[d])
             /\ Accounted(t.conn[d].out, p[d], asked[d], t.core.status = "running" /\ whole'[d])
             /\ Good(t.conn[d], wants[d])
  <2>1. CASE d = c
    BY <1>2, <1>4, <2>1 DEF Tracks
  <2>2. CASE d # c
    BY <1>4, <1>5, <2>2 DEF Tracks, IsOpen
  <2> QED
    BY <2>1, <2>2
<1>6. Tracks(t, p)
  BY <1>4, <1>5 DEF Tracks
<1> QED
  BY <1>3, <1>4, <1>6 DEF y, WithBuffer, OthersSame

(* One piece of the buffer: L is what follows it.                          *)
LEMMA PieceTracked ==
  ASSUME asked \in [Clients -> Seq(AllRequests)],
         NEW t, NEW c \in Clients, NEW env \in Environments,
         NEW b \in PieceSet, b.request \in Requests,
         NEW L \in Seq(PieceSet), NEW p \in Pending, p[c] = <<b>> \o L, Tracks(t, p)
  PROVE  LET u == IF b.last THEN HandleMessage(t, c, b.request, env) ELSE t
         IN Tracks(u, [p EXCEPT ![c] = L]) /\ SameInput(u, t)
<1>1. \A T : CountIn(p[c], T) = CountIn(L, T) + (IF b \in T THEN 1 ELSE 0)
  <2> TAKE T
  <2>1. CountIn(<<b>> \o L, T) = CountIn(<<b>>, T) + CountIn(L, T)
    <3>1. <<b>> \in Seq(PieceSet)
      OBVIOUS
    <3> QED
      BY <3>1, CountConcat
  <2>2. CountIn(L, T) \in Nat
    BY CountIsNat
  <2> QED
    BY <2>1, <2>2, CountOne
<1>2. CASE b.last
  <2> DEFINE r == b.request
  <2>1. r \in Requests /\ b = Piece(r, TRUE)
    BY <1>2 DEF PieceSet, Piece
  <2> HIDE DEF r
  <2>2. \A q \in AllRequests :
            CountIn(p[c], Ends(q)) = CountIn(L, Ends(q)) + (IF q = r THEN 1 ELSE 0)
    <3> TAKE q \in AllRequests
    <3>1. b \in Ends(q) <=> q = r
      BY <2>1 DEF Ends, Piece
    <3>2. CountIn(p[c], Ends(q)) = CountIn(L, Ends(q)) + (IF b \in Ends(q) THEN 1 ELSE 0)
      BY <1>1
    <3> QED
      BY <3>1, <3>2
  <2>3. /\ Tracks(HandleMessage(t, c, r, env), [p EXCEPT ![c] = L])
        /\ SameInput(HandleMessage(t, c, r, env), t)
    BY <2>1, <2>2, RequestTracked
  <2> QED
    BY <1>2, <2>3 DEF r
<1>3. CASE ~b.last
  <2>1. \A q \in AllRequests :
            CountIn(L, Ends(q)) <= CountIn(p[c], Ends(q)) /\ CountIn(L, Ends(q)) = CountIn(p[c], Ends(q))
    <3> TAKE q \in AllRequests
    <3>1. b \notin Ends(q)
      BY <1>3 DEF Ends, Piece
    <3>2. CountIn(L, Ends(q)) \in Nat
      BY CountIsNat
    <3>3. CountIn(p[c], Ends(q)) = CountIn(L, Ends(q)) + (IF b \in Ends(q) THEN 1 ELSE 0)
      BY <1>1
    <3> QED
      BY <3>1, <3>2, <3>3
  <2>2. Tracks(t, [p EXCEPT ![c] = L])
    BY <2>1, TracksCount
  <2> QED
    BY <1>3, <2>2 DEF SameInput
<1> QED
  BY <1>2, <1>3

(* The function that HandleLines defines by recursion.                     *)
LinesRun(after, s, c, env, B) ==
    /\ after[0] = [s EXCEPT !.conn[c].buffer = Rest(B)]
    /\ \A i \in 1 .. Len(B) :
          after[i] = IF B[i].last THEN HandleMessage(after[i - 1], c, B[i].request, env)
                     ELSE after[i - 1]
    /\ HandleLines(s, c, env) = after[Len(B)]

LEMMA LinesFunction ==
  ASSUME NEW s, NEW c, NEW env, NEW B, s.conn[c].buffer = B, Len(B) \in Nat
  PROVE  \E after : LinesRun(after, s, c, env, B)
<1> DEFINE N == Len(B)
           base == [s EXCEPT !.conn[c].buffer = Rest(B)]
           Step(t, i) == IF B[i].last THEN HandleMessage(t, c, B[i].request, env) ELSE t
           F(f, k) == f = [i \in 0 .. k |-> IF i = 0 THEN base ELSE Step(f[i - 1], i)]
           after == CHOOSE f : F(f, N)
<1>1. HandleLines(s, c, env) = after[N]
  BY DEF HandleLines
<1> HIDE DEF Step, base
<1>2. \E f : F(f, N)
  <2> DEFINE T == {k \in Nat : \E f : F(f, k)}
  <2>1. 0 \in T
    <3>1. F([i \in 0 .. 0 |-> base], 0)
      OBVIOUS
    <3> QED
      BY <3>1
  <2>2. ASSUME NEW k \in Nat, k \in T PROVE k + 1 \in T
    <3>1. PICK f : F(f, k)
      BY <2>2
    <3> DEFINE g == [i \in 0 .. k + 1 |-> IF i = k + 1 THEN Step(f[k], k + 1) ELSE f[i]]
               h == [i \in 0 .. k + 1 |-> IF i = 0 THEN base ELSE Step(g[i - 1], i)]
    <3>2. ASSUME NEW i \in 0 .. k + 1
          PROVE  g[i] = IF i = 0 THEN base ELSE Step(g[i - 1], i)
      <4>1. CASE i = k + 1
        <5>1. g[i] = Step(f[k], i) /\ g[i - 1] = f[k] /\ i # 0
          BY <4>1
        <5> QED
          BY <4>1, <5>1
      <4>2. CASE i # k + 1
        <5>1. i \in 0 .. k /\ g[i] = f[i] /\ (i # 0 => g[i - 1] = f[i - 1])
          BY <4>2
        <5>2. f[i] = IF i = 0 THEN base ELSE Step(f[i - 1], i)
          BY <3>1, <5>1
        <5> HIDE DEF g
        <5> QED
          BY <5>1, <5>2
      <4> QED
        BY <4>1, <4>2
    <3>3. g = h
      <4>1. \A i \in 0 .. k + 1 : h[i] = g[i]
        BY <3>2
      <4> QED
        BY <4>1
    <3>4. F(g, k + 1)
      BY <3>3
    <3> HIDE DEF F
    <3> QED
      BY <3>4
  <2>3. Nat \subseteq T
    <3> HIDE DEF T
    <3> QED
      BY <2>1, <2>2, AllNumbers
  <2> QED
    BY <2>3
<1>3. F(after, N)
  BY <1>2
<1>4. after[0] = base /\ \A i \in 1 .. N : after[i] = Step(after[i - 1], i)
  <2> HIDE DEF after
  <2> QED
    BY <1>3
<1> HIDE DEF after
<1> QED
  BY <1>1, <1>4 DEF base, Step, LinesRun

(* All complete lines of the buffer are handled.                           *)
ToHandle(s, p, c, B, w) == s.conn[c].buffer = B /\ p[c] = B \o w

LEMMA LinesTracked ==
  ASSUME asked \in [Clients -> Seq(AllRequests)],
         NEW s, NEW c \in Clients, IsOpen(s, c), NEW env \in Environments,
         NEW w \in Seq(PieceSet), NEW p \in Pending, Tracks(s, p),
         NEW B \in Seq(PieceSet), ToHandle(s, p, c, B, w),
         \A i \in DOMAIN B : B[i].request \in Requests
  PROVE  /\ Tracks(HandleLines(s, c, env), [p EXCEPT ![c] = Rest(B) \o w])
         /\ SameInput(HandleLines(s, c, env), [s EXCEPT !.conn[c].buffer = Rest(B)])
<1> DEFINE N == Len(B)
           base == [s EXCEPT !.conn[c].buffer = Rest(B)]
           Left(i) == SubSeq(B, i + 1, N) \o w
           P(i) == [p EXCEPT ![c] = Left(i)]
<1>1. N \in Nat /\ Rest(B) \in Seq(PieceSet)
  BY RestHasNoLine
<1>2. PICK after : LinesRun(after, s, c, env, B)
  BY <1>1, LinesFunction DEF ToHandle
<1>b. after[0] = base
  BY <1>2 DEF LinesRun
<1>3. Tracks(base, P(0)) /\ SameInput(base, base)
  <2>1. SubSeq(B, 1, N) = B
    BY SubSeqFull
  <2>2. P(0) = p
    BY <2>1 DEF Pending, ToHandle
  <2>3. Tracks(base, p)
    BY <1>1, BufferSet DEF WithBuffer
  <2> QED
    BY <2>2, <2>3 DEF SameInput
<1> HIDE DEF base
<1>4. ASSUME NEW i \in 1 .. N, Tracks(after[i - 1], P(i - 1))
      PROVE  Tracks(after[i], P(i)) /\ SameInput(after[i], after[i - 1])
  <2> DEFINE q0 == P(i - 1)
             L == Left(i)
             e == SubSeq(B, i + 1, N)
             b == B[i]
  <2>1. e \in Seq(PieceSet) /\ b \in PieceSet /\ SubSeq(B, i, N) \in Seq(PieceSet)
    OBVIOUS
  <2>2. SubSeq(B, i, N) = <<b>> \o e
    OBVIOUS
  <2>3. Left(i - 1) = SubSeq(B, i, N) \o w
    <3>1. (i - 1) + 1 = i
      OBVIOUS
    <3> QED
      BY <3>1
  <2> HIDE DEF e, b
  <2>4. <<b>> \in Seq(PieceSet) /\ e \o w \in Seq(PieceSet)
        /\ (<<b>> \o e) \o w \in Seq(PieceSet)
    BY <2>1, ConcatProperties
  <2>5. (<<b>> \o e) \o w = <<b>> \o (e \o w)
    BY <2>1, <2>4, ConcatAssociative
  <2>6. L = e \o w
    BY DEF e
  <2>7. Left(i - 1) = <<b>> \o L /\ Left(i - 1) \in Seq(PieceSet) /\ L \in Seq(PieceSet)
    BY <2>2, <2>3, <2>4, <2>5, <2>6
  <2>8. q0 \in Pending /\ q0[c] = <<b>> \o L /\ [q0 EXCEPT ![c] = L] = P(i)
    <3> HIDE DEF Left, L
    <3>1. q0 \in Pending /\ q0[c] = Left(i - 1) /\ [q0 EXCEPT ![c] = L] = [p EXCEPT ![c] = L]
      BY <2>7 DEF Pending
    <3>2. P(i) = [p EXCEPT ![c] = L]
      BY DEF L
    <3> QED
      BY <2>7, <3>1, <3>2
  <2>9. b.request \in Requests
    BY DEF b
  <2>10. after[i] = IF b.last THEN HandleMessage(after[i - 1], c, b.request, env)
                    ELSE after[i - 1]
    BY <1>2 DEF b, LinesRun
  <2>11. Tracks(after[i - 1], q0)
    BY <1>4
  <2> HIDE DEF q0, L, P
  <2>12. Tracks(after[i], [q0 EXCEPT ![c] = L]) /\ SameInput(after[i], after[i - 1])
    <3> DEFINE t == after[i - 1]
               u == IF b.last THEN HandleMessage(t, c, b.request, env) ELSE t
    <3>1. Tracks(t, q0) /\ after[i] = u
      BY <2>10, <2>11
    <3> HIDE DEF t
    <3>2. Tracks(u, [q0 EXCEPT ![c] = L]) /\ SameInput(u, t)
      BY <2>1, <2>7, <2>8, <2>9, <3>1, PieceTracked, Zenon
    <3> QED
      BY <3>1, <3>2 DEF t
  <2> QED
    BY <2>8, <2>12
<1> DEFINE Kept(i) == Tracks(after[i], P(i)) /\ SameInput(after[i], base)
<1>5. Kept(N)
  <2> DEFINE T == {i \in Nat : i <= N => Kept(i)}
  <2>1. 0 \in T
    BY <1>b, <1>3
  <2> HIDE DEF P
  <2>2. ASSUME NEW i \in Nat, i \in T PROVE i + 1 \in T
    <3> SUFFICES ASSUME i + 1 <= N PROVE Kept(i + 1)
      OBVIOUS
    <3>1. i + 1 \in 1 .. N /\ (i + 1) - 1 = i /\ Kept(i)
      BY <1>1, <2>2
    <3>2. Tracks(after[i + 1], P(i + 1)) /\ SameInput(after[i + 1], after[i])
      BY <1>4, <3>1
    <3> QED
      BY <3>1, <3>2, SameTransitive
  <2> HIDE DEF Kept
  <2>3. Nat \subseteq T
    <3> HIDE DEF T
    <3> QED
      BY <2>1, <2>2, AllNumbers
  <2> QED
    BY <1>1, <2>3
<1>6. Tracks(after[N], [p EXCEPT ![c] = Rest(B) \o w])
  <2> DEFINE R == Rest(B)
             q0 == P(N)
  <2>1. R \in Seq(PieceSet) /\ \A q : CountIn(R, Ends(q)) = 0
    BY RestHasNoLine
  <2>2. Left(N) = w
    <3>1. SubSeq(B, N + 1, N) = <<>>
      OBVIOUS
    <3> QED
      BY <3>1
  <2>3. q0 \in Pending /\ q0[c] = w /\ [q0 EXCEPT ![c] = R \o w] = [p EXCEPT ![c] = R \o w]
    <3> HIDE DEF Left, R
    <3> QED
      BY <2>2 DEF Pending
  <2>4. Tracks(after[N], q0)
    BY <1>5
  <2> HIDE DEF R, q0
  <2>5. ASSUME NEW q \in AllRequests
        PROVE  /\ CountIn(R \o w, Ends(q)) <= CountIn(q0[c], Ends(q))
               /\ CountIn(R \o w, Ends(q)) = CountIn(q0[c], Ends(q))
    <3>1. CountIn(R \o w, Ends(q)) = CountIn(R, Ends(q)) + CountIn(w, Ends(q))
      BY <2>1, CountConcat
    <3>2. CountIn(w, Ends(q)) \in Nat
      BY CountIsNat
    <3> QED
      BY <2>1, <2>3, <3>1, <3>2
  <2>6. R \o w \in Seq(PieceSet)
    BY <2>1, ConcatProperties
  <2>7. Tracks(after[N], [q0 EXCEPT ![c] = R \o w])
    BY <2>3, <2>4, <2>5, <2>6, TracksCount
  <2> QED
    BY <2>3, <2>7 DEF R
<1> QED
  BY <1>2, <1>5, <1>6 DEF base, LinesRun
-----------------------------------------------------------------------------
(* The data that the socket has.                                           *)
Sound(t, w) ==
    /\ IsServer(t)
    /\ \A d \in Clients : IsOpen(t, d) =>
           ConnInv(t.conn[d], w[d], asked[d], wants[d], t.core.status = "running" /\ whole'[d])

LEMMA TracksSound ==
  ASSUME NEW t, NEW p, NEW w, Tracks(t, p),
         \A d \in Clients : IsOpen(t, d) =>
             p[d] = t.conn[d].buffer \o w[d] /\ Arriving(t.conn[d], w[d], asked[d])
  PROVE  Sound(t, w)
<1>1. ASSUME NEW d \in Clients, IsOpen(t, d)
      PROVE  ConnInv(t.conn[d], w[d], asked[d], wants[d], t.core.status = "running" /\ whole'[d])
  <2>1. p[d] = t.conn[d].buffer \o w[d] /\ Arriving(t.conn[d], w[d], asked[d])
    BY <1>1
  <2> QED
    BY <1>1, <2>1 DEF Tracks, ConnInv, Accounted
<1> QED
  BY <1>1 DEF Sound, Tracks

(* A message is written that is neither the answer to a request nor the    *)
(* update of a stream that is off.                                         *)
Written(y, x, m) ==
    /\ y.out = Append(x.out, m)
    /\ y.leds = x.leds /\ y.images = x.images /\ y.logs = x.logs /\ y.logging = x.logging

LEMMA MessageGood ==
  ASSUME NEW x, IsConn(x), NEW W, Good(x, W), NEW m \in MessageSet, m.kind # "reply",
         m.kind \in Told => On(x, m.kind),
         NEW y, Written(y, x, m)
  PROVE  /\ Good(y, W)
         /\ \A q : CountIn(y.out, Answers(q)) =
                CountIn(x.out, Answers(q)) + (IF m \in Answers(q) THEN 1 ELSE 0)
<1> DEFINE L == <<m>>
<1>1. x.out \in Seq(MessageSet)
  BY ConnFields
<1>2. L \in Seq(MessageSet) /\ Len(L) = 1 /\ DOMAIN L = {1} /\ L[1] = m
  OBVIOUS
<1>3. y.out = x.out \o L
  BY <1>1, AppendIsConcat DEF Written
<1> HIDE DEF L
<1>4. \A w \in Told : On(y, w) => On(x, w) /\ \A i \in DOMAIN L : ~StopReply(L[i], w)
  BY <1>2 DEF On, StopReply, Written
<1>5. \A i \in DOMAIN L : L[i].kind \in Told => On(x, L[i].kind)
  BY <1>2
<1>6. \A i \in DOMAIN L : L[i].kind = "reply" => i = Len(L)
  BY <1>2
<1>7. LogsDebug /\ y.logs > 0 => y.logging
  BY DEF Good, Written
<1>8. Good(y, W)
  BY <1>1, <1>2, <1>3, <1>4, <1>5, <1>6, <1>7, GoodExtended
<1>9. \A q : CountIn(Append(x.out, m), Answers(q)) =
                CountIn(x.out, Answers(q)) + (IF m \in Answers(q) THEN 1 ELSE 0)
  BY <1>1, CountAppend
<1> QED
  BY <1>8, <1>9 DEF Written

(* What the server has still to handle.                                    *)
Waits == [d \in Clients |-> IF IsOpen(server, d) THEN server.conn[d].buffer \o wire[d] ELSE <<>>]

StillWhole == \A d \in Clients : whole'[d] => whole[d]

LEMMA InvTracks ==
  ASSUME IInv, StillWhole
  PROVE  Waits \in Pending /\ Tracks(server, Waits)
<1>1. ASSUME NEW d \in Clients, IsOpen(server, d)
      PROVE  /\ Waits[d] = server.conn[d].buffer \o wire[d] /\ Waits[d] \in Seq(PieceSet)
             /\ ConnInv(server.conn[d], wire[d], asked[d], wants[d], Exact(d))
  <2>1. server.conn[d].buffer \in Seq(PieceSet) /\ wire[d] \in Seq(PieceSet)
    BY <1>1, OpenIsConn, ConnFields DEF IInv, Types
  <2>2. Waits[d] = server.conn[d].buffer \o wire[d]
    BY <1>1 DEF Waits
  <2>3. server.conn[d].buffer \o wire[d] \in Seq(PieceSet)
    BY <2>1, ConcatProperties
  <2> QED
    BY <1>1, <2>2, <2>3 DEF IInv
<1>2. ASSUME NEW d \in Clients, ~IsOpen(server, d)
      PROVE  Waits[d] \in Seq(PieceSet)
  BY <1>2 DEF Waits
<1>3. Waits \in Pending
  <2>1. \A d \in Clients : Waits[d] \in Seq(PieceSet)
    BY <1>1, <1>2
  <2>2. Waits = [d \in Clients |-> Waits[d]]
    BY DEF Waits
  <2> HIDE DEF Waits
  <2> QED
    BY <2>1, <2>2 DEF Pending
<1>4. Tracks(server, Waits)
  <2>1. IsServer(server)
    BY DEF IInv, Types
  <2> QED
    BY <1>1, <2>1 DEF Tracks, ConnInv, Accounted, Running, Exact, StillWhole
<1> QED
  BY <1>3, <1>4

LEMMA Weakened ==
  ASSUME StillWhole, NEW d \in Clients, NEW x, NEW wi, NEW A, NEW W, ConnInv(x, wi, A, W, Exact(d))
  PROVE  ConnInv(x, wi, A, W, server.core.status = "running" /\ whole'[d])
BY DEF ConnInv, Accounted, Exact, Running, StillWhole

(* The handshake of a websocket.                                           *)
LEMMA HandshakeRead ==
  ASSUME IInv, StillWhole, NEW c \in Clients, IsOpen(server, c),
         wire[c] = <<Piece(UpgradeRequest, TRUE)>>, server.conn[c].buffer = <<>>,
         NEW B, NEW w, w = [wire EXCEPT ![c] = <<>>]
  PROVE  Sound(DoWebSocketHandshake([server EXCEPT !.conn[c].buffer = B], c), w)
<1> DEFINE s == server
           x == s.conn[c]
           y == [x EXCEPT !.webSocket = TRUE, !.buffer = <<>>]
           m == [kind |-> "handshake"]
           u == [s EXCEPT !.conn[c] = y]
           t == SendMessage(u, c, m)
           z == t.conn[c]
<1>1. IsServer(s) /\ IsConn(x) /\ ConnInv(x, wire[c], asked[c], wants[c], Exact(c))
  BY OpenIsConn DEF IInv, Types
<1>2. DoWebSocketHandshake([s EXCEPT !.conn[c].buffer = B], c) = t
  <2>1. [[s EXCEPT !.conn[c].buffer = B] EXCEPT !.conn[c].webSocket = TRUE, !.conn[c].buffer = <<>>] = u
    <3> DEFINE x1 == [x EXCEPT !.buffer = B]
               v == [s EXCEPT !.conn[c].buffer = B]
    <3>1. [x1 EXCEPT !.webSocket = TRUE, !.buffer = <<>>] = y
      BY <1>1 DEF IsConn
    <3>2. /\ DOMAIN s = {"core", "disk", "effects", "slave", "conn"} /\ DOMAIN s.conn = Clients
      BY <1>1 DEF IsServer
    <3>3. v = [s EXCEPT !.conn = [s.conn EXCEPT ![c] = x1]]
      BY <3>2
    <3> HIDE DEF x1, y
    <3>4. v.conn = [s.conn EXCEPT ![c] = x1]
      BY <3>2, <3>3
    <3>5. [v EXCEPT !.conn[c].webSocket = TRUE, !.conn[c].buffer = <<>>]
              = [v EXCEPT !.conn = [v.conn EXCEPT ![c] = [x1 EXCEPT !.webSocket = TRUE, !.buffer = <<>>]]]
      BY <3>2, <3>3, <3>4
    <3>6. [v.conn EXCEPT ![c] = y] = [s.conn EXCEPT ![c] = y]
      BY <3>2, <3>4
    <3>7. u = [s EXCEPT !.conn = [s.conn EXCEPT ![c] = y]]
      BY <3>2
    <3>8. [v EXCEPT !.conn = [s.conn EXCEPT ![c] = y]] = [s EXCEPT !.conn = [s.conn EXCEPT ![c] = y]]
      BY <3>2, <3>3
    <3> HIDE DEF v, u
    <3> QED
      BY <3>1, <3>5, <3>6, <3>7, <3>8 DEF v
  <2> QED
    BY <2>1 DEF DoWebSocketHandshake
<1>3. IsConn(y) /\ y.out = x.out /\ y.leds = x.leds /\ y.images = x.images /\ y.logs = x.logs
      /\ y.logging = x.logging /\ y.webSocket /\ y.buffer = <<>>
  BY <1>1 DEF IsConn
<1>4. m \in MessageSet
  BY DEF MessageSet
<1> HIDE DEF y, m
<1>5. /\ IsServer(u) /\ u.conn[c] = y /\ IsOpen(u, c) /\ u.core = s.core
      /\ \A d \in Clients \ {c} : u.conn[d] = s.conn[d]
  BY <1>1, <1>3, SetConnection
<1> HIDE DEF u
<1>6. /\ IsServer(t) /\ z = [y EXCEPT !.out = Append(@, m)] /\ t.core = s.core
      /\ \A d \in Clients \ {c} : t.conn[d] = s.conn[d]
  BY <1>4, <1>5, SendMessageTo
<1> HIDE DEF t
<1>7. /\ z.out = Append(x.out, m) /\ z.leds = x.leds /\ z.images = x.images
      /\ z.logs = x.logs /\ z.logging = x.logging /\ z.webSocket /\ z.buffer = <<>>
  BY <1>3, <1>6 DEF IsConn
<1>8. m.kind # "reply" /\ m.kind \notin Told /\ \A q : m \in Answers(q) <=> q = UpgradeRequest
  BY <1>4 DEF m, Told, Streams, Answers, IsAnswer
<1> HIDE DEF z, x
<1>9. /\ Good(z, wants[c])
      /\ \A q : CountIn(z.out, Answers(q)) =
             CountIn(x.out, Answers(q)) + (IF m \in Answers(q) THEN 1 ELSE 0)
  <2>1. Good(x, wants[c]) /\ (m.kind \in Told => On(x, m.kind)) /\ m.kind # "reply"
    BY <1>1, <1>8 DEF ConnInv
  <2>2. Written(z, x, m)
    BY <1>7 DEF Written
  <2> QED
    BY <1>1, <1>4, <2>1, <2>2, MessageGood
<1>10. ConnInv(z, <<>>, asked[c], wants[c], Exact(c))
  <2>1. Arriving(z, <<>>, asked[c])
    BY <1>7 DEF Arriving, InPairs
  <2>2. \A q : /\ CountIn(z.buffer \o <<>>, Ends(q)) = 0
               /\ CountIn(x.buffer \o wire[c], Ends(q)) = IF q = UpgradeRequest THEN 1 ELSE 0
    <3> TAKE q
    <3>1. z.buffer \o <<>> = <<>> /\ x.buffer \o wire[c] = <<Piece(UpgradeRequest, TRUE)>>
      BY <1>7 DEF x
    <3>2. Piece(UpgradeRequest, TRUE) \in Ends(q) <=> q = UpgradeRequest
      BY DEF Ends, Piece
    <3> QED
      BY <3>1, <3>2, CountEmpty, CountOne
  <2>3. \A q : CountIn(x.out, Answers(q)) \in Nat
    BY <1>1, ConnFields, CountIsNat
  <2>4. Accounted(z.out, z.buffer \o <<>>, asked[c], Exact(c))
    <3>1. ASSUME NEW q
          PROVE  CountIn(z.out, Answers(q)) + CountIn(z.buffer \o <<>>, Ends(q)) =
                 CountIn(x.out, Answers(q)) + CountIn(x.buffer \o wire[c], Ends(q))
      <4>1. CASE q = UpgradeRequest
        <5>1. CountIn(z.out, Answers(q)) = CountIn(x.out, Answers(q)) + 1
          BY <1>8, <1>9, <4>1
        <5>2. /\ CountIn(z.buffer \o <<>>, Ends(q)) = 0
              /\ CountIn(x.buffer \o wire[c], Ends(q)) = 1
              /\ CountIn(x.out, Answers(q)) \in Nat
          BY <2>2, <2>3, <4>1
        <5> QED
          BY <5>1, <5>2
      <4>2. CASE q # UpgradeRequest
        <5>1. CountIn(z.out, Answers(q)) = CountIn(x.out, Answers(q)) + 0
          BY <1>8, <1>9, <4>2
        <5>2. /\ CountIn(z.buffer \o <<>>, Ends(q)) = 0
              /\ CountIn(x.buffer \o wire[c], Ends(q)) = 0
              /\ CountIn(x.out, Answers(q)) \in Nat
          BY <2>2, <2>3, <4>2
        <5> QED
          BY <5>1, <5>2
      <4> QED
        BY <4>1, <4>2
    <3>2. Accounted(x.out, x.buffer \o wire[c], asked[c], Exact(c))
      BY <1>1 DEF ConnInv
    <3> QED
      BY <3>1, <3>2 DEF Accounted
  <2> QED
    BY <1>1, <1>9, <2>1, <2>4 DEF ConnInv
<1>11. ASSUME NEW d \in Clients, IsOpen(t, d)
       PROVE  ConnInv(t.conn[d], w[d], asked[d], wants[d], t.core.status = "running" /\ whole'[d])
  <2>0. w[c] = <<>> /\ \A e \in Clients \ {c} : w[e] = wire[e]
    BY DEF IInv, Types
  <2>1. CASE d = c
    BY <1>6, <1>10, <2>0, <2>1, Weakened DEF z
  <2>2. CASE d # c
    <3>1. ConnInv(server.conn[d], wire[d], asked[d], wants[d], Exact(d))
      BY <1>6, <1>11, <2>2 DEF IInv, IsOpen
    <3> QED
      BY <1>6, <2>0, <2>2, <3>1, Weakened
  <2> QED
    BY <2>1, <2>2
<1> QED
  BY <1>2, <1>6, <1>11 DEF Sound

LEMMA ConnFacts ==
  ASSUME IInv, NEW c \in Clients, IsOpen(server, c)
  PROVE  /\ IsConn(server.conn[c]) /\ server.conn[c].out \in Seq(MessageSet)
         /\ server.conn[c].buffer \in Seq(PieceSet)
         /\ wire[c] \in Seq(PieceSet) /\ asked[c] \in Seq(AllRequests)
         /\ wants[c] \in SUBSET Streams
         /\ ConnInv(server.conn[c], wire[c], asked[c], wants[c], Exact(c))
BY OpenIsConn, ConnFields DEF IInv, Types

(* What is left of c's pieces is in its buffer or still to arrive.         *)
Remaining(t, c, P, v) ==
    IsOpen(t, c) => P = t.conn[c].buffer \o v /\ Arriving(t.conn[c], v, asked[c])

LEMMA ReadSound ==
  ASSUME IInv, StillWhole, NEW c \in Clients, NEW s, OthersSame(s, server, c),
         NEW t, SameInput(t, s), NEW P, Tracks(t, [Waits EXCEPT ![c] = P]),
         NEW v, Remaining(t, c, P, v)
  PROVE  Sound(t, [wire EXCEPT ![c] = v])
<1> DEFINE p == [Waits EXCEPT ![c] = P]
           w == [wire EXCEPT ![c] = v]
<1>1. /\ p[c] = P /\ \A d \in Clients \ {c} : p[d] = Waits[d]
      /\ w[c] = v /\ \A d \in Clients \ {c} : w[d] = wire[d]
  BY DEF Waits, IInv, Types
<1> HIDE DEF p, w
<1>2. ASSUME NEW d \in Clients, IsOpen(t, d)
      PROVE  p[d] = t.conn[d].buffer \o w[d] /\ Arriving(t.conn[d], w[d], asked[d])
  <2>1. CASE d = c
    BY <1>1, <1>2, <2>1 DEF Remaining
  <2>2. CASE d # c
    <3>1. IsOpen(server, d) /\ t.conn[d].buffer = server.conn[d].buffer
          /\ t.conn[d].webSocket = server.conn[d].webSocket
      BY <1>2, <2>2 DEF SameInput, IsOpen, OthersSame
    <3>2. p[d] = server.conn[d].buffer \o wire[d] /\ w[d] = wire[d]
      BY <1>1, <2>2, <3>1 DEF Waits
    <3>3. Arriving(server.conn[d], wire[d], asked[d])
      BY <3>1 DEF IInv, ConnInv
    <3>4. Arriving(t.conn[d], wire[d], asked[d])
      BY <3>1, <3>3 DEF Arriving
    <3> QED
      BY <3>1, <3>2, <3>4
  <2> QED
    BY <2>1, <2>2
<1>3. Tracks(t, p)
  BY DEF p
<1>4. Sound(t, w)
  BY <1>2, <1>3, TracksSound
<1> QED
  BY <1>4 DEF w

LEMMA SendTracked ==
  ASSUME NEW t, NEW p, Tracks(t, p), NEW c \in Clients, IsOpen(t, c),
         NEW m \in MessageSet, m.kind \notin {"reply", "handshake"},
         m.kind \in Told => On(t.conn[c], m.kind)
  PROVE  Tracks(SendMessage(t, c, m), p) /\ SameInput(SendMessage(t, c, m), t)
<1> DEFINE u == SendMessage(t, c, m)
           x == t.conn[c]
           y == u.conn[c]
<1>1. IsServer(t) /\ IsConn(x)
  BY OpenIsConn DEF Tracks
<1>2. /\ IsServer(u) /\ y = [x EXCEPT !.out = Append(@, m)] /\ u.core = t.core
      /\ \A d \in Clients \ {c} : u.conn[d] = t.conn[d]
  BY <1>1, SendMessageTo
<1>3. Written(y, x, m) /\ y.webSocket = x.webSocket /\ y.buffer = x.buffer
  <2> HIDE DEF u
  <2> QED
    BY <1>1, <1>2 DEF Written, IsConn
<1>4. Wanted(asked[c], wants[c]) /\ Good(x, wants[c])
      /\ Accounted(x.out, p[c], asked[c], t.core.status = "running" /\ whole'[c])
  BY DEF Tracks
<1> HIDE DEF u
<1>5. \A q : m \notin Answers(q)
  BY DEF Answers, IsAnswer
<1>6. /\ Good(y, wants[c])
      /\ \A q : CountIn(y.out, Answers(q)) =
             CountIn(x.out, Answers(q)) + (IF m \in Answers(q) THEN 1 ELSE 0)
  <2> HIDE DEF x, y
  <2>1. m.kind # "reply" /\ (m.kind \in Told => On(x, m.kind))
    BY DEF x
  <2> QED
    BY <1>1, <1>3, <1>4, <2>1, MessageGood
<1>7. \A q : CountIn(y.out, Answers(q)) = CountIn(x.out, Answers(q))
  <2> TAKE q
  <2>1. CountIn(x.out, Answers(q)) \in Nat
    BY <1>1, ConnFields, CountIsNat
  <2>2. CountIn(y.out, Answers(q)) = CountIn(x.out, Answers(q)) + 0
    BY <1>5, <1>6
  <2> QED
    BY <2>1, <2>2
<1>8. Accounted(y.out, p[c], asked[c], u.core.status = "running" /\ whole'[c])
  BY <1>2, <1>4, <1>7 DEF Accounted
<1>9. ASSUME NEW d \in Clients, IsOpen(u, d)
      PROVE  /\ IsOpen(t, d)
             /\ u.conn[d].webSocket = t.conn[d].webSocket
             /\ u.conn[d].buffer = t.conn[d].buffer
             /\ Wanted(asked[d], wants[d])
             /\ Accounted(u.conn[d].out, p[d], asked[d], u.core.status = "running" /\ whole'[d])
             /\ Good(u.conn[d], wants[d])
  <2>1. CASE d = c
    BY <1>3, <1>4, <1>6, <1>8, <2>1
  <2>2. CASE d # c
    BY <1>2, <1>9, <2>2 DEF Tracks, IsOpen
  <2> QED
    BY <2>1, <2>2
<1> QED
  BY <1>2, <1>9 DEF Tracks, SameInput, u

LEMMA CloseTracked ==
  ASSUME NEW t, NEW p, Tracks(t, p), NEW c \in Clients
  PROVE  LET u == [t EXCEPT !.conn[c] = Closed]
         IN Tracks(u, p) /\ SameInput(u, t) /\ ~IsOpen(u, c) /\ u.core = t.core
<1> DEFINE u == [t EXCEPT !.conn[c] = Closed]
<1>1. /\ u \in [core : {u.core}, disk : {u.disk}, effects : {u.effects}, slave : {u.slave},
                conn : {u.conn}]
      /\ u.conn[c] = Closed /\ \A d \in Clients \ {c} : u.conn[d] = t.conn[d]
      /\ u.conn = [d \in Clients |-> u.conn[d]]
      /\ u.core = t.core
  BY DEF Tracks, IsServer
<1> HIDE DEF u
<1>2. IsServer(u)
  BY <1>1 DEF Tracks, IsServer
<1>3. ~IsOpen(u, c)
  BY <1>1 DEF IsOpen, Closed
<1>4. ASSUME NEW d \in Clients, IsOpen(u, d)
      PROVE  d # c /\ IsOpen(t, d) /\ u.conn[d] = t.conn[d]
  BY <1>1, <1>3, <1>4 DEF IsOpen
<1> QED
  BY <1>1, <1>2, <1>3, <1>4 DEF Tracks, SameInput, u

(* What is left of the wire.                                               *)
LEMMA LaterArrives ==
  ASSUME NEW x, NEW A, NEW wi \in Seq(PieceSet), Arriving(x, wi, A), NEW n \in 1 .. Len(wi)
  PROVE  LET w == SubSeq(wi, n + 1, Len(wi))
         IN /\ InPairs(w)
            /\ \A i \in DOMAIN w : w[i].request \in Requests \cup {UpgradeRequest}
            /\ \A i \in DOMAIN w : w[i].request # UpgradeRequest
<1> DEFINE w == SubSeq(wi, n + 1, Len(wi))
<1>1. /\ Len(wi) \in Nat /\ DOMAIN wi = 1 .. Len(wi)
      /\ w \in Seq(PieceSet) /\ Len(w) = Len(wi) - n /\ DOMAIN w = 1 .. Len(w)
      /\ \A i \in DOMAIN w : w[i] = wi[n + i] /\ n + i \in DOMAIN wi
  OBVIOUS
<1> HIDE DEF w
<1>2. ASSUME NEW i \in DOMAIN w, i > 1, w[i].last
      PROVE  w[i - 1] = Piece(w[i].request, FALSE)
  <2>1. i - 1 \in DOMAIN w /\ n + i > 1
    BY <1>1, <1>2
  <2>2. w[i] = wi[n + i] /\ w[i - 1] = wi[(n + i) - 1] /\ n + i \in DOMAIN wi
    <3>1. n + (i - 1) = (n + i) - 1
      BY <1>1
    <3> QED
      BY <1>1, <2>1, <3>1
  <2> QED
    BY <1>2, <2>1, <2>2 DEF Arriving, InPairs
<1>3. ASSUME NEW i \in DOMAIN w PROVE w[i].request # UpgradeRequest
  <2>1. Len(wi) > 1 /\ w[i] = wi[n + i] /\ n + i \in DOMAIN wi
    BY <1>1
  <2>2. wi # <<Piece(UpgradeRequest, TRUE)>>
    <3> SUFFICES ASSUME wi = <<Piece(UpgradeRequest, TRUE)>> PROVE FALSE
      OBVIOUS
    <3>1. Len(wi) = 1
      OBVIOUS
    <3> QED
      BY <2>1, <3>1
  <2> QED
    BY <2>1, <2>2 DEF Arriving
<1>4. \A i \in DOMAIN w : w[i].request \in Requests \cup {UpgradeRequest}
  BY <1>1 DEF Arriving
<1>5. InPairs(w)
  BY <1>2 DEF InPairs
<1> QED
  BY <1>3, <1>4, <1>5 DEF w

(* Pieces none of which ends a request.                                    *)
LEMMA NothingEnds ==
  ASSUME NEW P \in Seq(PieceSet), \A i \in DOMAIN P : ~P[i].last
  PROVE  \A q : CountIn(P, Ends(q)) = 0
<1> TAKE q
<1>1. \A i \in DOMAIN P : P[i] \notin Ends(q)
  BY DEF Ends, Piece
<1> QED
  BY <1>1, CountNone

(* The two parts of a request that follow each other end it once.          *)
LEMMA PairEnds ==
  ASSUME NEW r \in AllRequests
  PROVE  LET L == <<Piece(r, FALSE), Piece(r, TRUE)>>
         IN /\ L \in Seq(PieceSet)
            /\ \A q : CountIn(L, Ends(q)) = IF q = r THEN 1 ELSE 0
<1> DEFINE a == Piece(r, FALSE)
           b == Piece(r, TRUE)
           L == <<a, b>>
<1>1. a \in PieceSet /\ b \in PieceSet /\ \A q : a \notin Ends(q) /\ (b \in Ends(q) <=> q = r)
  BY DEF Piece, PieceSet, Ends
<1> HIDE DEF a, b
<1>2. L \in Seq(PieceSet) /\ DOMAIN L = {1, 2} /\ L[1] = a /\ L[2] = b
  BY <1>1
<1> HIDE DEF L
<1>3. ASSUME NEW q PROVE CountIn(L, Ends(q)) = IF q = r THEN 1 ELSE 0
  <2>1. CASE q = r
    <3>1. {i \in DOMAIN L : L[i] \in Ends(q)} = {2}
      BY <1>1, <1>2, <2>1
    <3> QED
      BY <2>1, <3>1, FS_Singleton DEF CountIn
  <2>2. CASE q # r
    <3>1. {i \in DOMAIN L : L[i] \in Ends(q)} = {}
      BY <1>1, <1>2, <2>2
    <3> QED
      BY <2>2, <3>1, FS_EmptySet DEF CountIn
  <2> QED
    BY <2>1, <2>2
<1> QED
  BY <1>2, <1>3 DEF L, a, b

(* How long the rest of a sequence is.                                    *)
LEMMA TailLength ==
  ASSUME NEW S, NEW s \in Seq(S), NEW k \in Nat, k >= 1, k <= Len(s) + 1
  PROVE  Len(SubSeq(s, k, Len(s))) = Len(s) - k + 1
<1>1. Len(s) \in Nat
  OBVIOUS
<1> QED
  BY <1>1

(* What lies on the wire before and behind a place.                        *)
LEMMA CountSplit ==
  ASSUME NEW wi \in Seq(PieceSet), NEW n \in 0 .. Len(wi), NEW T
  PROVE  LET front == SubSeq(wi, 1, n)
             back  == SubSeq(wi, n + 1, Len(wi))
         IN /\ front \in Seq(PieceSet) /\ back \in Seq(PieceSet)
            /\ CountIn(wi, T) = CountIn(front, T) + CountIn(back, T)
<1> DEFINE front == SubSeq(wi, 1, n)
           back  == SubSeq(wi, n + 1, Len(wi))
<1>1. wi = front \o back
  <2>1. front \o back = SubSeq(wi, 1, Len(wi))
    <3>1. Len(wi) \in Nat /\ 1 \in 1 .. Len(wi) + 1 /\ n \in 1 - 1 .. Len(wi) /\ Len(wi) \in n .. Len(wi)
      OBVIOUS
    <3> QED
      BY <3>1, ConcatAdjacentSubSeq
  <2>2. SubSeq(wi, 1, Len(wi)) = wi
    BY SubSeqFull
  <2> QED
    BY <2>1, <2>2
<1>2. front \in Seq(PieceSet) /\ back \in Seq(PieceSet)
  OBVIOUS
<1> HIDE DEF front, back
<1>3. CountIn(front \o back, T) = CountIn(front, T) + CountIn(back, T)
  BY <1>2, CountConcat
<1> QED
  BY <1>1, <1>2, <1>3 DEF front, back

LEMMA FrontTwo ==
  ASSUME NEW S, NEW s \in Seq(S), NEW n \in 2 .. Len(s)
  PROVE  LET rest == SubSeq(s, 3, Len(s))
         IN /\ rest \in Seq(S) /\ Len(rest) = Len(s) - 2
            /\ SubSeq(s, 1, 2) = <<s[1], s[2]>>
            /\ SubSeq(rest, n - 1, Len(rest)) = SubSeq(s, n + 1, Len(s))
<1> DEFINE a == s[1]
           b == s[2]
           two == SubSeq(s, 1, 2)
           rest == SubSeq(s, 3, Len(s))
           back == SubSeq(s, n + 1, Len(s))
           late == SubSeq(rest, n - 1, Len(rest))
<1>1. Len(s) \in Nat /\ Len(s) >= 2 /\ n \in Nat /\ n >= 2 /\ n <= Len(s)
  OBVIOUS
<1>2. a \in S /\ b \in S
  <2>1. 1 \in 1 .. Len(s) /\ 2 \in 1 .. Len(s)
    BY <1>1
  <2> QED
    BY <2>1, ElementOfSeq
<1>3. two \in Seq(S) /\ Len(two) = 2 /\ two[1] = a /\ two[2] = b
  BY <1>1
<1>4. two = <<a, b>>
  <2> HIDE DEF two, a, b
  <2>1. <<a, b>> \in Seq(S) /\ Len(<<a, b>>) = 2
    BY <1>2
  <2>2. \A i \in 1 .. Len(two) : two[i] = <<a, b>>[i]
    BY <1>3
  <2> QED
    BY <1>3, <2>1, <2>2, SeqEqual
<1>5. rest \in Seq(S) /\ Len(rest) = Len(s) - 2 /\ \A i \in 1 .. Len(s) - 2 : rest[i] = s[i + 2]
  <2>0. rest \in Seq(S)
    BY <1>1
  <2>1. rest \in Seq(S) /\ Len(rest) = Len(s) - 2
    <3> DEFINE k == 3
    <3>1. k \in Nat /\ k >= 1 /\ k <= Len(s) + 1 /\ k = 3
      BY <1>1
    <3> HIDE DEF k
    <3>2. Len(SubSeq(s, k, Len(s))) = Len(s) - k + 1
      BY <3>1, TailLength
    <3>3. rest = SubSeq(s, k, Len(s))
      BY <3>1
    <3> HIDE DEF rest
    <3>4. Len(rest) = Len(s) - k + 1
      BY <3>2, <3>3
    <3> QED
      BY <1>1, <2>0, <3>1, <3>4
  <2>2. ASSUME NEW i \in 1 .. Len(s) - 2 PROVE rest[i] = s[i + 2]
    <3>1. i \in Nat /\ i >= 1 /\ i <= Len(s) - 2
      BY <1>1
    <3> QED
      BY <1>1, <3>1
  <2> QED
    BY <2>1, <2>2
<1>6. back \in Seq(S) /\ Len(back) = Len(s) - n /\ \A i \in 1 .. Len(s) - n : back[i] = s[i + n]
  <2>1. back \in Seq(S) /\ Len(back) = Len(s) - n
    BY <1>1
  <2>2. \A i \in 1 .. Len(s) - n : back[i] = s[i + n]
    BY <1>1
  <2> QED
    BY <2>1, <2>2
<1>7. late = back
  <2> HIDE DEF rest, back
  <2>1. /\ late \in Seq(S) /\ Len(late) = Len(s) - n
        /\ \A i \in 1 .. Len(s) - n : late[i] = rest[(n - 2) + i]
    BY <1>1, <1>5
  <2>2. ASSUME NEW i \in 1 .. Len(s) - n PROVE late[i] = back[i]
    <3>1. (n - 2) + i \in 1 .. Len(s) - 2 /\ ((n - 2) + i) + 2 = i + n
      BY <1>1
    <3>2. rest[(n - 2) + i] = s[i + n]
      BY <1>5, <3>1
    <3> QED
      BY <1>6, <2>1, <3>2
  <2> HIDE DEF late
  <2> QED
    BY <1>6, <2>1, <2>2, SeqEqual
<1> QED
  BY <1>4, <1>5, <1>7

(* The wire begins with the two parts of a request.                        *)
LEMMA FrontPair ==
  ASSUME NEW wi \in Seq(PieceSet), NEW n \in 2 .. Len(wi), NEW r \in AllRequests,
         wi[1] = Piece(r, FALSE), wi[2] = Piece(r, TRUE), NEW q
  PROVE  LET back == SubSeq(wi, n + 1, Len(wi))
             one  == IF q = r THEN 1 ELSE 0
         IN /\ CountIn(back, Ends(q)) + one <= CountIn(wi, Ends(q))
            /\ n = 2 => CountIn(back, Ends(q)) + one = CountIn(wi, Ends(q))
<1> DEFINE pair == <<Piece(r, FALSE), Piece(r, TRUE)>>
           rest == SubSeq(wi, 3, Len(wi))
           mid  == SubSeq(rest, 1, n - 2)
           back == SubSeq(wi, n + 1, Len(wi))
           one  == IF q = r THEN 1 ELSE 0
           T    == Ends(q)
<1>0. /\ rest \in Seq(PieceSet) /\ Len(rest) = Len(wi) - 2
      /\ SubSeq(wi, 1, 2) = <<wi[1], wi[2]>> /\ SubSeq(rest, n - 1, Len(rest)) = back
  BY FrontTwo
<1>1. /\ rest \in Seq(PieceSet) /\ Len(rest) = Len(wi) - 2 /\ Len(wi) \in Nat
      /\ n - 2 \in 0 .. Len(rest)
  <2>1. Len(wi) \in Nat /\ n \in Nat /\ n >= 2 /\ n <= Len(wi)
    BY LenProperties
  <2> HIDE DEF rest
  <2> QED
    BY <1>0, <2>1
<1>2. SubSeq(wi, 1, 2) = pair
  BY <1>0
<1>3. SubSeq(rest, (n - 2) + 1, Len(rest)) = back
  <2>1. (n - 2) + 1 = n - 1
    BY <1>1
  <2> QED
    BY <1>0, <2>1
<1>4. CountIn(wi, T) = CountIn(pair, T) + CountIn(rest, T)
  <2>1. 2 \in 0 .. Len(wi) /\ 2 + 1 = 3
    BY <1>1
  <2>2. CountIn(wi, T) = CountIn(SubSeq(wi, 1, 2), T) + CountIn(SubSeq(wi, 2 + 1, Len(wi)), T)
    BY <2>1, CountSplit
  <2> QED
    BY <1>2, <2>1, <2>2
<1>5. CountIn(rest, T) = CountIn(mid, T) + CountIn(back, T)
  <2> HIDE DEF rest
  <2>1. CountIn(rest, T) = CountIn(mid, T) + CountIn(SubSeq(rest, (n - 2) + 1, Len(rest)), T)
    BY <1>1, CountSplit
  <2> QED
    BY <1>3, <2>1
<1>6. CountIn(pair, T) = one
  BY PairEnds
<1>7. n = 2 => CountIn(mid, T) = 0
  <2>1. n = 2 => mid = <<>>
    BY <1>1
  <2> QED
    BY <2>1, CountEmpty
<1>8. CountIn(mid, T) \in Nat /\ CountIn(back, T) \in Nat /\ one \in Nat
  <2>1. mid \in Seq(PieceSet) /\ back \in Seq(PieceSet)
    BY <1>1
  <2> HIDE DEF mid, back
  <2> QED
    BY <2>1, CountIsNat
<1> HIDE DEF pair, rest, mid, back, one, T
<1>9. CountIn(back, T) + one <= CountIn(wi, T) /\ (n = 2 => CountIn(back, T) + one = CountIn(wi, T))
  BY <1>4, <1>5, <1>6, <1>7, <1>8
<1> QED
  BY <1>9 DEF back, one, T

(* The lines of a raw connection.                                          *)
LEMMA LinesRead ==
  ASSUME IInv, StillWhole, NEW c \in Clients, IsOpen(server, c), ~server.conn[c].webSocket,
         NEW w \in Seq(PieceSet), NEW B \in Seq(PieceSet),
         server.conn[c].buffer \o wire[c] = B \o w,
         \A i \in DOMAIN B : B[i].request \in Requests,
         InPairs(w), \A i \in DOMAIN w : w[i].request \in Requests,
         NEW env \in Environments
  PROVE  Sound(HandleLines(WithBuffer(server, c, B), c, env), [wire EXCEPT ![c] = w])
<1> DEFINE s == WithBuffer(server, c, B)
           R == Rest(B)
           base == WithBuffer(s, c, R)
           t == HandleLines(s, c, env)
<1>1. Waits \in Pending /\ Tracks(server, Waits) /\ Waits[c] = B \o w
  BY InvTracks DEF Waits
<1>2. /\ R \in Seq(PieceSet)
      /\ \A i \in DOMAIN R : ~R[i].last /\ R[i].request \in Requests
  BY RestHasNoLine
<1>3. asked \in [Clients -> Seq(AllRequests)] /\ IsConn(server.conn[c])
  BY OpenIsConn DEF IInv, Types
<1>4. /\ Tracks(s, Waits) /\ s.conn[c] = [server.conn[c] EXCEPT !.buffer = B] /\ IsOpen(s, c)
      /\ OthersSame(s, server, c)
  BY <1>1, BufferSet
<1>5. s.conn[c].buffer = B /\ ~s.conn[c].webSocket /\ IsConn(s.conn[c])
  <2>1. IsConn(s.conn[c])
    BY <1>4, OpenIsConn DEF Tracks
  <2> HIDE DEF s
  <2> QED
    BY <1>3, <1>4, <2>1 DEF IsConn
<1> HIDE DEF s, R
<1>6. Tracks(t, [Waits EXCEPT ![c] = R \o w]) /\ SameInput(t, base)
  <2>1. ToHandle(s, Waits, c, B, w)
    BY <1>1, <1>5 DEF ToHandle
  <2>2. Tracks(s, Waits) /\ IsOpen(s, c) /\ Waits \in Pending
    BY <1>1, <1>4
  <2>3. /\ Tracks(t, [Waits EXCEPT ![c] = Rest(B) \o w])
        /\ SameInput(t, [s EXCEPT !.conn[c].buffer = Rest(B)])
    BY <1>3, <2>1, <2>2, LinesTracked
  <2> QED
    BY <2>3 DEF R, WithBuffer
<1>7. /\ base.conn[c] = [s.conn[c] EXCEPT !.buffer = R] /\ OthersSame(base, s, c)
  <2>1. Tracks(s, Waits) /\ IsOpen(s, c) /\ R \in Seq(PieceSet)
    BY <1>2, <1>4
  <2> QED
    BY <2>1, BufferSet
<1> HIDE DEF base, t
<1>8. base.conn[c].buffer = R /\ ~base.conn[c].webSocket /\ OthersSame(base, server, c)
  BY <1>4, <1>5, <1>7 DEF IsConn, OthersSame
<1>9. Remaining(t, c, R \o w, w)
  <2> SUFFICES ASSUME IsOpen(t, c)
               PROVE  R \o w = t.conn[c].buffer \o w /\ Arriving(t.conn[c], w, asked[c])
    BY DEF Remaining
  <2> DEFINE z == t.conn[c]
  <2>1. z.buffer = R /\ ~z.webSocket
    BY <1>6, <1>8 DEF SameInput
  <2> HIDE DEF z
  <2>2. Arriving(z, w, asked[c])
    BY <1>2, <2>1, UpgradeIsNoRequest DEF Arriving
  <2> QED
    BY <2>1, <2>2 DEF z
<1>10. Sound(t, [wire EXCEPT ![c] = w])
  BY <1>6, <1>8, <1>9, ReadSound
<1> QED
  BY <1>10 DEF t, s

LEMMA HeadSet ==
  ASSUME NEW S, NEW s \in Seq(S), Len(s) >= 1, NEW m \in S
  PROVE  LET f == [s EXCEPT ![1] = m]
         IN f \in Seq(S) /\ Len(f) = Len(s) /\ f[1] = m /\ (Len(s) > 1 => f[2] = s[2])
<1>1. Len(s) \in Nat /\ DOMAIN s = 1 .. Len(s) /\ 1 \in DOMAIN s
  BY LenProperties
<1>2. [s EXCEPT ![1] = m] \in Seq(S) /\ Len([s EXCEPT ![1] = m]) = Len(s)
  BY <1>1
<1>3. [s EXCEPT ![1] = m][1] = m
  BY <1>1
<1>4. Len(s) > 1 => [s EXCEPT ![1] = m][2] = s[2]
  BY <1>1
<1> QED
  BY <1>2, <1>3, <1>4

(* What has arrived on a websocket, as the server reads it: where a whole  *)
(* text is at its head, it is the first request on the wire; and when it   *)
(* is exactly one frame, that is all that is taken off the wire.           *)
AtHead(wi, n, F) ==
    LET r == F[1].request
    IN /\ r \in Requests /\ n >= 2 /\ F[2] = Piece(r, TRUE)
       /\ wi[1] = Piece(r, FALSE) /\ wi[2] = Piece(r, TRUE)

Arrived(x, wi, n, B, F) ==
    /\ B \in Seq(PieceSet) /\ F \in Seq(PieceSet) /\ Len(F) >= 1 /\ ~F[1].last
    /\ IsWhole(F) /\ F[1].request.command \notin {"ping", "other"} => AtHead(wi, n, F)
    /\ IsOneFrame(x.buffer, SubSeq(wi, 1, n)) => IsWhole(F) /\ n = 2 /\ AtHead(wi, n, F)

LEMMA FrameArrived ==
  ASSUME NEW x, NEW wi \in Seq(PieceSet), NEW A, Arriving(x, wi, A), x.webSocket,
         x.buffer \in Seq(PieceSet), NEW n \in 1 .. Len(wi), NEW env \in Environments
  PROVE  LET B == x.buffer \o SubSeq(wi, 1, n) IN Arrived(x, wi, n, B, AsRead(B, env))
<1> DEFINE pieces == SubSeq(wi, 1, n)
           o      == x.buffer
           B      == x.buffer \o SubSeq(wi, 1, n)
           F      == AsRead(B, env)
           r      == F[1].request
           Pair   == /\ r \in Requests /\ n >= 2 /\ F[2] = Piece(r, TRUE)
                     /\ wi[1] = Piece(r, FALSE) /\ wi[2] = Piece(r, TRUE)
<1>1. /\ pieces \in Seq(PieceSet) /\ Len(pieces) = n /\ DOMAIN pieces = 1 .. n
      /\ \A i \in 1 .. n : pieces[i] = wi[i] /\ i \in DOMAIN wi
      /\ wi \in Seq(PieceSet) /\ n \in Nat /\ n >= 1
  OBVIOUS
<1>2. o \in Seq(PieceSet) /\ \A i \in DOMAIN o : ~o[i].last
  BY DEF Arriving
<1>3. \A i \in DOMAIN wi : wi[i].request \in Requests
  BY DEF Arriving
<1>4. wi[2].last /\ 2 \in DOMAIN wi => wi[1] = Piece(wi[2].request, FALSE)
  <2>1. InPairs(wi) /\ 2 > 1 /\ 2 - 1 = 1
    BY DEF Arriving
  <2> QED
    BY <2>1 DEF InPairs
<1>5. o # <<>> => o[1].request.command \in {"ping", "other"}
  BY DEF Arriving
<1> HIDE DEF pieces, o
<1>6. /\ B \in Seq(PieceSet) /\ Len(B) = Len(o) + n /\ Len(B) >= 1
      /\ o = <<>> => B = pieces
      /\ o # <<>> => B[1] = o[1] /\ 1 \in DOMAIN o
  <2>0. B = o \o pieces
    BY DEF o, pieces
  <2>1. B \in Seq(PieceSet) /\ Len(B) = Len(o) + n
    <3>1. o \o pieces \in Seq(PieceSet) /\ Len(o \o pieces) = Len(o) + Len(pieces)
      BY <1>1, <1>2, ConcatProperties
    <3> HIDE DEF B
    <3> QED
      BY <1>1, <2>0, <3>1
  <2>2. Len(o) \in Nat /\ (o # <<>> => Len(o) >= 1 /\ 1 \in DOMAIN o)
    BY <1>2
  <2>3. o = <<>> => B = pieces
    BY <1>1, <2>0
  <2>4. o # <<>> => B[1] = o[1]
    BY <1>1, <1>2, <2>0, <2>2
  <2> HIDE DEF B
  <2> QED
    BY <1>1, <2>1, <2>2, <2>3, <2>4
<1> HIDE DEF B
<1>7. /\ F \in Seq(PieceSet) /\ Len(F) = Len(B) /\ ~F[1].last
      /\ Len(B) > 1 => F[2] = B[2]
      /\ ~B[1].last => F = B
  <2>1. CASE B[1].last
    <3> DEFINE m == Piece(env.misread, FALSE)
    <3>1. m \in PieceSet /\ ~m.last
      BY DEF Environments, AllRequests, PieceSet, Piece
    <3>2. F = [B EXCEPT ![1] = m]
      BY <2>1 DEF AsRead
    <3>3. B \in Seq(PieceSet) /\ Len(B) >= 1
      BY <1>6
    <3> HIDE DEF m, F
    <3>4. F \in Seq(PieceSet) /\ Len(F) = Len(B) /\ F[1] = m /\ (Len(B) > 1 => F[2] = B[2])
      <4> DEFINE f == [B EXCEPT ![1] = m]
      <4>1. f \in Seq(PieceSet) /\ Len(f) = Len(B) /\ f[1] = m /\ (Len(B) > 1 => f[2] = B[2])
        BY <3>1, <3>3, HeadSet
      <4> QED
        BY <3>2, <4>1
    <3> QED
      BY <2>1, <3>1, <3>4
  <2>2. CASE ~B[1].last
    BY <1>6, <2>2 DEF AsRead
  <2> QED
    BY <2>1, <2>2
<1> HIDE DEF F
<1>8. ASSUME IsWhole(F), o = <<>> PROVE Pair
  <2>1. Len(B) > 1 /\ B[2].last /\ B = pieces
    BY <1>6, <1>7, <1>8 DEF IsWhole
  <2>2. n >= 2 /\ B[1] = wi[1] /\ B[2] = wi[2] /\ 2 \in DOMAIN wi
    <3>1. n >= 2 /\ 1 \in 1 .. n /\ 2 \in 1 .. n
      BY <1>1, <2>1
    <3> QED
      BY <1>1, <2>1, <3>1
  <2>3. wi[1] = Piece(wi[2].request, FALSE) /\ wi[2] \in PieceSet /\ wi[2].last
    <3>1. wi[2] \in PieceSet
      BY <2>2
    <3>2. wi[2].last
      BY <2>1, <2>2
    <3> QED
      BY <1>4, <2>2, <3>1, <3>2
  <2>4. wi[2] = Piece(wi[2].request, TRUE)
    BY <2>3 DEF PieceSet, Piece
  <2>5. ~B[1].last /\ B[1].request = wi[2].request
    BY <2>2, <2>3 DEF Piece
  <2>6. F = B
    BY <1>7, <2>5
  <2> QED
    BY <1>3, <2>2, <2>3, <2>4, <2>5, <2>6
<1>9. ASSUME IsWhole(F), r.command \notin {"ping", "other"} PROVE Pair
  <2>1. o = <<>>
    <3> SUFFICES ASSUME o # <<>> PROVE FALSE
      OBVIOUS
    <3>1. B[1] = o[1] /\ ~o[1].last /\ o[1].request.command \in {"ping", "other"}
      BY <1>2, <1>5, <1>6
    <3>2. F = B
      BY <1>7, <3>1
    <3> QED
      BY <1>9, <3>1, <3>2
  <2> QED
    BY <1>8, <1>9, <2>1
<1>10. ASSUME IsOneFrame(o, pieces) PROVE IsWhole(F) /\ n = 2 /\ Pair
  <2>1. o = <<>> /\ n = 2 /\ pieces[2].last
    BY <1>1, <1>10 DEF IsOneFrame
  <2>2. B = pieces /\ Len(B) = 2
    BY <1>1, <1>6, <2>1
  <2>3. IsWhole(F)
    BY <1>7, <2>1, <2>2 DEF IsWhole
  <2> QED
    BY <1>8, <2>1, <2>3
<1>11. Len(F) >= 1
  BY <1>6, <1>7
<1> QED
  BY <1>6, <1>7, <1>9, <1>10, <1>11 DEF F, B, o, pieces, Arrived, AtHead

(* The buffer of a websocket is set.                                       *)
LEMMA FrameTaken ==
  ASSUME IInv, StillWhole, NEW c \in Clients, IsOpen(server, c), server.conn[c].webSocket,
         NEW B \in Seq(PieceSet), NEW Q \in Seq(PieceSet)
  PROVE  LET u == WithBuffer(WithBuffer(server, c, B), c, Q)
         IN /\ Tracks(u, Waits) /\ IsOpen(u, c) /\ OthersSame(u, server, c)
            /\ u.conn[c].buffer = Q /\ u.conn[c].webSocket
<1> DEFINE s == WithBuffer(server, c, B)
           u == WithBuffer(s, c, Q)
<1>1. Tracks(server, Waits) /\ IsConn(server.conn[c])
  BY InvTracks, ConnFacts
<1>2. /\ Tracks(s, Waits) /\ s.conn[c] = [server.conn[c] EXCEPT !.buffer = B] /\ IsOpen(s, c)
      /\ OthersSame(s, server, c)
  BY <1>1, BufferSet
<1>3. s.conn[c].webSocket /\ IsConn(s.conn[c])
  <2>1. IsConn(s.conn[c])
    BY <1>2, OpenIsConn DEF Tracks
  <2> HIDE DEF s
  <2> QED
    BY <1>1, <1>2, <2>1 DEF IsConn
<1> HIDE DEF s
<1>4. /\ Tracks(u, Waits) /\ u.conn[c] = [s.conn[c] EXCEPT !.buffer = Q] /\ IsOpen(u, c)
      /\ OthersSame(u, s, c)
  <2>1. Tracks(s, Waits) /\ IsOpen(s, c) /\ Q \in Seq(PieceSet)
    BY <1>2
  <2> QED
    BY <2>1, BufferSet
<1> HIDE DEF u
<1>5. u.conn[c].buffer = Q /\ u.conn[c].webSocket
  BY <1>3, <1>4 DEF IsConn
<1> QED
  BY <1>2, <1>4, <1>5 DEF OthersSame, u, s

(* A frame of a websocket.                                                 *)
LEMMA FrameRead ==
  ASSUME IInv, StillWhole, NEW c \in Clients, IsOpen(server, c), server.conn[c].webSocket,
         NEW n \in 1 .. Len(wire[c]), NEW env \in Environments,
         whole'[c] => IsOneFrame(server.conn[c].buffer, SubSeq(wire[c], 1, n))
  PROVE  Sound(HandleWebSocketFrame(
                   WithBuffer(server, c, server.conn[c].buffer \o SubSeq(wire[c], 1, n)), c, env),
               [wire EXCEPT ![c] = SubSeq(wire[c], n + 1, Len(wire[c]))])
<1> DEFINE x == server.conn[c]
           wi == wire[c]
           pieces == SubSeq(wi, 1, n)
           w == SubSeq(wi, n + 1, Len(wi))
           B == x.buffer \o pieces
           F == AsRead(B, env)
           r == F[1].request
           s == WithBuffer(server, c, B)
           kept == WithBuffer(s, c, <<F[1]>>)
           cleared == WithBuffer(s, c, <<>>)
           t == HandleWebSocketFrame(s, c, env)
           Pair == AtHead(wi, n, F)
<1>1. /\ IsConn(x) /\ x.buffer \in Seq(PieceSet) /\ wi \in Seq(PieceSet) /\ Len(wi) \in Nat
      /\ Arriving(x, wi, asked[c]) /\ asked \in [Clients -> Seq(AllRequests)]
      /\ x.webSocket
  BY ConnFacts DEF ConnInv, IInv, Types
<1>2. /\ B \in Seq(PieceSet) /\ F \in Seq(PieceSet) /\ Len(F) >= 1 /\ ~F[1].last
      /\ IsWhole(F) /\ r.command \notin {"ping", "other"} => Pair
      /\ whole'[c] => IsWhole(F) /\ n = 2 /\ Pair
  <2>1. n \in 1 .. Len(wi) /\ (whole'[c] => IsOneFrame(x.buffer, pieces))
    OBVIOUS
  <2> HIDE DEF x, wi
  <2>2. Arrived(x, wi, n, B, F)
    BY <1>1, <2>1, FrameArrived
  <2> HIDE DEF B, F
  <2> QED
    BY <2>1, <2>2 DEF Arrived
<1>3. /\ w \in Seq(PieceSet) /\ InPairs(w) /\ \A i \in DOMAIN w : w[i].request \in Requests
  <2> HIDE DEF x, wi
  <2>1. w \in Seq(PieceSet)
    BY <1>1
  <2> QED
    BY <1>1, <2>1, LaterArrives DEF wi
<1>4. s.conn[c].buffer = B /\ Tracks(s, Waits) /\ OthersSame(s, server, c)
  <2>1. /\ Tracks(s, Waits) /\ s.conn[c] = [x EXCEPT !.buffer = B] /\ OthersSame(s, server, c)
    <3>1. Tracks(server, Waits) /\ B \in Seq(PieceSet)
      BY <1>2, InvTracks
    <3> HIDE DEF B
    <3> QED
      BY <3>1, BufferSet
  <2> HIDE DEF s, B
  <2> QED
    BY <1>1, <2>1 DEF IsConn
<1>5. t = CASE r.command = "ping" -> SendMessage(kept, c, [kind |-> "pong"])
            [] r.command = "other" -> kept
            [] r.command \in {"close", "fragment"} -> [s EXCEPT !.conn[c] = Closed]
            [] OTHER -> IF IsWhole(F) THEN HandleMessage(cleared, c, r, env)
                        ELSE SendMessage(cleared, c, [kind |-> "error"])
  <2>1. s.conn[c].buffer = B
    BY <1>4
  <2> HIDE DEF s, B
  <2> QED
    BY <2>1 DEF HandleWebSocketFrame, WithBuffer
<1>6. Waits \in Pending /\ Waits[c] = x.buffer \o wi
  BY InvTracks DEF Waits
<1> DEFINE Fits(P) == \A q \in AllRequests : ~IsFrame(q) =>
                          /\ CountIn(P, Ends(q)) <= CountIn(Waits[c], Ends(q))
                          /\ whole'[c] => CountIn(P, Ends(q)) = CountIn(Waits[c], Ends(q))
           one(q) == IF q = r THEN 1 ELSE 0
<1>7. ASSUME NEW q
      PROVE  /\ CountIn(w, Ends(q)) \in Nat
             /\ CountIn(w, Ends(q)) <= CountIn(Waits[c], Ends(q))
             /\ Pair => CountIn(w, Ends(q)) + one(q) <= CountIn(Waits[c], Ends(q))
             /\ whole'[c] => CountIn(w, Ends(q)) + one(q) = CountIn(Waits[c], Ends(q))
  <2> HIDE DEF x, Pair, F
  <2>1. CountIn(Waits[c], Ends(q)) = CountIn(x.buffer, Ends(q)) + CountIn(wi, Ends(q))
    <3> DEFINE o == x.buffer
    <3>1. o \in Seq(PieceSet)
      BY <1>1
    <3> HIDE DEF o, wi
    <3>2. CountIn(o \o wi, Ends(q)) = CountIn(o, Ends(q)) + CountIn(wi, Ends(q))
      BY <1>1, <3>1, CountConcat
    <3> QED
      BY <1>6, <3>2 DEF o
  <2>2. CountIn(x.buffer, Ends(q)) = 0
    <3> DEFINE o == x.buffer
    <3>1. o \in Seq(PieceSet) /\ \A i \in DOMAIN o : ~o[i].last
      BY <1>1 DEF Arriving
    <3> HIDE DEF o
    <3>2. CountIn(o, Ends(q)) = 0
      BY <3>1, NothingEnds
    <3> QED
      BY <3>2 DEF o
  <2> HIDE DEF wi
  <2>3. /\ pieces \in Seq(PieceSet)
        /\ CountIn(wi, Ends(q)) = CountIn(pieces, Ends(q)) + CountIn(w, Ends(q))
    <3>1. n \in 0 .. Len(wi)
      BY <1>1 DEF wi
    <3> QED
      BY <1>1, <3>1, CountSplit
  <2>4. /\ CountIn(pieces, Ends(q)) \in Nat /\ CountIn(w, Ends(q)) \in Nat
        /\ CountIn(wi, Ends(q)) \in Nat
    BY <1>1, <1>3, <2>3, CountIsNat
  <2>5. ASSUME Pair
        PROVE  /\ CountIn(w, Ends(q)) + one(q) <= CountIn(wi, Ends(q))
               /\ n = 2 => CountIn(w, Ends(q)) + one(q) = CountIn(wi, Ends(q))
    <3>1. n \in 2 .. Len(wi) /\ r \in AllRequests
      BY <1>1, <2>5 DEF wi, AllRequests, Pair, AtHead
    <3>2. wi[1] = Piece(r, FALSE) /\ wi[2] = Piece(r, TRUE)
      BY <2>5 DEF Pair, AtHead
    <3> HIDE DEF r
    <3> QED
      BY <1>1, <3>1, <3>2, FrontPair, ZenonT(30)
  <2> HIDE DEF w, pieces, one
  <2> QED
    BY <1>2, <2>1, <2>2, <2>3, <2>4, <2>5
<1>8. Arriving(x, wi, asked[c]) /\ UpgradeRequest \notin Requests
  BY <1>1, UpgradeIsNoRequest
<1> HIDE DEF x, wi, pieces, w, B, F, s, Pair
<1>9. ASSUME NEW Q \in Seq(PieceSet), \A i \in DOMAIN Q : ~Q[i].last
      PROVE  /\ Q \o w \in Seq(PieceSet)
             /\ \A q : CountIn(Q \o w, Ends(q)) = CountIn(w, Ends(q))
  <2>1. Q \o w \in Seq(PieceSet)
    BY <1>3, ConcatProperties
  <2>2. ASSUME NEW q PROVE CountIn(Q \o w, Ends(q)) = CountIn(w, Ends(q))
    <3>1. CountIn(Q \o w, Ends(q)) = CountIn(Q, Ends(q)) + CountIn(w, Ends(q))
      BY <1>3, CountConcat
    <3>2. CountIn(Q, Ends(q)) = 0
      BY <1>9, NothingEnds
    <3> QED
      BY <1>7, <3>1, <3>2
  <2> QED
    BY <2>1, <2>2
<1>10. CASE r.command \in {"ping", "other"}
  <2> DEFINE Q == <<F[1]>>
             pong == [kind |-> "pong"]
  <2>1. Q \in Seq(PieceSet) /\ (\A i \in DOMAIN Q : ~Q[i].last) /\ Q[1].request = r
    BY <1>2
  <2> HIDE DEF Q
  <2>2. Q \o w \in Seq(PieceSet) /\ \A q : CountIn(Q \o w, Ends(q)) = CountIn(w, Ends(q))
    BY <1>9, <2>1
  <2>3. Fits(Q \o w)
    <3> TAKE q \in AllRequests
    <3> HAVE ~IsFrame(q)
    <3>1. q # r
      BY <1>10 DEF IsFrame
    <3> QED
      BY <1>7, <2>2, <3>1
  <2> HIDE DEF r
  <2>4. /\ Tracks(kept, Waits) /\ IsOpen(kept, c) /\ OthersSame(kept, server, c)
        /\ kept.conn[c].buffer = Q /\ kept.conn[c].webSocket
    BY <1>1, <1>2, <2>1, FrameTaken DEF Q, s, x
  <2> HIDE DEF kept
  <2>5. Tracks(kept, [Waits EXCEPT ![c] = Q \o w])
    BY <1>1, <1>6, <2>2, <2>3, <2>4, TracksCount
  <2>6. /\ Tracks(t, [Waits EXCEPT ![c] = Q \o w]) /\ SameInput(t, kept)
    <3>1. CASE r.command = "ping"
      <4>1. pong \in MessageSet /\ pong.kind = "pong" /\ pong.kind \notin Told
        BY DEF MessageSet, Told, Streams
      <4>2. t = SendMessage(kept, c, pong)
        BY <1>5, <3>1
      <4> HIDE DEF pong, t
      <4>3. /\ Tracks(SendMessage(kept, c, pong), [Waits EXCEPT ![c] = Q \o w])
            /\ SameInput(SendMessage(kept, c, pong), kept)
        BY <2>4, <2>5, <4>1, SendTracked
      <4> QED
        BY <4>2, <4>3
    <3>2. CASE r.command = "other"
      <4>1. t = kept
        BY <1>5, <3>2
      <4> QED
        BY <2>5, <4>1 DEF SameInput
    <3> QED
      BY <1>10, <3>1, <3>2
  <2> HIDE DEF t
  <2>7. Remaining(t, c, Q \o w, w)
    <3> SUFFICES ASSUME IsOpen(t, c)
                 PROVE  Q \o w = t.conn[c].buffer \o w /\ Arriving(t.conn[c], w, asked[c])
      BY DEF Remaining
    <3>1. t.conn[c].buffer = Q /\ t.conn[c].webSocket
      BY <2>4, <2>6 DEF SameInput
    <3>2. Arriving(t.conn[c], w, asked[c])
      BY <1>3, <1>8, <1>10, <2>1, <3>1 DEF Arriving
    <3> QED
      BY <3>1, <3>2
  <2>8. Sound(t, [wire EXCEPT ![c] = w])
    BY <2>4, <2>6, <2>7, ReadSound
  <2> QED
    BY <2>8 DEF t, s, B, pieces, w, x, wi
<1>11. CASE r.command \in {"close", "fragment"}
  <2>1. t = [s EXCEPT !.conn[c] = Closed]
    BY <1>5, <1>11
  <2> HIDE DEF t, r
  <2>2. Tracks(t, Waits) /\ SameInput(t, s) /\ ~IsOpen(t, c)
    BY <1>4, <2>1, CloseTracked
  <2> DEFINE P == Waits[c]
  <2>3. [Waits EXCEPT ![c] = P] = Waits
    BY <1>6 DEF Pending
  <2> HIDE DEF P
  <2>4. Remaining(t, c, P, w)
    BY <2>2 DEF Remaining
  <2>5. Sound(t, [wire EXCEPT ![c] = w])
    BY <1>4, <2>2, <2>3, <2>4, ReadSound
  <2> QED
    BY <2>5 DEF t, s, B, pieces, w, x, wi
<1>12. CASE r.command \notin {"ping", "other", "close", "fragment"}
  <2> DEFINE e == <<>>
             error == [kind |-> "error"]
  <2>0. e \in Seq(PieceSet)
    OBVIOUS
  <2>1. /\ Tracks(cleared, Waits) /\ IsOpen(cleared, c) /\ OthersSame(cleared, server, c)
        /\ cleared.conn[c].buffer = e /\ cleared.conn[c].webSocket
    <3> HIDE DEF r
    <3> QED
      BY <1>1, <1>2, <2>0, FrameTaken DEF s, x
  <2> HIDE DEF cleared
  <2>2. /\ Tracks(t, [Waits EXCEPT ![c] = w]) /\ SameInput(t, cleared)
    <3>1. CASE IsWhole(F)
      <4>1. Pair /\ t = HandleMessage(cleared, c, r, env)
        BY <1>2, <1>5, <1>12, <3>1
      <4> DEFINE b == F[2]
                 P == <<b>> \o w
                 p == [Waits EXCEPT ![c] = P]
      <4>2. b = Piece(r, TRUE) /\ r \in Requests /\ b \in PieceSet /\ b.last /\ b.request = r
        BY <4>1 DEF Pair, AtHead, Piece, PieceSet, AllRequests
      <4> HIDE DEF b
      <4>3. <<b>> \in Seq(PieceSet) /\ P \in Seq(PieceSet)
        <5>0. b \in PieceSet
          BY <4>2
        <5>1. <<b>> \in Seq(PieceSet)
          BY <5>0
        <5> QED
          BY <1>3, <5>1, ConcatProperties
      <4>4. Fits(P)
        <5> TAKE q \in AllRequests
        <5>1. CountIn(P, Ends(q)) = CountIn(<<b>>, Ends(q)) + CountIn(w, Ends(q))
          BY <1>3, <4>3, CountConcat
        <5>2. b \in Ends(q) <=> q = r
          BY <4>2 DEF Ends, Piece
        <5>3. CountIn(<<b>>, Ends(q)) = one(q)
          BY <5>2, CountOne
        <5>4. one(q) \in Nat
          OBVIOUS
        <5> HIDE DEF one, P
        <5> QED
          BY <1>7, <4>1, <5>1, <5>3, <5>4
      <4> HIDE DEF P, t, r
      <4>5. Tracks(cleared, p)
        BY <1>1, <1>6, <2>1, <4>3, <4>4, TracksCount
      <4>6. p \in Pending /\ p[c] = <<b>> \o w /\ [p EXCEPT ![c] = w] = [Waits EXCEPT ![c] = w]
        BY <1>6, <4>3 DEF Pending, P
      <4> HIDE DEF p
      <4> DEFINE u == IF b.last THEN HandleMessage(cleared, c, b.request, env) ELSE cleared
      <4>7. Tracks(u, [p EXCEPT ![c] = w]) /\ SameInput(u, cleared)
        BY <1>1, <1>3, <4>2, <4>5, <4>6, PieceTracked
      <4>8. u = t
        BY <4>1, <4>2
      <4> QED
        BY <4>6, <4>7, <4>8
    <3>2. CASE ~IsWhole(F)
      <4>1. t = SendMessage(cleared, c, error) /\ ~whole'[c]
        BY <1>2, <1>5, <1>12, <3>2
      <4>2. Fits(w)
        BY <1>7, <4>1
      <4>3. Tracks(cleared, [Waits EXCEPT ![c] = w])
        <5> HIDE DEF r, t
        <5> QED
          BY <1>1, <1>3, <1>6, <2>1, <4>2, TracksCount
      <4>4. error \in MessageSet /\ error.kind = "error" /\ error.kind \notin Told
        BY DEF MessageSet, Told, Streams
      <4> HIDE DEF error, t, r
      <4>5. /\ Tracks(SendMessage(cleared, c, error), [Waits EXCEPT ![c] = w])
            /\ SameInput(SendMessage(cleared, c, error), cleared)
        BY <2>1, <4>3, <4>4, SendTracked
      <4> QED
        BY <4>1, <4>5
    <3> QED
      BY <3>1, <3>2
  <2> HIDE DEF t, r
  <2>3. Remaining(t, c, w, w)
    <3> SUFFICES ASSUME IsOpen(t, c)
                 PROVE  w = t.conn[c].buffer \o w /\ Arriving(t.conn[c], w, asked[c])
      BY DEF Remaining
    <3>1. t.conn[c].buffer = <<>> /\ t.conn[c].webSocket
      BY <2>1, <2>2 DEF SameInput
    <3>2. <<>> \o w = w
      BY <1>3
    <3>3. Arriving(t.conn[c], w, asked[c])
      BY <1>3, <1>8, <3>1 DEF Arriving
    <3> QED
      BY <3>1, <3>2, <3>3
  <2>4. Sound(t, [wire EXCEPT ![c] = w])
    BY <2>1, <2>2, <2>3, ReadSound
  <2> QED
    BY <2>4 DEF t, s, B, pieces, w, x, wi
<1> QED
  BY <1>10, <1>11, <1>12

(* Whatever the socket has is read.                                        *)
LEMMA DataRead ==
  ASSUME IInv, StillWhole, NEW c \in Clients, IsOpen(server, c), NEW n \in 1 .. Len(wire[c]),
         NEW env \in Environments,
         whole'[c] => (server.conn[c].webSocket =>
                           IsOneFrame(server.conn[c].buffer, SubSeq(wire[c], 1, n)))
  PROVE  Sound(ReadData(server, c, SubSeq(wire[c], 1, n), env),
               [wire EXCEPT ![c] = SubSeq(@, n + 1, Len(@))])
<1> DEFINE x == server.conn[c]
           pieces == SubSeq(wire[c], 1, n)
           w == SubSeq(wire[c], n + 1, Len(wire[c]))
           B == x.buffer \o pieces
           s == WithBuffer(server, c, B)
           t == ReadData(server, c, pieces, env)
<1>1. /\ IsServer(server) /\ IsConn(x) /\ wire[c] \in Seq(PieceSet) /\ Len(wire[c]) \in Nat
      /\ Arriving(x, wire[c], asked[c])
  BY OpenIsConn DEF IInv, Types, ConnInv
<1>2. x.buffer \in Seq(PieceSet) /\ x.webSocket \in BOOLEAN
  BY <1>1, ConnFields
<1>3. /\ pieces \in Seq(PieceSet) /\ w \in Seq(PieceSet) /\ wire[c] = pieces \o w
      /\ Len(pieces) = n /\ Len(w) = Len(wire[c]) - n
      /\ \A i \in DOMAIN pieces : pieces[i] = wire[c][i] /\ i \in DOMAIN wire[c]
      /\ \A i \in DOMAIN w : w[i] = wire[c][n + i] /\ n + i \in DOMAIN wire[c]
  <2>1. pieces \o w = SubSeq(wire[c], 1, Len(wire[c]))
    <3>1. /\ Len(wire[c]) \in Nat /\ 1 \in 1 .. Len(wire[c]) + 1
          /\ n \in 1 - 1 .. Len(wire[c]) /\ Len(wire[c]) \in n .. Len(wire[c])
      BY <1>1
    <3> QED
      BY <1>1, <3>1, ConcatAdjacentSubSeq
  <2>2. SubSeq(wire[c], 1, Len(wire[c])) = wire[c]
    BY <1>1, SubSeqFull
  <2> QED
    BY <1>1, <2>1, <2>2
<1>4. s = [server EXCEPT !.conn[c].buffer = @ \o pieces]
  BY DEF WithBuffer
<1>5. s.conn[c].buffer = B /\ s.conn[c].webSocket = x.webSocket
  <2>1. s.conn[c] = [x EXCEPT !.buffer = B]
    BY <1>1 DEF IsServer, WithBuffer
  <2> HIDE DEF s, B
  <2> QED
    BY <1>1, <2>1 DEF IsConn
<1>6. t = IF x.webSocket THEN HandleWebSocketFrame(s, c, env)
          ELSE IF \E i \in DOMAIN B : B[i].request = UpgradeRequest
            THEN DoWebSocketHandshake(s, c)
            ELSE HandleLines(s, c, env)
  BY <1>4, <1>5 DEF ReadData
<1>w. [wire EXCEPT ![c] = SubSeq(@, n + 1, Len(@))] = [wire EXCEPT ![c] = w]
  OBVIOUS
<1>a. InPairs(w) /\ \A i \in DOMAIN w : w[i].request \in Requests
  BY <1>1, LaterArrives
<1>7. CASE x.webSocket
  <2>1. whole'[c] => IsOneFrame(x.buffer, pieces)
    BY <1>7
  <2> HIDE DEF pieces, w, t
  <2>2. Sound(HandleWebSocketFrame(s, c, env), [wire EXCEPT ![c] = w])
    BY <1>7, <2>1, FrameRead DEF pieces, w
  <2>3. Sound(t, [wire EXCEPT ![c] = w])
    BY <1>6, <1>7, <2>2
  <2> QED
    BY <1>w, <2>3 DEF t, pieces
<1> HIDE DEF pieces, w, t
<1>8. CASE ~x.webSocket /\ \E i \in DOMAIN B : B[i].request = UpgradeRequest
  <2>1. \E i \in DOMAIN wire[c] : wire[c][i].request = UpgradeRequest
    <3>1. PICK i \in DOMAIN B : B[i].request = UpgradeRequest
      BY <1>8
    <3>2. \/ \E j \in DOMAIN x.buffer : B[i] = x.buffer[j]
          \/ \E j \in DOMAIN pieces : B[i] = pieces[j]
      <4> DEFINE o == x.buffer
      <4>1. o \in Seq(PieceSet) /\ B = o \o pieces
        BY <1>2
      <4> HIDE DEF o, B
      <4>2. \/ \E j \in DOMAIN o : B[i] = o[j]
            \/ \E j \in DOMAIN pieces : B[i] = pieces[j]
        <5>1. pieces \in Seq(PieceSet) /\ i \in DOMAIN (o \o pieces)
          BY <1>3, <4>1
        <5> QED
          BY <4>1, <5>1, ConcatElements
      <4> QED
        BY <4>2 DEF o
    <3> QED
      BY <1>1, <1>3, <1>8, <3>1, <3>2, UpgradeIsNoRequest DEF Arriving
  <2>2. x.buffer = <<>> /\ wire[c] = <<Piece(UpgradeRequest, TRUE)>>
    BY <1>1, <2>1 DEF Arriving
  <2>3. w = <<>>
    BY <1>3, <2>2
  <2>4. Sound(DoWebSocketHandshake([server EXCEPT !.conn[c].buffer = B], c),
              [wire EXCEPT ![c] = <<>>])
    <3> HIDE DEF B
    <3> QED
      BY <2>2, HandshakeRead
  <2>5. Sound(t, [wire EXCEPT ![c] = w])
    BY <1>6, <1>8, <2>3, <2>4 DEF WithBuffer
  <2> QED
    BY <1>w, <2>5 DEF t, pieces
<1>9. CASE ~x.webSocket /\ ~\E i \in DOMAIN B : B[i].request = UpgradeRequest
  <2>1. B \in Seq(PieceSet) /\ x.buffer \o wire[c] = B \o w
    <3>1. x.buffer \o (pieces \o w) = (x.buffer \o pieces) \o w
      <4> DEFINE o == x.buffer
      <4> HIDE DEF o
      <4>1. o \in Seq(PieceSet)
        BY <1>2 DEF o
      <4>2. pieces \in Seq(PieceSet) /\ w \in Seq(PieceSet)
        BY <1>3
      <4>3. (o \o pieces) \o w = o \o (pieces \o w)
        BY <4>1, <4>2, ConcatAssociative, SMTT(20)
      <4> QED
        BY <4>3 DEF o
    <3> QED
      BY <1>2, <1>3, <3>1, ConcatProperties
  <2>2. ASSUME NEW i \in DOMAIN B PROVE B[i].request \in Requests
    <3> DEFINE o == x.buffer
    <3>1. o \in Seq(PieceSet) /\ B = o \o pieces /\ pieces \in Seq(PieceSet)
      BY <1>2, <1>3
    <3>2. \A j \in DOMAIN o : o[j].request \in Requests
      BY <1>1, <1>9 DEF Arriving
    <3>3. \A j \in DOMAIN pieces : pieces[j].request \in Requests \cup {UpgradeRequest}
      BY <1>1, <1>3 DEF Arriving
    <3>4. B[i].request # UpgradeRequest
      BY <1>9
    <3> HIDE DEF o, B
    <3>5. \/ \E j \in DOMAIN o : B[i] = o[j]
          \/ \E j \in DOMAIN pieces : B[i] = pieces[j]
      <4>1. i \in DOMAIN (o \o pieces)
        BY <3>1
      <4> QED
        BY <3>1, <4>1, ConcatElements
    <3> QED
      BY <3>2, <3>3, <3>4, <3>5
  <2> HIDE DEF B
  <2>4. Sound(HandleLines(WithBuffer(server, c, B), c, env), [wire EXCEPT ![c] = w])
    BY <1>3, <1>9, <1>a, <2>1, <2>2, LinesRead
  <2>5. t = HandleLines(s, c, env)
    BY <1>6, <1>9
  <2> QED
    BY <1>w, <2>4, <2>5 DEF t, pieces
<1> QED
  BY <1>2, <1>7, <1>8, <1>9
-----------------------------------------------------------------------------
(* The actions.                                                            *)
OnlyConn(c) ==
    /\ server'.core = server.core
    /\ \A d \in Clients \ {c} :
           /\ server'.conn[d] = server.conn[d]
           /\ wire'[d] = wire[d] /\ asked'[d] = asked[d] /\ wants'[d] = wants[d]
           /\ whole'[d] = whole[d]

LEMMA OthersKept ==
  ASSUME IInv, NEW c \in Clients, Types', OnlyConn(c),
         IsOpen(server, c)' => ConnInv(server.conn[c], wire[c], asked[c], wants[c], Exact(c))'
  PROVE  IInv'
<1>1. ASSUME NEW d \in Clients, IsOpen(server, d)'
      PROVE  ConnInv(server.conn[d], wire[d], asked[d], wants[d], Exact(d))'
  <2>1. CASE d = c
    BY <1>1, <2>1
  <2>2. CASE d # c
    <3>1. /\ server'.conn[d] = server.conn[d] /\ wire'[d] = wire[d] /\ asked'[d] = asked[d]
          /\ wants'[d] = wants[d] /\ Exact(d)' = Exact(d)
      BY <2>2 DEF OnlyConn, Running, Exact
    <3>2. ConnInv(server.conn[d], wire[d], asked[d], wants[d], Exact(d))
      BY <1>1, <3>1 DEF IInv, IsOpen
    <3> QED
      BY <3>1, <3>2
  <2> QED
    BY <2>1, <2>2
<1> QED
  BY <1>1 DEF IInv

LEMMA StartsTyped ==
  ASSUME NEW W \in SUBSET Streams, NEW r
  PROVE  W \cup Starts(r) \in SUBSET Streams
BY StartIsNoStop

(* A client that has asked for more is still in order.                     *)
LEMMA GoodWantsMore ==
  ASSUME NEW x, NEW W, Good(x, W), NEW V, W \subseteq V
  PROVE  Good(x, V)
BY DEF Good, Covered

LEMMA ClientConnectsKeeps ==
  ASSUME IInv, NEW c \in Clients, ClientConnects(c)
  PROVE  IInv'
<1> DEFINE x == NewJsonClientConnection
<1>1. IsConn(x) /\ x.out = <<>> /\ x.buffer = <<>> /\ ~x.webSocket
      /\ ~x.leds /\ x.images = 0 /\ x.logs = 0
  BY DEF IsConn, NewJsonClientConnection
<1>2. IsServer(server)
  BY DEF IInv, Types
<1>3. server' = [server EXCEPT !.conn[c] = x]
  BY DEF ClientConnects, NewConnection
<1>4. asked[c] = <<>> /\ wants[c] = {} /\ wire[c] = <<>>
      /\ asked' = asked /\ wants' = wants /\ wire' = wire
      /\ whole' = [whole EXCEPT ![c] = TRUE]
  BY DEF ClientConnects
<1> HIDE DEF x
<1>5. /\ IsServer(server') /\ server'.conn[c] = x /\ server'.core = server.core
      /\ \A d \in Clients \ {c} : server'.conn[d] = server.conn[d]
  BY <1>1, <1>2, <1>3, SetConnection
<1>6. Types' /\ OnlyConn(c)
  BY <1>4, <1>5 DEF IInv, Types, OnlyConn
<1>7. ConnInv(x, <<>>, <<>>, {}, Exact(c)')
  <2>1. Wanted(<<>>, {})
    BY DEF Wanted
  <2>2. Accounted(x.out, x.buffer \o <<>>, <<>>, Exact(c)')
    <3>1. x.buffer \o <<>> = <<>>
      BY <1>1
    <3> QED
      BY <1>1, <3>1, CountEmpty DEF Accounted
  <2>3. Good(x, {})
    BY <1>1 DEF Good, On
  <2>4. Arriving(x, <<>>, <<>>)
    BY <1>1 DEF Arriving, InPairs
  <2> QED
    BY <2>1, <2>2, <2>3, <2>4 DEF ConnInv
<1> QED
  BY <1>4, <1>5, <1>6, <1>7, OthersKept

(* A client sends: one more request is asked, and its end is on its way.   *)
LEMMA AskedOne ==
  ASSUME NEW out \in Seq(MessageSet), NEW P \in Seq(PieceSet), NEW A \in Seq(AllRequests),
         NEW running, Accounted(out, P, A, running), NEW r \in AllRequests,
         NEW Q \in Seq(PieceSet),
         \A q \in AllRequests :
             CountIn(Q, Ends(q)) = CountIn(P, Ends(q)) + (IF q = r THEN 1 ELSE 0)
  PROVE  Accounted(out, Q, Append(A, r), running)
<1>1. ASSUME NEW q \in AllRequests
      PROVE  CountIn(Append(A, r), {q}) = CountIn(A, {q}) + (IF q = r THEN 1 ELSE 0)
  BY CountAppend
<1>2. \A q : /\ CountIn(out, Answers(q)) \in Nat /\ CountIn(P, Ends(q)) \in Nat
             /\ CountIn(A, {q}) \in Nat
  BY CountIsNat
<1>3. ASSUME NEW q \in AllRequests, ~IsFrame(q)
      PROVE  /\ CountIn(out, Answers(q)) + CountIn(Q, Ends(q)) <= CountIn(Append(A, r), {q})
             /\ running /\ ~Unanswered(q) =>
                   CountIn(out, Answers(q)) + CountIn(Q, Ends(q)) = CountIn(Append(A, r), {q})
  <2>1. /\ CountIn(out, Answers(q)) + CountIn(P, Ends(q)) <= CountIn(A, {q})
        /\ running /\ ~Unanswered(q) =>
               CountIn(out, Answers(q)) + CountIn(P, Ends(q)) = CountIn(A, {q})
    BY <1>3 DEF Accounted
  <2> DEFINE i == IF q = r THEN 1 ELSE 0
  <2>2. CountIn(Q, Ends(q)) = CountIn(P, Ends(q)) + i
        /\ CountIn(Append(A, r), {q}) = CountIn(A, {q}) + i /\ i \in Nat
    BY <1>1
  <2>3. /\ CountIn(out, Answers(q)) \in Nat /\ CountIn(P, Ends(q)) \in Nat
        /\ CountIn(A, {q}) \in Nat
    BY <1>2
  <2> HIDE DEF i
  <2> QED
    BY <2>1, <2>2, <2>3
<1> QED
  BY <1>3 DEF Accounted

LEMMA ClientUpgradesKeeps ==
  ASSUME IInv, NEW c \in Clients, ClientUpgrades(c)
  PROVE  IInv'
<1> DEFINE x == server.conn[c]
           b == Piece(UpgradeRequest, TRUE)
<1>1. /\ server' = server /\ wants' = wants /\ whole' = whole
      /\ IsOpen(server, c) /\ ~x.webSocket /\ asked[c] = <<>> /\ wire[c] = <<>> /\ x.buffer = <<>>
      /\ wire' = [wire EXCEPT ![c] = <<b>>]
      /\ asked' = [asked EXCEPT ![c] = <<UpgradeRequest>>]
  BY DEF ClientUpgrades
<1>2. /\ x.out \in Seq(MessageSet) /\ wants[c] \in SUBSET Streams
      /\ ConnInv(x, wire[c], asked[c], wants[c], Exact(c))
  BY <1>1, ConnFacts
<1>3. b \in PieceSet /\ UpgradeRequest \in AllRequests
  BY DEF PieceSet, Piece, AllRequests
<1> HIDE DEF b
<1>4. <<b>> \in Seq(PieceSet) /\ <<UpgradeRequest>> \in Seq(AllRequests)
  BY <1>3
<1>5. Types' /\ OnlyConn(c) /\ wire'[c] = <<b>> /\ asked'[c] = <<UpgradeRequest>>
  BY <1>1, <1>4 DEF IInv, Types, OnlyConn
<1>6. Starts(UpgradeRequest) = {} /\ ~IsFrame(UpgradeRequest)
  BY DEF Starts, UpgradeRequest, Request, IsFrame
<1>7. Accounted(x.out, x.buffer \o <<b>>, <<UpgradeRequest>>, Exact(c))
  <2> DEFINE e == <<>>
             none == <<>>
  <2>1. Accounted(x.out, e, none, Exact(c))
    <3>1. x.buffer \o wire[c] = e
      BY <1>1
    <3> QED
      BY <1>1, <1>2, <3>1 DEF ConnInv
  <2>2. \A q \in AllRequests :
            CountIn(<<b>>, Ends(q)) = CountIn(e, Ends(q)) + (IF q = UpgradeRequest THEN 1 ELSE 0)
    <3> TAKE q \in AllRequests
    <3>1. b \in Ends(q) <=> q = UpgradeRequest
      BY DEF Ends, Piece, b
    <3> QED
      BY <3>1, CountEmpty, CountOne
  <2>3. e \in Seq(PieceSet) /\ none \in Seq(AllRequests)
    OBVIOUS
  <2>4. Append(none, UpgradeRequest) = <<UpgradeRequest>> /\ x.buffer \o <<b>> = <<b>>
    BY <1>1
  <2> HIDE DEF e, none
  <2>5. Accounted(x.out, <<b>>, Append(none, UpgradeRequest), Exact(c))
    BY <1>2, <1>3, <1>4, <2>1, <2>2, <2>3, AskedOne
  <2> QED
    BY <2>4, <2>5
<1>8. Wanted(<<UpgradeRequest>>, wants[c])
  BY <1>6 DEF Wanted
<1>9. Arriving(x, <<b>>, <<UpgradeRequest>>)
  <2>1. b.request = UpgradeRequest /\ b = Piece(UpgradeRequest, TRUE)
    BY DEF b, Piece
  <2> DEFINE v == <<b>>
  <2>2. DOMAIN v = {1} /\ v[1] = b /\ v = <<Piece(UpgradeRequest, TRUE)>>
    BY <2>1
  <2>3. DOMAIN x.buffer = {}
    BY <1>1
  <2> HIDE DEF v, b
  <2>4. InPairs(v)
    BY <2>2 DEF InPairs
  <2>5. Arriving(x, v, <<UpgradeRequest>>)
    BY <1>1, <2>1, <2>2, <2>3, <2>4 DEF Arriving
  <2> QED
    BY <2>5 DEF v
<1>10. ConnInv(x, <<b>>, <<UpgradeRequest>>, wants[c], Exact(c))
  BY <1>2, <1>7, <1>8, <1>9 DEF ConnInv
<1>11. ConnInv(server.conn[c], wire[c], asked[c], wants[c], Exact(c))'
  BY <1>1, <1>5, <1>10 DEF Running, Exact
<1> QED
  BY <1>5, <1>11, OthersKept

LEMMA WantedMore ==
  ASSUME NEW A \in Seq(AllRequests), NEW W, Wanted(A, W), NEW r \in AllRequests, ~IsFrame(r)
  PROVE  Wanted(Append(A, r), W \cup Starts(r))
<1>1. ASSUME NEW i \in DOMAIN Append(A, r)
      PROVE  Starts(Append(A, r)[i]) \subseteq W \cup Starts(r) /\ ~IsFrame(Append(A, r)[i])
  <2>1. (i \in DOMAIN A /\ Append(A, r)[i] = A[i]) \/ Append(A, r)[i] = r
    OBVIOUS
  <2> QED
    BY <2>1 DEF Wanted
<1> QED
  BY <1>1 DEF Wanted

(* Both kinds of clients send pieces that end the one request r.           *)
LEMMA SendsKeeps ==
  ASSUME IInv, NEW c \in Clients, IsOpen(server, c), NEW r \in AllRequests, ~IsFrame(r), Ask(c, r),
         server' = server, whole' = whole, NEW L \in Seq(PieceSet),
         wire' = [wire EXCEPT ![c] = @ \o L],
         \A q \in AllRequests : CountIn(L, Ends(q)) = IF q = r THEN 1 ELSE 0,
         Arriving(server.conn[c], wire[c] \o L, Append(asked[c], r))
  PROVE  IInv'
<1> DEFINE x == server.conn[c]
           A == asked[c]
           W == wants[c]
           w == wire[c]
           B == x.buffer
<1>1. /\ IsConn(x) /\ x.out \in Seq(MessageSet) /\ B \in Seq(PieceSet)
      /\ w \in Seq(PieceSet) /\ A \in Seq(AllRequests) /\ W \in SUBSET Streams
      /\ ConnInv(x, w, A, W, Exact(c))
  BY ConnFacts
<1>2. /\ wire'[c] = w \o L /\ asked'[c] = Append(A, r) /\ wants'[c] = W \cup Starts(r)
      /\ \A d \in Clients \ {c} : wire'[d] = wire[d] /\ asked'[d] = asked[d] /\ wants'[d] = wants[d]
      /\ wire' = [d \in Clients |-> wire'[d]] /\ asked' = [d \in Clients |-> asked'[d]]
      /\ wants' = [d \in Clients |-> wants'[d]]
  BY DEF Ask, IInv, Types
<1> HIDE DEF A, W, w, B, x
<1>3. w \o L \in Seq(PieceSet) /\ Append(A, r) \in Seq(AllRequests)
      /\ W \cup Starts(r) \in SUBSET Streams
  BY <1>1, StartsTyped, ConcatProperties, AppendProperties
<1>4. Types' /\ OnlyConn(c)
  <2>1. \A d \in Clients : /\ wire'[d] \in Seq(PieceSet) /\ asked'[d] \in Seq(AllRequests)
                           /\ wants'[d] \in SUBSET Streams
    BY <1>2, <1>3 DEF IInv, Types
  <2> QED
    BY <1>2, <2>1 DEF IInv, Types, OnlyConn
<1>5. Accounted(x.out, B \o (w \o L), Append(A, r), Exact(c))
  <2>1. B \o w \in Seq(PieceSet) /\ (B \o w) \o L \in Seq(PieceSet)
    BY <1>1, ConcatProperties
  <2>2. (B \o w) \o L = B \o (w \o L)
    BY <1>1, ConcatAssociative
  <2>3. Accounted(x.out, B \o w, A, Exact(c))
    BY <1>1 DEF ConnInv, B
  <2>4. ASSUME NEW q \in AllRequests
        PROVE  CountIn((B \o w) \o L, Ends(q)) = CountIn(B \o w, Ends(q)) + (IF q = r THEN 1 ELSE 0)
    <3>1. CountIn((B \o w) \o L, Ends(q)) = CountIn(B \o w, Ends(q)) + CountIn(L, Ends(q))
      BY <2>1, CountConcat
    <3> QED
      BY <3>1
  <2> DEFINE P == B \o w
             Q == (B \o w) \o L
  <2>5. /\ P \in Seq(PieceSet) /\ Q \in Seq(PieceSet) /\ Accounted(x.out, P, A, Exact(c))
        /\ \A q \in AllRequests : CountIn(Q, Ends(q)) = CountIn(P, Ends(q)) + (IF q = r THEN 1 ELSE 0)
    BY <2>1, <2>3, <2>4
  <2> HIDE DEF P, Q
  <2>6. Accounted(x.out, Q, Append(A, r), Exact(c))
    BY <1>1, <2>5, AskedOne
  <2> QED
    BY <2>2, <2>6 DEF Q
<1>6. Good(x, W \cup Starts(r)) /\ Wanted(Append(A, r), W \cup Starts(r))
  BY <1>1, GoodWantsMore, WantedMore DEF ConnInv
<1>7. Arriving(x, w \o L, Append(A, r))
  BY DEF x, w, A
<1>8. ConnInv(x, w \o L, Append(A, r), W \cup Starts(r), Exact(c))
  BY <1>5, <1>6, <1>7 DEF ConnInv, B
<1>9. ConnInv(server.conn[c], wire[c], asked[c], wants[c], Exact(c))'
  BY <1>2, <1>8 DEF Running, Exact, x
<1> QED
  BY <1>4, <1>9, OthersKept

(* What a client sends arrives in pairs.                                   *)
Parts(r) == <<Piece(r, FALSE), Piece(r, TRUE)>>

LEMMA PairArrives ==
  ASSUME NEW wi \in Seq(PieceSet), InPairs(wi), NEW r \in AllRequests, NEW L, L = Parts(r)
  PROVE  /\ wi \o L \in Seq(PieceSet) /\ InPairs(wi \o L)
         /\ \A i \in DOMAIN (wi \o L) :
                (\E j \in DOMAIN wi : (wi \o L)[i] = wi[j]) \/ (wi \o L)[i].request = r
<1> DEFINE a == Piece(r, FALSE)
           b == Piece(r, TRUE)
           z == wi \o L
<1>1. /\ a \in PieceSet /\ b \in PieceSet /\ ~a.last /\ a.request = r /\ b.request = r
      /\ Piece(b.request, FALSE) = a
  BY DEF Piece, PieceSet
<1> HIDE DEF a, b
<1>2. L = <<a, b>>
  BY DEF a, b, Parts
<1>3. L \in Seq(PieceSet) /\ Len(L) = 2 /\ L[1] = a /\ L[2] = b
  <2> DEFINE M == <<a, b>>
  <2>1. M \in Seq(PieceSet) /\ Len(M) = 2 /\ M[1] = a /\ M[2] = b
    BY <1>1
  <2> QED
    BY <1>2, <2>1
<1>4. /\ z \in Seq(PieceSet) /\ Len(z) = Len(wi) + 2 /\ DOMAIN z = 1 .. Len(wi) + 2
      /\ z[Len(wi) + 1] = a /\ z[Len(wi) + 2] = b
      /\ \A i \in 1 .. Len(wi) : z[i] = wi[i]
      /\ DOMAIN wi = 1 .. Len(wi) /\ Len(wi) \in Nat
  <2>1. z \in Seq(PieceSet) /\ Len(z) = Len(wi) + 2 /\ Len(wi) \in Nat /\ DOMAIN wi = 1 .. Len(wi)
    <3>1. Len(wi) \in Nat /\ DOMAIN wi = 1 .. Len(wi)
      BY LenProperties
    <3>2. z \in Seq(PieceSet) /\ Len(z) = Len(wi) + Len(L)
      BY <1>3, ConcatProperties
    <3> HIDE DEF z
    <3> QED
      BY <1>3, <3>1, <3>2
  <2>2. \A i \in 1 .. Len(wi) : z[i] = wi[i]
    BY <1>3
  <2>3. z[Len(wi) + 1] = a /\ z[Len(wi) + 2] = b
    <3>1. Len(wi) \in Nat /\ Len(wi) + 1 > Len(wi) /\ Len(wi) + 2 > Len(wi)
          /\ (Len(wi) + 1) - Len(wi) = 1 /\ (Len(wi) + 2) - Len(wi) = 2
          /\ Len(wi) + 1 \in 1 .. Len(wi) + Len(L) /\ Len(wi) + 2 \in 1 .. Len(wi) + Len(L)
      BY <1>3
    <3> QED
      BY <1>3, <3>1, ConcatProperties, SMTT(20)
  <2> HIDE DEF z
  <2> QED
    BY <2>1, <2>2, <2>3
<1> HIDE DEF z
<1>5. ASSUME NEW i \in DOMAIN z, i > 1, z[i].last
      PROVE  z[i - 1] = Piece(z[i].request, FALSE)
  <2>1. CASE i \in 1 .. Len(wi)
    <3>1. i - 1 \in 1 .. Len(wi) /\ z[i] = wi[i] /\ z[i - 1] = wi[i - 1] /\ i \in DOMAIN wi
      BY <1>4, <1>5, <2>1
    <3> QED
      BY <1>5, <3>1 DEF InPairs
  <2>2. CASE i = Len(wi) + 1
    BY <1>1, <1>4, <1>5, <2>2
  <2>3. CASE i = Len(wi) + 2
    <3>1. i - 1 = Len(wi) + 1
      BY <1>4, <2>3
    <3> QED
      BY <1>1, <1>4, <2>3, <3>1
  <2>4. i \in 1 .. Len(wi) \/ i = Len(wi) + 1 \/ i = Len(wi) + 2
    BY <1>4
  <2> QED
    BY <2>1, <2>2, <2>3, <2>4
<1>6. ASSUME NEW i \in DOMAIN z
      PROVE  (\E j \in DOMAIN wi : z[i] = wi[j]) \/ z[i].request = r
  <2>1. i \in 1 .. Len(wi) \/ i = Len(wi) + 1 \/ i = Len(wi) + 2
    BY <1>4
  <2> QED
    BY <1>1, <1>4, <2>1
<1>7. InPairs(z)
  BY <1>5 DEF InPairs
<1> QED
  BY <1>4, <1>6, <1>7 DEF z

LEMMA RawClientSendsKeeps ==
  ASSUME IInv, NEW c \in Clients, NEW r \in Requests, RawClientSends(c, r)
  PROVE  IInv'
<1> DEFINE L == <<Piece(r, FALSE), Piece(r, TRUE)>>
           x == server.conn[c]
           w == wire[c]
<1>1. r \in AllRequests /\ r # UpgradeRequest
  BY UpgradeIsNoRequest DEF AllRequests
<1>2. /\ IsOpen(server, c) /\ ~x.webSocket /\ ~Contains(asked[c], UpgradeRequest)
      /\ ~IsFrame(r) /\ wire' = [wire EXCEPT ![c] = @ \o L] /\ Ask(c, r)
      /\ server' = server /\ whole' = whole
  BY DEF RawClientSends
<1>3. L \in Seq(PieceSet) /\ \A q \in AllRequests : CountIn(L, Ends(q)) = IF q = r THEN 1 ELSE 0
  BY <1>1, PairEnds
<1>4. w \in Seq(PieceSet) /\ asked[c] \in Seq(AllRequests) /\ Arriving(x, w, asked[c])
  BY <1>2, ConnFacts DEF ConnInv
<1>5. /\ InPairs(w \o L)
      /\ \A i \in DOMAIN (w \o L) :
             (\E j \in DOMAIN w : (w \o L)[i] = w[j]) \/ (w \o L)[i].request = r
  <2>1. InPairs(w)
    BY <1>4 DEF Arriving
  <2>2. L = Parts(r)
    BY DEF Parts
  <2> HIDE DEF w, L
  <2> QED
    BY <1>1, <1>4, <2>1, <2>2, PairArrives
<1> HIDE DEF L, w
<1>6. Arriving(x, w \o L, Append(asked[c], r))
  <2>1. asked[c] # <<UpgradeRequest>>
    <3> SUFFICES ASSUME asked[c] = <<UpgradeRequest>> PROVE FALSE
      OBVIOUS
    <3>1. 1 \in 1 .. Len(asked[c]) /\ asked[c][1] = UpgradeRequest
      OBVIOUS
    <3> QED
      BY <1>2, <3>1 DEF Contains
  <2>2. \A j \in DOMAIN w : w[j].request \in Requests
    BY <1>4, <2>1 DEF Arriving
  <2>3. \A i \in DOMAIN (w \o L) : (w \o L)[i].request \in Requests
    BY <1>5, <2>2
  <2> HIDE DEF x
  <2> QED
    BY <1>2, <1>4, <1>5, <2>3, UpgradeIsNoRequest DEF Arriving
<1>7. Arriving(server.conn[c], wire[c] \o L, Append(asked[c], r))
  BY <1>6 DEF w
<1> QED
  BY <1>1, <1>2, <1>3, <1>7, SendsKeeps

LEMMA WebSocketClientSendsKeeps ==
  ASSUME IInv, NEW c \in Clients, NEW r \in Requests, WebSocketClientSends(c, r)
  PROVE  IInv'
<1> DEFINE L == <<Piece(r, FALSE), Piece(r, TRUE)>>
           x == server.conn[c]
           w == wire[c]
<1>1. r \in AllRequests /\ r # UpgradeRequest
  BY UpgradeIsNoRequest DEF AllRequests
<1>2. /\ IsOpen(server, c) /\ x.webSocket
      /\ wire' = [wire EXCEPT ![c] = @ \o L] /\ server' = server /\ whole' = whole
      /\ IF IsFrame(r) THEN UNCHANGED <<asked, wants>> ELSE Ask(c, r)
  BY DEF WebSocketClientSends
<1>3. L \in Seq(PieceSet) /\ \A q : CountIn(L, Ends(q)) = IF q = r THEN 1 ELSE 0
  BY <1>1, PairEnds
<1>4. /\ ConnInv(x, w, asked[c], wants[c], Exact(c)) /\ w \in Seq(PieceSet)
      /\ x.buffer \in Seq(PieceSet) /\ Arriving(x, w, asked[c])
  BY <1>2, ConnFacts DEF ConnInv
<1>5. /\ w \o L \in Seq(PieceSet) /\ InPairs(w \o L)
      /\ \A i \in DOMAIN (w \o L) :
             (\E j \in DOMAIN w : (w \o L)[i] = w[j]) \/ (w \o L)[i].request = r
  <2>1. InPairs(w)
    BY <1>4 DEF Arriving
  <2>2. L = Parts(r)
    BY DEF Parts
  <2> HIDE DEF w, L
  <2> QED
    BY <1>1, <1>4, <2>1, <2>2, PairArrives
<1> HIDE DEF L, w
<1>6. \A A : Arriving(x, w \o L, A)
  <2>1. \A j \in DOMAIN w : w[j].request \in Requests
    BY <1>2, <1>4 DEF Arriving
  <2>2. \A i \in DOMAIN (w \o L) : (w \o L)[i].request \in Requests
    BY <1>5, <2>1
  <2> HIDE DEF x
  <2> QED
    BY <1>2, <1>4, <1>5, <2>2, UpgradeIsNoRequest DEF Arriving
<1>8. CASE IsFrame(r)
  <2>1. UNCHANGED <<asked, wants>> /\ wire'[c] = w \o L
    BY <1>2, <1>8 DEF IInv, Types, w
  <2>2. Types' /\ OnlyConn(c)
    BY <1>2, <1>5, <2>1 DEF IInv, Types, OnlyConn, w
  <2>3. Accounted(x.out, x.buffer \o (w \o L), asked[c], Exact(c))
    <3> DEFINE o == x.buffer
    <3>0. o \in Seq(PieceSet)
      BY <1>4
    <3> HIDE DEF o
    <3>1. ASSUME NEW q \in AllRequests, ~IsFrame(q)
          PROVE  CountIn(o \o (w \o L), Ends(q)) = CountIn(o \o w, Ends(q))
      <4>1. CountIn(o \o (w \o L), Ends(q)) = CountIn(o, Ends(q)) + CountIn(w \o L, Ends(q))
        BY <1>5, <3>0, CountConcat
      <4>2. CountIn(w \o L, Ends(q)) = CountIn(w, Ends(q)) + CountIn(L, Ends(q))
        BY <1>3, <1>4, CountConcat
      <4>3. CountIn(o \o w, Ends(q)) = CountIn(o, Ends(q)) + CountIn(w, Ends(q))
        BY <1>4, <3>0, CountConcat
      <4>4. /\ CountIn(L, Ends(q)) = 0 /\ CountIn(w, Ends(q)) \in Nat
            /\ CountIn(o, Ends(q)) \in Nat
        BY <1>3, <1>4, <1>8, <3>0, <3>1, CountIsNat
      <4> QED
        BY <4>1, <4>2, <4>3, <4>4
    <3>2. Accounted(x.out, o \o w, asked[c], Exact(c))
      BY <1>4 DEF ConnInv, o
    <3>3. Accounted(x.out, o \o (w \o L), asked[c], Exact(c))
      BY <3>1, <3>2 DEF Accounted
    <3> QED
      BY <3>3 DEF o
  <2>4. ConnInv(x, w \o L, asked[c], wants[c], Exact(c))
    BY <1>4, <1>6, <2>3 DEF ConnInv
  <2>5. ConnInv(server.conn[c], wire[c], asked[c], wants[c], Exact(c))'
    BY <1>2, <2>1, <2>4 DEF Running, Exact
  <2> QED
    BY <2>2, <2>5, OthersKept
<1>9. CASE ~IsFrame(r)
  <2>1. Arriving(server.conn[c], wire[c] \o L, Append(asked[c], r))
    BY <1>6 DEF w
  <2>2. Ask(c, r)
    BY <1>2, <1>9
  <2> QED
    BY <1>1, <1>2, <1>3, <1>9, <2>1, <2>2, SendsKeeps
<1> QED
  BY <1>8, <1>9

LEMMA ServerReadsKeeps ==
  ASSUME IInv, NEW c \in Clients, NEW n \in 1 .. Len(wire[c]),
         NEW env \in Environments, ServerReads(c, n, env)
  PROVE  IInv'
<1> DEFINE x == server.conn[c]
           pieces == SubSeq(wire[c], 1, n)
<1>1. /\ IsOpen(server, c)
      /\ server' = ReadData(server, c, pieces, env)
      /\ wire' = [wire EXCEPT ![c] = SubSeq(@, n + 1, Len(@))]
      /\ asked' = asked /\ wants' = wants
      /\ whole' = [whole EXCEPT ![c] = @ /\ (x.webSocket => IsOneFrame(x.buffer, pieces))]
  BY DEF ServerReads
<1> HIDE DEF x, pieces
<1>2. whole \in [Clients -> BOOLEAN] /\ whole' \in [Clients -> BOOLEAN] /\ StillWhole
      /\ (whole'[c] => (x.webSocket => IsOneFrame(x.buffer, pieces)))
  <2>1. whole \in [Clients -> BOOLEAN]
    BY DEF IInv, Types
  <2> DEFINE one == x.webSocket => IsOneFrame(x.buffer, pieces)
  <2>2. whole' = [whole EXCEPT ![c] = @ /\ one]
    BY <1>1
  <2> HIDE DEF one
  <2>3. /\ whole' \in [Clients -> BOOLEAN] /\ (whole'[c] => one)
        /\ \A d \in Clients : whole'[d] => whole[d]
    BY <2>1, <2>2
  <2> QED
    BY <2>1, <2>3 DEF one, StillWhole
<1>3. Sound(server', wire')
  BY <1>1, <1>2, DataRead DEF x, pieces
<1>4. Types'
  <2>1. wire[c] \in Seq(PieceSet)
    BY DEF IInv, Types
  <2>2. SubSeq(wire[c], n + 1, Len(wire[c])) \in Seq(PieceSet)
    BY <2>1
  <2>3. wire' \in [Clients -> Seq(PieceSet)]
    BY <1>1, <2>2 DEF IInv, Types
  <2>4. IsServer(server')
    BY <1>3 DEF Sound
  <2> QED
    BY <1>1, <1>2, <2>3, <2>4 DEF IInv, Types
<1> QED
  BY <1>1, <1>3, <1>4 DEF Sound, IInv, Running, Exact

(* A client reads one message.                                             *)
ReadOne(y, x) ==
    /\ y.out = Tail(x.out) /\ y.webSocket = x.webSocket /\ y.buffer = x.buffer
    /\ y.leds = x.leds /\ y.images = x.images /\ y.logs = x.logs /\ y.logging = x.logging

StartsLater(out, w) == \E k \in DOMAIN out : k > 1 /\ StartReply(out[k], w)

LEMMA CoveredTail ==
  ASSUME NEW out \in Seq(MessageSet), out # <<>>, NEW n \in Nat, n > 0, NEW w, NEW W,
         Covered(out, n + 1, w, W), NEW V,
         w \in W \ V => StopReply(Head(out), w) /\ ~StartsLater(out, w)
  PROVE  Covered(Tail(out), n, w, V)
<1>1. /\ Tail(out) \in Seq(MessageSet) /\ Len(Tail(out)) = Len(out) - 1 /\ 1 \in DOMAIN out
      /\ Head(out) = out[1]
      /\ \A i \in DOMAIN Tail(out) : Tail(out)[i] = out[i + 1] /\ i + 1 \in DOMAIN out
      /\ \A i \in DOMAIN out : i > 1 => i - 1 \in DOMAIN Tail(out) /\ Tail(out)[i - 1] = out[i]
  OBVIOUS
<1> DEFINE t == Tail(out)
<1> HIDE DEF t
<1>2. w \in V
  <2> SUFFICES ASSUME w \notin V PROVE FALSE
    OBVIOUS
  <2>1. StopReply(out[1], w) /\ ~StartsLater(out, w)
    BY <1>1 DEF Covered
  <2>2. \E k \in DOMAIN out : k > 1 /\ StartReply(out[k], w)
    BY <1>1, <2>1 DEF Covered
  <2> QED
    BY <2>1, <2>2 DEF StartsLater
<1>3. ASSUME NEW j \in DOMAIN t, j < n, StopReply(t[j], w)
      PROVE  \E k \in DOMAIN t : k > j /\ StartReply(t[k], w)
  <2>1. t[j] = out[j + 1] /\ j + 1 \in DOMAIN out /\ j + 1 < n + 1 /\ j \in Nat /\ j > 0
    BY <1>1, <1>3 DEF t
  <2>2. PICK k \in DOMAIN out : k > j + 1 /\ StartReply(out[k], w)
    BY <1>3, <2>1 DEF Covered
  <2>3. k - 1 \in DOMAIN t /\ t[k - 1] = out[k] /\ k - 1 > j
    BY <1>1, <2>1, <2>2 DEF t
  <2> QED
    BY <2>2, <2>3
<1> QED
  BY <1>2, <1>3 DEF Covered, t

LEMMA GoodTail ==
  ASSUME NEW x, IsConn(x), x.out # <<>>, NEW W, Good(x, W), NEW y, ReadOne(y, x), NEW V,
         \A w \in W \ V : StopReply(Head(x.out), w) /\ ~StartsLater(x.out, w)
  PROVE  Good(y, V)
<1> DEFINE out == x.out
<1>1. out \in Seq(MessageSet)
  BY ConnFields
<1>2. y.out = Tail(out) /\ out # <<>>
  BY DEF ReadOne
<1> HIDE DEF out
<1>3. /\ Len(Tail(out)) \in Nat /\ Len(out) = Len(Tail(out)) + 1
      /\ \A n \in DOMAIN Tail(out) : /\ n \in Nat /\ n > 0 /\ Tail(out)[n] = out[n + 1]
                                     /\ n + 1 \in DOMAIN out
  BY <1>1, <1>2
<1>4. ASSUME NEW n \in Nat, n > 0, NEW w, Covered(out, n + 1, w, W)
      PROVE  Covered(Tail(out), n, w, V)
  <2>1. w \in W \ V => StopReply(Head(out), w) /\ ~StartsLater(out, w)
    BY DEF out
  <2> QED
    BY <1>1, <1>2, <1>4, <2>1, CoveredTail
<1>5. ASSUME NEW n \in DOMAIN y.out, y.out[n].kind \in Told
      PROVE  Covered(y.out, n, y.out[n].kind, V)
  <2>1. n \in Nat /\ n > 0 /\ y.out[n] = out[n + 1] /\ n + 1 \in DOMAIN out
    BY <1>2, <1>3, <1>5
  <2>2. Covered(out, n + 1, out[n + 1].kind, W)
    BY <1>5, <2>1 DEF Good, out
  <2> QED
    BY <1>2, <1>4, <2>1, <2>2
<1>6. ASSUME NEW w \in Told, On(y, w)
      PROVE  Covered(y.out, Len(y.out) + 1, w, V)
  <2>1. On(x, w)
    BY <1>6 DEF On, ReadOne
  <2>2. Covered(out, Len(out) + 1, w, W)
    BY <2>1 DEF Good, out
  <2>3. Len(Tail(out)) + 1 \in Nat /\ Len(Tail(out)) + 1 > 0
    BY <1>3
  <2>4. Covered(Tail(out), Len(Tail(out)) + 1, w, V)
    BY <1>3, <1>4, <2>2, <2>3
  <2> QED
    BY <1>2, <2>4
<1>7. LogsDebug /\ y.logs > 0 => y.logging
  BY DEF Good, ReadOne
<1> QED
  BY <1>5, <1>6, <1>7 DEF Good

(* An answer is read: its request is no longer asked, and its stops are    *)
(* heard.                                                                  *)
Heard(left, V, A, W, to) ==
    /\ left = RemoveFirst(A, to)
    /\ V = {w \in W : w \in Stops(to) => \E i \in DOMAIN left : w \in Starts(left[i])}

LEMMA AnswerRead ==
  ASSUME NEW out \in Seq(MessageSet), out # <<>>, NEW P \in Seq(PieceSet),
         NEW A \in Seq(AllRequests), NEW W, NEW running, Accounted(out, P, A, running),
         Wanted(A, W), NEW to \in AllRequests, IsAnswer(Head(out), to),
         NEW left, NEW V, Heard(left, V, A, W, to)
  PROVE  /\ left \in Seq(AllRequests)
         /\ Accounted(Tail(out), P, left, running)
         /\ Wanted(left, V)
         /\ \A w \in W \ V : StopReply(Head(out), w) /\ ~StartsLater(out, w)
<1> USE DEF Heard
<1> DEFINE m == Head(out)
<1>1. /\ left \in Seq(AllRequests)
      /\ \A i \in DOMAIN left : \E j \in DOMAIN A : A[j] = left[i]
      /\ \A T : CountIn(left, T) =
             CountIn(A, T) - (IF to \in T /\ CountIn(A, {to}) > 0 THEN 1 ELSE 0)
  BY CountRemoved
<1>2. m \in MessageSet /\ m = out[1] /\ 1 \in DOMAIN out
  OBVIOUS
<1>m. IsAnswer(m, to)
  OBVIOUS
<1>3. Tail(out) \in Seq(MessageSet)
  OBVIOUS
<1>4. \A q : /\ CountIn(out, Answers(q)) \in Nat /\ CountIn(Tail(out), Answers(q)) \in Nat
             /\ CountIn(P, Ends(q)) \in Nat /\ CountIn(A, {q}) \in Nat
  BY <1>3, CountIsNat
<1>5. \A q : CountIn(out, Answers(q)) =
                 CountIn(Tail(out), Answers(q)) + (IF m \in Answers(q) THEN 1 ELSE 0)
  BY CountTail
<1> HIDE DEF m
<1>6. m \in Answers(to) /\ \A q : m \in Answers(q) => q = to
  BY <1>2, <1>m DEF Answers, IsAnswer
<1>7. ASSUME NEW q \in AllRequests, ~IsFrame(q)
      PROVE  /\ CountIn(out, Answers(q)) + CountIn(P, Ends(q)) <= CountIn(A, {q})
             /\ running /\ ~Unanswered(q) =>
                   CountIn(out, Answers(q)) + CountIn(P, Ends(q)) = CountIn(A, {q})
  BY <1>7 DEF Accounted
<1>8. ASSUME NEW q \in AllRequests, ~IsFrame(q)
      PROVE  /\ CountIn(Tail(out), Answers(q)) + CountIn(P, Ends(q)) <= CountIn(left, {q})
             /\ running /\ ~Unanswered(q) =>
                   CountIn(Tail(out), Answers(q)) + CountIn(P, Ends(q)) = CountIn(left, {q})
  <2> DEFINE a == CountIn(out, Answers(q))
             t == CountIn(Tail(out), Answers(q))
             p == CountIn(P, Ends(q))
             n == CountIn(A, {q})
             l == CountIn(left, {q})
  <2>1. a \in Nat /\ t \in Nat /\ p \in Nat /\ n \in Nat
    BY <1>4
  <2>2. a + p <= n /\ (running /\ ~Unanswered(q) => a + p = n)
    BY <1>7, <1>8
  <2>3. CASE q = to
    <3>1. a = t + 1
      BY <1>5, <1>6, <2>3
    <3> HIDE DEF a, t, p
    <3>2. n > 0
      BY <2>1, <2>2, <3>1
    <3>3. l = n - 1
      BY <1>1, <2>3, <3>2
    <3> HIDE DEF n, l
    <3>4. t + p <= l /\ (running /\ ~Unanswered(q) => t + p = l)
      BY <2>1, <2>2, <3>1, <3>3
    <3> QED
      BY <3>4 DEF t, p, l
  <2>4. CASE q # to
    <3>1. a = t + 0
      BY <1>5, <1>6, <2>4
    <3>2. l = n - 0
      BY <1>1, <2>4
    <3> HIDE DEF a, t, p, n, l
    <3>3. t + p <= l /\ (running /\ ~Unanswered(q) => t + p = l)
      BY <2>1, <2>2, <3>1, <3>2
    <3> QED
      BY <3>3 DEF t, p, l
  <2> QED
    BY <2>3, <2>4
<1>9. Wanted(left, V)
  <2>1. ASSUME NEW i \in DOMAIN left, NEW w \in Starts(left[i])
        PROVE  w \in V
    BY <1>1 DEF Wanted
  <2>2. \A i \in DOMAIN left : ~IsFrame(left[i])
    BY <1>1 DEF Wanted
  <2> QED
    BY <2>1, <2>2 DEF Wanted
<1>10. ASSUME NEW w \in W \ V
       PROVE  StopReply(m, w) /\ ~StartsLater(out, w)
  <2>1. w \in Stops(to) /\ \A i \in DOMAIN left : w \notin Starts(left[i])
    OBVIOUS
  <2>2. Stops(UpgradeRequest) = {}
    BY DEF Stops, UpgradeRequest, Request
  <2>3. StopReply(m, w)
    BY <1>m, <2>1, <2>2 DEF IsAnswer, StopReply
  <2>4. ASSUME NEW k \in DOMAIN out, StartReply(out[k], w)
        PROVE  FALSE
    <3> DEFINE q == out[k].to
    <3>1. out[k] \in MessageSet /\ out[k].kind = "reply" /\ w \in Starts(q)
      BY <2>4 DEF StartReply
    <3>2. q \in AllRequests
      BY <3>1 DEF MessageSet, Streams
    <3>3. out[k] \in Answers(q)
      BY <3>1 DEF Answers, IsAnswer
    <3> HIDE DEF q
    <3>4. ~IsFrame(q) /\ q # to
      BY <2>1, <3>1, FrameStartsNothing, StartIsNoStop
    <3>5. CountIn(out, Answers(q)) > 0
      BY <3>3, CountPositive
    <3>6. CountIn(A, {q}) > 0
      BY <1>4, <1>7, <3>2, <3>4, <3>5
    <3>7. CountIn(left, {q}) > 0
      <4>1. CountIn(left, {q}) = CountIn(A, {q}) - 0
        BY <1>1, <3>4
      <4>2. CountIn(A, {q}) \in Nat
        BY <1>4
      <4> QED
        BY <3>6, <4>1, <4>2
    <3>8. \E i \in DOMAIN left : left[i] = q
      BY <1>1, <3>7, CountPositive
    <3> QED
      BY <2>1, <3>1, <3>8
  <2> QED
    BY <2>3, <2>4 DEF StartsLater
<1>11. Accounted(Tail(out), P, left, running)
  BY <1>8 DEF Accounted
<1> QED
  BY <1>1, <1>9, <1>10, <1>11 DEF m

(* What a client reads was on its way to it.                               *)
LEMMA ClientReadsKeeps ==
  ASSUME IInv, NEW c \in Clients, ClientReads(c)
  PROVE  IInv'
<1> DEFINE x == server.conn[c]
           y == [x EXCEPT !.out = Tail(@)]
           m == Head(x.out)
           to == IF m.kind = "handshake" THEN UpgradeRequest ELSE m.to
           left == RemoveFirst(asked[c], to)
           W == wants[c]
           V == {w \in W : w \in Stops(to) => \E i \in DOMAIN left : w \in Starts(left[i])}
           P == x.buffer \o wire[c]
<1>1. /\ IsOpen(server, c) /\ Len(x.out) > 0 /\ wire' = wire /\ whole' = whole
      /\ server' = [server EXCEPT !.conn[c].out = Tail(@)]
      /\ IF m.kind \in {"reply", "handshake"}
           THEN asked' = [asked EXCEPT ![c] = left] /\ wants' = [wants EXCEPT ![c] = V]
           ELSE asked' = asked /\ wants' = wants
  BY DEF ClientReads, Unread
<1>2. /\ IsConn(x) /\ x.out \in Seq(MessageSet) /\ x.buffer \in Seq(PieceSet)
      /\ wire[c] \in Seq(PieceSet) /\ asked[c] \in Seq(AllRequests) /\ W \in SUBSET Streams
      /\ ConnInv(x, wire[c], asked[c], W, Exact(c))
  BY <1>1, ConnFacts
<1>3. x.out # <<>> /\ Tail(x.out) \in Seq(MessageSet) /\ m \in MessageSet
  BY <1>1, <1>2
<1>4. IsConn(y) /\ ReadOne(y, x)
  BY <1>2, <1>3 DEF IsConn, ReadOne
<1>5. IsServer(server) /\ server' = [server EXCEPT !.conn[c] = y]
  <2>1. IsServer(server)
    BY DEF IInv, Types
  <2>2. server.conn = [d \in Clients |-> server.conn[d]]
        /\ server \in [core : {server.core}, disk : {server.disk}, effects : {server.effects},
                       slave : {server.slave}, conn : {server.conn}]
    BY <2>1 DEF IsServer
  <2> QED
    BY <1>1, <2>1, <2>2
<1> HIDE DEF y
<1>6. /\ IsServer(server') /\ server'.conn[c] = y /\ server'.core = server.core
      /\ \A d \in Clients \ {c} : server'.conn[d] = server.conn[d]
  BY <1>4, <1>5, SetConnection
<1>7. P \in Seq(PieceSet)
  BY <1>2
<1>8. y.out = Tail(x.out) /\ y.buffer = x.buffer /\ y.webSocket = x.webSocket
  BY <1>4 DEF ReadOne
<1>9. CASE m.kind \in {"reply", "handshake"}
  <2>1. to \in AllRequests /\ IsAnswer(m, to)
    BY <1>3, <1>9 DEF MessageSet, IsAnswer, AllRequests, Streams
  <2>2. Accounted(x.out, P, asked[c], Exact(c)) /\ Wanted(asked[c], W) /\ Good(x, W)
        /\ Arriving(x, wire[c], asked[c])
    BY <1>2 DEF ConnInv
  <2> HIDE DEF P, to
  <2>3. /\ left \in Seq(AllRequests)
        /\ Accounted(Tail(x.out), P, left, Exact(c))
        /\ Wanted(left, V)
        /\ \A w \in W \ V : StopReply(m, w) /\ ~StartsLater(x.out, w)
    <3> DEFINE out == x.out
               A == asked[c]
               run == Exact(c)
    <3>1. /\ out \in Seq(MessageSet) /\ out # <<>> /\ A \in Seq(AllRequests)
          /\ Accounted(out, P, A, run) /\ Wanted(A, W) /\ IsAnswer(Head(out), to)
          /\ Heard(left, V, A, W, to)
      BY <1>2, <1>3, <2>1, <2>2 DEF Heard
    <3> HIDE DEF out, A, run, W, left, V
    <3>2. /\ left \in Seq(AllRequests)
          /\ Accounted(Tail(out), P, left, run)
          /\ Wanted(left, V)
          /\ \A w \in W \ V : StopReply(Head(out), w) /\ ~StartsLater(out, w)
      BY <1>7, <2>1, <3>1, AnswerRead
    <3> QED
      BY <3>2 DEF out, run
  <2>4. Good(y, V)
    BY <1>2, <1>3, <1>4, <2>2, <2>3, GoodTail
  <2>5. Arriving(y, wire[c], left)
    <3>1. CASE \E i \in DOMAIN wire[c] : wire[c][i].request = UpgradeRequest
      <4>1. wire[c] = <<Piece(UpgradeRequest, TRUE)>> /\ x.buffer = <<>>
            /\ asked[c] = <<UpgradeRequest>> /\ ~x.webSocket
        BY <2>2, <3>1 DEF Arriving
      <4>2. to # UpgradeRequest
        <5> SUFFICES ASSUME to = UpgradeRequest PROVE FALSE
          OBVIOUS
        <5> DEFINE U == UpgradeRequest
                   b == Piece(U, TRUE)
        <5>1. U \in AllRequests /\ ~IsFrame(U)
          BY DEF AllRequests, IsFrame, UpgradeRequest, Request
        <5>2. P = <<b>> /\ b \in Ends(U)
          BY <4>1 DEF P, Ends
        <5>3. asked[c] = <<U>>
          BY <4>1
        <5>4. m \in Answers(U) /\ m = x.out[1] /\ 1 \in DOMAIN x.out
          BY <1>2, <1>3, <2>1 DEF Answers
        <5> HIDE DEF U, b
        <5>5. CountIn(P, Ends(U)) = 1 /\ CountIn(asked[c], {U}) = 1
          BY <5>2, <5>3, CountOne
        <5>6. CountIn(x.out, Answers(U)) > 0 /\ CountIn(x.out, Answers(U)) \in Nat
          BY <1>2, <5>4, CountPositive, CountIsNat
        <5>7. CountIn(x.out, Answers(U)) + CountIn(P, Ends(U)) <= CountIn(asked[c], {U})
          BY <2>2, <5>1 DEF Accounted
        <5> QED
          BY <5>5, <5>6, <5>7
      <4>3. left = asked[c]
        <5>1. CountIn(asked[c], {to}) = 0
          <6> DEFINE U == UpgradeRequest
                     T == {to}
          <6>1. U \notin T /\ asked[c] = <<U>>
            BY <4>1, <4>2
          <6> HIDE DEF U, T
          <6>2. CountIn(asked[c], T) = 0
            BY <6>1, CountOne
          <6> QED
            BY <6>2 DEF T
        <5> QED
          BY <1>2, <2>1, <5>1, CountRemoved
      <4> QED
        BY <1>8, <2>2, <4>3 DEF Arriving
    <3>2. CASE ~\E i \in DOMAIN wire[c] : wire[c][i].request = UpgradeRequest
      BY <1>8, <2>2, <3>2 DEF Arriving
    <3> QED
      BY <3>1, <3>2
  <2>6. V \in SUBSET Streams
    BY <1>2
  <2>7. asked' = [asked EXCEPT ![c] = left] /\ wants' = [wants EXCEPT ![c] = V]
    BY <1>1, <1>9 DEF to
  <2> HIDE DEF left, V
  <2>8. Types' /\ OnlyConn(c) /\ asked'[c] = left /\ wants'[c] = V
    BY <1>1, <1>6, <2>3, <2>6, <2>7 DEF IInv, Types, OnlyConn
  <2>9. ConnInv(y, wire[c], left, V, Exact(c))
    BY <1>8, <2>3, <2>4, <2>5 DEF ConnInv, P
  <2>10. ConnInv(server.conn[c], wire[c], asked[c], wants[c], Exact(c))'
    BY <1>1, <1>6, <2>8, <2>9 DEF Running, Exact
  <2> QED
    BY <2>8, <2>10, OthersKept
<1>10. CASE m.kind \notin {"reply", "handshake"}
  <2>1. asked' = asked /\ wants' = wants
    BY <1>1, <1>10
  <2>2. Good(y, W)
    BY <1>2, <1>3, <1>4, GoodTail DEF ConnInv
  <2>3. \A q : m \notin Answers(q)
    BY <1>10 DEF Answers, IsAnswer
  <2>4. \A q : CountIn(x.out, Answers(q)) = CountIn(y.out, Answers(q))
    <3> TAKE q
    <3> DEFINE o == x.out
    <3>1. o \in Seq(MessageSet) /\ o # <<>> /\ Head(o) \notin Answers(q)
      BY <1>2, <1>3, <2>3
    <3>2. Tail(o) \in Seq(MessageSet) /\ y.out = Tail(o)
      BY <1>3, <1>8
    <3> HIDE DEF o
    <3>3. CountIn(o, Answers(q)) = CountIn(Tail(o), Answers(q)) + 0
          /\ CountIn(Tail(o), Answers(q)) \in Nat
      BY <3>1, <3>2, CountTail, CountIsNat
    <3> QED
      BY <3>2, <3>3 DEF o
  <2>5. Accounted(y.out, P, asked[c], Exact(c))
    BY <1>2, <2>4 DEF Accounted, ConnInv
  <2>6. Arriving(y, wire[c], asked[c])
    BY <1>2, <1>8 DEF Arriving, ConnInv
  <2>7. ConnInv(y, wire[c], asked[c], W, Exact(c))
    BY <1>2, <1>8, <2>2, <2>5, <2>6 DEF ConnInv
  <2>8. Types' /\ OnlyConn(c)
    BY <1>1, <1>6, <2>1 DEF IInv, Types, OnlyConn
  <2>9. ConnInv(server.conn[c], wire[c], asked[c], wants[c], Exact(c))'
    BY <1>1, <1>6, <2>1, <2>7 DEF Running, Exact
  <2> QED
    BY <2>8, <2>9, OthersKept
<1> QED
  BY <1>9, <1>10

(* The connection ends, and with it all that was on its way.               *)
LEMMA EndsKeeps ==
  ASSUME IInv, NEW c \in Clients, IsServer(server'), ~IsOpen(server, c)',
         server'.core = server.core, whole' = whole,
         \A d \in Clients \ {c} : server'.conn[d] = server.conn[d], Forget(c)
  PROVE  IInv'
<1>1. /\ wire' = [wire EXCEPT ![c] = <<>>] /\ asked' = [asked EXCEPT ![c] = <<>>]
      /\ wants' = [wants EXCEPT ![c] = {}]
  BY DEF Forget
<1>2. Types' /\ OnlyConn(c)
  BY <1>1 DEF IInv, Types, OnlyConn
<1> QED
  BY <1>2, OthersKept

LEMMA ClientClosesKeeps ==
  ASSUME IInv, NEW c \in Clients, ClientCloses(c)
  PROVE  IInv'
<1>1. server' = [server EXCEPT !.conn[c] = Closed] /\ Forget(c) /\ whole' = whole
  BY DEF ClientCloses
<1>2. Tracks(server, Waits)
  BY <1>1, InvTracks DEF StillWhole
<1>3. IsServer(server') /\ ~IsOpen(server', c) /\ server'.core = server.core
  BY <1>1, <1>2, CloseTracked DEF Tracks
<1>4. \A d \in Clients \ {c} : server'.conn[d] = server.conn[d]
  BY <1>1 DEF IInv, Types, IsServer
<1> QED
  BY <1>1, <1>3, <1>4, EndsKeeps DEF IsOpen

LEMMA ConnectionLostKeeps ==
  ASSUME IInv, NEW c \in Clients, ConnectionLost(c)
  PROVE  IInv'
<1>1. server' = server /\ Forget(c) /\ ~IsOpen(server, c) /\ whole' = whole
  BY DEF ConnectionLost
<1>2. IsServer(server') /\ ~IsOpen(server, c)'
  BY <1>1 DEF IInv, Types, IsOpen
<1> QED
  BY <1>1, <1>2, EndsKeeps

(* A connection that writes no answer.                                     *)
Updated(y, x, W) ==
    /\ IsConn(y) /\ y.webSocket = x.webSocket /\ y.buffer = x.buffer
    /\ Good(y, W) /\ \A q : CountIn(y.out, Answers(q)) = CountIn(x.out, Answers(q))

LEMMA StreamKeeps ==
  ASSUME IInv, IsServer(server'), server'.core = server.core, UNCHANGED <<wire, asked, wants, whole>>,
         \A d \in Clients : IF IsOpen(server, d)
                              THEN Updated(server'.conn[d], server.conn[d], wants[d])
                              ELSE server'.conn[d] = Closed
  PROVE  IInv'
<1>1. Types'
  BY DEF IInv, Types
<1>2. ASSUME NEW d \in Clients, IsOpen(server, d)'
      PROVE  ConnInv(server.conn[d], wire[d], asked[d], wants[d], Exact(d))'
  <2> DEFINE x == server.conn[d]
             y == server'.conn[d]
  <2>1. IsOpen(server, d)
    BY <1>2 DEF IsOpen, Closed
  <2>2. ConnInv(x, wire[d], asked[d], wants[d], Exact(d)) /\ Updated(y, x, wants[d])
    BY <2>1 DEF IInv
  <2> HIDE DEF x, y
  <2>3. ConnInv(y, wire[d], asked[d], wants[d], Exact(d))
    <3>1. Accounted(y.out, y.buffer \o wire[d], asked[d], Exact(d))
      BY <2>2 DEF ConnInv, Updated, Accounted
    <3>2. Arriving(y, wire[d], asked[d])
      BY <2>2 DEF ConnInv, Updated, Arriving
    <3> QED
      BY <2>2, <3>1, <3>2 DEF ConnInv, Updated
  <2> QED
    BY <2>3 DEF y, Running, Exact
<1> QED
  BY <1>1, <1>2 DEF IInv

LEMMA SameUpdated ==
  ASSUME NEW x, IsConn(x), NEW W, Good(x, W)
  PROVE  Updated(x, x, W)
BY DEF Updated

(* An update of a stream that is on.                                       *)
LEMMA UpdateWritten ==
  ASSUME NEW x, IsConn(x), NEW W, Good(x, W), NEW w \in Streams, On(x, w), NEW ready \in BOOLEAN
  PROVE  Updated([x EXCEPT !.ready = ready, !.out = Append(@, StreamUpdate(w))], x, W)
<1> DEFINE m == StreamUpdate(w)
           y == [x EXCEPT !.ready = ready, !.out = Append(@, m)]
<1>1. m \in MessageSet /\ m.kind = w /\ w \notin {"reply", "handshake"}
  BY DEF StreamUpdate, MessageSet, Streams
<1>2. \A q : m \notin Answers(q)
  BY <1>1 DEF Answers, IsAnswer
<1> HIDE DEF m
<1>3. IsConn(y) /\ y.webSocket = x.webSocket /\ y.buffer = x.buffer /\ Written(y, x, m)
  <2>1. Append(x.out, m) \in Seq(MessageSet)
    <3> DEFINE o == x.out
    <3>1. o \in Seq(MessageSet)
      BY ConnFields
    <3> HIDE DEF o
    <3>2. Append(o, m) \in Seq(MessageSet)
      BY <1>1, <3>1, AppendProperties
    <3> QED
      BY <3>2 DEF o
  <2>2. /\ y.out = Append(x.out, m) /\ y.ready = ready /\ y.open = x.open
        /\ y.webSocket = x.webSocket /\ y.buffer = x.buffer /\ y.forwarder = x.forwarder
        /\ y.leds = x.leds /\ y.images = x.images /\ y.logs = x.logs /\ y.logging = x.logging
    BY DEF IsConn
  <2>3. IsConn(y)
    BY <2>1 DEF IsConn
  <2> QED
    BY <2>2, <2>3 DEF Written
<1>5. \A q : CountIn(x.out, Answers(q)) \in Nat
  BY ConnFields, CountIsNat
<1> HIDE DEF y
<1>4. /\ Good(y, W)
      /\ \A q : CountIn(y.out, Answers(q)) =
             CountIn(x.out, Answers(q)) + (IF m \in Answers(q) THEN 1 ELSE 0)
  BY <1>1, <1>3, MessageGood
<1>6. Updated(y, x, W)
  BY <1>2, <1>3, <1>4, <1>5 DEF Updated
<1> QED
  BY <1>6 DEF y, m

LEMMA LedTimerFiresKeeps ==
  ASSUME IInv, NEW c \in Clients, LedTimerFires(c)
  PROVE  IInv'
<1> DEFINE x == server.conn[c]
           m == StreamUpdate("leds")
           y == [x EXCEPT !.ready = x.ready, !.out = Append(@, m)]
<1>1. IsOpen(server, c) /\ x.leds /\ UNCHANGED <<wire, asked, wants, whole>>
      /\ server' = SendMessage(server, c, m)
  BY DEF LedTimerFires, StreamLedcolorsUpdate
<1>2. IsConn(x) /\ Good(x, wants[c]) /\ x.ready \in BOOLEAN
  BY <1>1, ConnFacts, ConnFields DEF ConnInv
<1>3. m \in MessageSet /\ "leds" \in Streams /\ On(x, "leds")
  BY <1>1 DEF StreamUpdate, MessageSet, Streams, On
<1>4. Updated(y, x, wants[c])
  BY <1>2, <1>3, UpdateWritten
<1>5. IsServer(server)
  BY DEF IInv, Types
<1> HIDE DEF m
<1>6. /\ IsServer(server') /\ server'.core = server.core
      /\ server'.conn[c] = [x EXCEPT !.out = Append(@, m)]
      /\ \A d \in Clients \ {c} : server'.conn[d] = server.conn[d]
  <2> DEFINE u == SendMessage(server, c, m)
  <2>o. IsOpen(server, c)
    BY <1>1
  <2>m. m \in MessageSet
    BY <1>3
  <2>1. /\ IsServer(u) /\ u.core = server.core
        /\ u.conn[c] = [server.conn[c] EXCEPT !.out = Append(@, m)]
        /\ \A d \in Clients \ {c} : u.conn[d] = server.conn[d]
    BY <1>5, <2>o, <2>m, SendMessageTo
  <2> QED
    BY <1>1, <2>1
<1>7. y = [x EXCEPT !.out = Append(@, m)]
  BY <1>2 DEF IsConn
<1>8. ASSUME NEW d \in Clients
      PROVE  IF IsOpen(server, d) THEN Updated(server'.conn[d], server.conn[d], wants[d])
             ELSE server'.conn[d] = Closed
  <2>1. CASE d = c
    BY <1>1, <1>4, <1>6, <1>7, <2>1
  <2>2. CASE d # c /\ IsOpen(server, d)
    BY <1>6, <2>2, ConnFacts, SameUpdated DEF ConnInv
  <2>3. CASE d # c /\ ~IsOpen(server, d)
    BY <1>5, <1>6, <2>3 DEF IsServer, IsOpen, IsConn
  <2> QED
    BY <2>1, <2>2, <2>3
<1> QED
  BY <1>1, <1>6, <1>8, StreamKeeps

LEMMA QuarterSecondPassesKeeps ==
  ASSUME IInv, NEW c \in Clients, QuarterSecondPasses(c)
  PROVE  IInv'
<1> DEFINE x == server.conn[c]
           y == [x EXCEPT !.ready = TRUE]
<1>1. IsOpen(server, c) /\ UNCHANGED <<wire, asked, wants, whole>>
      /\ server' = [server EXCEPT !.conn[c].ready = TRUE]
  BY DEF QuarterSecondPasses
<1>2. IsConn(x) /\ Good(x, wants[c])
  BY <1>1, ConnFacts DEF ConnInv
<1>3. IsConn(y) /\ y.webSocket = x.webSocket /\ y.buffer = x.buffer /\ y.out = x.out
      /\ y.leds = x.leds /\ y.images = x.images /\ y.logs = x.logs /\ y.logging = x.logging
  BY <1>2 DEF IsConn
<1>4. IsServer(server)
  BY DEF IInv, Types
<1>5. server' = [server EXCEPT !.conn[c] = y]
  BY <1>1, <1>4 DEF IsServer
<1> HIDE DEF y
<1>6. Updated(y, x, wants[c])
  BY <1>2, <1>3 DEF Updated, Good, On
<1>7. /\ IsServer(server') /\ server'.core = server.core /\ server'.conn[c] = y
      /\ \A d \in Clients \ {c} : server'.conn[d] = server.conn[d]
  BY <1>3, <1>4, <1>5, SetConnection
<1>8. ASSUME NEW d \in Clients
      PROVE  IF IsOpen(server, d) THEN Updated(server'.conn[d], server.conn[d], wants[d])
             ELSE server'.conn[d] = Closed
  <2>1. CASE d = c
    BY <1>1, <1>6, <1>7, <2>1
  <2>2. CASE d # c /\ IsOpen(server, d)
    BY <1>7, <2>2, ConnFacts, SameUpdated DEF ConnInv
  <2>3. CASE d # c /\ ~IsOpen(server, d)
    BY <1>4, <1>7, <2>3 DEF IsServer, IsOpen, IsConn
  <2> QED
    BY <2>1, <2>2, <2>3
<1> QED
  BY <1>1, <1>7, <1>8, StreamKeeps

LEMMA SomethingIsLoggedKeeps ==
  ASSUME IInv, SomethingIsLogged
  PROVE  IInv'
<1>1. server' = LogMessage(server) /\ UNCHANGED <<wire, asked, wants, whole>>
  BY DEF SomethingIsLogged
<1>2. IsServer(server)
  BY DEF IInv, Types
<1>3. /\ IsServer(server') /\ server'.core = server.core
      /\ \A d \in Clients : IF IsOpen(server, d) THEN Logged(server'.conn[d], server.conn[d])
                            ELSE server'.conn[d] = Closed
  BY <1>1, <1>2, LogMessageLogged
<1>4. ASSUME NEW d \in Clients
      PROVE  IF IsOpen(server, d) THEN Updated(server'.conn[d], server.conn[d], wants[d])
             ELSE server'.conn[d] = Closed
  <2>1. CASE IsOpen(server, d)
    <3>1. IsConn(server.conn[d]) /\ Good(server.conn[d], wants[d])
          /\ Logged(server'.conn[d], server.conn[d])
      BY <1>3, <2>1, ConnFacts DEF ConnInv
    <3>2. Good(server'.conn[d], wants[d])
          /\ \A q : CountIn(server'.conn[d].out, Answers(q)) = CountIn(server.conn[d].out, Answers(q))
      BY <3>1, LoggedGood
    <3> QED
      BY <2>1, <3>1, <3>2 DEF Updated, Logged
  <2> QED
    BY <1>3, <2>1
<1> QED
  BY <1>1, <1>3, <1>4, StreamKeeps

(* The connected slots run one after another, and the first one that sends *)
(* an image holds the others back.                                         *)
LEMMA ImageFunction ==
  ASSUME NEW x, x.images \in Nat
  PROVE  \E after :
             /\ after[0] = x
             /\ \A i \in 1 .. x.images : after[i] = SetImage(after[i - 1])
             /\ ImageEmitted(x) = after[x.images]
<1> DEFINE N == x.images
           F(f, k) == f = [i \in 0 .. k |-> IF i = 0 THEN x ELSE SetImage(f[i - 1])]
           after == CHOOSE f : F(f, N)
<1>1. ImageEmitted(x) = after[N]
  BY DEF ImageEmitted
<1>2. \E f : F(f, N)
  <2> DEFINE T == {k \in Nat : \E f : F(f, k)}
  <2>1. 0 \in T
    <3>1. F([i \in 0 .. 0 |-> x], 0)
      OBVIOUS
    <3> QED
      BY <3>1
  <2>2. ASSUME NEW k \in Nat, k \in T PROVE k + 1 \in T
    <3>1. PICK f : F(f, k)
      BY <2>2
    <3> DEFINE g == [i \in 0 .. k + 1 |-> IF i = k + 1 THEN SetImage(f[k]) ELSE f[i]]
               h == [i \in 0 .. k + 1 |-> IF i = 0 THEN x ELSE SetImage(g[i - 1])]
    <3>2. ASSUME NEW i \in 0 .. k + 1
          PROVE  g[i] = IF i = 0 THEN x ELSE SetImage(g[i - 1])
      <4>1. CASE i = k + 1
        <5>1. g[i] = SetImage(f[k]) /\ g[i - 1] = f[k] /\ i # 0
          BY <4>1
        <5> QED
          BY <4>1, <5>1
      <4>2. CASE i # k + 1
        <5>1. i \in 0 .. k /\ g[i] = f[i] /\ (i # 0 => g[i - 1] = f[i - 1])
          BY <4>2
        <5>2. f[i] = IF i = 0 THEN x ELSE SetImage(f[i - 1])
          BY <3>1, <5>1
        <5> HIDE DEF g
        <5> QED
          BY <5>1, <5>2
      <4> QED
        BY <4>1, <4>2
    <3>3. g = h
      <4>1. \A i \in 0 .. k + 1 : h[i] = g[i]
        BY <3>2
      <4> QED
        BY <4>1
    <3>4. F(g, k + 1)
      BY <3>3
    <3> HIDE DEF F
    <3> QED
      BY <3>4
  <2>3. Nat \subseteq T
    <3> HIDE DEF T
    <3> QED
      BY <2>1, <2>2, AllNumbers
  <2> QED
    BY <2>3
<1>3. F(after, N)
  BY <1>2
<1>4. after[0] = x /\ \A i \in 1 .. N : after[i] = SetImage(after[i - 1])
  <2> HIDE DEF after
  <2> QED
    BY <1>3
<1> HIDE DEF after
<1> QED
  BY <1>1, <1>4

OneImage(x) == [x EXCEPT !.ready = FALSE, !.out = Append(@, StreamUpdate("images"))]

LEMMA ImageEmittedIs ==
  ASSUME NEW x, IsConn(x)
  PROVE  ImageEmitted(x) = x \/ (x.images > 0 /\ ImageEmitted(x) = OneImage(x))
<1>1. x.images \in Nat
  BY ConnFields
<1>2. PICK after :
          /\ after[0] = x
          /\ \A i \in 1 .. x.images : after[i] = SetImage(after[i - 1])
          /\ ImageEmitted(x) = after[x.images]
  BY <1>1, ImageFunction
<1> DEFINE y == OneImage(x)
<1>3. SetImage(x) = x \/ SetImage(x) = y
  BY DEF SetImage, OneImage
<1>4. SetImage(y) = y
  BY DEF SetImage, OneImage, IsConn
<1> HIDE DEF y
<1> DEFINE T == {n \in Nat : n <= x.images => after[n] = x \/ (n > 0 /\ after[n] = y)}
<1>5. 0 \in T
  BY <1>2
<1>6. ASSUME NEW n \in Nat, n \in T
      PROVE  n + 1 \in T
  <2> SUFFICES ASSUME n + 1 <= x.images
               PROVE  after[n + 1] = x \/ after[n + 1] = y
    OBVIOUS
  <2>1. n + 1 \in 1 .. x.images /\ n <= x.images
    BY <1>1
  <2>2. after[n + 1] = SetImage(after[n])
    BY <1>2, <2>1
  <2>3. after[n] = x \/ after[n] = y
    BY <1>6, <2>1
  <2> QED
    BY <1>3, <1>4, <2>2, <2>3
<1>7. x.images \in T
  <2> HIDE DEF T
  <2> QED
    BY <1>1, <1>5, <1>6, AllNumbers
<1> QED
  BY <1>2, <1>7 DEF y

LEMMA GrabberSetsImageKeeps ==
  ASSUME IInv, GrabberSetsImage
  PROVE  IInv'
<1> DEFINE C == [d \in Clients |-> IF IsOpen(server, d) THEN ImageEmitted(server.conn[d]) ELSE Closed]
<1>1. server' = [server EXCEPT !.conn = C] /\ UNCHANGED <<wire, asked, wants, whole>>
  BY DEF GrabberSetsImage, EmitImage
<1>2. IsServer(server)
  BY DEF IInv, Types
<1>3. ASSUME NEW d \in Clients, IsOpen(server, d)
      PROVE  Updated(C[d], server.conn[d], wants[d])
  <2> DEFINE x == server.conn[d]
  <2>1. IsConn(x) /\ Good(x, wants[d])
    BY <1>3, ConnFacts DEF ConnInv
  <2>2. C[d] = ImageEmitted(x)
    BY <1>3
  <2> HIDE DEF x, C
  <2>3. CASE C[d] = x
    BY <2>1, <2>3, SameUpdated DEF x
  <2>4. CASE x.images > 0 /\ C[d] = OneImage(x)
    <3>1. On(x, "images") /\ "images" \in Streams
      BY <2>4 DEF On, Streams
    <3>2. Updated(OneImage(x), x, wants[d])
      BY <2>1, <3>1, UpdateWritten DEF OneImage
    <3> QED
      BY <2>4, <3>2 DEF x
  <2> QED
    BY <2>1, <2>2, <2>3, <2>4, ImageEmittedIs
<1>4. ASSUME NEW d \in Clients, ~IsOpen(server, d)
      PROVE  C[d] = Closed
  BY <1>4
<1>5. C = [d \in Clients |-> C[d]]
  OBVIOUS
<1> HIDE DEF C
<1>6. server'.conn = C /\ server'.core = server.core
  BY <1>1, <1>2 DEF IsServer
<1>7. IsServer(server')
  <2>1. \A d \in Clients : C[d] = Closed \/ IsConn(C[d])
    BY <1>3, <1>4 DEF Updated
  <2> QED
    BY <1>1, <1>2, <1>5, <2>1 DEF IsServer
<1> QED
  BY <1>1, <1>3, <1>4, <1>6, <1>7, StreamKeeps

-----------------------------------------------------------------------------
(* The invariant is inductive.                                             *)
LEMMA NextKeeps ==
  ASSUME IInv, [Next]_vars
  PROVE  IInv'
<1>1. ASSUME NEW c \in Clients, ClientConnects(c) PROVE IInv'
  BY <1>1, ClientConnectsKeeps
<1>2. ASSUME NEW c \in Clients, ClientUpgrades(c) PROVE IInv'
  BY <1>2, ClientUpgradesKeeps
<1>3. ASSUME NEW c \in Clients, NEW r \in Requests, RawClientSends(c, r) PROVE IInv'
  BY <1>3, RawClientSendsKeeps
<1>4. ASSUME NEW c \in Clients, NEW r \in Requests, WebSocketClientSends(c, r) PROVE IInv'
  BY <1>4, WebSocketClientSendsKeeps
<1>5. ASSUME NEW c \in Clients, NEW n \in 1 .. Len(wire[c]), NEW env \in Environments,
             ServerReads(c, n, env)
      PROVE  IInv'
  BY <1>5, ServerReadsKeeps
<1>6. ASSUME NEW c \in Clients, ClientReads(c) PROVE IInv'
  BY <1>6, ClientReadsKeeps
<1>7. ASSUME NEW c \in Clients, ClientCloses(c) PROVE IInv'
  BY <1>7, ClientClosesKeeps
<1>8. ASSUME NEW c \in Clients, ConnectionLost(c) PROVE IInv'
  BY <1>8, ConnectionLostKeeps
<1>9. ASSUME NEW c \in Clients, LedTimerFires(c) PROVE IInv'
  BY <1>9, LedTimerFiresKeeps
<1>10. ASSUME NEW c \in Clients, QuarterSecondPasses(c) PROVE IInv'
  BY <1>10, QuarterSecondPassesKeeps
<1>11. CASE GrabberSetsImage
  BY <1>11, GrabberSetsImageKeeps
<1>12. CASE SomethingIsLogged
  BY <1>12, SomethingIsLoggedKeeps
<1>13. CASE UNCHANGED vars
  BY <1>13 DEF vars, IInv, Types, IsOpen, Running, Exact
<1> QED
  BY <1>1, <1>2, <1>3, <1>4, <1>5, <1>6, <1>7, <1>8, <1>9, <1>10, <1>11, <1>12, <1>13 DEF Next

LEMMA InitSound ==
  ASSUME Init
  PROVE  IInv
<1>1. IsServer(server) /\ \A c \in Clients : server.conn[c] = Closed
  BY DEF Init, IsServer
<1>2. Types
  BY <1>1 DEF Init, Types
<1> QED
  BY <1>1, <1>2 DEF IInv, IsOpen, Closed

(* What the slots of a JsonClientConnection keep true of every connection: *)
(* every stream is one its client still wants, and no request is answered  *)
(* more often than it is asked.  On a raw socket, and on a websocket of    *)
(* which every read was exactly one frame, none is lost either.            *)
THEOREM JsonInvariant == Spec => []IInv
<1>1. Init => IInv
  BY InitSound
<1>2. IInv /\ [Next]_vars => IInv'
  BY NextKeeps
<1> QED
  BY <1>1, <1>2, PTL DEF Spec

(* No update of a stream reaches a client that has read the answer to its  *)
(* stop (JsonClientConnection's timer, image and log slots write to the    *)
(* socket that the replies go to).                                         *)
THEOREM StreamsStopCorrect == Spec => []StreamsStop
<1>1. IInv => StreamsStop
  <2> SUFFICES ASSUME IInv, NEW c \in Clients, Unread(c) > 0,
                      Head(server.conn[c].out).kind \in Streams,
                      Head(server.conn[c].out).kind = "log" => LogsDebug
               PROVE  Head(server.conn[c].out).kind \in wants[c]
    BY DEF StreamsStop
  <2> DEFINE out == server.conn[c].out
  <2>1. IsOpen(server, c)
    BY DEF Unread
  <2>2. out \in Seq(MessageSet) /\ Good(server.conn[c], wants[c]) /\ Len(out) > 0
    BY <2>1, ConnFacts DEF Unread, ConnInv
  <2>3. 1 \in DOMAIN out /\ out[1] = Head(out) /\ out[1].kind \in Told
    BY <2>2 DEF Told
  <2> QED
    BY <2>2, <2>3 DEF Good, Covered
<1>2. Spec => []IInv
  BY JsonInvariant
<1> QED
  BY <1>1, <1>2, PTL

(* While a client waits for an answer, something of its request is on its  *)
(* way, however readData() found it in the buffer of a raw connection, and *)
(* on a websocket as long as every read was exactly one frame: the code    *)
(* forgets requests otherwise.                                             *)
THEOREM NoRequestForgottenCorrect == Spec => []NoRequestForgotten
<1>1. IInv => NoRequestForgotten
  <2> SUFFICES ASSUME IInv, NEW c \in Clients, Running, IsOpen(server, c), whole[c], Waiting(c),
                      wire[c] = <<>>, ~(Unread(c) > 0)
               PROVE  FALSE
    BY DEF NoRequestForgotten
  <2> DEFINE x == server.conn[c]
             out == x.out
             B == x.buffer
             A == asked[c]
  <2>1. /\ out \in Seq(MessageSet) /\ B \in Seq(PieceSet) /\ A \in Seq(AllRequests)
        /\ ConnInv(x, wire[c], A, wants[c], Exact(c)) /\ Exact(c)
    BY ConnFacts DEF Exact
  <2>2. out = <<>>
    BY <2>1 DEF Unread
  <2>3. PICK i \in DOMAIN A : ~Unanswered(A[i])
    BY DEF Waiting
  <2> DEFINE q == A[i]
  <2>4. q \in AllRequests /\ ~IsFrame(q)
    BY <2>1 DEF ConnInv, Wanted
  <2>5. B \o wire[c] = B
    BY <2>1
  <2>6. \A k \in DOMAIN B : ~B[k].last
    BY <2>1 DEF ConnInv, Arriving
  <2> HIDE DEF x, out, B
  <2>7. Accounted(out, B, A, Exact(c))
    BY <2>1, <2>5 DEF ConnInv, out, B
  <2>8. CountIn(A, {q}) > 0 /\ CountIn(A, {q}) \in Nat
    BY <2>1, <2>3, CountPositive, CountIsNat
  <2> HIDE DEF q, A
  <2>9. CountIn(out, Answers(q)) = 0 /\ CountIn(B, Ends(q)) = 0
    BY <2>1, <2>2, <2>6, CountEmpty, NothingEnds
  <2>10. CountIn(out, Answers(q)) + CountIn(B, Ends(q)) = CountIn(A, {q})
    BY <2>1, <2>3, <2>4, <2>7 DEF Accounted, q
  <2> QED
    BY <2>8, <2>9, <2>10
<1>2. Spec => []IInv
  BY JsonInvariant
<1> QED
  BY <1>1, <1>2, PTL

(* One emitImage writes at most one image to a client, however often       *)
(* setImage() is connected to it.                                          *)
THEOREM ImageSentOnceCorrect == Spec => ImageSentOnce
<1> DEFINE Once == GrabberSetsImage =>
               \A c \in Clients : IsOpen(server, c) =>
                   Images(server'.conn[c].out) <= Images(server.conn[c].out) + 1
<1>1. IInv => Once
  <2> SUFFICES ASSUME IInv, GrabberSetsImage, NEW c \in Clients, IsOpen(server, c)
               PROVE  Images(server'.conn[c].out) <= Images(server.conn[c].out) + 1
    OBVIOUS
  <2> DEFINE x == server.conn[c]
             I == {m \in MessageSet : m.kind = "images"}
  <2>1. IsConn(x) /\ x.out \in Seq(MessageSet)
    BY ConnFacts
  <2>2. server'.conn[c] = ImageEmitted(x)
    BY DEF GrabberSetsImage, EmitImage, IInv, Types, IsServer
  <2>3. \A out \in Seq(MessageSet) : Images(out) = CountIn(out, I) /\ CountIn(out, I) \in Nat
    <3> TAKE out \in Seq(MessageSet)
    <3>1. {i \in DOMAIN out : out[i].kind = "images"} = {i \in DOMAIN out : out[i] \in I}
      OBVIOUS
    <3> HIDE DEF I
    <3> QED
      BY <3>1, CountIsNat DEF Images, CountIn
  <2> HIDE DEF x
  <2>4. CASE ImageEmitted(x) = x
    <3>1. Images(x.out) \in Nat
      BY <2>1, <2>3
    <3>2. server'.conn[c].out = x.out
      BY <2>2, <2>4
    <3> QED
      BY <3>1, <3>2 DEF x
  <2>5. CASE ImageEmitted(x) = OneImage(x)
    <3> DEFINE m == StreamUpdate("images")
               o == x.out
               p == server'.conn[c].out
    <3>1. m \in MessageSet /\ m \in I
      BY DEF StreamUpdate, MessageSet, Streams
    <3> HIDE DEF m, I
    <3>2. p = Append(o, m)
      BY <2>1, <2>2, <2>5 DEF OneImage, IsConn, m
    <3>3. o \in Seq(MessageSet)
      BY <2>1
    <3> HIDE DEF o, p
    <3>4. CountIn(Append(o, m), I) = CountIn(o, I) + 1 /\ Append(o, m) \in Seq(MessageSet)
      BY <3>1, <3>3, CountAppend
    <3>5. Images(p) = CountIn(p, I) /\ Images(o) = CountIn(o, I) /\ CountIn(o, I) \in Nat
      BY <2>3, <3>2, <3>3, <3>4
    <3>6. Images(p) <= Images(o) + 1
      BY <3>2, <3>4, <3>5
    <3> QED
      BY <3>6 DEF o, p, x
  <2> QED
    BY <2>1, <2>4, <2>5, ImageEmittedIs
<1>2. Spec => []IInv
  BY JsonInvariant
<1> HIDE DEF Once
<1>3. Spec => [][Once]_vars
  BY <1>1, <1>2, PTL
<1> QED
  BY <1>3 DEF ImageSentOnce, Once

==============================================================================
