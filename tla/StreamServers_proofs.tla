-------------------------- MODULE StreamServers_proofs ------------------------
(***************************************************************************)
(* The servers for streams keep their promises for every number of clients *)
(* and connections, every set of messages and every way in which the       *)
(* network cuts them to pieces.  Nothing is assumed of the channels that   *)
(* clients write to: the lowest one is allowed.                            *)
(***************************************************************************)
EXTENDS StreamServers, HyperionCore_proofs, FiniteSetTheorems, SequenceTheorems

-----------------------------------------------------------------------------
(* The fields of a server and of its connections.                          *)
ServerShape(s) ==
    /\ s \in [core : {s.core}, register : {s.register}, proto : {s.proto},
              lights : {s.lights}, boblight : {s.boblight}, udp : {s.udp}]
    /\ CoreShape(s.core)
    /\ Used(s.core) \subseteq Channels

IsProto(x) ==
    x \in [open : {TRUE}, priority : {x.priority}, buffer : {x.buffer}, out : {x.out},
           handled : {x.handled}]

AreProto(proto) ==
    /\ proto = [c \in ProtoClients |-> proto[c]]
    /\ \A c \in ProtoClients : proto[c].open => IsProto(proto[c])

AreLights(lights) ==
    /\ lights = [b \in BoblightClients |-> lights[b]]
    /\ \A b \in BoblightClients : lights[b] # NoConnection => lights[b] \in [priority : Channels]

-----------------------------------------------------------------------------
(* t is s while a message of client c is handled: only the core, Proto's   *)
(* name in the register and the connection of c may have changed, and of   *)
(* that neither the buffer nor the last message handled.                   *)
Handling(t, s, c, used) ==
    /\ t \in [core : {t.core}, register : {t.register}, proto : {t.proto},
              lights : {s.lights}, boblight : {s.boblight}, udp : {s.udp}]
    /\ CoreShape(t.core)
    /\ Used(t.core) \subseteq used
    /\ DOMAIN t.register \ {ProtoName} = DOMAIN s.register \ {ProtoName}
    /\ DOMAIN t.proto = DOMAIN s.proto
    /\ \A d \in DOMAIN s.proto \ {c} : t.proto[d] = s.proto[d]
    /\ t.proto[c] \in [open : {TRUE}, priority : {t.proto[c].priority},
                       buffer : {s.proto[c].buffer}, out : {t.proto[c].out},
                       handled : {s.proto[c].handled}]

LEMMA HandlingStarts ==
  ASSUME NEW s, ServerShape(s), NEW c \in ProtoClients, AreProto(s.proto), s.proto[c].open
  PROVE  Handling(s, s, c, Used(s.core))
BY DEF Handling, ServerShape, AreProto, IsProto

LEMMA ReplyHandling ==
  ASSUME NEW s, NEW t, NEW c \in DOMAIN s.proto, NEW used, Handling(t, s, c, used), NEW success
  PROVE  Handling(SendReply(t, c, success), s, c, used)
BY DEF Handling, SendReply

LEMMA ChannelHandling ==
  ASSUME NEW s, NEW t, NEW c \in DOMAIN s.proto, NEW used, Handling(t, s, c, used), NEW p
  PROVE  Handling([t EXCEPT !.proto[c].priority = p], s, c, used)
BY DEF Handling

LEMMA CoreHandling ==
  ASSUME NEW s, NEW t, NEW c, NEW used, Handling(t, s, c, used),
         NEW core, NEW left, CoreShape(core), Used(core) \subseteq left
  PROVE  Handling([t EXCEPT !.core = core], s, c, left)
BY DEF Handling

LEMMA RegisterHandling ==
  ASSUME NEW s, NEW t, NEW c, NEW used, Handling(t, s, c, used), NEW p
  PROVE  /\ Handling(RegisterPriority(t, ProtoName, p), s, c, used)
         /\ Handling(UnRegisterPriority(t, ProtoName), s, c, used)
<1>1. Handling(RegisterPriority(t, ProtoName, p), s, c, used)
  BY DEF Handling, RegisterPriority
<1>2. Handling(UnRegisterPriority(t, ProtoName), s, c, used)
  BY DEF Handling, UnRegisterPriority, Restrict
<1>3. QED
  BY <1>1, <1>2

(* What a message is handled to.                                           *)
LEMMA DoneHandling ==
  ASSUME NEW s, ServerShape(s), NEW c \in ProtoClients, AreProto(s.proto), s.proto[c].open,
         NEW m \in Messages, NEW time
  PROVE  LET done == CASE m.command = "COLOR"    -> HandleColorCommand(s, c, m, time)
                       [] m.command = "IMAGE"    -> HandleImageCommand(s, c, m, time)
                       [] m.command = "BADIMAGE" -> HandleBadImageCommand(s, c, m)
                       [] m.command = "CLEAR"    -> HandleClearCommand(s, c, m, time)
                       [] m.command = "CLEARALL" -> HandleClearallCommand(s, c, time)
                       [] OTHER                  -> HandleNotImplemented(s, c)
         IN Handling(done, s, c, Used(s.core) \cup Written(m) \cup {Lowest})
<1> DEFINE used   == Used(s.core) \cup Written(m) \cup {Lowest}
           set(q) == [s EXCEPT !.proto[c].priority = q]
<1>1. /\ c \in DOMAIN s.proto /\ CoreShape(s.core) /\ m.command \in Commands
      /\ s.core \in {s.core}
  BY StreamMessages DEF AreProto, ServerShape
<1>2. ASSUME NEW q, NEW h, CoreShape(h), Used(h) \subseteq used
      PROVE  Handling([s EXCEPT !.proto[c].priority = q, !.core = h], s, c, used)
  <2>1. Handling(set(q), s, c, Used(s.core))
    BY <1>1, HandlingStarts, ChannelHandling
  <2>2. [s EXCEPT !.proto[c].priority = q, !.core = h] = [set(q) EXCEPT !.core = h]
    OBVIOUS
  <2> HIDE DEF set, used
  <2>3. QED
    BY <1>2, <2>1, <2>2, CoreHandling
<1>3. Handling(set(m.priority), s, c, Used(s.core)) /\ Handling(set(m.priority), s, c, used)
  <2>1. Handling(set(m.priority), s, c, Used(s.core))
    BY <1>1, HandlingStarts, ChannelHandling
  <2> HIDE DEF set
  <2>2. QED
    BY <2>1 DEF Handling
<1> HIDE DEF used
<1>4. CASE m.command \in {"COLOR", "IMAGE"}
  <2> DEFINE any == CHOOSE color \in Colors : TRUE
  <2> HIDE DEF any
  <2>1. \A comp : LET h == SetColors(s.core, m.priority, any, 0, comp, time)
                  IN CoreShape(h) /\ Used(h) \subseteq used
    BY <1>1, <1>4, SetColorsUses DEF used, Written
  <2>2. \A comp : Handling([s EXCEPT !.proto[c].priority = m.priority,
                             !.core = SetColors(s.core, m.priority, any, 0, comp, time)],
                           s, c, used)
    BY <1>2, <2>1
  <2>3. /\ Handling(HandleColorCommand(s, c, m, time), s, c, used)
        /\ Handling(HandleImageCommand(s, c, m, time), s, c, used)
    BY <1>1, <2>2, ReplyHandling DEF HandleColorCommand, HandleImageCommand, any
  <2>4. QED
    BY <1>4, <2>3 DEF used
<1>5. CASE m.command = "BADIMAGE"
  <2>1. Handling(HandleBadImageCommand(s, c, m), s, c, used)
    BY <1>1, <1>3, ReplyHandling DEF HandleBadImageCommand
  <2>2. QED
    BY <1>5, <2>1 DEF used
<1>6. CASE m.command = "CLEAR"
  <2>1. CoreShape(Clear(s.core, m.priority, time))
        /\ Used(Clear(s.core, m.priority, time)) \subseteq used
    BY <1>1, ClearUses DEF used
  <2>2. Handling([s EXCEPT !.proto[c].priority = m.priority,
                           !.core = Clear(s.core, m.priority, time)], s, c, used)
    BY <1>2, <2>1
  <2>3. Handling(HandleClearCommand(s, c, m, time), s, c, used)
    BY <1>1, <2>2, RegisterHandling, ReplyHandling DEF HandleClearCommand
  <2>4. QED
    BY <1>6, <2>3 DEF used
<1>7. CASE m.command = "CLEARALL"
  <2>1. CoreShape(ClearAll(s.core, time)) /\ Used(ClearAll(s.core, time)) \subseteq used
    BY <1>1, ClearAllUses DEF used
  <2>2. Handling([s EXCEPT !.core = ClearAll(s.core, time)], s, c, used)
    BY <2>1, HandlingStarts, CoreHandling
  <2>3. Handling(HandleClearallCommand(s, c, time), s, c, used)
    BY <1>1, <2>2, ReplyHandling DEF HandleClearallCommand
  <2>4. QED
    BY <1>7, <2>3 DEF used
<1>8. CASE m.command = "INCOMPLETE"
  <2>1. Handling(HandleNotImplemented(s, c), s, c, Used(s.core))
    BY <1>1, HandlingStarts, ReplyHandling DEF HandleNotImplemented
  <2>2. Handling(HandleNotImplemented(s, c), s, c, used)
    BY <2>1 DEF Handling, used
  <2>3. QED
    BY <1>8, <2>2 DEF used
<1>9. QED
  BY <1>1, <1>4, <1>5, <1>6, <1>7, <1>8 DEF Commands

(* t is s after data of client c was read: its buffer is as given, and m   *)
(* is the last message handled.                                            *)
HasRead(t, s, c, used, buffer, m) ==
    /\ t \in [core : {t.core}, register : {t.register}, proto : {t.proto},
              lights : {s.lights}, boblight : {s.boblight}, udp : {s.udp}]
    /\ CoreShape(t.core)
    /\ Used(t.core) \subseteq used
    /\ DOMAIN t.register \ {ProtoName} = DOMAIN s.register \ {ProtoName}
    /\ t.proto = [d \in ProtoClients |-> t.proto[d]]
    /\ \A d \in ProtoClients \ {c} : t.proto[d] = s.proto[d]
    /\ IsProto(t.proto[c])
    /\ t.proto[c].buffer = buffer
    /\ t.proto[c].handled = m

LEMMA HandleMessageDoes ==
  ASSUME NEW s, ServerShape(s), NEW c \in ProtoClients, AreProto(s.proto), s.proto[c].open,
         NEW m \in Messages, NEW time
  PROVE  HasRead(HandleMessage(s, c, m, time), s, c, Used(s.core) \cup Written(m) \cup {Lowest},
                 s.proto[c].buffer, m)
<1> DEFINE used == Used(s.core) \cup Written(m) \cup {Lowest}
           done == CASE m.command = "COLOR"    -> HandleColorCommand(s, c, m, time)
                     [] m.command = "IMAGE"    -> HandleImageCommand(s, c, m, time)
                     [] m.command = "BADIMAGE" -> HandleBadImageCommand(s, c, m)
                     [] m.command = "CLEAR"    -> HandleClearCommand(s, c, m, time)
                     [] m.command = "CLEARALL" -> HandleClearallCommand(s, c, time)
                     [] OTHER                  -> HandleNotImplemented(s, c)
           told == [done EXCEPT !.proto[c].handled = m]
           renamed == RegisterPriority(told, ProtoName, told.proto[c].priority)
<1>1. Handling(done, s, c, used)
  BY DoneHandling
<1>2. HandleMessage(s, c, m, time) = told \/ HandleMessage(s, c, m, time) = renamed
  BY DEF HandleMessage
<1> HIDE DEF done, used
<1>3. /\ told.proto = [done.proto EXCEPT ![c] = [done.proto[c] EXCEPT !.handled = m]]
      /\ told \in [core : {done.core}, register : {done.register}, proto : {told.proto},
                   lights : {s.lights}, boblight : {s.boblight}, udp : {s.udp}]
  BY <1>1 DEF Handling
<1> HIDE DEF told
<1>4. /\ told.proto = [d \in ProtoClients |-> told.proto[d]]
      /\ told.proto[c] = [done.proto[c] EXCEPT !.handled = m]
      /\ \A d \in ProtoClients \ {c} : told.proto[d] = s.proto[d]
  <2>1. DOMAIN done.proto = ProtoClients
    BY <1>1 DEF Handling, AreProto
  <2>2. QED
    BY <1>1, <1>3, <2>1 DEF Handling, AreProto
<1>5. /\ IsProto(told.proto[c])
      /\ told.proto[c].buffer = s.proto[c].buffer
      /\ told.proto[c].handled = m
  BY <1>1, <1>4 DEF Handling, IsProto
<1>6. HasRead(told, s, c, used, s.proto[c].buffer, m)
  BY <1>1, <1>3, <1>4, <1>5 DEF HasRead, Handling
<1>7. HasRead(renamed, s, c, used, s.proto[c].buffer, m)
  BY <1>6 DEF HasRead, RegisterPriority
<1>8. QED
  BY <1>2, <1>6, <1>7 DEF used

LEMMA HasReadTransitive ==
  ASSUME NEW s, NEW r, NEW t, NEW c \in ProtoClients, NEW used, NEW usedr, NEW b, NEW k,
         NEW bt, NEW m, HasRead(r, s, c, usedr, b, k), HasRead(t, r, c, used, bt, m)
  PROVE  HasRead(t, s, c, used, bt, m)
BY DEF HasRead

(* A message that could not be parsed is handled like any other.           *)
LEMMA ParseMessageDoes ==
  ASSUME NEW s, ServerShape(s), NEW c \in ProtoClients, AreProto(s.proto), s.proto[c].open,
         NEW m \in Messages, NEW time
  PROVE  HasRead(ParseMessage(s, c, m, time), s, c, Used(s.core) \cup Written(m) \cup {Lowest},
                 s.proto[c].buffer, m)
<1> DEFINE r    == SendReply(s, c, FALSE)
           x    == s.proto[c]
           y    == [x EXCEPT !.out = @ \o Pieces(Reply(FALSE))]
           used == Used(s.core) \cup Written(m) \cup {Lowest}
<1>1. HasRead(HandleMessage(s, c, m, time), s, c, used, x.buffer, m)
  BY HandleMessageDoes
<1>2. /\ r \in [core : {s.core}, register : {s.register}, proto : {[s.proto EXCEPT ![c] = y]},
                lights : {s.lights}, boblight : {s.boblight}, udp : {s.udp}]
      /\ IsProto(x)
  BY DEF ServerShape, AreProto, SendReply
<1> HIDE DEF r, x
<1>3. IsProto(y) /\ y.open /\ y.buffer = x.buffer /\ y.handled = x.handled
  BY <1>2 DEF IsProto
<1> HIDE DEF y
<1>4. /\ r.proto = [d \in ProtoClients |-> r.proto[d]]
      /\ r.proto[c] = y
      /\ \A d \in ProtoClients \ {c} : r.proto[d] = s.proto[d]
  BY <1>2 DEF AreProto
<1>5. ServerShape(r) /\ AreProto(r.proto) /\ r.proto[c].open
  BY <1>2, <1>3, <1>4 DEF ServerShape, AreProto
<1>6. HasRead(HandleMessage(r, c, m, time), r, c, used, x.buffer, m)
  BY <1>2, <1>3, <1>4, <1>5, HandleMessageDoes
<1>7. HasRead(r, s, c, Used(s.core), x.buffer, x.handled)
  BY <1>2, <1>3, <1>4 DEF ServerShape, HasRead
<1>8. HasRead(HandleMessage(r, c, m, time), s, c, used, x.buffer, m)
  BY <1>6, <1>7, HasReadTransitive
<1> HIDE DEF used
<1>9. QED
  BY <1>1, <1>8 DEF ParseMessage, r, x, used

(* The pieces that are in the buffer of a connection or on their way to it *)
(* are pieces of messages that the client has sent.                        *)
PieceSet == [message : Messages, last : BOOLEAN]

LEMMA FirstEndIsFirst ==
  ASSUME NEW buffer \in Seq(PieceSet), HasMessage(buffer)
  PROVE  /\ FirstEnd(buffer) \in 1 .. Len(buffer)
         /\ buffer[FirstEnd(buffer)].last
<1> DEFINE ends == {i \in DOMAIN buffer : buffer[i].last}
<1>1. ends \in SUBSET Nat /\ ends # {}
  BY DEF HasMessage
<1>2. Min(ends) \in ends
  BY <1>1, MinOfNats
<1>3. QED
  BY <1>2 DEF FirstEnd

(* Putting b into the buffer of a connection changes nothing else.         *)
WithBuffer(s, c, b) == [s EXCEPT !.proto[c].buffer = b]

LEMMA BufferChanges ==
  ASSUME NEW s, ServerShape(s), NEW c \in ProtoClients, AreProto(s.proto), s.proto[c].open,
         NEW b
  PROVE  LET r == WithBuffer(s, c, b)
         IN /\ ServerShape(r) /\ AreProto(r.proto) /\ r.proto[c].open /\ r.core = s.core
            /\ r.proto[c].buffer = b
            /\ HasRead(r, s, c, Used(s.core), b, s.proto[c].handled)
<1> DEFINE r == WithBuffer(s, c, b)
           x == s.proto[c]
           y == [x EXCEPT !.buffer = b]
<1>1. r \in [core : {s.core}, register : {s.register}, proto : {[s.proto EXCEPT ![c] = y]},
             lights : {s.lights}, boblight : {s.boblight}, udp : {s.udp}]
  BY DEF ServerShape, WithBuffer
<1>2. IsProto(x)
  BY DEF AreProto
<1> HIDE DEF r, x
<1>3. IsProto(y) /\ y.open /\ y.buffer = b /\ y.handled = x.handled
  BY <1>2 DEF IsProto
<1> HIDE DEF y
<1>4. /\ r.proto = [d \in ProtoClients |-> r.proto[d]]
      /\ r.proto[c] = y
      /\ \A d \in ProtoClients \ {c} : r.proto[d] = s.proto[d]
  BY <1>1 DEF AreProto
<1>5. ServerShape(r) /\ AreProto(r.proto)
  BY <1>1, <1>3, <1>4 DEF ServerShape, AreProto
<1>6. HasRead(r, s, c, Used(s.core), b, s.proto[c].handled)
  BY <1>1, <1>3, <1>4 DEF ServerShape, HasRead, x
<1>7. QED
  BY <1>1, <1>3, <1>4, <1>5, <1>6 DEF r

LEMMA ReadDataDoes ==
  ASSUME NEW s, ServerShape(s), NEW c \in ProtoClients, AreProto(s.proto), s.proto[c].open,
         NEW pieces, NEW time, NEW buffer \in Seq(PieceSet), buffer = s.proto[c].buffer \o pieces
  PROVE  LET t == ReadData(s, c, pieces, time)
             m == buffer[FirstEnd(buffer)].message
         IN /\ ~HasMessage(buffer) =>
                   HasRead(t, s, c, Used(s.core), buffer, s.proto[c].handled)
            /\ HasMessage(buffer) =>
                   HasRead(t, s, c, Used(s.core) \cup Written(m) \cup {Lowest},
                           AfterFirst(buffer), m)
<1> DEFINE m  == buffer[FirstEnd(buffer)].message
           r1 == WithBuffer(s, c, buffer)
           r2 == WithBuffer(r1, c, AfterFirst(buffer))
           t  == ReadData(s, c, pieces, time)
<1>1. /\ ServerShape(r1) /\ AreProto(r1.proto) /\ r1.proto[c].open /\ r1.core = s.core
      /\ r1.proto[c].buffer = buffer
      /\ HasRead(r1, s, c, Used(s.core), buffer, s.proto[c].handled)
  <2>1. ASSUME NEW b
        PROVE  LET r == WithBuffer(s, c, b)
               IN /\ ServerShape(r) /\ AreProto(r.proto) /\ r.proto[c].open /\ r.core = s.core
                  /\ r.proto[c].buffer = b
                  /\ HasRead(r, s, c, Used(s.core), b, s.proto[c].handled)
    BY BufferChanges
  <2>2. QED
    BY <2>1
<1>2. /\ ~HasMessage(buffer) => t = r1
      /\ HasMessage(buffer) => t = ParseMessage(r2, c, m, time)
  <2> DEFINE b == r1.proto[c].buffer
  <2>1. t = IF ~HasMessage(b) THEN r1
            ELSE ParseMessage([r1 EXCEPT !.proto[c].buffer = AfterFirst(b)],
                              c, b[FirstEnd(b)].message, time)
    BY DEF ReadData, WithBuffer
  <2>2. b = buffer
    BY <1>1
  <2> HIDE DEF r1, t, b
  <2>3. QED
    BY <2>1, <2>2 DEF WithBuffer
<1> HIDE DEF r1, t, m
<1>3. ASSUME HasMessage(buffer)
      PROVE  HasRead(t, s, c, Used(s.core) \cup Written(m) \cup {Lowest}, AfterFirst(buffer), m)
  <2>1. /\ ServerShape(r2) /\ AreProto(r2.proto) /\ r2.proto[c].open /\ r2.core = r1.core
        /\ r2.proto[c].buffer = AfterFirst(buffer)
        /\ HasRead(r2, r1, c, Used(r1.core), AfterFirst(buffer), r1.proto[c].handled)
    BY <1>1, BufferChanges
  <2> HIDE DEF r2
  <2>2. m \in Messages
    <3>1. FirstEnd(buffer) \in 1 .. Len(buffer)
      BY <1>3, FirstEndIsFirst
    <3>2. buffer[FirstEnd(buffer)] \in PieceSet
      BY <3>1
    <3>3. QED
      BY <3>2 DEF PieceSet, m
  <2>3. HasRead(t, r2, c, Used(s.core) \cup Written(m) \cup {Lowest}, AfterFirst(buffer), m)
    BY <1>1, <1>2, <1>3, <2>1, <2>2, ParseMessageDoes DEF r2
  <2>4. QED
    BY <1>1, <2>1, <2>3, HasReadTransitive
<1>4. QED
  BY <1>1, <1>2, <1>3 DEF t, m

-----------------------------------------------------------------------------
(* A finite set as a sequence: every element is in it.                     *)
LEMMA SetToSeqCovers ==
  ASSUME NEW S, IsFiniteSet(S)
  PROVE  /\ Len(SetToSeq(S)) \in Nat
         /\ \A i \in 1 .. Len(SetToSeq(S)) : SetToSeq(S)[i] \in S
         /\ \A x \in S : \E i \in 1 .. Len(SetToSeq(S)) : SetToSeq(S)[i] = x
<1> DEFINE n == Cardinality(S)
           q == SetToSeq(S)
<1>1. n \in Nat /\ ExistsBijection(1 .. n, S)
  BY FS_CardinalityType
<1>2. \E f \in [1 .. n -> S] : IsInjective(f)
  BY <1>1 DEF ExistsBijection, Bijection, Injection
<1>3. q \in [1 .. n -> S] /\ IsInjective(q)
  BY <1>2 DEF SetToSeq
<1> HIDE DEF q, n
<1>4. q \in Injection(1 .. n, S)
  BY <1>3 DEF Injection
<1>5. IsFiniteSet(1 .. n) /\ Cardinality(1 .. n) = n
  BY <1>1, FS_Interval
<1>6. q \in Surjection(1 .. n, S)
  BY <1>4, <1>5, FS_Injection DEF n
<1>7. \A x \in S : \E i \in 1 .. n : q[i] = x
  BY <1>6 DEF Surjection
<1>8. Len(q) = n
  BY <1>1, <1>3
<1>9. QED
  BY <1>1, <1>3, <1>7, <1>8 DEF q

LEMMA ClearLightsUses ==
  ASSUME NEW h, CoreShape(h), NEW p \in Channels, NEW time
  PROVE  /\ CoreShape(ClearLights(h, p, time))
         /\ Used(ClearLights(h, p, time)) \subseteq Used(h)
         /\ p # Lowest /\ p < Lowest => p \notin Used(ClearLights(h, p, time))
<1>1. p \in Nat /\ Lowest \in Nat
  BY LowestIsNat, PrioritiesAreNat DEF Channels
<1>2. QED
  BY <1>1, ClearUses DEF ClearLights

(* The cores between the destructors of the connections.                   *)
IsRun(f, h, n, lights, lit, time) ==
    f = [i \in 0 .. n |-> IF i = 0 THEN h
                          ELSE ClearLights(f[i - 1], lights[lit[i]].priority, time)]

LEMMA RunExists ==
  ASSUME NEW h, NEW lights, NEW lit, NEW time
  PROVE  \A n \in Nat : \E f : IsRun(f, h, n, lights, lit, time)
<1> DEFINE bad == {n \in Nat : ~\E f : IsRun(f, h, n, lights, lit, time)}
<1>1. SUFFICES ASSUME bad # {} PROVE FALSE
  OBVIOUS
<1> DEFINE m == Min(bad)
<1>2. m \in bad /\ m \in Nat /\ \A y \in bad : m <= y
  BY <1>1, MinOfNats
<1> HIDE DEF m
<1>3. CASE m = 0
  <2> DEFINE f == [i \in 0 .. 0 |-> h]
  <2>1. IsRun(f, h, 0, lights, lit, time)
    BY DEF IsRun
  <2> HIDE DEF f
  <2>2. QED
    BY <1>2, <1>3, <2>1
<1>4. CASE m # 0
  <2>1. m - 1 \in Nat /\ ~(m <= m - 1)
    BY <1>2, <1>4
  <2>2. m - 1 \notin bad
    BY <1>2, <2>1
  <2>3. PICK g : IsRun(g, h, m - 1, lights, lit, time)
    BY <2>1, <2>2
  <2> DEFINE step(k, i) == ClearLights(k, lights[lit[i]].priority, time)
             f == [i \in 0 .. m |-> IF i < m THEN g[i] ELSE step(g[m - 1], m)]
  <2>4. \A i \in 0 .. m - 1 : g[i] = IF i = 0 THEN h ELSE step(g[i - 1], i)
    BY <2>3 DEF IsRun
  <2> HIDE DEF step
  <2>5. \A i \in 0 .. m : f[i] = IF i = 0 THEN h ELSE step(f[i - 1], i)
    <3>1. ASSUME NEW i \in 0 .. m PROVE f[i] = IF i = 0 THEN h ELSE step(f[i - 1], i)
      <4>1. CASE i = m
        <5>1. m - 1 \in 0 .. m /\ m - 1 < m
          BY <1>2, <2>1
        <5>2. f[m - 1] = g[m - 1]
          BY <5>1
        <5>3. QED
          BY <1>2, <1>4, <4>1, <5>2
      <4>2. CASE i < m
        <5>1. i \in 0 .. m - 1 /\ (i # 0 => i - 1 \in 0 .. m /\ i - 1 < m)
          BY <1>2, <4>2
        <5>2. i # 0 => f[i - 1] = g[i - 1]
          BY <5>1
        <5>3. f[i] = g[i]
          BY <4>2
        <5>4. QED
          BY <2>4, <5>1, <5>2, <5>3
      <4>3. QED
        BY <1>2, <4>1, <4>2
    <3>2. QED
      BY <3>1
  <2>6. f = [i \in 0 .. m |-> f[i]]
    OBVIOUS
  <2> HIDE DEF f
  <2>7. IsRun(f, h, m, lights, lit, time)
    <3>1. \A i \in 0 .. m : f[i] = IF i = 0 THEN h ELSE ClearLights(f[i - 1], lights[lit[i]].priority, time)
      BY <2>5 DEF step
    <3>2. QED
      BY <2>6, <3>1 DEF IsRun
  <2>8. QED
    BY <1>2, <2>7
<1>5. QED
  BY <1>3, <1>4

(* After the destructors none of their channels is in use.                 *)
LEMMA RunClears ==
  ASSUME NEW h, CoreShape(h), NEW n \in Nat, NEW lights, NEW lit, NEW time, NEW f,
         IsRun(f, h, n, lights, lit, time),
         \A i \in 1 .. n : lights[lit[i]].priority \in Channels
  PROVE  \A k \in 0 .. n :
             /\ CoreShape(f[k])
             /\ Used(f[k]) \subseteq Used(h)
             /\ \A i \in 1 .. k : lights[lit[i]].priority < Lowest =>
                    lights[lit[i]].priority \notin Used(f[k])
<1> DEFINE good(k) == /\ CoreShape(f[k])
                      /\ Used(f[k]) \subseteq Used(h)
                      /\ \A i \in 1 .. k : lights[lit[i]].priority < Lowest =>
                             lights[lit[i]].priority \notin Used(f[k])
           bad == {k \in 0 .. n : ~good(k)}
<1>1. SUFFICES ASSUME bad # {} PROVE FALSE
  OBVIOUS
<1> DEFINE m == Min(bad)
<1>2. m \in bad /\ m \in 0 .. n /\ \A y \in bad : m <= y
  BY <1>1, MinOfNats
<1> HIDE DEF m
<1>3. CASE m = 0
  <2>1. f[0] = h
    BY DEF IsRun
  <2>2. good(0)
    BY <2>1
  <2>3. QED
    BY <1>2, <1>3, <2>2
<1>4. CASE m # 0
  <2> DEFINE p == lights[lit[m]].priority
  <2>1. m - 1 \in 0 .. n /\ m \in 1 .. n /\ ~(m <= m - 1) /\ m \in Nat
    BY <1>2, <1>4
  <2>2. good(m - 1)
    BY <1>2, <2>1
  <2>3. f[m] = ClearLights(f[m - 1], p, time)
    BY <1>4, <2>1 DEF IsRun
  <2>4. p \in Channels /\ p \in Nat /\ Lowest \in Nat
    BY <2>1, LowestIsNat, PrioritiesAreNat DEF Channels
  <2>5. /\ CoreShape(f[m])
        /\ Used(f[m]) \subseteq Used(f[m - 1])
        /\ p < Lowest => p \notin Used(f[m])
    BY <2>2, <2>3, <2>4, ClearLightsUses
  <2>6. good(m)
    <3>1. ASSUME NEW i \in 1 .. m, lights[lit[i]].priority < Lowest
          PROVE  lights[lit[i]].priority \notin Used(f[m])
      <4>1. CASE i = m
        BY <2>5, <3>1, <4>1
      <4>2. CASE i # m
        BY <2>1, <2>2, <2>5, <3>1, <4>2
      <4>3. QED
        BY <4>1, <4>2
    <3>2. QED
      BY <2>2, <2>5, <3>1
  <2>7. QED
    BY <1>2, <2>6
<1>5. QED
  BY <1>3, <1>4

NoLights == [b \in BoblightClients |-> NoConnection]

LEMMA StopBoblightDoes ==
  ASSUME NEW s, ServerShape(s), AreLights(s.lights), s.boblight, NEW time
  PROVE  LET t == StopBoblight(s, time)
         IN /\ t \in [core : {t.core}, register : {t.register}, proto : {s.proto},
                      lights : {NoLights}, boblight : {FALSE}, udp : {s.udp}]
            /\ CoreShape(t.core)
            /\ Used(t.core) \subseteq Used(s.core)
            /\ DOMAIN t.register = DOMAIN s.register \ {"Boblight"}
            /\ \A b \in BoblightClients :
                   (s.lights[b] # NoConnection /\ s.lights[b].priority < Lowest)
                       => s.lights[b].priority \notin Used(t.core)
<1> DEFINE set == {b \in BoblightClients : IsLit(s, b)}
           lit == SetToSeq(set)
           after[i \in 0 .. Len(lit)] ==
               IF i = 0 THEN s.core
               ELSE ClearLights(after[i - 1], s.lights[lit[i]].priority, time)
           last == after[Len(lit)]
           t == StopBoblight(s, time)
<1>1. t = UnRegisterPriority(
              [s EXCEPT !.core = last, !.lights = NoLights, !.boblight = FALSE], "Boblight")
  BY DEF StopBoblight, NoLights
<1>2. IsFiniteSet(set)
  BY FewConnections, FS_Subset
<1> HIDE DEF set
<1>3. /\ Len(lit) \in Nat
      /\ \A i \in 1 .. Len(lit) : lit[i] \in set
      /\ \A b \in set : \E i \in 1 .. Len(lit) : lit[i] = b
  BY <1>2, SetToSeqCovers
<1> HIDE DEF lit
<1>4. IsRun(after, s.core, Len(lit), s.lights, lit, time)
  <2> DEFINE run(f) == f = [i \in 0 .. Len(lit) |->
                               IF i = 0 THEN s.core
                               ELSE ClearLights(f[i - 1], s.lights[lit[i]].priority, time)]
  <2>1. \A f : IsRun(f, s.core, Len(lit), s.lights, lit, time) => run(f)
    BY DEF IsRun
  <2>2. \E f : IsRun(f, s.core, Len(lit), s.lights, lit, time)
    BY <1>3, RunExists
  <2>3. \E f : run(f)
    <3> HIDE DEF run, after
    <3>1. QED
      BY <2>1, <2>2
  <2>4. after = CHOOSE f : run(f)
    OBVIOUS
  <2>5. run(after)
    <3> HIDE DEF run, after
    <3>1. QED
      BY <2>3, <2>4
  <2>6. QED
    BY <2>5 DEF IsRun
<1> HIDE DEF after
<1>5. \A i \in 1 .. Len(lit) : s.lights[lit[i]].priority \in Channels
  BY <1>3 DEF AreLights, set, IsLit
<1>6. /\ CoreShape(last) /\ Used(last) \subseteq Used(s.core)
      /\ \A i \in 1 .. Len(lit) : s.lights[lit[i]].priority < Lowest =>
             s.lights[lit[i]].priority \notin Used(last)
  <2>1. CoreShape(s.core) /\ Len(lit) \in 0 .. Len(lit)
    BY <1>3 DEF ServerShape
  <2>2. QED
    BY <1>3, <1>4, <1>5, <2>1, RunClears
<1> HIDE DEF last
<1>7. /\ t \in [core : {last}, register : {t.register}, proto : {s.proto},
                lights : {NoLights}, boblight : {FALSE}, udp : {s.udp}]
      /\ t.register = Restrict(s.register, DOMAIN s.register \ {"Boblight"})
  BY <1>1 DEF ServerShape, UnRegisterPriority
<1>8. DOMAIN t.register = DOMAIN s.register \ {"Boblight"}
  BY <1>7 DEF Restrict
<1>9. \A b \in BoblightClients :
          (s.lights[b] # NoConnection /\ s.lights[b].priority < Lowest)
              => s.lights[b].priority \notin Used(last)
  BY <1>3, <1>6 DEF set, IsLit
<1> HIDE DEF t
<1>10. QED
  BY <1>6, <1>7, <1>8, <1>9 DEF t

-----------------------------------------------------------------------------
(* The inductive invariant.  First the fields of the variables.            *)
Shapes ==
    /\ ServerShape(server)
    /\ AreProto(server.proto)
    /\ AreLights(server.lights)
    /\ client = [c \in ProtoClients |-> client[c]]
    /\ \A c \in ProtoClients :
           client[c] \in [socket : {client[c].socket}, buffer : {client[c].buffer},
                          grabbing : {client[c].grabbing}, video : {client[c].video},
                          last : {client[c].last}, skip : {client[c].skip}]
    /\ wire \in [ProtoClients -> Seq(PieceSet)]
    /\ writer = [p \in Channels |-> writer[p]]

(* The pieces in the buffer and on their way end with the last message the *)
(* client has sent; with none of them left it has been handled.            *)
InOrder(q, handled, last) ==
    /\ q \in Seq(PieceSet)
    /\ q = <<>> => handled = last
    /\ q # <<>> => q[Len(q)].message = last /\ q[Len(q)].last = TRUE

(* The connection of a client is open at both ends or at none, but for a   *)
(* client that has ended.                                                  *)
StreamOf(c) ==
    /\ Connected(c) => IsOpen(server, c)
    /\ IsOpen(server, c) =>
           /\ up
           /\ Connected(c) \/ Ended(c)
           /\ server.proto[c].buffer \in Seq(PieceSet)
           /\ InOrder(server.proto[c].buffer \o wire[c], server.proto[c].handled, client[c].last)
    /\ ~IsOpen(server, c) => wire[c] = <<>>

Registered ==
    /\ up => (ProtoName \in DOMAIN server.register => \E c \in ProtoClients : IsOpen(server, c))
    /\ "Boblight" \in DOMAIN server.register <=> server.boblight

(* What boblight wrote last is the channel of a connection.                *)
LitInv(used, lights, wrote) ==
    \A p \in used \ {Lowest} : wrote[p] = "boblight" =>
        /\ p < Lowest
        /\ \E b \in BoblightClients : lights[b] # NoConnection /\ lights[b].priority = p

IInv ==
    /\ Shapes
    /\ \A c \in ProtoClients : StreamOf(c)
    /\ Registered
    /\ LitInv(Used(server.core), server.lights, writer)

-----------------------------------------------------------------------------
LEMMA NewServerIs ==
  /\ ServerShape(NewServer) /\ AreProto(NewServer.proto) /\ AreLights(NewServer.lights)
  /\ NewServer.core = NewCore /\ Used(NewServer.core) = {Lowest}
  /\ \A c \in ProtoClients : ~NewServer.proto[c].open
  /\ DOMAIN NewServer.register = {"Off", "UDPLISTENER", "Boblight"} /\ NewServer.boblight
<1>1. CoreShape(NewCore) /\ Used(NewCore) = {Lowest}
  BY NewCoreUses
<1>2. NewServer \in [core : {NewCore}, register : {NewServer.register},
                     proto : {[c \in ProtoClients |-> NoConnection]},
                     lights : {[b \in BoblightClients |-> NoConnection]},
                     boblight : {TRUE}, udp : {NewServer.udp}]
  BY DEF NewServer
<1>3. DOMAIN NewServer.register = {"Off", "UDPLISTENER", "Boblight"}
  BY DEF NewServer
<1> DEFINE s == NewServer
<1> HIDE DEF s
<1>4. AreProto(s.proto) /\ \A c \in ProtoClients : ~s.proto[c].open
  BY <1>2 DEF AreProto, NoConnection, s
<1>5. AreLights(s.lights)
  BY <1>2 DEF AreLights, s
<1>6. ServerShape(s)
  BY <1>1, <1>2 DEF ServerShape, Channels, s
<1>7. QED
  BY <1>1, <1>2, <1>3, <1>4, <1>5, <1>6 DEF s

LEMMA InitIInv == Init => IInv
<1> SUFFICES ASSUME Init PROVE IInv
  OBVIOUS
<1>1. /\ ServerShape(server) /\ AreProto(server.proto) /\ AreLights(server.lights)
      /\ Used(server.core) = {Lowest}
      /\ \A c \in ProtoClients : ~server.proto[c].open
      /\ DOMAIN server.register = {"Off", "UDPLISTENER", "Boblight"} /\ server.boblight
  BY NewServerIs DEF Init
<1>2. \A c \in ProtoClients :
          /\ client[c] \in [socket : {"unconnected"}, buffer : {client[c].buffer},
                          grabbing : {client[c].grabbing}, video : {client[c].video},
                          last : {client[c].last}, skip : {client[c].skip}]
          /\ wire[c] = <<>>
  BY DEF Init, NewProtoConnection
<1>3. client = [c \in ProtoClients |-> client[c]] /\ wire = [c \in ProtoClients |-> wire[c]]
      /\ writer = [p \in Channels |-> writer[p]]
  BY DEF Init
<1>4. Shapes
  <2>1. <<>> \in Seq(PieceSet)
    OBVIOUS
  <2>2. wire \in [ProtoClients -> Seq(PieceSet)]
    BY <1>2, <1>3, <2>1
  <2>3. QED
    BY <1>1, <1>2, <1>3, <2>2 DEF Shapes
<1>5. \A c \in ProtoClients : StreamOf(c)
  BY <1>1, <1>2 DEF StreamOf, Connected, Ended, IsOpen
<1>6. Registered
  BY <1>1 DEF Registered, ProtoName
<1>7. LitInv(Used(server.core), server.lights, writer)
  BY <1>1 DEF LitInv
<1>8. QED
  BY <1>4, <1>5, <1>6, <1>7 DEF IInv

(* A step of the core, the boblight server or the UDP listener leaves the  *)
(* connections of Proto as they are.                                       *)
LEMMA LightsStep ==
  ASSUME IInv,
         server' \in [core : {server'.core}, register : {server'.register},
                      proto : {server.proto}, lights : {server'.lights},
                      boblight : {server'.boblight}, udp : {server'.udp}],
         CoreShape(server'.core), Used(server'.core) \subseteq Channels,
         AreLights(server'.lights), writer' = [p \in Channels |-> writer'[p]],
         "Boblight" \in DOMAIN server'.register <=> server'.boblight,
         ProtoName \in DOMAIN server'.register => ProtoName \in DOMAIN server.register,
         LitInv(Used(server'.core), server'.lights, writer'),
         UNCHANGED <<client, wire, up>>
  PROVE  IInv'
<1>1. server'.proto = server.proto
  OBVIOUS
<1>2. Shapes'
  BY <1>1 DEF IInv, Shapes, ServerShape
<1>3. ASSUME NEW c \in ProtoClients PROVE StreamOf(c)'
  BY <1>1 DEF IInv, StreamOf, Connected, Ended, IsOpen
<1>4. Registered'
  BY <1>1 DEF IInv, Registered, IsOpen
<1>5. QED
  BY <1>2, <1>3, <1>4 DEF IInv

(* A step of one connection of Proto leaves the others as they are.        *)
LEMMA ProtoStep ==
  ASSUME IInv, NEW c \in ProtoClients,
         server' \in [core : {server'.core}, register : {server'.register},
                      proto : {server'.proto}, lights : {server.lights},
                      boblight : {server.boblight}, udp : {server.udp}],
         CoreShape(server'.core), Used(server'.core) \subseteq Channels,
         AreProto(server'.proto),
         \A d \in ProtoClients \ {c} : server'.proto[d] = server.proto[d],
         client' = [d \in ProtoClients |-> client'[d]],
         client'[c] \in [socket : {client'[c].socket}, buffer : {client'[c].buffer},
                         grabbing : {client'[c].grabbing}, video : {client'[c].video},
                         last : {client'[c].last}, skip : {client'[c].skip}],
         \A d \in ProtoClients \ {c} : client'[d] = client[d],
         wire' \in [ProtoClients -> Seq(PieceSet)],
         \A d \in ProtoClients \ {c} : wire'[d] = wire[d],
         StreamOf(c)', up' = up,
         writer' = [p \in Channels |-> writer'[p]],
         DOMAIN server'.register \ {ProtoName} = DOMAIN server.register \ {ProtoName},
         up => (ProtoName \in DOMAIN server'.register =>
                    \E d \in ProtoClients : server'.proto[d].open),
         LitInv(Used(server'.core), server.lights, writer')
  PROVE  IInv'
<1>1. server'.lights = server.lights /\ server'.boblight = server.boblight
  OBVIOUS
<1>2. Shapes'
  <2>1. ServerShape(server') /\ AreLights(server'.lights)
    BY <1>1 DEF IInv, Shapes, ServerShape
  <2>2. \A d \in ProtoClients :
            client'[d] \in [socket : {client'[d].socket}, buffer : {client'[d].buffer},
                            grabbing : {client'[d].grabbing}, video : {client'[d].video},
                            last : {client'[d].last}, skip : {client'[d].skip}]
    BY DEF IInv, Shapes
  <2>3. QED
    BY <2>1, <2>2 DEF Shapes
<1>3. ASSUME NEW d \in ProtoClients PROVE StreamOf(d)'
  <2>1. CASE d = c
    BY <2>1
  <2>2. CASE d # c
    BY <2>2 DEF IInv, StreamOf, Connected, Ended, IsOpen
  <2>3. QED
    BY <2>1, <2>2
<1>4. Registered'
  BY <1>1 DEF IInv, Registered, IsOpen, ProtoName
<1>5. QED
  BY <1>1, <1>2, <1>3, <1>4 DEF IInv

-----------------------------------------------------------------------------
(* The steps of the core, of boblight and of UDP.  In each, c is the core  *)
(* after the step and p a channel that another source may have written to. *)
LEMMA LitKept ==
  ASSUME NEW used, NEW lights, NEW wrote, LitInv(used, lights, wrote),
         NEW used2, NEW wrote2,
         \A p \in used2 \ {Lowest} :
             wrote2[p] = "boblight" => p \in used /\ wrote[p] = "boblight"
  PROVE  LitInv(used2, lights, wrote2)
BY DEF LitInv

(* Only the core changes, and the channel p may have been written to.      *)
LEMMA CoreStep ==
  ASSUME IInv, NEW core, CoreShape(core), NEW p \in Channels,
         Used(core) \subseteq Used(server.core) \cup {p, Lowest}, NEW who,
         server' = [server EXCEPT !.core = core],
         \/ writer' = writer /\ Used(core) \subseteq Used(server.core) \cup {Lowest}
         \/ writer' = [writer EXCEPT ![p] = who] /\ who # "boblight",
         UNCHANGED <<client, wire, up>>
  PROVE  IInv'
<1>1. /\ server' \in [core : {core}, register : {server.register}, proto : {server.proto},
                      lights : {server.lights}, boblight : {server.boblight},
                      udp : {server.udp}]
      /\ Used(server.core) \subseteq Channels
      /\ AreLights(server.lights)
  BY DEF IInv, Shapes, ServerShape
<1>2. Used(core) \subseteq Channels
  BY <1>1 DEF Channels
<1>3. writer' = [q \in Channels |-> writer'[q]]
  BY DEF IInv, Shapes
<1>4. LitInv(Used(core), server.lights, writer')
  <2>1. \A q \in Used(core) \ {Lowest} :
            writer'[q] = "boblight" => q \in Used(server.core) /\ writer[q] = "boblight"
    <3>1. DOMAIN writer = Channels
      BY DEF IInv, Shapes
    <3>2. QED
      BY <1>2, <3>1
  <2>2. QED
    BY <2>1, LitKept DEF IInv
<1>5. "Boblight" \in DOMAIN server.register <=> server.boblight
  BY DEF IInv, Registered
<1>6. QED
  BY <1>1, <1>2, <1>3, <1>4, <1>5, LightsStep

LEMMA TimerFiresIInv == IInv /\ TimerFires => IInv'
<1> SUFFICES ASSUME IInv, TimerFires PROVE IInv'
  OBVIOUS
<1>1. CoreShape(server.core)
  BY DEF IInv, Shapes, ServerShape
<1>2. CoreShape(Timeout(server.core, now)) /\ Used(Timeout(server.core, now)) \subseteq Used(server.core)
  BY <1>1, TimerUses
<1>3. server' = [server EXCEPT !.core = Timeout(server.core, now)] /\ UNCHANGED <<client, wire, up, writer>>
  BY DEF TimerFires
<1>4. Lowest \in Channels
  BY DEF Channels
<1>5. QED
  BY <1>2, <1>3, <1>4, CoreStep

LEMMA TickIInv == IInv /\ Tick => IInv'
<1> SUFFICES ASSUME IInv, Tick PROVE IInv'
  OBVIOUS
<1>1. CoreShape(server.core)
  BY DEF IInv, Shapes, ServerShape
<1>2. CoreShape(Elapse(server.core)) /\ Used(Elapse(server.core)) \subseteq Used(server.core)
  BY <1>1, TimerUses
<1>3. server' = [server EXCEPT !.core = Elapse(server.core)] /\ UNCHANGED <<client, wire, up, writer>>
  BY DEF Tick
<1>4. Lowest \in Channels
  BY DEF Channels
<1>5. QED
  BY <1>2, <1>3, <1>4, CoreStep

LEMMA UdpReceivesIInv == IInv /\ UdpReceives => IInv'
<1> SUFFICES ASSUME IInv, UdpReceives PROVE IInv'
  OBVIOUS
<1> DEFINE any == CHOOSE color \in Colors : TRUE
           core == SetColors(server.core, UdpPriority, any, UdpTimeout, COMP_GRABBER, now)
<1>1. CoreShape(server.core) /\ UdpPriority \in Channels
  BY StreamChannels DEF IInv, Shapes, ServerShape
<1> HIDE DEF any
<1>2. CoreShape(core) /\ Used(core) \subseteq Used(server.core) \cup {UdpPriority}
  BY <1>1, SetColorsUses
<1>3. server' = [server EXCEPT !.core = core] /\ UNCHANGED <<client, wire, up>>
      /\ writer' = [writer EXCEPT ![UdpPriority] = "udp"]
  BY DEF UdpReceives, ProcessTheDatagram, any
<1> HIDE DEF core
<1>4. Used(core) \subseteq Used(server.core) \cup {UdpPriority, Lowest} /\ "udp" # "boblight"
  BY <1>2
<1>5. \/ writer' = writer /\ Used(core) \subseteq Used(server.core) \cup {Lowest}
      \/ writer' = [writer EXCEPT ![UdpPriority] = "udp"] /\ "udp" # "boblight"
  BY <1>3, <1>4
<1>6. server' = [server EXCEPT !.core = core] /\ UNCHANGED <<client, wire, up>>
  BY <1>3
<1>7. QED
  BY <1>1, <1>2, <1>4, <1>5, <1>6, CoreStep

LEMMA UdpEnabledIInv == ASSUME NEW enable PROVE IInv /\ UdpEnabled(enable) => IInv'
<1> SUFFICES ASSUME IInv, UdpEnabled(enable) PROVE IInv'
  OBVIOUS
<1>1. PICK bound \in BOOLEAN : server' = [server EXCEPT !.udp = enable /\ (@ \/ bound)]
  BY DEF UdpEnabled
<1>2. UNCHANGED <<client, wire, up, writer>>
  BY DEF UdpEnabled
<1> DEFINE udp == enable /\ (server.udp \/ bound)
<1> HIDE DEF udp
<1>3. server' \in [core : {server.core}, register : {server.register}, proto : {server.proto},
                   lights : {server.lights}, boblight : {server.boblight}, udp : {udp}]
  BY <1>1 DEF IInv, Shapes, ServerShape, udp
<1>4. /\ CoreShape(server.core) /\ Used(server.core) \subseteq Channels
      /\ AreLights(server.lights) /\ writer = [p \in Channels |-> writer[p]]
      /\ "Boblight" \in DOMAIN server.register <=> server.boblight
      /\ LitInv(Used(server.core), server.lights, writer)
  BY DEF IInv, Shapes, ServerShape, Registered
<1>5. QED
  BY <1>2, <1>3, <1>4, LightsStep

-----------------------------------------------------------------------------
(* The steps of boblight.  Deleting or moving the connection b clears its  *)
(* channel, and any channel another connection has lit keeps its witness.  *)
LEMMA LightsLeft ==
  ASSUME IInv, NEW b \in BoblightClients, IsLit(server, b), NEW core, CoreShape(core),
         Used(core) \subseteq Used(server.core),
         LET p == server.lights[b].priority
         IN p # Lowest /\ p < Lowest => p \notin Used(core),
         NEW x, x # NoConnection => x \in [priority : Channels],
         server' = [server EXCEPT !.core = core, !.lights[b] = x],
         UNCHANGED <<client, wire, up, writer>>
  PROVE  IInv'
<1> DEFINE p == server.lights[b].priority
<1>1. /\ server' \in [core : {core}, register : {server.register}, proto : {server.proto},
                      lights : {server'.lights}, boblight : {server.boblight},
                      udp : {server.udp}]
      /\ server'.lights = [server.lights EXCEPT ![b] = x]
      /\ Used(core) \subseteq Channels
      /\ "Boblight" \in DOMAIN server.register <=> server.boblight
      /\ writer' = [q \in Channels |-> writer'[q]]
  BY DEF IInv, Shapes, ServerShape, Registered
<1>2. AreLights(server.lights)
  BY DEF IInv, Shapes
<1>3. /\ server'.lights[b] = x
      /\ \A d \in BoblightClients \ {b} : server'.lights[d] = server.lights[d]
      /\ AreLights(server'.lights)
  BY <1>1, <1>2 DEF AreLights
<1>4. LitInv(Used(core), server'.lights, writer)
  <2>1. SUFFICES ASSUME NEW q \in Used(core) \ {Lowest}, writer[q] = "boblight"
                 PROVE  /\ q < Lowest
                        /\ \E d \in BoblightClients : /\ server'.lights[d] # NoConnection
                                                      /\ server'.lights[d].priority = q
    BY <2>1 DEF LitInv
  <2>2. q < Lowest
    BY <2>1 DEF IInv, LitInv
  <2>3. PICK d \in BoblightClients : server.lights[d] # NoConnection /\ server.lights[d].priority = q
    BY <2>1 DEF IInv, LitInv
  <2>4. d # b
    BY <2>2, <2>3
  <2>5. QED
    BY <1>3, <2>2, <2>3, <2>4
<1>5. QED
  BY <1>1, <1>3, <1>4, LightsStep

LEMMA LitChannel ==
  ASSUME IInv, NEW b \in BoblightClients, IsLit(server, b)
  PROVE  /\ server.lights[b] \in [priority : Channels]
         /\ server.lights[b].priority \in Channels
         /\ CoreShape(server.core)
BY DEF IInv, Shapes, AreLights, IsLit, ServerShape

LEMMA BoblightConnectsIInv ==
  ASSUME NEW b \in BoblightClients PROVE IInv /\ BoblightConnects(b) => IInv'
<1> SUFFICES ASSUME IInv, BoblightConnects(b) PROVE IInv'
  OBVIOUS
<1> DEFINE x == [priority |-> BoblightPriority]
<1>1. x \in [priority : Channels]
  BY StreamChannels
<1>2. server' = [server EXCEPT !.lights[b] = x] /\ UNCHANGED <<client, wire, up, writer>>
      /\ server.lights[b] = NoConnection
  BY DEF BoblightConnects, IsLit
<1> HIDE DEF x
<1>3. /\ server' \in [core : {server.core}, register : {server.register},
                      proto : {server.proto}, lights : {server'.lights},
                      boblight : {server.boblight}, udp : {server.udp}]
      /\ server'.lights = [server.lights EXCEPT ![b] = x]
  BY <1>2 DEF IInv, Shapes, ServerShape
<1>4. /\ CoreShape(server.core) /\ Used(server.core) \subseteq Channels
      /\ AreLights(server.lights) /\ writer = [p \in Channels |-> writer[p]]
      /\ "Boblight" \in DOMAIN server.register <=> server.boblight
      /\ LitInv(Used(server.core), server.lights, writer)
  BY DEF IInv, Shapes, ServerShape, Registered
<1>5. AreLights(server'.lights)
      /\ \A d \in BoblightClients \ {b} : server'.lights[d] = server.lights[d]
  BY <1>1, <1>3, <1>4 DEF AreLights
<1>6. LitInv(Used(server.core), server'.lights, writer)
  BY <1>2, <1>4, <1>5 DEF LitInv
<1>7. QED
  BY <1>2, <1>3, <1>4, <1>5, <1>6, LightsStep

LEMMA BoblightSetsPriorityIInv ==
  ASSUME NEW b \in BoblightClients, NEW p \in Channels
  PROVE  IInv /\ BoblightSetsPriority(b, p) => IInv'
<1> SUFFICES ASSUME IInv, BoblightSetsPriority(b, p) PROVE IInv'
  OBVIOUS
<1> DEFINE q == server.lights[b].priority
           core == ClearLights(server.core, q, now)
<1>1. IsLit(server, b) /\ UNCHANGED <<client, wire, up, writer>>
  BY DEF BoblightSetsPriority
<1>2. /\ server.lights[b] \in [priority : Channels] /\ q \in Channels /\ CoreShape(server.core)
  BY <1>1, LitChannel
<1>3. CASE p = q
  <2>1. server' = server
    BY <1>3 DEF BoblightSetsPriority, SetLightsPriority
  <2>2. CoreShape(server.core) /\ Used(server.core) \subseteq Used(server.core)
        /\ server' = [server EXCEPT !.core = server.core] /\ Lowest \in Channels
    BY <1>2, <2>1 DEF IInv, Shapes, ServerShape, Channels
  <2>3. QED
    BY <1>1, <2>2, CoreStep
<1>4. CASE p # q
  <2> DEFINE x == [server.lights[b] EXCEPT !.priority = p]
  <2>1. /\ CoreShape(core) /\ Used(core) \subseteq Used(server.core)
        /\ q # Lowest /\ q < Lowest => q \notin Used(core)
    BY <1>2, ClearLightsUses
  <2>2. server' = [server EXCEPT !.core = core, !.lights[b] = x]
    BY <1>4 DEF BoblightSetsPriority, SetLightsPriority
  <2>3. x \in [priority : Channels]
    BY <1>2
  <2> HIDE DEF x, core
  <2>4. QED
    BY <1>1, <2>1, <2>2, <2>3, LightsLeft
<1>5. QED
  BY <1>3, <1>4

LEMMA BoblightClosesIInv ==
  ASSUME NEW b \in BoblightClients PROVE IInv /\ BoblightCloses(b) => IInv'
<1> SUFFICES ASSUME IInv, BoblightCloses(b) PROVE IInv'
  OBVIOUS
<1> DEFINE core == ClearLights(server.core, server.lights[b].priority, now)
           none == NoConnection
<1>1. IsLit(server, b) /\ UNCHANGED <<client, wire, up, writer>>
      /\ server' = [server EXCEPT !.core = core, !.lights[b] = none]
  BY DEF BoblightCloses, CloseLights
<1>2. server.lights[b].priority \in Channels /\ CoreShape(server.core)
  BY <1>1, LitChannel
<1>3. /\ CoreShape(core) /\ Used(core) \subseteq Used(server.core)
      /\ LET p == server.lights[b].priority
         IN p # Lowest /\ p < Lowest => p \notin Used(core)
  BY <1>2, ClearLightsUses
<1>4. none # NoConnection => none \in [priority : Channels]
  OBVIOUS
<1> HIDE DEF core, none
<1>5. QED
  BY <1>1, <1>3, <1>4, LightsLeft

LEMMA BoblightSyncsIInv ==
  ASSUME NEW b \in BoblightClients PROVE IInv /\ BoblightSyncs(b) => IInv'
<1> SUFFICES ASSUME IInv, BoblightSyncs(b) PROVE IInv'
  OBVIOUS
<1> DEFINE any == CHOOSE color \in Colors : TRUE
           p == server.lights[b].priority
           core == SetColors(server.core, p, any, 0, COMP_INVALID, now)
<1>1. IsLit(server, b) /\ UNCHANGED <<client, wire, up>>
  BY DEF BoblightSyncs
<1>2. p \in Channels /\ CoreShape(server.core) /\ Lowest \in Channels
  BY <1>1, LitChannel DEF Channels
<1>3. CASE ~(p < Lowest)
  <2>1. server' = server /\ writer' = writer
    BY <1>3 DEF BoblightSyncs, Sync
  <2>2. CoreShape(server.core) /\ Used(server.core) \subseteq Used(server.core)
        /\ server' = [server EXCEPT !.core = server.core]
    BY <1>2, <2>1 DEF IInv, Shapes, ServerShape
  <2>3. QED
    BY <1>1, <1>2, <2>1, <2>2, CoreStep
<1>4. CASE p < Lowest
  <2>1. server' = [server EXCEPT !.core = core] /\ writer' = [writer EXCEPT ![p] = "boblight"]
    BY <1>4 DEF BoblightSyncs, Sync
  <2> HIDE DEF any
  <2>2. CoreShape(core) /\ Used(core) \subseteq Used(server.core) \cup {p}
    BY <1>2, SetColorsUses
  <2> HIDE DEF core
  <2>3. /\ server' \in [core : {core}, register : {server.register}, proto : {server.proto},
                        lights : {server.lights}, boblight : {server.boblight},
                        udp : {server.udp}]
        /\ Used(core) \subseteq Channels /\ AreLights(server.lights)
        /\ "Boblight" \in DOMAIN server.register <=> server.boblight
        /\ writer = [q \in Channels |-> writer[q]]
    BY <1>2, <2>1, <2>2 DEF IInv, Shapes, ServerShape, Registered
  <2>4. LitInv(Used(core), server.lights, writer')
    <3>1. \A q \in Used(core) : q = p \/ (q \in Used(server.core) /\ writer'[q] = writer[q])
      BY <2>1, <2>2, <2>3
    <3>2. server.lights[b] # NoConnection /\ server.lights[b].priority = p
      BY <1>1 DEF IsLit
    <3> HIDE DEF p
    <3>3. QED
      BY <1>4, <3>1, <3>2 DEF IInv, LitInv
  <2>5. writer' = [q \in Channels |-> writer'[q]]
    BY <2>1, <2>3
  <2>6. QED
    BY <1>1, <2>2, <2>3, <2>4, <2>5, LightsStep
<1>5. QED
  BY <1>3, <1>4

LEMMA BoblightEnabledIInv ==
  ASSUME NEW enable PROVE IInv /\ BoblightEnabled(enable) => IInv'
<1> SUFFICES ASSUME IInv, BoblightEnabled(enable) PROVE IInv'
  OBVIOUS
<1>1. /\ ServerShape(server) /\ AreLights(server.lights)
      /\ CoreShape(server.core) /\ Used(server.core) \subseteq Channels
      /\ writer = [p \in Channels |-> writer[p]]
      /\ "Boblight" \in DOMAIN server.register <=> server.boblight
      /\ LitInv(Used(server.core), server.lights, writer)
  BY DEF IInv, Shapes, ServerShape, Registered
<1>2. UNCHANGED <<client, wire, up, writer>>
  BY DEF BoblightEnabled
<1>3. CASE server' = server
  BY <1>1, <1>2, <1>3, LightsStep DEF ServerShape
<1>4. CASE server' # server /\ enable
  <2>1. server' = RegisterPriority([server EXCEPT !.boblight = TRUE], "Boblight", BoblightPriority)
    BY <1>4 DEF BoblightEnabled, StartBoblight
  <2>2. /\ server' \in [core : {server.core}, register : {server'.register},
                        proto : {server.proto}, lights : {server.lights},
                        boblight : {TRUE}, udp : {server.udp}]
        /\ DOMAIN server'.register = DOMAIN server.register \cup {"Boblight"}
    BY <1>1, <2>1 DEF ServerShape, RegisterPriority
  <2>3. QED
    BY <1>1, <1>2, <2>2, LightsStep DEF ProtoName
<1>5. CASE server' # server /\ ~enable
  <2>1. server' = StopBoblight(server, now)
    BY <1>5 DEF BoblightEnabled
  <2>2. server.boblight
    BY <1>5, <2>1 DEF StopBoblight
  <2>3. /\ server' \in [core : {server'.core}, register : {server'.register}, proto : {server.proto},
                        lights : {NoLights}, boblight : {FALSE}, udp : {server.udp}]
        /\ CoreShape(server'.core)
        /\ Used(server'.core) \subseteq Used(server.core)
        /\ DOMAIN server'.register = DOMAIN server.register \ {"Boblight"}
        /\ \A b \in BoblightClients :
               (server.lights[b] # NoConnection /\ server.lights[b].priority < Lowest)
                   => server.lights[b].priority \notin Used(server'.core)
    BY <1>1, <2>1, <2>2, StopBoblightDoes
  <2>4. AreLights(NoLights)
    BY DEF AreLights, NoLights
  <2>5. LitInv(Used(server'.core), server'.lights, writer)
    BY <1>1, <2>3 DEF LitInv
  <2>6. QED
    BY <1>1, <1>2, <2>3, <2>4, <2>5, LightsStep
<1>6. QED
  BY <1>3, <1>4, <1>5

-----------------------------------------------------------------------------
(* The steps of Proto's connections.  First the queue of pieces.           *)
LEMMA QueueReads ==
  ASSUME NEW b \in Seq(PieceSet), NEW w \in Seq(PieceSet), NEW n \in 1 .. Len(w)
  PROVE  LET x == b \o SubSeq(w, 1, n)
             r == SubSeq(w, n + 1, Len(w))
         IN x \in Seq(PieceSet) /\ r \in Seq(PieceSet) /\ b \o w = x \o r
<1> DEFINE p == SubSeq(w, 1, n)
           r == SubSeq(w, n + 1, Len(w))
<1>1. p \in Seq(PieceSet) /\ r \in Seq(PieceSet) /\ p \o r = w
  <2>1. Len(w) \in Nat /\ n \in 1 - 1 .. Len(w) /\ Len(w) \in n .. Len(w)
        /\ 1 \in 1 .. Len(w) + 1 /\ \A i \in 1 .. Len(w) : w[i] \in PieceSet
    OBVIOUS
  <2>2. p \o r = SubSeq(w, 1, Len(w))
    BY <2>1, ConcatAdjacentSubSeq
  <2>3. p \in Seq(PieceSet) /\ r \in Seq(PieceSet)
    <3>1. ASSUME NEW i \in Int, NEW j \in Int, 1 <= i, j <= Len(w)
          PROVE  SubSeq(w, i, j) \in Seq(PieceSet)
      BY <2>1, <3>1, SubSeqProperties
    <3>2. QED
      BY <2>1, <3>1
  <2>4. QED
    BY <2>2, <2>3, SubSeqFull
<1> HIDE DEF p, r
<1>2. b \o p \in Seq(PieceSet)
  BY <1>1, ConcatProperties
<1>3. (b \o p) \o r = b \o (p \o r)
  <2> DEFINE cat(s, t) == s \o t
  <2>1. \A S : \A s, t, u \in Seq(S) : cat(cat(s, t), u) = cat(s, cat(t, u))
    BY ConcatAssociative
  <2> HIDE DEF cat
  <2>2. cat(cat(b, p), r) = cat(b, cat(p, r))
    BY <1>1, <2>1
  <2>3. QED
    BY <2>2 DEF cat
<1>4. QED
  BY <1>1, <1>2, <1>3 DEF p, r

LEMMA QueueSkips ==
  ASSUME NEW x \in Seq(PieceSet), NEW r \in Seq(PieceSet), NEW e \in 1 .. Len(x)
  PROVE  LET y == SubSeq(x, e + 1, Len(x))
         IN /\ y \in Seq(PieceSet) /\ y \o r \in Seq(PieceSet)
            /\ y \o r # <<>> => (y \o r)[Len(y \o r)] = (x \o r)[Len(x \o r)]
            /\ y \o r = <<>> => x[e] = (x \o r)[Len(x \o r)]
<1> DEFINE y == SubSeq(x, e + 1, Len(x))
<1>1. y \in Seq(PieceSet) /\ Len(y) = Len(x) - e /\ \A i \in 1 .. Len(y) : y[i] = x[e + i]
  BY SubSeqProperties
<1> HIDE DEF y
<1>2. y \o r \in Seq(PieceSet) /\ Len(y \o r) = Len(y) + Len(r)
      /\ \A i \in 1 .. Len(y) + Len(r) : (y \o r)[i] = IF i <= Len(y) THEN y[i] ELSE r[i - Len(y)]
  BY <1>1, ConcatProperties
<1>3. x \o r \in Seq(PieceSet) /\ Len(x \o r) = Len(x) + Len(r)
      /\ \A i \in 1 .. Len(x) + Len(r) : (x \o r)[i] = IF i <= Len(x) THEN x[i] ELSE r[i - Len(x)]
  BY ConcatProperties
<1>4. Len(x) \in Nat \ {0} /\ Len(r) \in Nat /\ Len(y) \in Nat /\ e \in Nat
  BY <1>1
<1>5. CASE Len(r) = 0
  <2>1. (x \o r)[Len(x \o r)] = x[Len(x)]
    BY <1>3, <1>4, <1>5
  <2>2. Len(y) # 0 => (y \o r)[Len(y \o r)] = y[Len(y)] /\ y[Len(y)] = x[Len(x)]
    <3>1. Len(y) # 0 => y[Len(y)] = x[e + Len(y)] /\ e + Len(y) = Len(x)
      BY <1>1, <1>4
    <3>2. Len(y) # 0 => (y \o r)[Len(y \o r)] = y[Len(y)]
      BY <1>2, <1>4, <1>5
    <3>3. QED
      BY <3>1, <3>2
  <2> DEFINE z == y \o r
  <2>3. Len(y) = 0 => e = Len(x) /\ z = <<>>
    <3>1. z \in Seq(PieceSet) /\ (Len(y) = 0 => Len(z) = 0)
      BY <1>2, <1>5
    <3> HIDE DEF z
    <3>2. QED
      BY <1>1, <1>4, <3>1, EmptySeq
  <2>4. y \o r = <<>> => Len(y) = 0
    BY <1>2, <1>4, <1>5, EmptySeq
  <2>5. QED
    BY <1>1, <1>2, <2>1, <2>2, <2>3, <2>4 DEF y
<1>6. CASE Len(r) # 0
  <2>1. (x \o r)[Len(x \o r)] = r[Len(r)]
    BY <1>3, <1>4, <1>6
  <2>2. (y \o r)[Len(y \o r)] = r[Len(r)] /\ y \o r # <<>>
    BY <1>2, <1>4, <1>6
  <2>3. QED
    BY <1>1, <1>2, <2>1, <2>2 DEF y
<1>7. QED
  BY <1>5, <1>6

(* What ProtoStep needs of a step that leaves the core as it is.           *)
LEMMA Untouched ==
  ASSUME IInv
  PROVE  /\ ServerShape(server) /\ CoreShape(server.core) /\ Used(server.core) \subseteq Channels
         /\ AreProto(server.proto)
         /\ client = [c \in ProtoClients |-> client[c]]
         /\ \A c \in ProtoClients :
                client[c] \in [socket : {client[c].socket}, buffer : {client[c].buffer},
                               grabbing : {client[c].grabbing}, video : {client[c].video},
                               last : {client[c].last}, skip : {client[c].skip}]
         /\ wire \in [ProtoClients -> Seq(PieceSet)]
         /\ writer = [p \in Channels |-> writer[p]]
         /\ LitInv(Used(server.core), server.lights, writer)
         /\ up => (ProtoName \in DOMAIN server.register =>
                       \E c \in ProtoClients : server.proto[c].open)
         /\ \A c \in ProtoClients : StreamOf(c)
BY DEF IInv, Shapes, ServerShape, Registered, IsOpen

(* A ProtoConnection that is not connected only tries to be.               *)
LEMMA SocketIInv ==
  ASSUME NEW c \in ProtoClients
  PROVE  IInv /\ (ConnectToHost(c) \/ Refused(c)) => IInv'
<1> SUFFICES ASSUME IInv, ConnectToHost(c) \/ Refused(c) PROVE IInv'
  OBVIOUS
<1>1. PICK x : /\ client' = [client EXCEPT ![c].socket = x] /\ x # "connected"
               /\ client[c].socket \notin {"connected", "ended"}
               /\ UNCHANGED <<server, up, wire, writer>>
  BY DEF ConnectToHost, Refused
<1>2. /\ client' = [d \in ProtoClients |-> client'[d]]
      /\ client'[c] \in [socket : {x}, buffer : {client[c].buffer},
                         grabbing : {client[c].grabbing}, video : {client[c].video},
                         last : {client[c].last}, skip : {client[c].skip}]
      /\ \A d \in ProtoClients \ {c} : client'[d] = client[d]
  BY <1>1, Untouched
<1>3. StreamOf(c)'
  BY <1>1, <1>2, Untouched DEF StreamOf, Connected, Ended, IsOpen
<1>4. /\ server' \in [core : {server'.core}, register : {server'.register},
                      proto : {server'.proto}, lights : {server.lights},
                      boblight : {server.boblight}, udp : {server.udp}]
      /\ client'[c] \in [socket : {client'[c].socket}, buffer : {client'[c].buffer},
                         grabbing : {client'[c].grabbing}, video : {client'[c].video},
                         last : {client'[c].last}, skip : {client'[c].skip}]
  BY <1>1, <1>2, Untouched DEF ServerShape
<1>5. QED
  BY <1>1, <1>2, <1>3, <1>4, Untouched, ProtoStep

LEMMA AcceptedIInv == ASSUME NEW c \in ProtoClients PROVE IInv /\ Accepted(c) => IInv'
<1> SUFFICES ASSUME IInv, Accepted(c) PROVE IInv'
  OBVIOUS
<1> DEFINE new == NewProtoClientConnection
<1>1. /\ client' = [client EXCEPT ![c].socket = "connected", ![c].last = NoMessage]
      /\ server' = [server EXCEPT !.proto[c] = new]
      /\ client[c].socket \notin {"connected", "ended"} /\ up
      /\ UNCHANGED <<up, wire, writer>>
  BY DEF Accepted, Running
<1>2. IsProto(new) /\ new.open /\ new.buffer = <<>> /\ new.handled = NoMessage
  BY DEF NewProtoClientConnection, IsProto
<1> HIDE DEF new
<1>3. /\ client' = [d \in ProtoClients |-> client'[d]]
      /\ client'[c] \in [socket : {"connected"}, buffer : {client[c].buffer},
                         grabbing : {client[c].grabbing}, video : {client[c].video},
                         last : {NoMessage}, skip : {client[c].skip}]
      /\ \A d \in ProtoClients \ {c} : client'[d] = client[d]
  BY <1>1, Untouched
<1>4. /\ server' \in [core : {server.core}, register : {server.register},
                      proto : {[server.proto EXCEPT ![c] = new]}, lights : {server.lights},
                      boblight : {server.boblight}, udp : {server.udp}]
  BY <1>1, Untouched DEF ServerShape
<1>5. /\ server'.proto = [d \in ProtoClients |-> server'.proto[d]]
      /\ server'.proto[c] = new
      /\ \A d \in ProtoClients \ {c} : server'.proto[d] = server.proto[d]
  BY <1>4, Untouched DEF AreProto
<1>6. AreProto(server'.proto)
  BY <1>2, <1>5, Untouched DEF AreProto
<1>7. wire'[c] = <<>>
  BY <1>1, Untouched DEF StreamOf, Connected, Ended
<1>8. StreamOf(c)'
  <2>1. <<>> \in Seq(PieceSet) /\ <<>> \o <<>> = <<>>
    BY EmptySeq, ConcatEmptySeq
  <2>2. server'.proto[c].buffer \o wire'[c] = <<>>
    BY <1>2, <1>5, <1>7, <2>1
  <2>3. InOrder(server'.proto[c].buffer \o wire'[c], server'.proto[c].handled, client'[c].last)
    BY <1>2, <1>3, <1>5, <2>1, <2>2 DEF InOrder
  <2>4. server'.proto[c].open /\ server'.proto[c].buffer \in Seq(PieceSet)
    BY <1>2, <1>5, <2>1
  <2>5. up' /\ client'[c].socket = "connected"
    BY <1>1, <1>3
  <2>6. QED
    BY <2>3, <2>4, <2>5 DEF StreamOf, Connected, Ended, IsOpen
<1>9. client'[c] \in [socket : {client'[c].socket}, buffer : {client'[c].buffer},
                      grabbing : {client'[c].grabbing}, video : {client'[c].video},
                      last : {client'[c].last}, skip : {client'[c].skip}]
  BY <1>3
<1>10. \E d \in ProtoClients : server'.proto[d].open
  BY <1>2, <1>5
<1>11. /\ server' \in [core : {server'.core}, register : {server'.register},
                      proto : {server'.proto}, lights : {server.lights},
                      boblight : {server.boblight}, udp : {server.udp}]
       /\ server'.core = server.core /\ server'.register = server.register
  BY <1>4
<1>12. /\ CoreShape(server'.core) /\ Used(server'.core) \subseteq Channels
       /\ wire' \in [ProtoClients -> Seq(PieceSet)] /\ writer' = [p \in Channels |-> writer'[p]]
       /\ LitInv(Used(server'.core), server.lights, writer')
       /\ up' = up /\ \A d \in ProtoClients \ {c} : wire'[d] = wire[d]
  BY <1>1, <1>11, Untouched
<1>13. /\ client' = [d \in ProtoClients |-> client'[d]]
       /\ \A d \in ProtoClients \ {c} : client'[d] = client[d]
       /\ \A d \in ProtoClients \ {c} : server'.proto[d] = server.proto[d]
  BY <1>3, <1>5
<1>14. QED
  BY <1>6, <1>8, <1>9, <1>10, <1>11, <1>12, <1>13, ProtoStep

LEMMA ProtoClientSendsIInv ==
  ASSUME NEW c \in ProtoClients, NEW m \in Messages
  PROVE  IInv /\ ProtoClientSends(c, m) => IInv'
<1> SUFFICES ASSUME IInv, ProtoClientSends(c, m) PROVE IInv'
  OBVIOUS
<1>1. /\ client' = [client EXCEPT ![c].last = m]
      /\ wire' = [wire EXCEPT ![c] = wire[c] \o Pieces(m)]
      /\ client[c].socket = "connected"
      /\ UNCHANGED <<server, up, writer>>
  BY DEF ProtoClientSends, Connected
<1>2. /\ client' = [d \in ProtoClients |-> client'[d]]
      /\ client'[c] \in [socket : {"connected"}, buffer : {client[c].buffer},
                         grabbing : {client[c].grabbing}, video : {client[c].video},
                         last : {m}, skip : {client[c].skip}]
      /\ \A d \in ProtoClients \ {c} : client'[d] = client[d]
  BY <1>1, Untouched
<1>3. /\ Pieces(m) \in Seq(PieceSet) /\ Len(Pieces(m)) = 2
      /\ Pieces(m)[2].message = m /\ Pieces(m)[2].last = TRUE
  BY DEF Pieces, Piece, PieceSet
<1> DEFINE w == wire[c]
           b == server.proto[c].buffer
           p == Pieces(m)
<1> HIDE DEF p
<1>4. w \in Seq(PieceSet) /\ b \in Seq(PieceSet) /\ IsOpen(server, c) /\ up
  BY <1>1, Untouched DEF StreamOf, Connected, Ended
<1>5. w \o p \in Seq(PieceSet) /\ Len(w \o p) = Len(w) + 2 /\ Len(w) \in Nat
      /\ (w \o p)[Len(w) + 2] = p[2]
  <2>1. p \in Seq(PieceSet) /\ Len(p) = 2 /\ w \in Seq(PieceSet) /\ Len(w) \in Nat
    BY <1>3, <1>4 DEF p
  <2> HIDE DEF w
  <2>2. /\ w \o p \in Seq(PieceSet) /\ Len(w \o p) = Len(w) + 2
        /\ \A i \in 1 .. Len(w) + 2 : (w \o p)[i] = IF i <= Len(w) THEN w[i] ELSE p[i - Len(w)]
    <3>1. /\ w \o p \in Seq(PieceSet) /\ Len(w \o p) = Len(w) + Len(p)
          /\ \A i \in 1 .. Len(w) + Len(p) :
                 (w \o p)[i] = IF i <= Len(w) THEN w[i] ELSE p[i - Len(w)]
      BY <2>1, ConcatProperties
    <3>2. QED
      BY <2>1, <3>1
  <2>3. QED
    BY <2>1, <2>2
<1> DEFINE v == w \o p
           q == b \o v
<1>6. wire' \in [ProtoClients -> Seq(PieceSet)] /\ wire'[c] = v
      /\ \A d \in ProtoClients \ {c} : wire'[d] = wire[d]
  BY <1>1, <1>5, Untouched DEF p
<1>7. v \in Seq(PieceSet) /\ Len(v) \in Nat \ {0} /\ v[Len(v)] = p[2]
  BY <1>5
<1> HIDE DEF v, w, b
<1>8. q \in Seq(PieceSet) /\ Len(q) \in Nat \ {0} /\ q[Len(q)] = p[2]
  <2>1. q \in Seq(PieceSet) /\ Len(q) = Len(b) + Len(v) /\ Len(b) \in Nat
        /\ q[Len(b) + Len(v)] = v[Len(v)]
    BY <1>4, <1>7, ConcatProperties
  <2>2. QED
    BY <1>7, <2>1
<1> HIDE DEF q
<1>9. InOrder(q, server.proto[c].handled, m)
  BY <1>3, <1>8 DEF InOrder, p
<1>10. StreamOf(c)'
  BY <1>1, <1>2, <1>4, <1>6, <1>9 DEF StreamOf, Connected, Ended, IsOpen, q, b
<1>11. /\ server' \in [core : {server'.core}, register : {server'.register},
                      proto : {server'.proto}, lights : {server.lights},
                      boblight : {server.boblight}, udp : {server.udp}]
       /\ client'[c] \in [socket : {client'[c].socket}, buffer : {client'[c].buffer},
                         grabbing : {client'[c].grabbing}, video : {client'[c].video},
                         last : {client'[c].last}, skip : {client'[c].skip}]
  BY <1>1, <1>2, Untouched DEF ServerShape
<1>12. QED
  BY <1>1, <1>2, <1>6, <1>10, <1>11, Untouched, ProtoStep, ZenonT(30)

(* Data arrives: what HasRead says is enough for the invariant.            *)
LEMMA HasReadIInv ==
  ASSUME IInv, NEW c \in ProtoClients, IsOpen(server, c), NEW x \in Seq(PieceSet),
         NEW r \in Seq(PieceSet), NEW y \in Seq(PieceSet), NEW k, NEW channels,
         channels \subseteq Channels,
         HasRead(server', server, c, Used(server.core) \cup channels \cup {Lowest}, y, k),
         InOrder(y \o r, k, client[c].last), wire' = [wire EXCEPT ![c] = r],
         writer' = [p \in Channels |-> IF p \in channels THEN "proto" ELSE writer[p]],
         UNCHANGED <<client, up>>
  PROVE  IInv'
<1>1. /\ server' \in [core : {server'.core}, register : {server'.register},
                      proto : {server'.proto}, lights : {server.lights},
                      boblight : {server.boblight}, udp : {server.udp}]
      /\ CoreShape(server'.core)
      /\ Used(server'.core) \subseteq Used(server.core) \cup channels \cup {Lowest}
      /\ \A d \in ProtoClients \ {c} : server'.proto[d] = server.proto[d]
      /\ DOMAIN server'.register \ {ProtoName} = DOMAIN server.register \ {ProtoName}
  BY DEF HasRead
<1>2. /\ server'.proto = [d \in ProtoClients |-> server'.proto[d]]
      /\ IsProto(server'.proto[c])
      /\ server'.proto[c].buffer = y /\ server'.proto[c].handled = k
  BY DEF HasRead
<1>3. AreProto(server'.proto)
  BY <1>1, <1>2, Untouched DEF AreProto
<1>4. Used(server'.core) \subseteq Channels
  BY <1>1, Untouched DEF Channels
<1>5. /\ wire' \in [ProtoClients -> Seq(PieceSet)]
      /\ wire'[c] = r /\ \A d \in ProtoClients \ {c} : wire'[d] = wire[d]
  BY Untouched
<1>6. LitInv(Used(server'.core), server.lights, writer')
  <2>1. \A p \in Used(server'.core) \ {Lowest} :
            writer'[p] = "boblight" => p \in Used(server.core) /\ writer[p] = "boblight"
    BY <1>1, <1>4
  <2>2. QED
    BY <2>1, LitKept, Untouched
<1>7. server'.proto[c].open
  BY <1>2 DEF IsProto
<1>8. StreamOf(c)'
  <2>1. up /\ (client[c].socket = "connected" \/ client[c].socket = "ended")
    BY Untouched DEF StreamOf, Connected, Ended
  <2>2. QED
    BY <1>2, <1>5, <1>7, <2>1 DEF StreamOf, Connected, Ended, IsOpen
<1>9. /\ client' = [d \in ProtoClients |-> client'[d]]
      /\ client'[c] \in [socket : {client'[c].socket}, buffer : {client'[c].buffer},
                         grabbing : {client'[c].grabbing}, video : {client'[c].video},
                         last : {client'[c].last}, skip : {client'[c].skip}]
      /\ \A d \in ProtoClients \ {c} : client'[d] = client[d]
  BY Untouched
<1>10. writer' = [p \in Channels |-> writer'[p]] /\ up' = up
       /\ \E d \in ProtoClients : server'.proto[d].open
  BY <1>7
<1>11. QED
  BY <1>1, <1>3, <1>4, <1>5, <1>6, <1>8, <1>9, <1>10, ProtoStep

LEMMA ProtoServerReadsIInv ==
  ASSUME NEW c \in ProtoClients, NEW n \in 1 .. Len(wire[c])
  PROVE  IInv /\ ProtoServerReads(c, n) => IInv'
<1> SUFFICES ASSUME IInv, ProtoServerReads(c, n) PROVE IInv'
  OBVIOUS
<1> DEFINE w == wire[c]
           b == server.proto[c].buffer
           pieces == SubSeq(w, 1, n)
           x == b \o pieces
           r == SubSeq(w, n + 1, Len(w))
           m == x[FirstEnd(x)].message
           read == ReadData(server, c, pieces, now)
           k == IF HasMessage(x) THEN read.proto[c].handled ELSE NoMessage
           channels == Written(k)
           handled == server.proto[c].handled
<1>1. /\ IsOpen(server, c) /\ server' = read /\ wire' = [wire EXCEPT ![c] = r]
      /\ writer' = [p \in Channels |-> IF p \in channels THEN "proto" ELSE writer[p]]
      /\ UNCHANGED <<client, up>>
  BY DEF ProtoServerReads
<1>2. /\ b \in Seq(PieceSet) /\ w \in Seq(PieceSet)
      /\ InOrder(b \o w, handled, client[c].last)
  BY <1>1, Untouched DEF StreamOf
<1>3. x \in Seq(PieceSet) /\ r \in Seq(PieceSet) /\ b \o w = x \o r
  BY <1>2, QueueReads
<1>4. ServerShape(server) /\ AreProto(server.proto) /\ server.proto[c].open
  BY <1>1, Untouched DEF IsOpen
<1>5. /\ ~HasMessage(x) => HasRead(read, server, c, Used(server.core), x, handled)
      /\ HasMessage(x) => HasRead(read, server, c, Used(server.core) \cup Written(m) \cup {Lowest},
                                  AfterFirst(x), m)
  BY <1>3, <1>4, ReadDataDoes
<1>6. HasMessage(x) => k = m
  BY <1>5 DEF HasRead
<1>7. ~HasMessage(x) => channels = {}
  BY DEF Written, NoMessage, Message
<1> HIDE DEF x, r, read, k, m, w, b, handled
<1>8. CASE ~HasMessage(x)
  <2>1. HasRead(server', server, c, Used(server.core) \cup channels \cup {Lowest}, x, handled)
    BY <1>1, <1>5, <1>8 DEF HasRead
  <2>2. InOrder(x \o r, handled, client[c].last)
    BY <1>2, <1>3
  <2>3. channels \subseteq Channels
    BY <1>7, <1>8
  <2> HIDE DEF channels
  <2>4. QED
    BY <1>1, <1>3, <2>1, <2>2, <2>3, HasReadIInv
<1>9. CASE HasMessage(x)
  <2> DEFINE e == FirstEnd(x)
             y == SubSeq(x, e + 1, Len(x))
  <2>1. e \in 1 .. Len(x)
    BY <1>3, <1>9, FirstEndIsFirst
  <2>2. x[e] \in PieceSet /\ m = x[e].message
    BY <1>3, <2>1 DEF m
  <2>3. channels \subseteq Channels
    BY <1>6, <1>9, <2>2, StreamMessages DEF Written, PieceSet
  <2> HIDE DEF e
  <2>4. /\ y \in Seq(PieceSet) /\ y \o r \in Seq(PieceSet)
        /\ y \o r # <<>> => (y \o r)[Len(y \o r)] = (x \o r)[Len(x \o r)]
        /\ y \o r = <<>> => x[e] = (x \o r)[Len(x \o r)]
    BY <1>3, <2>1, QueueSkips
  <2>5. HasRead(server', server, c, Used(server.core) \cup channels \cup {Lowest}, y, m)
    BY <1>1, <1>5, <1>6, <1>9 DEF AfterFirst, e
  <2> HIDE DEF y, channels
  <2>6. x \o r # <<>>
    <3>1. Len(x) \in Nat \ {0} /\ x # <<>>
      BY <1>3, <2>1
    <3>2. QED
      BY <1>3, <3>1, ConcatEqualIffEmpty
  <2>7. InOrder(y \o r, m, client[c].last)
    BY <1>2, <1>3, <2>2, <2>4, <2>6 DEF InOrder
  <2>8. QED
    BY <1>1, <1>3, <2>3, <2>4, <2>5, <2>7, HasReadIInv
<1>10. QED
  BY <1>8, <1>9

(* A connection ends, or the client has ended and its socket is closed.    *)
LEMMA ProtoClosedIInv ==
  ASSUME NEW c \in ProtoClients
  PROVE  IInv /\ (ProtoConnectionLost(c) \/ ProtoClientCloses(c)) => IInv'
<1> SUFFICES ASSUME IInv, ProtoConnectionLost(c) \/ ProtoClientCloses(c) PROVE IInv'
  OBVIOUS
<1> DEFINE none == NoConnection
<1>0. PICK x : client' = [client EXCEPT ![c].socket = x] /\ x # "connected"
  <2>1. CASE ProtoConnectionLost(c)
    <3>1. client' = [client EXCEPT ![c].socket = "unconnected"] /\ "unconnected" # "connected"
      BY <2>1 DEF ProtoConnectionLost
    <3>2. QED
      BY <3>1
  <2>2. CASE ProtoClientCloses(c)
    <3>1. client' = client /\ client[c].socket # "connected"
      BY <2>2 DEF ProtoClientCloses, Ended
    <3>2. client = [client EXCEPT ![c].socket = client[c].socket]
      BY Untouched
    <3>3. QED
      BY <3>1, <3>2
  <2>3. QED
    BY <2>1, <2>2
<1>1. /\ server' = UnRegisterPriority([server EXCEPT !.proto[c] = none], ProtoName)
      /\ wire' = [wire EXCEPT ![c] = <<>>]
      /\ UNCHANGED <<up, writer>>
  BY DEF ProtoConnectionLost, ProtoClientCloses, SocketClosed
<1>2. ~none.open
  BY DEF NoConnection
<1> HIDE DEF none
<1>3. /\ server' \in [core : {server.core}, register : {server'.register},
                      proto : {[server.proto EXCEPT ![c] = none]}, lights : {server.lights},
                      boblight : {server.boblight}, udp : {server.udp}]
      /\ DOMAIN server'.register = DOMAIN server.register \ {ProtoName}
  BY <1>1, Untouched DEF ServerShape, UnRegisterPriority, Restrict
<1>4. /\ server'.proto = [d \in ProtoClients |-> server'.proto[d]]
      /\ server'.proto[c] = none
      /\ \A d \in ProtoClients \ {c} : server'.proto[d] = server.proto[d]
  BY <1>3, Untouched DEF AreProto
<1>5. AreProto(server'.proto)
  BY <1>2, <1>4, Untouched DEF AreProto
<1>6. /\ client' = [d \in ProtoClients |-> client'[d]]
      /\ client'[c] \in [socket : {x}, buffer : {client[c].buffer},
                         grabbing : {client[c].grabbing}, video : {client[c].video},
                         last : {client[c].last}, skip : {client[c].skip}]
      /\ \A d \in ProtoClients \ {c} : client'[d] = client[d]
  BY <1>0, Untouched
<1>7. /\ wire' \in [ProtoClients -> Seq(PieceSet)]
      /\ wire'[c] = <<>> /\ \A d \in ProtoClients \ {c} : wire'[d] = wire[d]
  BY <1>1, Untouched, EmptySeq
<1>8. StreamOf(c)'
  BY <1>0, <1>2, <1>4, <1>6, <1>7 DEF StreamOf, Connected, Ended, IsOpen
<1>9. /\ server' \in [core : {server'.core}, register : {server'.register},
                      proto : {server'.proto}, lights : {server.lights},
                      boblight : {server.boblight}, udp : {server.udp}]
      /\ server'.core = server.core /\ ProtoName \notin DOMAIN server'.register
      /\ DOMAIN server'.register \ {ProtoName} = DOMAIN server.register \ {ProtoName}
  BY <1>3
<1>10. /\ CoreShape(server'.core) /\ Used(server'.core) \subseteq Channels
       /\ writer' = [p \in Channels |-> writer'[p]] /\ up' = up
       /\ LitInv(Used(server'.core), server.lights, writer')
  BY <1>1, <1>9, Untouched
<1>11. client'[c] \in [socket : {client'[c].socket}, buffer : {client'[c].buffer},
                       grabbing : {client'[c].grabbing}, video : {client'[c].video},
                       last : {client'[c].last}, skip : {client'[c].skip}]
  BY <1>6
<1>12. QED
  BY <1>4, <1>5, <1>6, <1>7, <1>8, <1>9, <1>10, <1>11, ProtoStep

(* A message may end the client that reads it, and changes nothing else    *)
(* that the invariant speaks of.                                           *)
LEMMA ReadReplyDoes ==
  ASSUME NEW x, NEW pieces,
         x \in [socket : {x.socket}, buffer : {x.buffer}, grabbing : {x.grabbing},
                video : {x.video}, last : {x.last}, skip : {x.skip}]
  PROVE  LET read == ReadReply(x, pieces)
         IN /\ read \in [socket : {read.socket}, buffer : {read.buffer},
                          grabbing : {read.grabbing}, video : {read.video},
                          last : {x.last}, skip : {x.skip}]
            /\ read.socket \in {x.socket, "ended"}
<1> DEFINE fits(g) == /\ g \in [socket : {g.socket}, buffer : {g.buffer},
                                 grabbing : {g.grabbing}, video : {g.video},
                                 last : {x.last}, skip : {x.skip}]
                      /\ g.socket \in {x.socket, "ended"}
<1>1. ASSUME NEW b PROVE fits([x EXCEPT !.buffer = b])
  OBVIOUS
<1>2. ASSUME NEW g, fits(g), NEW k PROVE fits(ParseReply(g, k))
  <2>1. fits([g EXCEPT !.socket = "ended"]) /\ fits([g EXCEPT !.video = "2D"])
        /\ fits([g EXCEPT !.grabbing = k.value])
    BY <1>2
  <2> HIDE DEF fits
  <2>2. QED
    BY <1>2, <2>1 DEF ParseReply
<1>3. fits(ReadReply(x, pieces))
  <2> HIDE DEF fits
  <2>1. QED
    BY <1>1, <1>2 DEF ReadReply
<1>4. QED
  BY <1>3

LEMMA ProtoClientReadsIInv ==
  ASSUME NEW c \in ProtoClients, NEW n PROVE IInv /\ ProtoClientReads(c, n) => IInv'
<1> SUFFICES ASSUME IInv, ProtoClientReads(c, n) PROVE IInv'
  OBVIOUS
<1> DEFINE old  == server.proto[c]
           out  == SubSeq(old.out, n + 1, Len(old.out))
           new  == [old EXCEPT !.out = out]
           read == ReadReply(client[c], SubSeq(old.out, 1, n))
<1>1. /\ IsOpen(server, c) /\ server' = [server EXCEPT !.proto[c].out = out]
      /\ client' = [client EXCEPT ![c] = read]
      /\ UNCHANGED <<up, wire, writer>>
  BY DEF ProtoClientReads
<1>2. IsProto(old)
  BY <1>1, Untouched DEF AreProto, IsOpen
<1>5. /\ read \in [socket : {read.socket}, buffer : {read.buffer},
                    grabbing : {read.grabbing}, video : {read.video},
                    last : {client[c].last}, skip : {client[c].skip}]
      /\ read.socket \in {"connected", "ended"}
  <2>1. client[c].socket = "connected"
    BY DEF ProtoClientReads, Connected
  <2>2. QED
    BY <2>1, ReadReplyDoes, Untouched
<1> HIDE DEF read, out
<1>6. IsProto(new) /\ new.open /\ new.buffer = old.buffer /\ new.handled = old.handled
  BY <1>2 DEF IsProto
<1>7. server' \in [core : {server.core}, register : {server.register},
                  proto : {[server.proto EXCEPT ![c] = new]}, lights : {server.lights},
                  boblight : {server.boblight}, udp : {server.udp}]
  BY <1>1, Untouched DEF ServerShape
<1> HIDE DEF new, old
<1>8. /\ server'.proto = [d \in ProtoClients |-> server'.proto[d]]
      /\ server'.proto[c] = new
      /\ \A d \in ProtoClients \ {c} : server'.proto[d] = server.proto[d]
  BY <1>7, Untouched DEF AreProto
<1>9. AreProto(server'.proto)
  BY <1>6, <1>8, Untouched DEF AreProto
<1>10. /\ client' = [d \in ProtoClients |-> client'[d]]
       /\ client'[c] = read
       /\ \A d \in ProtoClients \ {c} : client'[d] = client[d]
  BY <1>1, Untouched
<1>11. /\ client'[c] \in [socket : {client'[c].socket}, buffer : {client'[c].buffer},
                          grabbing : {client'[c].grabbing}, video : {client'[c].video},
                          last : {client'[c].last}, skip : {client'[c].skip}]
       /\ client'[c].socket \in {"connected", "ended"} /\ client'[c].last = client[c].last
  BY <1>5, <1>10
<1>12. StreamOf(c)'
  BY <1>1, <1>6, <1>8, <1>11, Untouched DEF StreamOf, Connected, Ended, IsOpen, old
<1>13. /\ server' \in [core : {server'.core}, register : {server'.register},
                       proto : {server'.proto}, lights : {server.lights},
                       boblight : {server.boblight}, udp : {server.udp}]
       /\ server'.core = server.core
       /\ DOMAIN server'.register \ {ProtoName} = DOMAIN server.register \ {ProtoName}
       /\ \E d \in ProtoClients : server'.proto[d].open
  BY <1>6, <1>7, <1>8
<1>14. /\ CoreShape(server'.core) /\ Used(server'.core) \subseteq Channels
       /\ writer' = [p \in Channels |-> writer'[p]] /\ up' = up
       /\ wire' \in [ProtoClients -> Seq(PieceSet)]
       /\ \A d \in ProtoClients \ {c} : wire'[d] = wire[d]
       /\ LitInv(Used(server'.core), server.lights, writer')
  BY <1>1, <1>13, Untouched
<1>15. QED
  BY <1>8, <1>9, <1>10, <1>11, <1>12, <1>13, <1>14, ProtoStep

(* A signal of the Kodi checker reaches every connection at once.          *)
LEMMA KodiIInv ==
  ASSUME NEW m PROVE IInv /\ server' = SendToAll(server, m) /\ UNCHANGED <<client, wire, up, writer>> => IInv'
<1> SUFFICES ASSUME IInv, server' = SendToAll(server, m), UNCHANGED <<client, wire, up, writer>>
             PROVE  IInv'
  OBVIOUS
<1> DEFINE proto == [c \in ProtoClients |->
                        IF IsOpen(server, c)
                          THEN [server.proto[c] EXCEPT !.out = @ \o Pieces(m)] ELSE NoConnection]
<1>1. server' \in [core : {server.core}, register : {server.register}, proto : {proto},
                  lights : {server.lights}, boblight : {server.boblight}, udp : {server.udp}]
  BY Untouched DEF ServerShape, SendToAll
<1>2. ASSUME NEW c \in ProtoClients
      PROVE  /\ proto[c].open <=> server.proto[c].open
             /\ proto[c].open => /\ IsProto(proto[c])
                                 /\ proto[c].buffer = server.proto[c].buffer
                                 /\ proto[c].handled = server.proto[c].handled
  <2>1. CASE IsOpen(server, c)
    <3>1. IsProto(server.proto[c])
      BY <2>1, Untouched DEF AreProto, IsOpen
    <3>2. QED
      BY <2>1, <3>1 DEF IsProto, IsOpen
  <2>2. CASE ~IsOpen(server, c)
    BY <2>2 DEF IsOpen, NoConnection
  <2>3. QED
    BY <2>1, <2>2
<1>3. proto = [c \in ProtoClients |-> proto[c]]
  OBVIOUS
<1> HIDE DEF proto
<1>4. AreProto(proto)
  BY <1>2, <1>3 DEF AreProto
<1>5. Shapes'
  BY <1>1, <1>4 DEF IInv, Shapes, ServerShape
<1>6. ASSUME NEW c \in ProtoClients PROVE StreamOf(c)'
  BY <1>1, <1>2, Untouched DEF StreamOf, Connected, Ended, IsOpen
<1>7. Registered'
  BY <1>1, <1>2 DEF IInv, Registered, IsOpen
<1>8. LitInv(Used(server'.core), server'.lights, writer')
  BY <1>1, Untouched
<1>9. QED
  BY <1>5, <1>6, <1>7, <1>8 DEF IInv

LEMMA KodiSetsModeIInv ==
  ASSUME NEW mode
  PROVE  IInv /\ (KodiSetsGrabbingMode(mode) \/ KodiSetsVideoMode(mode)) => IInv'
<1>1. \A m : IInv /\ server' = SendToAll(server, m) /\ UNCHANGED <<client, wire, up, writer>> => IInv'
  BY KodiIInv
<1>2. KodiSetsGrabbingMode(mode) =>
          server' = SendToAll(server, [type |-> "GRABBING", value |-> mode])
          /\ UNCHANGED <<client, wire, up, writer>>
  BY DEF KodiSetsGrabbingMode, SetGrabbingMode
<1>3. KodiSetsVideoMode(mode) =>
          server' = SendToAll(server, [type |-> "VIDEO"]) /\ UNCHANGED <<client, wire, up, writer>>
  BY DEF KodiSetsVideoMode, SetVideoMode
<1>4. QED
  BY <1>1, <1>2, <1>3

LEMMA CrashIInv == IInv /\ Crash => IInv'
<1> SUFFICES ASSUME IInv, Crash PROVE IInv'
  OBVIOUS
<1> DEFINE none == [c \in ProtoClients |-> NoConnection]
           lost(c) == [client[c] EXCEPT !.socket = IF @ = "connected" THEN "unconnected" ELSE @]
<1>1. /\ ~up' /\ server' = [server EXCEPT !.proto = none]
      /\ client' = [c \in ProtoClients |-> lost(c)]
      /\ wire' = [c \in ProtoClients |-> <<>>]
      /\ writer' = writer
  BY DEF Crash
<1>2. server' \in [core : {server.core}, register : {server.register}, proto : {none},
                  lights : {server.lights}, boblight : {server.boblight}, udp : {server.udp}]
  BY <1>1, Untouched DEF ServerShape
<1>3. AreProto(none) /\ \A c \in ProtoClients : ~none[c].open
  BY DEF AreProto, NoConnection
<1>4. ASSUME NEW c \in ProtoClients
      PROVE  /\ lost(c) \in [socket : {lost(c).socket}, buffer : {lost(c).buffer},
                             grabbing : {lost(c).grabbing}, video : {lost(c).video},
                             last : {lost(c).last}, skip : {lost(c).skip}]
             /\ lost(c).socket # "connected"
  BY Untouched
<1> HIDE DEF none, lost
<1>5. Shapes'
  <2>1. wire' \in [ProtoClients -> Seq(PieceSet)]
    BY <1>1, EmptySeq
  <2>2. client' = [c \in ProtoClients |-> client'[c]] /\ \A c \in ProtoClients : client'[c] = lost(c)
    BY <1>1
  <2>3. \A c \in ProtoClients :
           client'[c] \in [socket : {client'[c].socket}, buffer : {client'[c].buffer},
                          grabbing : {client'[c].grabbing}, video : {client'[c].video},
                          last : {client'[c].last}, skip : {client'[c].skip}]
    BY <1>4, <2>2
  <2>4. ServerShape(server') /\ AreProto(server'.proto) /\ AreLights(server'.lights)
    BY <1>2, <1>3 DEF IInv, Shapes, ServerShape
  <2>5. writer' = [p \in Channels |-> writer'[p]]
    BY <1>1, Untouched
  <2>6. QED
    BY <2>1, <2>2, <2>3, <2>4, <2>5 DEF Shapes
<1>6. ASSUME NEW c \in ProtoClients PROVE StreamOf(c)'
  BY <1>1, <1>2, <1>3, <1>4 DEF StreamOf, Connected, Ended, IsOpen
<1>7. Registered'
  BY <1>1, <1>2 DEF IInv, Registered
<1>8. LitInv(Used(server'.core), server'.lights, writer')
  BY <1>1, <1>2, Untouched
<1>9. QED
  BY <1>5, <1>6, <1>7, <1>8 DEF IInv

LEMMA RestartIInv == IInv /\ Restart => IInv'
<1> SUFFICES ASSUME IInv, Restart PROVE IInv'
  OBVIOUS
<1>1. /\ ~up /\ server' = NewServer /\ writer' = [p \in Channels |-> "none"]
      /\ UNCHANGED <<client, wire>>
  BY DEF Restart
<1>2. /\ ServerShape(server') /\ AreProto(server'.proto) /\ AreLights(server'.lights)
      /\ Used(server'.core) = {Lowest}
      /\ \A c \in ProtoClients : ~server'.proto[c].open
      /\ DOMAIN server'.register = {"Off", "UDPLISTENER", "Boblight"} /\ server'.boblight
  BY <1>1, NewServerIs
<1>3. Shapes'
  BY <1>1, <1>2, Untouched DEF Shapes
<1>4. ASSUME NEW c \in ProtoClients PROVE StreamOf(c)'
  BY <1>1, <1>2, Untouched DEF StreamOf, Connected, Ended, IsOpen
<1>5. Registered'
  BY <1>2 DEF Registered, ProtoName
<1>6. LitInv(Used(server'.core), server'.lights, writer')
  BY <1>2 DEF LitInv
<1>7. QED
  BY <1>3, <1>4, <1>5, <1>6 DEF IInv

-----------------------------------------------------------------------------
LEMMA NextIInv == IInv /\ [Next]_vars => IInv'
<1> SUFFICES ASSUME IInv, [Next]_vars PROVE IInv'
  OBVIOUS
<1>1. CASE UNCHANGED vars
  BY <1>1 DEF vars, IInv, Shapes, StreamOf, Connected, Ended, IsOpen, Registered
<1>2. ASSUME NEW c \in ProtoClients,
             \/ ConnectToHost(c) \/ Refused(c) \/ Accepted(c)
             \/ \E m \in Messages : ProtoClientSends(c, m)
             \/ \E n \in 1 .. Len(wire[c]) : ProtoServerReads(c, n)
             \/ \E n \in 1 .. Len(server.proto[c].out) : ProtoClientReads(c, n)
             \/ ProtoClientCloses(c) \/ ProtoConnectionLost(c)
      PROVE  IInv'
  BY <1>2, SocketIInv, AcceptedIInv, ProtoClientSendsIInv, ProtoServerReadsIInv,
     ProtoClientReadsIInv, ProtoClosedIInv
<1>3. ASSUME NEW mode, KodiSetsGrabbingMode(mode) \/ KodiSetsVideoMode(mode) PROVE IInv'
  BY <1>3, KodiSetsModeIInv
<1>4. ASSUME NEW b \in BoblightClients,
             \/ BoblightConnects(b) \/ BoblightSyncs(b) \/ BoblightCloses(b)
             \/ \E p \in Channels : BoblightSetsPriority(b, p)
      PROVE  IInv'
  BY <1>4, BoblightConnectsIInv, BoblightSyncsIInv, BoblightClosesIInv, BoblightSetsPriorityIInv
<1>5. ASSUME NEW enable, BoblightEnabled(enable) \/ UdpEnabled(enable) PROVE IInv'
  BY <1>5, BoblightEnabledIInv, UdpEnabledIInv
<1>6. CASE UdpReceives \/ TimerFires \/ Tick
  BY <1>6, UdpReceivesIInv, TimerFiresIInv, TickIInv
<1>7. CASE Crash \/ Restart
  BY <1>7, CrashIInv, RestartIInv
<1>8. QED
  BY <1>1, <1>2, <1>3, <1>4, <1>5, <1>6, <1>7 DEF Next

(* The servers and their clients always satisfy the inductive invariant.   *)
THEOREM StreamsInv == Spec => []IInv
<1>1. QED
  BY InitIInv, NextIInv, PTL DEF Spec

(* However boblight connections move between channels, share them and are  *)
(* closed, what boblight wrote last is the channel of one that is open:    *)
(* BoblightClientConnection::socketClosed, "set priority" and the          *)
(* destructor clear every other one.                                       *)
THEOREM BoblightClearsUp == Spec => []BoblightLeavesNothing
<1>1. IInv => BoblightLeavesNothing
  BY DEF IInv, LitInv, BoblightLeavesNothing, Used, IsLit
<1>2. QED
  BY <1>1, StreamsInv, PTL

(* ProtoClientConnection::readData handles the messages of a client in     *)
(* order and loses none, in however many pieces they arrive.               *)
THEOREM MessagesAreHandled == Spec => []LastMessageHandled
<1>1. IInv => LastMessageHandled
  <2> SUFFICES ASSUME IInv, NEW c \in ProtoClients, IsOpen(server, c), wire[c] = <<>>,
                      server.proto[c].buffer = <<>>
               PROVE  server.proto[c].handled = client[c].last
    BY DEF LastMessageHandled
  <2>1. <<>> \o <<>> = <<>>
    BY EmptySeq, ConcatEmptySeq
  <2>2. InOrder(server.proto[c].buffer \o wire[c], server.proto[c].handled, client[c].last)
    BY DEF IInv, StreamOf
  <2>3. QED
    BY <2>1, <2>2 DEF InOrder
<1>2. QED
  BY <1>1, StreamsInv, PTL

(* Hyperion::registerPriority and unRegisterPriority are called in pairs:  *)
(* Proto's name is registered only while a client is connected, and        *)
(* boblight's exactly while its server is active.                          *)
THEOREM RegisterCorrect == Spec => []RegisteredIsOpen
<1>1. IInv => RegisteredIsOpen
  BY DEF IInv, Registered, RegisteredIsOpen, Running
<1>2. QED
  BY <1>1, StreamsInv, PTL

==============================================================================
