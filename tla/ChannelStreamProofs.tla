------------------------- MODULE ChannelStreamProofs -------------------------
(***************************************************************************)
(* What a channel carries, proved for every window, packet size, pair of   *)
(* features and traffic: no byte is lost, doubled or reordered, the end of *)
(* file comes after the last byte, and the channel implements the pair of  *)
(* byte pipes of module BytePipe.  Ascending (ChannelProofs) says that     *)
(* what is on a link is in order and disjoint; the argument here adds that *)
(* it has no gap (Covers) for as long as the receiving end can still take  *)
(* it, which needs the order of the handshake: nobody drops data because   *)
(* they come before the answer or behind the Close.                        *)
(***************************************************************************)
EXTENDS ChannelProofs, WellFoundedInduction

\* The messages of one type in q carry every position from lo to hi.
Covers(q, type, lo, hi) ==
  \A k \in lo .. hi - 1 :
    \E i \in 1 .. Len(q) : q[i].type = type /\ q[i].from <= k /\ k < q[i].upto

\* Nothing has been sent after the Close.
NoDataBehindClose(q) ==
  \A i, j \in 1 .. Len(q) : i < j /\ q[i].type = "ChannelClose" => q[j].type # "ChannelData"

\* The acceptor has not answered.
Unanswered == state["acceptor"] \in {"Init", "ConnectResponding"}

\* End e takes, or will take, data that its peer sends.
Able(e) == state[e] \notin {"CloseResponding", "Closed", "Rejected"}

\* The states in which Send may be called.
WriteInv ==
  \A e \in Ends : allowWrite[e] =>
    \/ state[e] \in {"Connected", "CloseResponding"}
    \/ FastConnect /\ e = "initiator" /\ state[e] \in {"Connecting", "Rejected"}

\* The order of the handshake: the request is the first message to the
\* acceptor and the answer the first one to the initiator.
HandshakeInv ==
  /\ state["initiator"] = "Init" => state["acceptor"] = "Init" /\ link["acceptor"] = <<>>
  /\ state["initiator"] # "Init" /\ state["acceptor"] = "Init" =>
       Incoming("acceptor", "SetupChannel")
  /\ Unanswered =>
       link["initiator"] = <<>> /\ state["initiator"] \notin {"Connected", "CloseResponding"}
  /\ state["initiator"] = "Connecting" /\ ~Unanswered =>
       Incoming("initiator", "SetupChannelResponse")
  /\ ~FastConnect /\ Unanswered => sent["initiator"] = 0

\* What an end has not yet taken is under way without a gap, and an end that
\* its peer has closed has everything.
StreamInv ==
  \A e \in Ends :
    /\ Able(e) => Covers(link[e], "ChannelData", arrived[e], sent[Peer(e)])
    /\ Able(e) => NoDataBehindClose(link[e])
    /\ state[e] = "CloseResponding" => arrived[e] = sent[Peer(e)]
    /\ eof[e] => recvQueue[e] = <<>> /\ state[e] \in {"CloseResponding", "Closed"}

\* What is known of a state before its next step, for everything below.
Context == CloseOK /\ RegistryInv
-----------------------------------------------------------------------------
(* Facts about Covers.                                                     *)

\* With the order of Ascending, the first message of a type starts where the
\* interval does, and the rest goes on where it ends.
LEMMA CoversTail ==
  ASSUME NEW q \in Seq(Message), q # <<>>, NEW lo \in Nat, NEW hi \in Nat,
         NEW type \in {"ChannelData", "ChannelWindowAdjust"},
         Ascending(q, type, lo, hi), Covers(q, type, lo, hi)
  PROVE  /\ Head(q).type # type => Covers(Tail(q), type, lo, hi)
         /\ Head(q).type = type =>
              Head(q).from = lo /\ Covers(Tail(q), type, Head(q).upto, hi)
  <1>1. /\ Len(q) \in Nat \ {0}
        /\ Len(Tail(q)) = Len(q) - 1
        /\ \A i \in 1 .. Len(Tail(q)) : Tail(q)[i] = q[i + 1]
        /\ Head(q) = q[1]
    BY HeadTailProperties, EmptySeq
  <1>2. \A i \in 1 .. Len(q) : q[i].type = type => q[i].from \in Nat /\ q[i].upto \in Nat
    BY ElementOfSeq, MessageFields
  <1>3. ASSUME NEW i \in 1 .. Len(q), i # 1
        PROVE  \E j \in 1 .. Len(Tail(q)) : Tail(q)[j] = q[i]
    <2>1. i - 1 \in 1 .. Len(Tail(q)) /\ Tail(q)[i - 1] = q[i]
      BY <1>1, <1>3
    <2> QED
      BY <2>1
  <1>4. ASSUME Head(q).type # type, NEW k \in lo .. hi - 1
        PROVE  \E j \in 1 .. Len(Tail(q)) :
                 Tail(q)[j].type = type /\ Tail(q)[j].from <= k /\ k < Tail(q)[j].upto
    <2>1. PICK i \in 1 .. Len(q) : q[i].type = type /\ q[i].from <= k /\ k < q[i].upto
      BY DEF Covers
    <2>2. i # 1
      BY <1>1, <1>4, <2>1
    <2> QED
      BY <1>3, <2>1, <2>2
  <1>5. ASSUME Head(q).type = type
        PROVE  /\ Head(q).from = lo
               /\ \A k \in Head(q).upto .. hi - 1 : \E j \in 1 .. Len(Tail(q)) :
                    Tail(q)[j].type = type /\ Tail(q)[j].from <= k /\ k < Tail(q)[j].upto
    <2>1. /\ 1 \in 1 .. Len(q) /\ q[1].from \in Nat /\ q[1].upto \in Nat
          /\ lo <= q[1].from /\ q[1].from < q[1].upto /\ q[1].upto <= hi
      BY <1>1, <1>2, <1>5 DEF Ascending
    <2>2. q[1].from = lo
      <3>1. lo \in lo .. hi - 1
        BY <2>1
      <3>2. PICK i \in 1 .. Len(q) : q[i].type = type /\ q[i].from <= lo /\ lo < q[i].upto
        BY <3>1 DEF Covers
      <3>3. i # 1 => 1 < i
        BY <1>1
      <3>4. i # 1 => q[1].upto <= q[i].from
        BY <1>1, <1>5, <2>1, <3>2, <3>3 DEF Ascending
      <3> QED
        BY <1>2, <2>1, <3>2, <3>4
    <2>3. ASSUME NEW k \in q[1].upto .. hi - 1
          PROVE  \E j \in 1 .. Len(Tail(q)) :
                   Tail(q)[j].type = type /\ Tail(q)[j].from <= k /\ k < Tail(q)[j].upto
      <3>1. k \in lo .. hi - 1
        BY <2>1, <2>3
      <3>2. PICK i \in 1 .. Len(q) : q[i].type = type /\ q[i].from <= k /\ k < q[i].upto
        BY <3>1 DEF Covers
      <3>3. i # 1
        BY <2>1, <2>3, <3>2
      <3> QED
        BY <1>3, <3>2, <3>3
    <2> QED
      BY <1>1, <2>2, <2>3
  <1> QED
    BY <1>4, <1>5 DEF Covers

\* Appending to what covers an interval covers what both cover.
LEMMA CoversConcat ==
  ASSUME NEW q \in Seq(Message), NEW p \in Seq(Message), NEW type,
         NEW lo \in Nat, NEW hi \in Nat, NEW hj \in Nat,
         Covers(q, type, lo, hi), Covers(p, type, hi, hj)
  PROVE  Covers(q \o p, type, lo, hj)
  <1>1. /\ Len(q \o p) = Len(q) + Len(p)
        /\ Len(q) \in Nat /\ Len(p) \in Nat
        /\ \A i \in 1 .. Len(q) + Len(p) :
             (q \o p)[i] = IF i <= Len(q) THEN q[i] ELSE p[i - Len(q)]
    BY ConcatProperties, LenProperties
  <1>2. \A i \in 1 .. Len(q) : i \in 1 .. Len(q \o p) /\ (q \o p)[i] = q[i]
    BY <1>1
  <1>3. \A i \in 1 .. Len(p) :
          i + Len(q) \in 1 .. Len(q \o p) /\ (q \o p)[i + Len(q)] = p[i]
    BY <1>1
  <1>4. ASSUME NEW k \in lo .. hj - 1
        PROVE  \E i \in 1 .. Len(q \o p) :
                 (q \o p)[i].type = type /\ (q \o p)[i].from <= k /\ k < (q \o p)[i].upto
    <2>1. CASE k < hi
      <3>1. PICK i \in 1 .. Len(q) : q[i].type = type /\ q[i].from <= k /\ k < q[i].upto
        BY <2>1 DEF Covers
      <3> QED
        BY <1>2, <3>1
    <2>2. CASE ~(k < hi)
      <3>1. PICK i \in 1 .. Len(p) : p[i].type = type /\ p[i].from <= k /\ k < p[i].upto
        BY <2>2 DEF Covers
      <3> QED
        BY <1>3, <3>1
    <2> QED
      BY <2>1, <2>2
  <1> QED
    BY <1>4 DEF Covers

\* Every sequence covers an empty interval; one without messages of the type
\* covers no other.
LEMMA CoversEmpty ==
  ASSUME NEW q, NEW type, NEW lo \in Nat
  PROVE  Covers(q, type, lo, lo)
  BY DEF Covers

LEMMA CoversNone ==
  ASSUME NEW q, NEW type, NEW lo \in Nat, NEW hi \in Nat, lo <= hi,
         Covers(q, type, lo, hi), \A i \in 1 .. Len(q) : q[i].type # type
  PROVE  lo = hi
  <1>1. \A k \in lo .. hi - 1 : FALSE
    BY DEF Covers
  <1>2. lo < hi => lo \in lo .. hi - 1
    OBVIOUS
  <1> QED
    BY <1>1, <1>2

\* The pieces that Send cuts leave out nothing.
LEMMA PiecesCover ==
  ASSUME NEW from \in Nat, NEW n \in Nat \ {0}
  PROVE  Covers(Pieces(from, n), "ChannelData", from, from + n)
  <1> DEFINE count == (n + MaxPacket - 1) \div MaxPacket
             p == Pieces(from, n)
  <1> USE ChannelAssumption
  <1>1. count \in Nat /\ n <= count * MaxPacket
    <2>1. count \in Int
      BY Z3
    <2>2. /\ n + MaxPacket - 1 = MaxPacket * count + ((n + MaxPacket - 1) % MaxPacket)
          /\ (n + MaxPacket - 1) % MaxPacket \in 0 .. (MaxPacket - 1)
      BY SMT
    <2>3. n <= count * MaxPacket
      BY <2>1, <2>2, SMT
    <2>4. count > 0
      BY <2>1, <2>3, SMT
    <2> QED
      BY <2>1, <2>3, <2>4
  <1>2. /\ Len(p) = count
        /\ \A i \in 1 .. count :
             p[i] = DataMsg(from + (i - 1) * MaxPacket,
                            IF i = count THEN from + n ELSE from + i * MaxPacket)
    BY <1>1 DEF Pieces
  <1> HIDE DEF count, p
  <1>3. ASSUME NEW k \in from .. from + n - 1
        PROVE  \E i \in 1 .. Len(p) : p[i].type = "ChannelData" /\ p[i].from <= k /\ k < p[i].upto
    <2> DEFINE m == (k - from) \div MaxPacket
    <2>1. m \in Nat /\ m * MaxPacket <= k - from /\ k - from < (m + 1) * MaxPacket
      <3>1. m \in Int
        BY Z3
      <3>2. /\ k - from = MaxPacket * m + ((k - from) % MaxPacket)
            /\ (k - from) % MaxPacket \in 0 .. (MaxPacket - 1)
        BY SMT
      <3>3. m * MaxPacket <= k - from /\ k - from < (m + 1) * MaxPacket
        BY <3>1, <3>2, SMT
      <3>4. m >= 0
        BY <3>1, <3>3, SMT
      <3> QED
        BY <3>1, <3>3, <3>4
    <2> HIDE DEF m
    <2>2. m < count
      <3>1. m >= count => count * MaxPacket <= m * MaxPacket
        BY <1>1, <2>1
      <3>2. m * MaxPacket \in Nat /\ count * MaxPacket \in Nat
        BY <1>1, <2>1
      <3> QED
        BY <1>1, <2>1, <3>1, <3>2
    <2>3. m + 1 \in 1 .. count
      BY <1>1, <2>1, <2>2
    <2>4. p[m + 1] = DataMsg(from + m * MaxPacket,
                             IF m + 1 = count THEN from + n ELSE from + (m + 1) * MaxPacket)
      BY <1>2, <2>1, <2>3
    <2>5. /\ p[m + 1].type = "ChannelData"
          /\ p[m + 1].from = from + m * MaxPacket
          /\ p[m + 1].upto = IF m + 1 = count THEN from + n ELSE from + (m + 1) * MaxPacket
      BY <2>4 DEF DataMsg
    <2>6. m * MaxPacket \in Nat /\ (m + 1) * MaxPacket \in Nat
      BY <2>1
    <2>7. p[m + 1].from <= k /\ k < p[m + 1].upto
      BY <2>1, <2>5, <2>6
    <2> QED
      BY <1>2, <2>3, <2>5, <2>7
  <1> QED
    BY <1>3 DEF Covers, p
-----------------------------------------------------------------------------
(* The order of the handshake.                                             *)

\* What Context says that is needed here.
LEMMA ContextFacts ==
  ASSUME Context
  PROVE  /\ TypeInv /\ Traffic /\ HeadStart /\ WindowBooks /\ ~aborted
         /\ state \in [Ends -> States]
         /\ link \in [Ends -> Seq(Message)]
         /\ allowWrite \in [Ends -> BOOLEAN]
         /\ eof \in [Ends -> BOOLEAN]
         /\ "initiator" \in Ends /\ "acceptor" \in Ends
         /\ Peer("initiator") = "acceptor" /\ Peer("acceptor") = "initiator"
         /\ \A e \in Ends : e = "initiator" \/ e = "acceptor"
         /\ \A e \in Ends : registered[e] = Held(e)
         /\ state["initiator"] # "ConnectResponding"
         /\ state["acceptor"] # "Connecting"
  BY DEF Context, CloseOK, FlowInv, TypeInv, RegistryInv, SetupInv, Ends, Peer

LEMMA WriteNext ==
  ASSUME Context, WriteInv, [Next]_vars
  PROVE  WriteInv'
  <1>1. /\ state \in [Ends -> States] /\ allowWrite \in [Ends -> BOOLEAN]
        /\ state["acceptor"] # "Connecting"
    BY ContextFacts
  <1> USE DEF WriteInv
  <1>2. CASE UNCHANGED <<state, allowWrite>>
    BY <1>2
  <1>3. ASSUME NEW e \in Ends, Connect(e) PROVE WriteInv'
    BY <1>1, <1>3 DEF Connect, Goto, SetAllowWrite
  <1>4. ASSUME NEW e \in Ends, Accept(e) PROVE WriteInv'
    BY <1>1, <1>4 DEF Accept, Goto, SetAllowWrite
  <1>5. ASSUME NEW e \in Ends, Close(e) PROVE WriteInv'
    BY <1>1, <1>5 DEF Close, Reject, Goto, SetAllowWrite
  <1>6. ASSUME NEW e \in Ends, HandleNewChannel(e) PROVE WriteInv'
    BY <1>1, <1>6 DEF HandleNewChannel, Goto
  <1>7. ASSUME NEW e \in Ends, HandleNewChannelResponse(e) PROVE WriteInv'
    <2>1. CASE HandleAccepted(e, Head(link[e]))
      BY <1>1, <2>1 DEF HandleAccepted, Goto, SetAllowWrite
    <2>2. CASE state[e] = "Connecting" /\ HandleRejected(e)
      BY <1>1, <2>2 DEF HandleRejected, Goto
    <2> QED
      BY <1>2, <1>7, <2>1, <2>2 DEF HandleNewChannelResponse
  <1>8. ASSUME NEW e \in Ends, HandleChannelClose(e) PROVE WriteInv'
    BY <1>1, <1>8 DEF HandleChannelClose, Goto
  <1>9. ASSUME NEW e \in Ends, CloseTimeoutTriggered(e) PROVE WriteInv'
    BY <1>1, <1>9 DEF CloseTimeoutTriggered, Goto
  <1>10. ASSUME NEW e \in Ends,
                \/ DropUnregistered(e) \/ HandleChannelData(e) \/ HandleWindowAdjust(e)
                \/ RecvEof(e)
                \/ \E n \in ChunkSizes : Send(e, n)
                \/ \E n \in ReadSizes : Recv(e, n)
         PROVE  WriteInv'
    BY <1>2, <1>10 DEF DropUnregistered, HandleChannelData, HandleWindowAdjust, RecvEof, Send, Recv
  <1>11. UNCHANGED vars => WriteInv'
    BY <1>2 DEF vars
  <1> QED
    BY <1>3, <1>4, <1>5, <1>6, <1>7, <1>8, <1>9, <1>10, <1>11, Zenon DEF Next, Call, Receive

\* What is first on a link stays first when something is sent ...
LEMMA EmitIncoming ==
  ASSUME link \in [Ends -> Seq(Message)], NEW e \in Ends, NEW p \in Seq(Message), Emit(e, p)
  PROVE  /\ link'[e] = link[e]
         /\ \A x \in Ends : \A t : Incoming(x, t) => Incoming(x, t)'
  <1>1. link'[e] = link[e] /\ link'[Peer(e)] = link[Peer(e)] \o p
    BY EmitLink
  <1> DEFINE q == link[Peer(e)]
  <1>2. q \in Seq(Message)
    BY PeerFacts
  <1>3. ASSUME q # <<>> PROVE q \o p # <<>> /\ Head(q \o p) = Head(q)
    <2> HIDE DEF q
    <2>1. /\ Len(q) \in Nat \ {0} /\ Len(p) \in Nat
          /\ q \o p \in Seq(Message) /\ Len(q \o p) = Len(q) + Len(p)
      BY <1>2, <1>3, EmptySeq, ConcatProperties, LenProperties
    <2>2. q \o p # <<>> /\ 1 \in 1 .. Len(q)
      BY <2>1, EmptySeq
    <2>3. Head(q) = q[1] /\ Head(q \o p) = (q \o p)[1]
      BY <1>2, <1>3, <2>1, <2>2, HeadTailProperties
    <2>4. (q \o p)[1] = q[1]
      BY <1>2, <2>2, ConcatProperties
    <2> QED
      BY <2>2, <2>3, <2>4
  <1>4. \A t : Incoming(e, t) => Incoming(e, t)'
    BY <1>1 DEF Incoming
  <1>5. \A t : Incoming(Peer(e), t) => Incoming(Peer(e), t)'
    BY <1>1, <1>3 DEF Incoming
  <1> QED
    BY <1>1, <1>4, <1>5, PeerFacts

\* ... and a single message sent on an empty link is the first.
LEMMA EmitFirst ==
  ASSUME link \in [Ends -> Seq(Message)], NEW e \in Ends, NEW m \in Message,
         Emit(e, <<m>>), link[Peer(e)] = <<>>
  PROVE  Incoming(Peer(e), m.type)'
  <1>1. <<m>> \in Seq(Message) /\ <<>> \o <<m>> = <<m>> /\ <<m>> # <<>> /\ Head(<<m>>) = m
    OBVIOUS
  <1>2. link'[Peer(e)] = <<>> \o <<m>>
    BY <1>1, EmitLink
  <1> QED
    BY <1>1, <1>2 DEF Incoming

\* A step that changes no state and sends something keeps the order.
LEMMA HandshakeSend ==
  ASSUME Context, HandshakeInv, NEW e \in Ends, NEW p \in Seq(Message),
         Emit(e, p), UNCHANGED state,
         state[e] \notin {"Init", "ConnectResponding"},
         sent'["initiator"] # sent["initiator"] => FastConnect \/ ~Unanswered
  PROVE  HandshakeInv'
  <1> DEFINE i == "initiator"
             a == "acceptor"
  <1>1. /\ link'[e] = link[e]
        /\ \A x \in Ends : \A t : Incoming(x, t) => Incoming(x, t)'
    BY ContextFacts, EmitIncoming
  <1>2. e = i \/ e = a
    BY ContextFacts
  <1>3. Unanswered => e = i
    BY <1>2 DEF Unanswered
  <1>4. Unanswered' = Unanswered
    BY DEF Unanswered
  <1>5. state[i] = "Init" => e = a /\ state[a] = "Init"
    BY <1>2 DEF HandshakeInv
  <1>6. state[i] # "Init"
    BY <1>5
  <1> QED
    BY <1>1, <1>3, <1>4, <1>6, ContextFacts DEF HandshakeInv

\* So does one that changes no state and takes a message that is not the one
\* an end waits for.
LEMMA HandshakeConsume ==
  ASSUME Context, HandshakeInv, NEW e \in Ends, link[e] # <<>>, Consume(e),
         UNCHANGED state, sent' = sent,
         state[e] = "Init" => Head(link[e]).type # "SetupChannel",
         state[e] = "Connecting" => Head(link[e]).type # "SetupChannelResponse"
  PROVE  HandshakeInv' /\ state[e] \notin {"Init", "Connecting"}
  <1> DEFINE i == "initiator"
             a == "acceptor"
  <1>1. link'[e] = Tail(link[e]) /\ link'[Peer(e)] = link[Peer(e)]
    BY ContextFacts, ConsumeLink
  <1>2. /\ (e = i /\ Peer(e) = a) \/ (e = a /\ Peer(e) = i)
        /\ state[a] # "Connecting"
    BY ContextFacts
  <1>3. Unanswered' = Unanswered /\ (Unanswered => e = a)
    BY <1>2 DEF Unanswered, HandshakeInv
  <1>4. state[e] \notin {"Init", "Connecting"}
    <2>1. CASE e = i
      BY <1>3, <2>1 DEF HandshakeInv, Incoming, Unanswered
    <2>2. CASE e = a
      BY <1>2, <2>2 DEF HandshakeInv, Incoming, Unanswered
    <2> QED
      BY <1>2, <2>1, <2>2
  <1>5. CASE e = i
    BY <1>1, <1>2, <1>3, <1>4, <1>5 DEF HandshakeInv, Incoming
  <1>6. CASE e = a
    BY <1>1, <1>2, <1>3, <1>4, <1>6 DEF HandshakeInv, Incoming
  <1> QED
    BY <1>2, <1>4, <1>5, <1>6

\* The request and the answers open the way for what follows them.
LEMMA HandshakeConnect ==
  ASSUME Context, HandshakeInv, NEW e \in Ends, Connect(e)
  PROVE  HandshakeInv'
  <1> DEFINE m == SetupMsg(localWindow[e])
  <1>1. /\ e = "initiator" /\ Peer(e) = "acceptor" /\ state[e] = "Init"
        /\ state' = [state EXCEPT ![e] = "Connecting"] /\ Emit(e, <<m>>) /\ sent' = sent
    BY ContextFacts DEF Connect, Goto, streams
  <1>2. m \in Message /\ m.type = "SetupChannel"
    BY ContextFacts, MessageTypes DEF TypeInv, SetupMsg
  <1> HIDE DEF m
  <1>3. /\ state'["initiator"] = "Connecting" /\ state'["acceptor"] = state["acceptor"]
        /\ state["acceptor"] = "Init" /\ link["acceptor"] = <<>> /\ Unanswered /\ Unanswered'
    BY <1>1, ContextFacts DEF HandshakeInv, Unanswered
  <1>4. Incoming("acceptor", "SetupChannel")'
    BY <1>1, <1>2, <1>3, ContextFacts, EmitFirst
  <1>5. link'["initiator"] = link["initiator"]
    BY <1>1, <1>2, OneMessage, ContextFacts, EmitIncoming
  <1> QED
    BY <1>1, <1>3, <1>4, <1>5 DEF HandshakeInv

LEMMA HandshakeAnswer ==
  ASSUME Context, HandshakeInv, NEW e \in Ends, Accept(e) \/ Reject(e)
  PROVE  HandshakeInv'
  <1>1. PICK to \in {"Connected", "Rejected"}, m \in Message :
          /\ state' = [state EXCEPT ![e] = to] /\ Emit(e, <<m>>)
          /\ m.type = "SetupChannelResponse"
    <2>1. localWindow[e] \in Nat
      BY ContextFacts DEF TypeInv
    <2>2. ResponseMsg(TRUE, localWindow[e]) \in Message /\ ResponseMsg(FALSE, 0) \in Message
      BY <2>1, MessageTypes
    <2> QED
      BY <2>2 DEF Accept, Reject, Goto, ResponseMsg
  <1>2. state[e] = "ConnectResponding" /\ sent' = sent
    BY DEF Accept, Reject, streams
  <1>3. e = "acceptor" /\ Peer(e) = "initiator"
    BY <1>2, ContextFacts
  <1>4. /\ Unanswered /\ link["initiator"] = <<>> /\ state["initiator"] # "Init"
        /\ state'["acceptor"] = to /\ ~Unanswered'
    BY <1>1, <1>2, <1>3, ContextFacts DEF HandshakeInv, Unanswered
  <1>5. Incoming("initiator", "SetupChannelResponse")'
    BY <1>1, <1>3, <1>4, ContextFacts, EmitFirst
  <1>6. state'["initiator"] = state["initiator"]
    BY <1>1, <1>3, ContextFacts
  <1> QED
    BY <1>1, <1>4, <1>5, <1>6 DEF HandshakeInv

LEMMA HandshakeClose ==
  ASSUME Context, HandshakeInv, NEW e \in Ends, Close(e)
  PROVE  HandshakeInv'
  <1>1. CASE Reject(e)
    BY <1>1, HandshakeAnswer
  <1>2. CASE ~Reject(e)
    <2>1. PICK to \in Leaving : state' = [state EXCEPT ![e] = to]
      BY <1>2 DEF Close, Goto, Leaving
    <2>2. /\ state[e] \in {"Connected", "CloseResponding", "Connecting"}
          /\ Emit(e, <<CloseMsg>>) /\ sent' = sent
      BY <1>2 DEF Close, streams
    <2>3. <<CloseMsg>> \in Seq(Message)
      BY MessageTypes
    <2>4. /\ link'[e] = link[e]
          /\ \A x \in Ends : \A t : Incoming(x, t) => Incoming(x, t)'
      BY <2>2, <2>3, ContextFacts, EmitIncoming
    <2>5. state'[e] \in Leaving /\ \A x \in Ends \ {e} : state'[x] = state[x]
      BY <2>1, ContextFacts
    <2>6. CASE e = "initiator"
      <3>1. state'["acceptor"] = state["acceptor"] /\ Unanswered' = Unanswered
        BY <2>5, <2>6, ContextFacts DEF Unanswered
      <3> QED
        BY <2>2, <2>4, <2>5, <2>6, <3>1, ContextFacts DEF HandshakeInv, Leaving
    <2>7. CASE e = "acceptor"
      <3>1. state'["initiator"] = state["initiator"] /\ ~Unanswered /\ ~Unanswered'
        BY <2>2, <2>5, <2>7, ContextFacts DEF Unanswered, Leaving
      <3> QED
        BY <2>2, <2>4, <2>5, <2>7, <3>1, ContextFacts DEF HandshakeInv, Leaving, Unanswered
    <2> QED
      BY <2>6, <2>7, ContextFacts
  <1> QED
    BY <1>1, <1>2

LEMMA HandshakeNewChannel ==
  ASSUME Context, HandshakeInv, NEW e \in Ends, HandleNewChannel(e)
  PROVE  HandshakeInv'
  <1>1. /\ Incoming(e, "SetupChannel") /\ state[e] = "Init" /\ sent' = sent
        /\ state' = [state EXCEPT ![e] = "ConnectResponding"] /\ Consume(e)
    BY DEF HandleNewChannel, Goto, streams
  <1>2. link[e] # <<>> /\ Head(link[e]) \in Msgs(e) /\ Head(link[e]).type = "SetupChannel"
    BY <1>1, IncomingMsg DEF Context, CloseOK
  <1>3. e = "acceptor" /\ Peer(e) = "initiator"
    BY <1>2, ContextFacts DEF Context, CloseOK, SetupInv
  <1>4. link'["initiator"] = link["initiator"]
    BY <1>1, <1>2, <1>3, ContextFacts, ConsumeLink
  <1>5. /\ state'["acceptor"] = "ConnectResponding" /\ state'["initiator"] = state["initiator"]
        /\ Unanswered /\ Unanswered' /\ state["initiator"] # "Init"
    BY <1>1, <1>2, <1>3, ContextFacts DEF Unanswered, HandshakeInv
  <1> QED
    BY <1>1, <1>4, <1>5 DEF HandshakeInv

LEMMA HandshakeResponse ==
  ASSUME Context, HandshakeInv, NEW e \in Ends, HandleNewChannelResponse(e)
  PROVE  HandshakeInv'
  <1>1. link[e] # <<>> /\ Head(link[e]).type = "SetupChannelResponse"
    BY DEF HandleNewChannelResponse, Incoming
  <1>2. CASE state[e] # "Connecting" /\ Consume(e) /\ UNCHANGED <<state, streams>>
    BY <1>1, <1>2, HandshakeConsume DEF streams
  <1>3. CASE /\ state[e] = "Connecting"
             /\ HandleAccepted(e, Head(link[e])) \/ HandleRejected(e)
    <2>1. e = "initiator"
      BY <1>3, ContextFacts
    <2>2. PICK to \in {"Connected", "Rejected"} : state' = [state EXCEPT ![e] = to]
      BY <1>3 DEF HandleAccepted, HandleRejected, Goto
    <2>3. /\ state'["initiator"] = to /\ state'["acceptor"] = state["acceptor"]
          /\ ~Unanswered /\ ~Unanswered'
      BY <1>1, <2>1, <2>2, ContextFacts DEF HandshakeInv, Unanswered
    <2> QED
      BY <2>3 DEF HandshakeInv, Unanswered
  <1> QED
    BY <1>2, <1>3 DEF HandleNewChannelResponse

LEMMA HandshakeChannelClose ==
  ASSUME Context, HandshakeInv, NEW e \in Ends, HandleChannelClose(e)
  PROVE  HandshakeInv'
  <1>1. link[e] # <<>> /\ Head(link[e]).type = "ChannelClose" /\ Consume(e) /\ sent' = sent
    BY DEF HandleChannelClose, Incoming, streams
  <1>2. CASE UNCHANGED state
    BY <1>1, <1>2, HandshakeConsume
  <1>3. CASE state[e] \in {"Connected", "Closing"} /\ ~UNCHANGED state
    <2>1. PICK to \in {"CloseResponding", "Closed"} : state' = [state EXCEPT ![e] = to]
      BY <1>3 DEF HandleChannelClose, Goto
    <2>2. state'[e] = to /\ \A x \in Ends \ {e} : state'[x] = state[x]
      BY <2>1, ContextFacts
    <2>3. link'[Peer(e)] = link[Peer(e)]
      BY <1>1, ContextFacts, ConsumeLink
    <2>4. CASE e = "initiator"
      <3>1. state'["acceptor"] = state["acceptor"] /\ ~Unanswered /\ ~Unanswered'
        BY <1>1, <2>2, <2>4, ContextFacts DEF HandshakeInv, Unanswered
      <3> QED
        BY <2>2, <2>4, <3>1 DEF HandshakeInv, Unanswered
    <2>5. CASE e = "acceptor"
      <3>1. state'["initiator"] = state["initiator"] /\ ~Unanswered /\ ~Unanswered'
        BY <1>3, <2>2, <2>5, ContextFacts DEF Unanswered
      <3>2. link'["initiator"] = link["initiator"]
        BY <2>3, <2>5, ContextFacts
      <3> QED
        BY <1>3, <2>2, <2>5, <3>1, <3>2 DEF HandshakeInv, Incoming
    <2> QED
      BY <2>4, <2>5, ContextFacts
  <1> QED
    BY <1>2, <1>3 DEF HandleChannelClose

LEMMA HandshakeTimeout ==
  ASSUME Context, HandshakeInv, NEW e \in Ends, CloseTimeoutTriggered(e)
  PROVE  HandshakeInv'
  <1>1. UNCHANGED <<link, sent>>
    BY DEF CloseTimeoutTriggered, streams
  <1>2. CASE state[e] = "Closing" /\ state' = [state EXCEPT ![e] = "Closed"]
    <2>1. state'[e] = "Closed" /\ \A x \in Ends \ {e} : state'[x] = state[x]
      BY <1>2, ContextFacts
    <2>2. Unanswered' = Unanswered
      BY <1>2, <2>1, ContextFacts DEF Unanswered
    <2>3. CASE e = "initiator"
      <3>1. state'["acceptor"] = state["acceptor"]
        BY <2>1, <2>3, ContextFacts
      <3> QED
        BY <1>1, <1>2, <2>1, <2>2, <2>3, <3>1 DEF HandshakeInv, Incoming
    <2>4. CASE e = "acceptor"
      <3>1. state'["initiator"] = state["initiator"]
        BY <2>1, <2>4, ContextFacts
      <3> QED
        BY <1>1, <1>2, <2>1, <2>2, <2>4, <3>1 DEF HandshakeInv, Incoming
    <2> QED
      BY <2>3, <2>4, ContextFacts
  <1>3. CASE UNCHANGED state
    BY <1>1, <1>3 DEF HandshakeInv, Incoming, Unanswered
  <1> QED
    BY <1>2, <1>3 DEF CloseTimeoutTriggered, Goto

\* What Send does.
LEMMA SendFacts ==
  ASSUME Context, NEW e \in Ends, NEW n \in Nat \ {0}, Send(e, n)
  PROVE  \E p \in Seq(Message) :
           /\ Emit(e, p) /\ allowWrite[e]
           /\ \A i \in 1 .. Len(p) : p[i].type = "ChannelData"
           /\ Covers(p, "ChannelData", sent[e], sent[e] + n)
           /\ sent' = [sent EXCEPT ![e] = @ + n]
           /\ UNCHANGED <<state, recvQueue, arrived, read, eof, granted, credited>>
  <1> DEFINE p == Pieces(sent[e], n)
  <1>1. sent[e] \in Nat
    BY ContextFacts DEF TypeInv
  <1>2. p \in Seq(Message) /\ \A i \in 1 .. Len(p) : p[i].type = "ChannelData"
    BY <1>1, PiecesAscend
  <1>3. Covers(p, "ChannelData", sent[e], sent[e] + n)
    BY <1>1, PiecesCover
  <1>4. /\ Emit(e, p) /\ allowWrite[e]
        /\ sent' = [sent EXCEPT ![e] = @ + n]
        /\ UNCHANGED <<state, recvQueue, arrived, read, eof, granted, credited>>
    BY DEF Send
  <1> HIDE DEF p
  <1> QED
    BY <1>2, <1>3, <1>4

\* What Recv does: the bytes it takes are the first of the queue, and it may
\* give back what has been consumed.
LEMMA RecvFacts ==
  ASSUME Context, NEW e \in Ends, NEW n \in Nat \ {0}, Recv(e, n)
  PROVE  /\ Readable(e) /\ recvQueue[e] # <<>>
         /\ UNCHANGED <<state, arrived, sent, eof, credited>>
         /\ \E taken \in Nat \ {0} :
              /\ read' = [read EXCEPT ![e] = @ + taken]
              /\ read[e] + taken <= arrived[e]
              /\ \/ taken = Bytes(Head(recvQueue[e]))
                    /\ recvQueue' = [recvQueue EXCEPT ![e] = Tail(@)]
                 \/ taken < Bytes(Head(recvQueue[e]))
                    /\ recvQueue' = [recvQueue EXCEPT ![e] = Trimmed(@, taken)]
         /\ \/ UNCHANGED <<granted, link>>
            \/ \E k \in Nat : \E m \in Message :
                 /\ m.type = "ChannelWindowAdjust"
                 /\ m.from = granted[e] /\ m.upto = granted[e] + k
                 /\ Emit(e, <<m>>) /\ granted' = [granted EXCEPT ![e] = @ + k]
  <1> DEFINE q == recvQueue[e]
             taken == IF Bytes(Head(q)) > n THEN n ELSE Bytes(Head(q))
             consumed == localConsumed[e] + taken
             msg == AdjustMsg(granted[e], granted[e] + consumed)
  <1>1. /\ Readable(e) /\ q # <<>> /\ AdjustWindow(e, taken)
        /\ UNCHANGED <<state, arrived, sent, eof, credited>>
        /\ read' = [read EXCEPT ![e] = @ + taken]
    BY DEF Recv
  <1>2. /\ q \in Seq(Segment) /\ read[e] \in Nat /\ arrived[e] \in Nat
        /\ Fills(q, read[e], arrived[e])
        /\ granted[e] \in Nat /\ localConsumed[e] \in Nat
    BY ContextFacts DEF TypeInv, Traffic
  <1>3. Bytes(Head(q)) \in Nat \ {0} /\ read[e] + Bytes(Head(q)) <= arrived[e]
    BY <1>1, <1>2, FillsTail
  <1>4. taken \in Nat \ {0} /\ taken <= Bytes(Head(q)) /\ read[e] + taken <= arrived[e]
    BY <1>2, <1>3
  <1>5. \/ taken = Bytes(Head(q)) /\ recvQueue' = [recvQueue EXCEPT ![e] = Tail(@)]
        \/ taken < Bytes(Head(q)) /\ recvQueue' = [recvQueue EXCEPT ![e] = Trimmed(@, taken)]
    BY <1>3 DEF Recv, Trimmed
  <1> HIDE DEF taken
  <1>6. \/ UNCHANGED <<granted, link>>
        \/ Emit(e, <<msg>>) /\ granted' = [granted EXCEPT ![e] = @ + consumed]
    BY <1>1 DEF AdjustWindow
  <1>7. consumed \in Nat /\ granted[e] + consumed \in Nat
    BY <1>2, <1>4
  <1> HIDE DEF consumed
  <1>8. /\ msg \in Message /\ msg.type = "ChannelWindowAdjust"
        /\ msg.from = granted[e] /\ msg.upto = granted[e] + consumed
    BY <1>2, <1>7, MessageTypes DEF AdjustMsg
  <1> HIDE DEF msg
  <1> QED
    BY <1>1, <1>4, <1>5, <1>6, <1>7, <1>8

LEMMA HandshakeNext ==
  ASSUME Context, WriteInv, HandshakeInv, [Next]_vars
  PROVE  HandshakeInv'
  <1> USE ChannelAssumption
  <1>1. ASSUME NEW e \in Ends, NEW n \in ChunkSizes, Send(e, n) PROVE HandshakeInv'
    <2>1. n \in Nat \ {0}
      OBVIOUS
    <2>2. PICK p \in Seq(Message) :
            /\ Emit(e, p) /\ allowWrite[e] /\ UNCHANGED state
            /\ sent' = [sent EXCEPT ![e] = @ + n]
      BY <1>1, <2>1, SendFacts
    <2>3. /\ state[e] \in {"Connected", "CloseResponding"} \/ FastConnect
          /\ state[e] \notin {"Init", "ConnectResponding"}
      BY <2>2 DEF WriteInv
    <2>4. sent'["initiator"] # sent["initiator"] => FastConnect \/ ~Unanswered
      <3>1. e # "initiator" => sent'["initiator"] = sent["initiator"]
        BY <2>2, ContextFacts DEF TypeInv
      <3> QED
        BY <2>3, <3>1 DEF HandshakeInv
    <2> QED
      BY <2>2, <2>3, <2>4, HandshakeSend
  <1>2. ASSUME NEW e \in Ends, NEW n \in ReadSizes, Recv(e, n) PROVE HandshakeInv'
    <2>1. n \in Nat \ {0}
      OBVIOUS
    <2>2. /\ Readable(e) /\ UNCHANGED <<state, sent>>
          /\ UNCHANGED link \/ \E m \in Message : Emit(e, <<m>>)
      BY <1>2, <2>1, RecvFacts
    <2>3. CASE UNCHANGED link
      BY <2>2, <2>3 DEF HandshakeInv, Incoming, Unanswered
    <2>4. ASSUME NEW m \in Message, Emit(e, <<m>>) PROVE HandshakeInv'
      <3>1. <<m>> \in Seq(Message) /\ state[e] \notin {"Init", "ConnectResponding"}
        BY <2>2, OneMessage DEF Readable
      <3> QED
        BY <2>2, <2>4, <3>1, HandshakeSend
    <2> QED
      BY <2>2, <2>3, <2>4
  <1>3. ASSUME NEW e \in Ends, DropUnregistered(e) PROVE HandshakeInv'
    <2>1. /\ link[e] # <<>> /\ Head(link[e]).type # "SetupChannel" /\ ~registered[e]
          /\ Consume(e) /\ UNCHANGED <<state, sent>>
      BY <1>3 DEF DropUnregistered, streams
    <2>2. state[e] # "Connecting"
      BY <2>1, ContextFacts DEF Held
    <2> QED
      BY <2>1, <2>2, HandshakeConsume
  <1>4. ASSUME NEW e \in Ends, HandleChannelData(e) \/ HandleWindowAdjust(e) PROVE HandshakeInv'
    <2>1. /\ link[e] # <<>> /\ Head(link[e]).type \in {"ChannelData", "ChannelWindowAdjust"}
          /\ Consume(e) /\ UNCHANGED <<state, sent>>
      BY <1>4 DEF HandleChannelData, HandleWindowAdjust, Incoming, streams
    <2> QED
      BY <2>1, HandshakeConsume
  <1>5. ASSUME UNCHANGED <<state, link, sent>> PROVE HandshakeInv'
    BY <1>5 DEF HandshakeInv, Incoming, Unanswered
  <1>6. ASSUME NEW e \in Ends, RecvEof(e) PROVE HandshakeInv'
    BY <1>5, <1>6 DEF RecvEof
  <1>7. UNCHANGED vars => HandshakeInv'
    BY <1>5 DEF vars, streams
  <1>8. ASSUME NEW e \in Ends, Call(e) PROVE HandshakeInv'
    BY <1>1, <1>2, <1>6, <1>8, HandshakeConnect, HandshakeAnswer, HandshakeClose DEF Call
  <1>9. ASSUME NEW e \in Ends, Receive(e) PROVE HandshakeInv'
    BY <1>3, <1>4, <1>9, HandshakeNewChannel, HandshakeResponse, HandshakeChannelClose DEF Receive
  <1> QED
    BY <1>7, <1>8, <1>9, HandshakeTimeout DEF Next
-----------------------------------------------------------------------------
(* What is under way.                                                      *)

StreamOK == Context /\ WriteInv /\ HandshakeInv /\ StreamInv

\* A step that leaves the positions alone keeps StreamInv if what is under
\* way to an end stays complete for as long as it is of use.
LEMMA StreamKeep ==
  ASSUME StreamOK, UNCHANGED <<sent, arrived>>,
         \A x \in Ends : Able(x)' => Able(x),
         \A x \in Ends : state'[x] = "CloseResponding" =>
           state[x] = "CloseResponding" \/ arrived[x] = sent[Peer(x)],
         \A x \in Ends : state[x] = "CloseResponding" => state'[x] \in {"CloseResponding", "Closed"},
         \A x \in Ends : state[x] = "Closed" => state'[x] = "Closed",
         UNCHANGED <<eof, recvQueue>>,
         \A x \in Ends : Able(x)' =>
           /\ Covers(link'[x], "ChannelData", arrived[x], sent[Peer(x)])
           /\ NoDataBehindClose(link'[x])
  PROVE  StreamInv'
  <1> SUFFICES ASSUME NEW x \in Ends
               PROVE  /\ Able(x)' => Covers(link'[x], "ChannelData", arrived'[x], sent'[Peer(x)])
                      /\ Able(x)' => NoDataBehindClose(link'[x])
                      /\ state'[x] = "CloseResponding" => arrived'[x] = sent'[Peer(x)]
                      /\ eof'[x] => /\ recvQueue'[x] = <<>>
                                    /\ state'[x] \in {"CloseResponding", "Closed"}
    BY DEF StreamInv, Covers, NoDataBehindClose
  <1> USE DEF StreamOK, StreamInv
  <1>1. state'[x] = "CloseResponding" => arrived'[x] = sent'[Peer(x)]
    OBVIOUS
  <1>2. eof'[x] => recvQueue'[x] = <<>> /\ state'[x] \in {"CloseResponding", "Closed"}
    OBVIOUS
  <1> QED
    BY <1>1, <1>2

\* What is sent besides data does not disturb what is under way ...
LEMMA EmitCovers ==
  ASSUME StreamOK, NEW e \in Ends, NEW p \in Seq(Message), Emit(e, p),
         \A i \in 1 .. Len(p) : p[i].type # "ChannelData"
  PROVE  \A x \in Ends : Able(x) =>
           /\ Covers(link'[x], "ChannelData", arrived[x], sent[Peer(x)])
           /\ NoDataBehindClose(link'[x])
  <1> SUFFICES ASSUME NEW x \in Ends, Able(x)
               PROVE  /\ Covers(link'[x], "ChannelData", arrived[x], sent[Peer(x)])
                      /\ NoDataBehindClose(link'[x])
    OBVIOUS
  <1> DEFINE q == link[x]
             lo == arrived[x]
             hi == sent[Peer(x)]
  <1>1. /\ q \in Seq(Message) /\ lo \in Nat /\ hi \in Nat
        /\ Covers(q, "ChannelData", lo, hi) /\ NoDataBehindClose(q)
    BY ContextFacts, PeerFacts DEF StreamOK, StreamInv, TypeInv
  <1>2. link'[x] = q \/ link'[x] = q \o p
    <2>1. link'[e] = link[e] /\ link'[Peer(e)] = link[Peer(e)] \o p
      BY ContextFacts, EmitLink DEF StreamOK
    <2> QED
      BY <2>1, PeerFacts
  <1> HIDE DEF q, lo, hi
  <1>3. Covers(q \o p, "ChannelData", lo, hi)
    BY <1>1, CoversEmpty, CoversConcat
  <1>4. NoDataBehindClose(q \o p)
    <2>1. /\ Len(q \o p) = Len(q) + Len(p)
          /\ Len(q) \in Nat /\ Len(p) \in Nat
          /\ \A i \in 1 .. Len(q) + Len(p) :
               (q \o p)[i] = IF i <= Len(q) THEN q[i] ELSE p[i - Len(q)]
      BY <1>1, ConcatProperties, LenProperties
    <2>2. ASSUME NEW i \in 1 .. Len(q \o p), NEW j \in 1 .. Len(q \o p), i < j,
                 (q \o p)[i].type = "ChannelClose"
          PROVE  (q \o p)[j].type # "ChannelData"
      <3>1. CASE j <= Len(q)
        <4>1. i \in 1 .. Len(q) /\ j \in 1 .. Len(q) /\ (q \o p)[i] = q[i] /\ (q \o p)[j] = q[j]
          BY <2>1, <2>2, <3>1
        <4> QED
          BY <1>1, <2>2, <4>1 DEF NoDataBehindClose
      <3>2. CASE ~(j <= Len(q))
        <4>1. j - Len(q) \in 1 .. Len(p) /\ (q \o p)[j] = p[j - Len(q)]
          BY <2>1, <2>2, <3>2
        <4> QED
          BY <4>1
      <3> QED
        BY <3>1, <3>2
    <2> QED
      BY <2>2 DEF NoDataBehindClose
  <1> QED
    BY <1>1, <1>2, <1>3, <1>4 DEF q, lo, hi

LEMMA BehindCloseTail ==
  ASSUME NEW q \in Seq(Message), q # <<>>, NoDataBehindClose(q)
  PROVE  /\ NoDataBehindClose(Tail(q))
         /\ Head(q).type = "ChannelClose" => \A i \in 1 .. Len(q) : q[i].type # "ChannelData"
  <1>1. /\ Len(q) \in Nat \ {0}
        /\ Len(Tail(q)) = Len(q) - 1
        /\ \A i \in 1 .. Len(Tail(q)) : Tail(q)[i] = q[i + 1]
        /\ Head(q) = q[1]
    BY HeadTailProperties, EmptySeq
  <1>2. \A i \in 1 .. Len(Tail(q)) : i + 1 \in 1 .. Len(q)
    BY <1>1
  <1>3. \A i, j \in 1 .. Len(Tail(q)) : i < j => i + 1 < j + 1
    BY <1>1
  <1>4. NoDataBehindClose(Tail(q))
    BY <1>1, <1>2, <1>3 DEF NoDataBehindClose
  <1>5. \A i \in 1 .. Len(q) : i = 1 \/ 1 < i
    BY <1>1
  <1>6. 1 \in 1 .. Len(q)
    BY <1>1
  <1> QED
    BY <1>1, <1>4, <1>5, <1>6 DEF NoDataBehindClose

\* ... nor does taking a message that is no data off a link.
LEMMA ConsumeCovers ==
  ASSUME StreamOK, NEW e \in Ends, link[e] # <<>>, Consume(e),
         Able(e) => Head(link[e]).type # "ChannelData"
  PROVE  \A x \in Ends : Able(x) =>
           /\ Covers(link'[x], "ChannelData", arrived[x], sent[Peer(x)])
           /\ NoDataBehindClose(link'[x])
  <1>1. link'[e] = Tail(link[e]) /\ link'[Peer(e)] = link[Peer(e)]
    BY ContextFacts, ConsumeLink DEF StreamOK
  <1>2. CASE Able(e)
    <2> DEFINE q == link[e]
               lo == arrived[e]
               hi == sent[Peer(e)]
    <2>1. /\ q \in Seq(Message) /\ q # <<>> /\ lo \in Nat /\ hi \in Nat
          /\ Ascending(q, "ChannelData", lo, hi)
          /\ Covers(q, "ChannelData", lo, hi) /\ NoDataBehindClose(q)
          /\ Head(q).type # "ChannelData"
      BY <1>2, ContextFacts, PeerFacts DEF StreamOK, StreamInv, TypeInv, Traffic
    <2> HIDE DEF q, lo, hi
    <2>2. Covers(Tail(q), "ChannelData", lo, hi) /\ NoDataBehindClose(Tail(q))
      BY <2>1, CoversTail, BehindCloseTail
    <2> QED
      BY <1>1, <2>2, PeerFacts DEF StreamOK, StreamInv, q, lo, hi
  <1>3. CASE ~Able(e)
    BY <1>1, <1>3, PeerFacts DEF StreamOK, StreamInv
  <1> QED
    BY <1>2, <1>3

\* An end that finds the Close of its peer on its link has got everything.
LEMMA CloseIsLast ==
  ASSUME StreamOK, NEW e \in Ends, Able(e), link[e] # <<>>, Head(link[e]).type = "ChannelClose"
  PROVE  arrived[e] = sent[Peer(e)]
  <1> DEFINE q == link[e]
             lo == arrived[e]
             hi == sent[Peer(e)]
  <1>1. /\ q \in Seq(Message) /\ lo \in Nat /\ hi \in Nat /\ lo <= hi
        /\ Covers(q, "ChannelData", lo, hi) /\ NoDataBehindClose(q)
    BY ContextFacts, PeerFacts DEF StreamOK, StreamInv, TypeInv, Traffic
  <1> HIDE DEF lo, hi
  <1>2. \A i \in 1 .. Len(q) : q[i].type # "ChannelData"
    BY <1>1, BehindCloseTail
  <1> HIDE DEF q
  <1>3. lo = hi
    BY <1>1, <1>2, CoversNone
  <1> QED
    BY <1>3 DEF lo, hi

\* The steps of an end that goes to another state and sends a control message.
LEMMA StreamControl ==
  ASSUME StreamOK, NEW e \in Ends, NEW to, Goto(e, to), NEW m \in Message,
         Emit(e, <<m>>), m.type # "ChannelData", UNCHANGED streams,
         state[e] \in {"Init", "ConnectResponding", "Connecting", "Connected", "CloseResponding"},
         to # "CloseResponding", state[e] = "CloseResponding" => to = "Closed"
  PROVE  StreamInv'
  <1> DEFINE p == <<m>>
  <1>1. p \in Seq(Message) /\ \A i \in 1 .. Len(p) : p[i].type # "ChannelData"
    BY OneMessage
  <1>2. Emit(e, p)
    OBVIOUS
  <1> HIDE DEF p
  <1>3. \A x \in Ends : Able(x) =>
          /\ Covers(link'[x], "ChannelData", arrived[x], sent[Peer(x)])
          /\ NoDataBehindClose(link'[x])
    BY <1>1, <1>2, EmitCovers
  <1>4. /\ state'[e] = to /\ \A x \in Ends \ {e} : state'[x] = state[x]
        /\ UNCHANGED <<sent, arrived, eof, recvQueue>>
    BY ContextFacts DEF Goto, StreamOK, streams
  <1>5. \A x \in Ends : Able(x)' => Able(x)
    BY <1>4 DEF Able
  <1> QED
    BY <1>3, <1>4, <1>5, StreamKeep

\* The steps of an end that takes a control message and may go to another state.
LEMMA StreamConsume ==
  ASSUME StreamOK, NEW e \in Ends, NEW to, state' = [state EXCEPT ![e] = to],
         link[e] # <<>>, Consume(e), UNCHANGED streams,
         Able(e) => Head(link[e]).type # "ChannelData",
         to = state[e] \/ state[e] \in {"Init", "Connecting", "Connected", "Closing"},
         to = "CloseResponding" =>
           state[e] = "CloseResponding" \/ arrived[e] = sent[Peer(e)]
  PROVE  StreamInv'
  <1>1. \A x \in Ends : Able(x) =>
          /\ Covers(link'[x], "ChannelData", arrived[x], sent[Peer(x)])
          /\ NoDataBehindClose(link'[x])
    BY ConsumeCovers
  <1>2. /\ state'[e] = to /\ \A x \in Ends \ {e} : state'[x] = state[x]
        /\ UNCHANGED <<sent, arrived, eof, recvQueue>>
    BY ContextFacts DEF StreamOK, streams
  <1>3. \A x \in Ends : Able(x)' => Able(x)
    BY <1>2 DEF Able
  <1> QED
    BY <1>1, <1>2, <1>3, StreamKeep, SMTT(30)

LEMMA StreamSend ==
  ASSUME StreamOK, NEW e \in Ends, NEW n \in Nat \ {0}, Send(e, n)
  PROVE  StreamInv'
  <1> DEFINE f == Peer(e)
  <1>1. PICK p \in Seq(Message) :
          /\ Emit(e, p) /\ allowWrite[e]
          /\ \A i \in 1 .. Len(p) : p[i].type = "ChannelData"
          /\ Covers(p, "ChannelData", sent[e], sent[e] + n)
          /\ sent' = [sent EXCEPT ![e] = @ + n]
          /\ UNCHANGED <<state, recvQueue, arrived, eof>>
    BY SendFacts DEF StreamOK
  <1>2. f \in Ends /\ f # e /\ Peer(f) = e /\ \A x \in Ends : x = e \/ x = f
    BY PeerFacts
  <1>3. /\ link'[e] = link[e] /\ link'[f] = link[f] \o p
        /\ link[f] \in Seq(Message) /\ sent[e] \in Nat /\ arrived[f] \in Nat
        /\ sent'[f] = sent[f] /\ sent'[e] = sent[e] + n
    <2>1. /\ link \in [Ends -> Seq(Message)] /\ sent \in [Ends -> Nat]
          /\ arrived \in [Ends -> Nat] /\ Emit(e, p)
      BY <1>1, ContextFacts DEF StreamOK, TypeInv
    <2>2. link'[e] = link[e] /\ link'[Peer(e)] = link[Peer(e)] \o p
      BY <2>1, EmitLink
    <2>3. sent'[f] = sent[f] /\ sent'[e] = sent[e] + n
      BY <1>1, <1>2, <2>1
    <2> QED
      BY <1>2, <2>1, <2>2, <2>3
  <1>4. state[e] \notin Leaving
    BY <1>1 DEF StreamOK, WriteInv, Leaving
  <1>5. state[f] # "CloseResponding"
    BY <1>2, <1>4 DEF StreamOK, Context, CloseOK, CloseInv
  <1>6. ASSUME Able(f)
        PROVE  Covers(link'[f], "ChannelData", arrived[f], sent'[e]) /\ NoDataBehindClose(link'[f])
    <2> DEFINE q == link[f]
               lo == arrived[f]
               hi == sent[e]
    <2>1. q \in Seq(Message) /\ lo \in Nat /\ hi \in Nat /\ Covers(q, "ChannelData", lo, hi)
      BY <1>2, <1>3, <1>6 DEF StreamOK, StreamInv
    <2>2. \A i \in 1 .. Len(q) : q[i].type # "ChannelClose"
      <3>1. \A m \in Msgs(f) : m.type # "ChannelClose"
        <4>1. CASE e = "initiator"
          <5>1. f = "acceptor"
            BY <1>2, <4>1, ContextFacts DEF StreamOK
          <5>2. state["initiator"] = "Rejected" => state["acceptor"] = "Rejected"
            BY DEF StreamOK, Context, CloseOK, SetupInv
          <5> QED
            BY <1>4, <1>6, <4>1, <5>1, <5>2 DEF StreamOK, Context, CloseOK, CloseInv, Able
        <4>2. CASE e = "acceptor"
          <5>1. f = "initiator"
            BY <1>2, <4>2, ContextFacts DEF StreamOK
          <5> QED
            BY <1>4, <4>2, <5>1 DEF StreamOK, Context, CloseOK, CloseInv
        <4> QED
          BY <4>1, <4>2, ContextFacts DEF StreamOK
      <3> QED
        BY <3>1 DEF Msgs
    <2> HIDE DEF q, lo, hi
    <2>3. Covers(q \o p, "ChannelData", lo, hi + n)
      <3>1. hi + n \in Nat /\ Covers(p, "ChannelData", hi, hi + n)
        BY <1>1, <2>1 DEF hi
      <3> QED
        BY <2>1, <3>1, CoversConcat
    <2>4. NoDataBehindClose(q \o p)
      <3>1. ASSUME NEW i \in 1 .. Len(q \o p) PROVE (q \o p)[i].type # "ChannelClose"
        <4>1. \/ \E j \in 1 .. Len(q) : (q \o p)[i] = q[j]
              \/ \E j \in 1 .. Len(p) : (q \o p)[i] = p[j]
          BY <2>1, ConcatElements
        <4> QED
          BY <1>1, <2>2, <4>1
      <3> QED
        BY <3>1 DEF NoDataBehindClose
    <2> QED
      BY <1>3, <2>3, <2>4 DEF q, lo, hi
  <1>7. /\ Covers(link'[f], "ChannelData", arrived'[f], sent'[e]) \/ ~Able(f)'
        /\ NoDataBehindClose(link'[f]) \/ ~Able(f)'
        /\ ~(state'[f] = "CloseResponding")
    BY <1>1, <1>5, <1>6 DEF Able
  <1>8. /\ Able(e)' => Covers(link'[e], "ChannelData", arrived'[e], sent'[f])
        /\ Able(e)' => NoDataBehindClose(link'[e])
        /\ state'[e] = "CloseResponding" => arrived'[e] = sent'[f]
    BY <1>1, <1>3 DEF StreamOK, StreamInv, Able
  <1>9. \A x \in Ends : eof'[x] => recvQueue'[x] = <<>> /\ state'[x] \in {"CloseResponding", "Closed"}
    BY <1>1 DEF StreamOK, StreamInv
  <1>10. \A x \in Ends :
           /\ Able(x)' => Covers(link'[x], "ChannelData", arrived'[x], sent'[Peer(x)])
           /\ Able(x)' => NoDataBehindClose(link'[x])
           /\ state'[x] = "CloseResponding" => arrived'[x] = sent'[Peer(x)]
    BY <1>2, <1>7, <1>8
  <1> QED
    BY <1>9, <1>10 DEF StreamInv, Covers, NoDataBehindClose

LEMMA StreamRecv ==
  ASSUME StreamOK, NEW e \in Ends, NEW n \in Nat \ {0}, Recv(e, n)
  PROVE  StreamInv'
  <1>1. /\ recvQueue[e] # <<>> /\ UNCHANGED <<state, arrived, sent, eof>>
        /\ \E q : recvQueue' = [recvQueue EXCEPT ![e] = q]
        /\ \/ UNCHANGED link
           \/ \E m \in Message : m.type = "ChannelWindowAdjust" /\ Emit(e, <<m>>)
    BY RecvFacts DEF StreamOK
  <1>2. \A x \in Ends : Able(x) =>
          /\ Covers(link'[x], "ChannelData", arrived[x], sent[Peer(x)])
          /\ NoDataBehindClose(link'[x])
    <2>1. CASE UNCHANGED link
      BY <2>1 DEF StreamOK, StreamInv
    <2>2. ASSUME NEW m \in Message, m.type = "ChannelWindowAdjust", Emit(e, <<m>>)
          PROVE  \A x \in Ends : Able(x) =>
                   /\ Covers(link'[x], "ChannelData", arrived[x], sent[Peer(x)])
                   /\ NoDataBehindClose(link'[x])
      <3> DEFINE p == <<m>>
      <3>1. p \in Seq(Message) /\ \A i \in 1 .. Len(p) : p[i].type # "ChannelData"
        BY <2>2, OneMessage
      <3>2. Emit(e, p)
        BY <2>2
      <3> HIDE DEF p
      <3> QED
        BY <3>1, <3>2, EmitCovers
    <2> QED
      BY <1>1, <2>1, <2>2
  <1>3. \A x \in Ends : eof[x] => recvQueue'[x] = recvQueue[x]
    BY <1>1 DEF StreamOK, StreamInv, Context, CloseOK, FlowInv, TypeInv
  <1> QED
    BY <1>1, <1>2, <1>3 DEF StreamOK, StreamInv, Covers, NoDataBehindClose, Able

LEMMA StreamRecvEof ==
  ASSUME StreamOK, NEW e \in Ends, RecvEof(e)
  PROVE  StreamInv'
  <1>1. /\ state[e] = "CloseResponding" /\ recvQueue[e] = <<>>
        /\ eof' = [eof EXCEPT ![e] = TRUE] /\ UNCHANGED <<state, link, recvQueue, sent, arrived>>
    BY DEF RecvEof
  <1>2. \A x \in Ends : eof'[x] => eof[x] \/ x = e
    BY <1>1, ContextFacts DEF StreamOK
  <1> QED
    BY <1>1, <1>2 DEF StreamOK, StreamInv, Covers, NoDataBehindClose, Able

\* An end that may still take data has them taken in order: the next message
\* of data starts where the last one ended.
LEMMA DataFacts ==
  ASSUME StreamOK, NEW e \in Ends, HandleChannelData(e)
  PROVE  LET m == Head(link[e])
         IN  /\ link[e] # <<>> /\ m \in Message /\ m.type = "ChannelData" /\ Consume(e)
             /\ m.from \in Nat /\ m.upto \in Nat
             /\ UNCHANGED <<state, sent, read, eof>>
             /\ \/ /\ TakesData(e) /\ m.from = arrived[e] /\ m.from < m.upto
                   /\ arrived' = [arrived EXCEPT ![e] = m.upto]
                   /\ recvQueue' = [recvQueue EXCEPT ![e] =
                        Append(@, [from |-> m.from, upto |-> m.upto])]
                   /\ Covers(Tail(link[e]), "ChannelData", m.upto, sent[Peer(e)])
                \/ ~Able(e) /\ UNCHANGED <<recvQueue, arrived>>
  <1> DEFINE q == link[e]
             m == Head(q)
             lo == arrived[e]
             hi == sent[Peer(e)]
  <1>1. /\ q # <<>> /\ m.type = "ChannelData" /\ Consume(e) /\ registered[e]
        /\ UNCHANGED <<state, sent, read, eof>>
    BY DEF HandleChannelData, Incoming
  <1>2. /\ q \in Seq(Message) /\ lo \in Nat /\ hi \in Nat
        /\ Ascending(q, "ChannelData", lo, hi)
        /\ arrived \in [Ends -> Nat]
    BY ContextFacts, PeerFacts DEF StreamOK, TypeInv, Traffic
  <1>3. m \in Message /\ m.from \in Nat /\ m.upto \in Nat /\ m.from < m.upto
    <2>1. m \in Message
      BY <1>1, <1>2, HeadTailProperties
    <2> QED
      BY <1>1, <1>2, <2>1, AscendingTail, MessageFields
  <1>4. Able(e) =>
          /\ TakesData(e) /\ m.from = lo
          /\ Covers(Tail(q), "ChannelData", m.upto, hi)
    <2>1. Held(e)
      BY <1>1, ContextFacts DEF StreamOK
    <2>2. UNCHANGED state /\ sent' = sent
      BY <1>1
    <2>3. state[e] \notin {"Init", "Connecting"}
      BY <1>1, <2>2, HandshakeConsume DEF StreamOK
    <2>4. Able(e) => TakesData(e)
      BY <2>1, <2>3 DEF Able, Held, TakesData
    <2>5. Able(e) => Covers(q, "ChannelData", lo, hi)
      BY DEF StreamOK, StreamInv
    <2> HIDE DEF q, lo, hi
    <2>6. Able(e) => m.from = lo /\ Covers(Tail(q), "ChannelData", m.upto, hi)
      BY <1>1, <1>2, <2>5, CoversTail
    <2> QED
      BY <2>4, <2>6
  <1>5. ~aborted'
    <2>1. FlowInv'
      BY HandleChannelDataStep DEF StreamOK, Context, CloseOK
    <2> QED
      BY <2>1 DEF FlowInv
  <1>6. CASE TakesData(e)
    <2>1. Able(e)
      BY <1>6 DEF Able, TakesData
    <2>2. /\ arrived' = [arrived EXCEPT ![e] = @ + Bytes(m)]
          /\ recvQueue' = [recvQueue EXCEPT ![e] =
               Append(@, [from |-> m.from, upto |-> m.upto])]
      BY <1>5, <1>6 DEF HandleChannelData
    <2>3. lo + Bytes(m) = m.upto
      BY <1>2, <1>3, <1>4, <2>1 DEF Bytes
    <2>4. arrived' = [arrived EXCEPT ![e] = m.upto]
      BY <2>2, <2>3
    <2> QED
      BY <1>1, <1>3, <1>4, <1>6, <2>1, <2>2, <2>4
  <1>7. CASE ~TakesData(e)
    <2>1. UNCHANGED <<recvQueue, arrived>>
      BY <1>7 DEF HandleChannelData
    <2> QED
      BY <1>1, <1>3, <1>4, <1>7, <2>1
  <1> QED
    BY <1>6, <1>7

LEMMA StreamData ==
  ASSUME StreamOK, NEW e \in Ends, HandleChannelData(e)
  PROVE  StreamInv'
  <1> DEFINE m == Head(link[e])
             f == Peer(e)
  <1>1. /\ link[e] # <<>> /\ Consume(e) /\ UNCHANGED <<state, sent, eof>>
        /\ m.upto \in Nat
        /\ \/ /\ TakesData(e)
              /\ arrived' = [arrived EXCEPT ![e] = m.upto]
              /\ recvQueue' = [recvQueue EXCEPT ![e] =
                   Append(@, [from |-> m.from, upto |-> m.upto])]
              /\ Covers(Tail(link[e]), "ChannelData", m.upto, sent[f])
           \/ ~Able(e) /\ UNCHANGED <<recvQueue, arrived>>
    BY DataFacts
  <1> HIDE DEF m
  <1>2. f \in Ends /\ f # e /\ Peer(f) = e /\ \A x \in Ends : x = e \/ x = f
    BY PeerFacts
  <1>3. link'[e] = Tail(link[e]) /\ link'[f] = link[f] /\ link[e] \in Seq(Message)
    BY <1>1, ContextFacts, ConsumeLink DEF StreamOK
  <1>4. /\ arrived \in [Ends -> Nat] /\ recvQueue \in [Ends -> Seq(Segment)]
        /\ state \in [Ends -> States]
    BY ContextFacts DEF StreamOK, TypeInv
  <1>5. arrived'[f] = arrived[f] /\ recvQueue'[f] = recvQueue[f]
    BY <1>1, <1>2, <1>4
  <1>6. /\ Able(f)' => Covers(link'[f], "ChannelData", arrived'[f], sent'[e])
        /\ Able(f)' => NoDataBehindClose(link'[f])
        /\ state'[f] = "CloseResponding" => arrived'[f] = sent'[e]
        /\ eof'[f] => recvQueue'[f] = <<>> /\ state'[f] \in {"CloseResponding", "Closed"}
    BY <1>1, <1>2, <1>3, <1>5 DEF StreamOK, StreamInv, Able
  <1>7. /\ Able(e)' => Covers(link'[e], "ChannelData", arrived'[e], sent'[f])
        /\ Able(e)' => NoDataBehindClose(link'[e])
        /\ state'[e] = "CloseResponding" => arrived'[e] = sent'[f]
        /\ eof'[e] => recvQueue'[e] = <<>> /\ state'[e] \in {"CloseResponding", "Closed"}
    <2>1. CASE TakesData(e) /\ Covers(Tail(link[e]), "ChannelData", m.upto, sent[f])
                            /\ arrived' = [arrived EXCEPT ![e] = m.upto]
      <3>1. arrived'[e] = m.upto
        BY <1>4, <2>1
      <3>2. /\ Able(e) /\ state[e] \notin {"CloseResponding", "Closed"}
            /\ ~eof[e] /\ NoDataBehindClose(link[e])
        BY <2>1 DEF TakesData, Able, StreamOK, StreamInv
      <3>3. NoDataBehindClose(Tail(link[e]))
        BY <1>1, <1>3, <3>2, BehindCloseTail
      <3> QED
        BY <1>1, <1>3, <2>1, <3>1, <3>2, <3>3 DEF Able
    <2>2. CASE ~Able(e) /\ UNCHANGED <<recvQueue, arrived>>
      BY <1>1, <2>2 DEF StreamOK, StreamInv, Able
    <2> QED
      BY <1>1, <2>1, <2>2
  <1>8. \A x \in Ends :
          /\ Able(x)' => Covers(link'[x], "ChannelData", arrived'[x], sent'[Peer(x)])
          /\ Able(x)' => NoDataBehindClose(link'[x])
          /\ state'[x] = "CloseResponding" => arrived'[x] = sent'[Peer(x)]
          /\ eof'[x] => recvQueue'[x] = <<>> /\ state'[x] \in {"CloseResponding", "Closed"}
    BY <1>2, <1>6, <1>7
  <1> QED
    BY <1>8 DEF StreamInv, Covers, NoDataBehindClose

\* A message that is dropped because the session does not hold the channel
\* is of no use to anyone.
LEMMA StreamDrop ==
  ASSUME StreamOK, NEW e \in Ends, DropUnregistered(e)
  PROVE  StreamInv'
  <1>1. /\ link[e] # <<>> /\ Head(link[e]).type # "SetupChannel" /\ ~registered[e]
        /\ Consume(e) /\ UNCHANGED <<state, sent, arrived, streams>>
    BY DEF DropUnregistered, streams
  <1>2. ~Held(e)
    BY <1>1, ContextFacts DEF StreamOK
  <1>3. state[e] \notin {"Init", "Connecting"}
    BY <1>1, <1>2, HandshakeConsume DEF StreamOK, Held
  <1>4. Able(e) => Head(link[e]).type # "ChannelData"
    <2> SUFFICES ASSUME Able(e), Head(link[e]).type = "ChannelData" PROVE FALSE
      OBVIOUS
    <2>1. state[e] = "ConnectResponding" /\ ~FastConnect
      BY <1>2, <1>3, ContextFacts DEF Able, Held, StreamOK, States
    <2>2. e = "acceptor" /\ Peer(e) = "initiator" /\ sent["initiator"] = 0
      BY <2>1, ContextFacts DEF StreamOK, HandshakeInv, Unanswered
    <2>3. /\ link[e] \in Seq(Message) /\ arrived[e] \in Nat
          /\ Ascending(link[e], "ChannelData", arrived[e], sent[Peer(e)])
      BY ContextFacts DEF StreamOK, TypeInv, Traffic
    <2>4. /\ arrived[e] <= Head(link[e]).from /\ Head(link[e]).from < Head(link[e]).upto
          /\ Head(link[e]).upto <= 0
      BY <1>1, <2>2, <2>3, AscendingTail
    <2>5. Head(link[e]).from \in Nat /\ Head(link[e]).upto \in Nat
      BY <1>1, <2>3, HeadTailProperties, MessageFields
    <2> QED
      BY <2>3, <2>4, <2>5
  <1>5. state' = [state EXCEPT ![e] = state[e]]
    BY <1>1, ContextFacts DEF StreamOK
  <1> QED
    BY <1>1, <1>4, <1>5, StreamConsume

LEMMA StreamCall ==
  ASSUME StreamOK, NEW e \in Ends, Connect(e) \/ Accept(e) \/ Close(e)
  PROVE  StreamInv'
  <1>1. localWindow[e] \in Nat
    BY ContextFacts DEF StreamOK, TypeInv
  <1>2. CASE Connect(e)
    <2>1. SetupMsg(localWindow[e]) \in Message /\ SetupMsg(localWindow[e]).type # "ChannelData"
      BY <1>1, MessageTypes DEF SetupMsg
    <2> QED
      BY <1>2, <2>1, StreamControl DEF Connect
  <1>3. CASE Accept(e)
    <2> DEFINE m == ResponseMsg(TRUE, localWindow[e])
    <2>1. m \in Message /\ m.type # "ChannelData"
      BY <1>1, MessageTypes DEF ResponseMsg
    <2>2. /\ state[e] = "ConnectResponding" /\ Goto(e, "Connected") /\ Emit(e, <<m>>)
          /\ UNCHANGED streams
      BY <1>3 DEF Accept
    <2> HIDE DEF m
    <2> QED
      BY <2>1, <2>2, StreamControl
  <1>4. CASE Reject(e)
    <2> DEFINE m == ResponseMsg(FALSE, 0)
    <2>1. m \in Message /\ m.type # "ChannelData"
      BY MessageTypes DEF ResponseMsg
    <2>2. /\ state[e] = "ConnectResponding" /\ Goto(e, "Rejected") /\ Emit(e, <<m>>)
          /\ UNCHANGED streams
      BY <1>4 DEF Reject
    <2> HIDE DEF m
    <2> QED
      BY <2>1, <2>2, StreamControl
  <1>5. CASE Close(e) /\ ~Reject(e)
    <2>1. CloseMsg \in Message /\ CloseMsg.type # "ChannelData"
      BY MessageTypes DEF CloseMsg
    <2>2. /\ state[e] \in {"Connected", "CloseResponding", "Connecting"}
          /\ Emit(e, <<CloseMsg>>) /\ UNCHANGED streams
          /\ \/ state[e] = "CloseResponding" /\ Goto(e, "Closed")
             \/ state[e] # "CloseResponding" /\ Goto(e, "Closing")
      BY <1>5 DEF Close, PeerHasClosed
    <2> HIDE DEF CloseMsg
    <2> QED
      BY <2>1, <2>2, StreamControl
  <1> QED
    BY <1>2, <1>3, <1>4, <1>5

LEMMA StreamReceive ==
  ASSUME StreamOK, NEW e \in Ends,
         HandleNewChannel(e) \/ HandleNewChannelResponse(e) \/ HandleWindowAdjust(e)
           \/ HandleChannelClose(e)
  PROVE  StreamInv'
  <1>1. state \in [Ends -> States]
    BY ContextFacts DEF StreamOK
  <1>2. state' = [state EXCEPT ![e] = state[e]] <=> UNCHANGED state
    BY <1>1
  <1>3. ASSUME link[e] # <<>>, Head(link[e]).type # "ChannelData", Consume(e),
               UNCHANGED <<state, streams>>
        PROVE  StreamInv'
    BY <1>2, <1>3, StreamConsume
  <1>4. CASE HandleNewChannel(e)
    <2>1. /\ link[e] # <<>> /\ Head(link[e]).type = "SetupChannel" /\ Consume(e)
          /\ state[e] = "Init" /\ state' = [state EXCEPT ![e] = "ConnectResponding"]
          /\ UNCHANGED streams
      BY <1>4 DEF HandleNewChannel, Incoming, Goto
    <2> QED
      BY <2>1, StreamConsume
  <1>5. CASE HandleNewChannelResponse(e)
    <2>1. link[e] # <<>> /\ Head(link[e]).type = "SetupChannelResponse"
      BY <1>5 DEF HandleNewChannelResponse, Incoming
    <2>2. CASE state[e] = "Connecting" /\ HandleAccepted(e, Head(link[e]))
      <3>1. state' = [state EXCEPT ![e] = "Connected"] /\ Consume(e) /\ UNCHANGED streams
        BY <2>2 DEF HandleAccepted, Goto
      <3> QED
        BY <2>1, <2>2, <3>1, StreamConsume
    <2>3. CASE state[e] = "Connecting" /\ ~Head(link[e]).accept /\ HandleRejected(e)
      <3>1. state' = [state EXCEPT ![e] = "Rejected"] /\ UNCHANGED streams
        BY <2>3 DEF HandleRejected, Goto
      <3>2. e = "initiator" /\ state["acceptor"] = "Rejected"
        <4>1. e = "initiator"
          BY <2>3, ContextFacts DEF StreamOK
        <4>2. Incoming(e, "SetupChannelResponse")
          BY <2>1 DEF Incoming
        <4> QED
          BY <2>1, <2>3, <4>1, <4>2, IncomingMsg DEF StreamOK, Context, CloseOK, SetupInv
      <3>3. \A x \in Ends : state'[x] = "Rejected"
        BY <1>1, <3>1, <3>2, ContextFacts DEF StreamOK
      <3>4. UNCHANGED <<sent, arrived, eof, recvQueue>>
        BY <3>1 DEF streams
      <3>5. \A x \in Ends : ~Able(x)'
        BY <3>3 DEF Able
      <3>6. \A x \in Ends : state[x] \notin {"CloseResponding", "Closed"}
        BY <2>3, <3>2, ContextFacts DEF StreamOK
      <3> QED
        BY <3>3, <3>4, <3>5, <3>6, StreamKeep
    <2>4. CASE Consume(e) /\ UNCHANGED <<state, streams>>
      BY <1>3, <2>1, <2>4
    <2> QED
      BY <1>5, <2>2, <2>3, <2>4 DEF HandleNewChannelResponse
  <1>6. CASE HandleWindowAdjust(e)
    BY <1>3, <1>6 DEF HandleWindowAdjust, Incoming
  <1>7. CASE HandleChannelClose(e)
    <2>1. /\ link[e] # <<>> /\ Head(link[e]).type = "ChannelClose" /\ Consume(e)
          /\ UNCHANGED streams
      BY <1>7 DEF HandleChannelClose, Incoming
    <2>2. CASE state[e] = "Connected" /\ Goto(e, "CloseResponding")
      <3>1. Able(e)
        BY <2>2 DEF Able
      <3>2. arrived[e] = sent[Peer(e)]
        BY <2>1, <3>1, CloseIsLast
      <3> QED
        BY <2>1, <2>2, <3>2, StreamConsume DEF Goto
    <2>3. CASE state[e] = "Closing" /\ Goto(e, "Closed")
      BY <2>1, <2>3, StreamConsume DEF Goto
    <2>4. CASE UNCHANGED state
      BY <1>3, <2>1, <2>4
    <2> QED
      BY <1>7, <2>2, <2>3, <2>4 DEF HandleChannelClose
  <1> QED
    BY <1>4, <1>5, <1>6, <1>7

LEMMA StreamQuiet ==
  ASSUME StreamOK, UNCHANGED <<link, streams>>,
         \A x \in Ends : state'[x] = state[x] \/ (state[x] = "Closing" /\ state'[x] = "Closed")
  PROVE  StreamInv'
  <1>1. UNCHANGED <<sent, arrived, eof, recvQueue>>
    BY DEF streams
  <1>2. \A x \in Ends : Able(x)' => Able(x)
    BY DEF Able
  <1>3. \A x \in Ends : Able(x) =>
          Covers(link[x], "ChannelData", arrived[x], sent[Peer(x)]) /\ NoDataBehindClose(link[x])
    BY DEF StreamOK, StreamInv
  <1> QED
    BY <1>1, <1>2, <1>3, StreamKeep

LEMMA StreamNext ==
  ASSUME StreamOK, [Next]_vars
  PROVE  StreamInv'
  <1> USE ChannelAssumption
  <1>1. UNCHANGED vars => StreamInv'
    BY StreamQuiet DEF vars
  <1>2. ASSUME NEW e \in Ends, CloseTimeoutTriggered(e) PROVE StreamInv'
    <2>1. UNCHANGED <<link, streams>>
      BY <1>2 DEF CloseTimeoutTriggered
    <2>2. \A x \in Ends : state'[x] = state[x] \/ (state[x] = "Closing" /\ state'[x] = "Closed")
      BY <1>2, ContextFacts DEF StreamOK, CloseTimeoutTriggered, Goto
    <2> QED
      BY <2>1, <2>2, StreamQuiet
  <1>3. ASSUME NEW e \in Ends, Call(e) PROVE StreamInv'
    <2>1. ASSUME NEW n \in ChunkSizes, Send(e, n) PROVE StreamInv'
      BY <2>1, StreamSend
    <2>2. ASSUME NEW n \in ReadSizes, Recv(e, n) PROVE StreamInv'
      BY <2>2, StreamRecv
    <2> QED
      BY <1>3, <2>1, <2>2, StreamCall, StreamRecvEof DEF Call
  <1>4. ASSUME NEW e \in Ends, Receive(e) PROVE StreamInv'
    BY <1>4, StreamReceive, StreamDrop, StreamData DEF Receive
  <1> QED
    BY <1>1, <1>2, <1>3, <1>4 DEF Next
-----------------------------------------------------------------------------
(* The queue of a receiver.                                                *)

\* What StreamInOrder says of one queue.
InOrder(q, lo, hi) ==
  IF q = <<>>
  THEN lo = hi
  ELSE /\ Head(q).from = lo
       /\ q[Len(q)].upto = hi
       /\ \A i \in 1 .. Len(q) - 1 : q[i].upto = q[i + 1].from

LEMMA InOrderTail ==
  ASSUME NEW q \in Seq(Segment), q # <<>>, NEW lo \in Nat, NEW hi \in Nat, InOrder(q, lo, hi)
  PROVE  InOrder(Tail(q), lo + Bytes(Head(q)), hi)
  <1>1. /\ Len(q) \in Nat \ {0}
        /\ Len(Tail(q)) = Len(q) - 1
        /\ \A i \in 1 .. Len(Tail(q)) : Tail(q)[i] = q[i + 1]
        /\ Head(q) = q[1] /\ Tail(q) \in Seq(Segment)
    BY HeadTailProperties, EmptySeq
  <1>2. \A i \in 1 .. Len(q) : q[i].from \in Nat /\ q[i].upto \in Nat
    <2>1. \A i \in 1 .. Len(q) : q[i] \in Segment
      BY ElementOfSeq
    <2>2. \A s \in Segment : s.from \in Nat /\ s.upto \in Nat
      BY DEF Segment
    <2> QED
      BY <2>1, <2>2
  <1>3. 1 \in 1 .. Len(q) /\ lo + Bytes(Head(q)) = q[1].upto
    BY <1>1, <1>2 DEF InOrder, Bytes
  <1>4. CASE Tail(q) = <<>>
    <2>1. Len(q) = 1
      <3> DEFINE t == Tail(q)
      <3>1. t = <<>> /\ Len(t) = Len(q) - 1 /\ Len(q) \in Nat
        BY <1>1, <1>4
      <3> HIDE DEF t
      <3>2. Len(t) = 0
        BY <3>1
      <3> QED
        BY <3>1, <3>2
    <2> QED
      BY <1>3, <1>4, <2>1 DEF InOrder
  <1>5. CASE Tail(q) # <<>>
    <2>1. Len(Tail(q)) \in Nat \ {0}
      BY <1>1, <1>5, EmptySeq
    <2>2. Head(Tail(q)) = q[2]
      <3>1. Head(Tail(q)) = Tail(q)[1]
        BY <1>1, <1>5, HeadTailProperties
      <3> QED
        BY <1>1, <2>1, <3>1
    <2>3. q[1].upto = q[2].from
      <3>1. 1 \in 1 .. Len(q) - 1
        BY <1>1, <2>1
      <3> QED
        BY <3>1 DEF InOrder
    <2>4. Tail(q)[Len(Tail(q))].upto = hi
      BY <1>1, <2>1 DEF InOrder
    <2>5. ASSUME NEW i \in 1 .. Len(Tail(q)) - 1
          PROVE  Tail(q)[i].upto = Tail(q)[i + 1].from
      <3>1. /\ i \in 1 .. Len(Tail(q)) /\ i + 1 \in 1 .. Len(Tail(q))
            /\ i + 1 \in 1 .. Len(q) - 1
        BY <1>1
      <3>2. Tail(q)[i] = q[i + 1] /\ Tail(q)[i + 1] = q[(i + 1) + 1]
        BY <1>1, <3>1
      <3>3. q[i + 1].upto = q[(i + 1) + 1].from
        BY <3>1 DEF InOrder
      <3> QED
        BY <3>2, <3>3
    <2> QED
      BY <1>3, <1>5, <2>2, <2>3, <2>4, <2>5 DEF InOrder
  <1> QED
    BY <1>4, <1>5

LEMMA InOrderTrim ==
  ASSUME NEW q \in Seq(Segment), q # <<>>, NEW lo \in Nat, NEW hi \in Nat, InOrder(q, lo, hi),
         NEW n \in Nat
  PROVE  InOrder(Trimmed(q, n), lo + n, hi)
  <1> DEFINE h == [Head(q) EXCEPT !.from = @ + n]
             t == Tail(q)
             r == Trimmed(q, n)
  <1>1. /\ Len(q) \in Nat \ {0} /\ Len(t) = Len(q) - 1
        /\ \A i \in 1 .. Len(t) : t[i] = q[i + 1]
        /\ Head(q) = q[1] /\ Head(q) \in Segment /\ t \in Seq(Segment)
    BY HeadTailProperties, EmptySeq
  <1>2. h \in Segment /\ h.from = Head(q).from + n /\ h.upto = Head(q).upto
    BY <1>1 DEF Segment
  <1> HIDE DEF h, t
  <1>3. /\ <<h>> \in Seq(Segment) /\ Len(<<h>>) = 1 /\ <<h>>[1] = h
    BY <1>2
  <1>4. r = <<h>> \o t
    BY DEF Trimmed, h, t
  <1> HIDE DEF r
  <1>5. /\ Len(r) = Len(q) /\ r[1] = h /\ r \in Seq(Segment)
        /\ \A i \in 2 .. Len(q) : r[i] = q[i]
    <2>1. /\ Len(r) = 1 + Len(t) /\ r \in Seq(Segment)
          /\ \A i \in 1 .. 1 + Len(t) : r[i] = IF i <= 1 THEN <<h>>[i] ELSE t[i - 1]
      BY <1>1, <1>3, <1>4, ConcatProperties
    <2>2. ASSUME NEW i \in 2 .. Len(q) PROVE r[i] = q[i]
      <3>1. i - 1 \in 1 .. Len(t) /\ i \in 1 .. 1 + Len(t) /\ ~(i <= 1)
        BY <1>1
      <3>2. r[i] = t[i - 1] /\ t[i - 1] = q[(i - 1) + 1]
        BY <1>1, <2>1, <3>1
      <3> QED
        BY <3>2
    <2>3. r[1] = h
      BY <1>1, <1>3, <2>1
    <2> QED
      BY <1>1, <2>1, <2>2, <2>3
  <1>6. r # <<>> /\ Head(r) = h
    BY <1>1, <1>5, EmptySeq, HeadTailProperties
  <1>7. r[Len(r)].upto = hi
    <2>1. CASE Len(q) = 1
      BY <1>1, <1>2, <1>5, <2>1 DEF InOrder
    <2>2. CASE Len(q) # 1
      <3>1. Len(q) \in 2 .. Len(q)
        BY <1>1, <2>2
      <3> QED
        BY <1>5, <3>1 DEF InOrder
    <2> QED
      BY <2>1, <2>2
  <1>8. ASSUME NEW i \in 1 .. Len(r) - 1 PROVE r[i].upto = r[i + 1].from
    <2>1. /\ i \in 1 .. Len(q) - 1 /\ i + 1 \in 2 .. Len(q)
          /\ i = 1 \/ i \in 2 .. Len(q)
      BY <1>1, <1>5
    <2>2. r[i + 1] = q[i + 1] /\ (i = 1 \/ r[i] = q[i]) /\ q[i].upto = q[i + 1].from
      BY <1>5, <2>1 DEF InOrder
    <2> QED
      BY <1>1, <1>2, <1>5, <2>1, <2>2
  <1> QED
    BY <1>2, <1>6, <1>7, <1>8 DEF InOrder, r

LEMMA InOrderAppend ==
  ASSUME NEW q \in Seq(Segment), NEW lo \in Nat, NEW hi \in Nat, InOrder(q, lo, hi),
         NEW s \in Segment, s.from = hi
  PROVE  InOrder(Append(q, s), lo, s.upto)
  <1> DEFINE n == Len(q)
             r == Append(q, s)
  <1>1. /\ n \in Nat /\ Len(r) = n + 1 /\ r[n + 1] = s
        /\ \A i \in 1 .. n : r[i] = q[i]
        /\ r \in Seq(Segment)
    BY AppendProperties
  <1>2. q = <<>> <=> n = 0
    BY EmptySeq
  <1> HIDE DEF n, r
  <1>3. r # <<>> /\ Head(r) = r[1]
    BY <1>1, EmptySeq, HeadTailProperties
  <1>4. Head(r).from = lo
    <2>1. CASE n = 0
      BY <1>1, <1>2, <1>3, <2>1 DEF InOrder
    <2>2. CASE n # 0
      <3>1. 1 \in 1 .. n /\ Head(q) = q[1]
        BY <1>1, <1>2, <2>2, HeadTailProperties
      <3> QED
        BY <1>1, <1>2, <1>3, <2>2, <3>1 DEF InOrder
    <2> QED
      BY <2>1, <2>2
  <1>5. ASSUME NEW i \in 1 .. Len(r) - 1 PROVE r[i].upto = r[i + 1].from
    <2>1. i \in 1 .. n /\ r[i] = q[i] /\ q # <<>>
      BY <1>1, <1>2, <1>5
    <2>2. CASE i = n
      <3>1. q[n].upto = hi
        BY <2>1 DEF InOrder, n
      <3> QED
        BY <1>1, <2>1, <2>2, <3>1
    <2>3. CASE i # n
      <3>1. i \in 1 .. n - 1 /\ i + 1 \in 1 .. n
        BY <1>1, <2>1, <2>3
      <3>2. q[i].upto = q[i + 1].from
        BY <2>1, <3>1 DEF InOrder, n
      <3> QED
        BY <1>1, <2>1, <3>1, <3>2
    <2> QED
      BY <2>2, <2>3
  <1>6. r[Len(r)].upto = s.upto
    BY <1>1
  <1> QED
    BY <1>3, <1>4, <1>5, <1>6 DEF InOrder, r

\* What is read is taken off the front of the queue and what arrives is put
\* at its end, in the order of the stream.
LEMMA OrderNext ==
  ASSUME StreamOK, StreamInOrder, [Next]_vars
  PROVE  StreamInOrder'
  <1> USE ChannelAssumption
  <1>1. \A x \in Ends : InOrder(recvQueue[x], read[x], arrived[x])
    BY DEF StreamInOrder, InOrder
  <1>2. /\ recvQueue \in [Ends -> Seq(Segment)] /\ read \in [Ends -> Nat]
        /\ arrived \in [Ends -> Nat]
    BY ContextFacts DEF StreamOK, TypeInv
  <1>3. ASSUME UNCHANGED <<recvQueue, read, arrived>>
        PROVE  \A x \in Ends : InOrder(recvQueue'[x], read'[x], arrived'[x])
    BY <1>1, <1>3
  <1>4. ASSUME NEW e \in Ends, NEW n \in ReadSizes, Recv(e, n)
        PROVE  \A x \in Ends : InOrder(recvQueue'[x], read'[x], arrived'[x])
    <2>1. n \in Nat \ {0}
      OBVIOUS
    <2>2. recvQueue[e] # <<>> /\ arrived' = arrived
      BY <1>4, <2>1, RecvFacts DEF StreamOK
    <2>3. PICK taken \in Nat \ {0} :
            /\ read' = [read EXCEPT ![e] = @ + taken]
            /\ \/ /\ taken = Bytes(Head(recvQueue[e]))
                  /\ recvQueue' = [recvQueue EXCEPT ![e] = Tail(@)]
               \/ recvQueue' = [recvQueue EXCEPT ![e] = Trimmed(@, taken)]
      BY <1>4, <2>1, RecvFacts DEF StreamOK
    <2> DEFINE q == recvQueue[e]
               lo == read[e]
               hi == arrived[e]
    <2>4. q \in Seq(Segment) /\ q # <<>> /\ lo \in Nat /\ hi \in Nat /\ InOrder(q, lo, hi)
      BY <1>1, <1>2, <2>2
    <2>5. read'[e] = lo + taken /\ arrived'[e] = hi
      BY <1>2, <2>2, <2>3
    <2>6. \A x \in Ends \ {e} :
            recvQueue'[x] = recvQueue[x] /\ read'[x] = read[x] /\ arrived'[x] = arrived[x]
      BY <1>2, <2>2, <2>3
    <2>7. \/ taken = Bytes(Head(q)) /\ recvQueue'[e] = Tail(q)
          \/ recvQueue'[e] = Trimmed(q, taken)
      BY <1>2, <2>3
    <2> HIDE DEF q, lo, hi
    <2>8. InOrder(recvQueue'[e], lo + taken, hi)
      BY <2>4, <2>7, InOrderTail, InOrderTrim
    <2> QED
      BY <1>1, <2>5, <2>6, <2>8
  <1>5. ASSUME NEW e \in Ends, HandleChannelData(e)
        PROVE  \A x \in Ends : InOrder(recvQueue'[x], read'[x], arrived'[x])
    <2> DEFINE m == Head(link[e])
               s == [from |-> m.from, upto |-> m.upto]
    <2>1. /\ m.from \in Nat /\ m.upto \in Nat /\ read' = read
          /\ \/ /\ m.from = arrived[e] /\ arrived' = [arrived EXCEPT ![e] = m.upto]
                /\ recvQueue' = [recvQueue EXCEPT ![e] = Append(@, s)]
             \/ UNCHANGED <<recvQueue, arrived>>
      BY <1>5, DataFacts
    <2>2. CASE UNCHANGED <<recvQueue, arrived>>
      BY <1>3, <2>1, <2>2
    <2>3. CASE /\ m.from = arrived[e] /\ arrived' = [arrived EXCEPT ![e] = m.upto]
               /\ recvQueue' = [recvQueue EXCEPT ![e] = Append(@, s)]
      <3>1. s \in Segment /\ s.from = arrived[e] /\ s.upto = m.upto
        BY <2>1, <2>3 DEF Segment
      <3> HIDE DEF m, s
      <3>2. recvQueue'[e] = Append(recvQueue[e], s) /\ arrived'[e] = s.upto /\ read'[e] = read[e]
        BY <1>2, <2>1, <2>3, <3>1
      <3>3. InOrder(recvQueue'[e], read'[e], arrived'[e])
        BY <1>1, <1>2, <3>1, <3>2, InOrderAppend
      <3>4. \A x \in Ends \ {e} :
              recvQueue'[x] = recvQueue[x] /\ read'[x] = read[x] /\ arrived'[x] = arrived[x]
        BY <1>2, <2>1, <2>3
      <3> QED
        BY <1>1, <3>3, <3>4
    <2> QED
      BY <2>1, <2>2, <2>3
  <1>6. \/ UNCHANGED <<recvQueue, read, arrived>>
        \/ \E e \in Ends : \E n \in ReadSizes : Recv(e, n)
        \/ \E e \in Ends : HandleChannelData(e)
    <2>1. UNCHANGED vars => UNCHANGED <<recvQueue, read, arrived>>
      BY DEF vars, streams
    <2>2. ASSUME NEW e \in Ends, Connect(e) \/ Accept(e) \/ Close(e)
          PROVE  UNCHANGED <<recvQueue, read, arrived>>
      BY <2>2 DEF Connect, Accept, Close, Reject, streams
    <2>3. ASSUME NEW e \in Ends, RecvEof(e) \/ \E n \in ChunkSizes : Send(e, n)
          PROVE  UNCHANGED <<recvQueue, read, arrived>>
      BY <2>3 DEF RecvEof, Send
    <2>4. ASSUME NEW e \in Ends, HandleNewChannel(e) \/ HandleNewChannelResponse(e)
          PROVE  UNCHANGED <<recvQueue, read, arrived>>
      BY <2>4 DEF HandleNewChannel, HandleNewChannelResponse, HandleAccepted, HandleRejected, streams
    <2>5. ASSUME NEW e \in Ends,
                 \/ DropUnregistered(e) \/ HandleWindowAdjust(e) \/ HandleChannelClose(e)
                 \/ CloseTimeoutTriggered(e)
          PROVE  UNCHANGED <<recvQueue, read, arrived>>
      BY <2>5 DEF DropUnregistered, HandleWindowAdjust, HandleChannelClose,
                  CloseTimeoutTriggered, streams
    <2> QED
      BY <2>1, <2>2, <2>3, <2>4, <2>5 DEF Next, Call, Receive
  <1>7. \A x \in Ends : InOrder(recvQueue'[x], read'[x], arrived'[x])
    BY <1>3, <1>4, <1>5, <1>6
  <1> QED
    BY <1>7 DEF StreamInOrder, InOrder
-----------------------------------------------------------------------------
(* The theorems.                                                           *)

\* The inductive invariant of the stream.
ChannelInv ==
  /\ FlowInv /\ SetupInv /\ CloseInv /\ RegistryInv
  /\ WriteInv /\ HandshakeInv /\ StreamInv /\ StreamInOrder

LEMMA ChannelInit == Init => ChannelInv
  <1> SUFFICES ASSUME Init PROVE ChannelInv
    OBVIOUS
  <1>1. FlowInv /\ SetupInv /\ CloseInv
    BY FlowInit, CloseInit
  <1>2. /\ RegistryInv /\ WriteInv /\ StreamInOrder
        /\ \A e \in Ends : /\ state[e] = "Init" /\ link[e] = <<>> /\ ~eof[e]
                           /\ sent[e] = 0 /\ arrived[e] = 0
        /\ "initiator" \in Ends /\ "acceptor" \in Ends
    BY DEF Init, RegistryInv, Held, States, WriteInv, StreamInOrder, Ends
  <1>3. HandshakeInv
    BY <1>2 DEF HandshakeInv
  <1>4. StreamInv
    <2>1. \A e \in Ends : Covers(link[e], "ChannelData", arrived[e], sent[Peer(e)])
      BY <1>2, PeerFacts DEF Covers
    <2>2. \A e \in Ends : NoDataBehindClose(link[e])
      BY <1>2 DEF NoDataBehindClose
    <2> QED
      BY <1>2, <2>1, <2>2 DEF StreamInv
  <1> QED
    BY <1>1, <1>2, <1>3, <1>4 DEF ChannelInv

LEMMA ChannelNext == ChannelInv /\ [Next]_vars => ChannelInv'
  <1> SUFFICES ASSUME ChannelInv, [Next]_vars PROVE ChannelInv'
    OBVIOUS
  <1>1. CloseOK /\ Context /\ StreamOK
    BY DEF ChannelInv, CloseOK, Context, StreamOK
  <1>2. FlowInv' /\ SetupInv' /\ CloseInv' /\ RegistryInv'
    BY <1>1, FlowNext, CloseNext, RegistryNext DEF ChannelInv
  <1>3. WriteInv' /\ HandshakeInv' /\ StreamInv' /\ StreamInOrder'
    BY <1>1, WriteNext, HandshakeNext, StreamNext, OrderNext DEF ChannelInv
  <1> QED
    BY <1>2, <1>3 DEF ChannelInv

\* The conjunction of the invariants of flow control, set-up, close, registry, handshake
\* and data of the two ends (Channel.cc), which is inductive.
THEOREM ChannelInvariant == Spec => []ChannelInv
  BY ChannelInit, ChannelNext, PTL DEF Spec

\* The queue that Recv (Channel.cc:296) reads from is the unread part of the
\* stream of the peer, without gap, overlap or reordering, whatever is sent,
\* read, given back and closed at the same time.
THEOREM StreamIsInOrder == Spec => []StreamInOrder
  <1>1. ChannelInv => StreamInOrder
    BY DEF ChannelInv
  <1> QED
    BY <1>1, ChannelInvariant, PTL

\* When Recv can only return 0, the reader has been given all that the peer
\* ever sent: data are never behind a Close, and none are dropped before it.
THEOREM EofComesLast == Spec => []EofIsComplete
  <1>1. ChannelInv => EofIsComplete
    BY DEF ChannelInv, StreamInv, StreamInOrder, EofIsComplete
  <1> QED
    BY <1>1, ChannelInvariant, PTL

-----------------------------------------------------------------------------
(* The pipes that both ends see.                                           *)

\* Every step of a channel is a step of the pair of pipes or changes nothing
\* that its two applications see.
LEMMA PipeStutter ==
  ASSUME UNCHANGED <<sent, read, eof>>,
         \A e \in Ends : state'[e] \in Leaving <=> state[e] \in Leaving
  PROVE  UNCHANGED Pipe!pipeVars
  BY DEF Pipe!pipeVars, Leaving

LEMMA PipeSend ==
  ASSUME ChannelInv, NEW e \in Ends, NEW n \in Nat \ {0}, Send(e, n)
  PROVE  Pipe!Write(e)
  <1> DEFINE f == Peer(e)
  <1>1. /\ allowWrite[e] /\ n <= remoteWindow[e]
        /\ sent' = [sent EXCEPT ![e] = @ + n] /\ UNCHANGED <<state, read, eof>>
    BY DEF Send
  <1>2. state[e] \notin Leaving
    BY <1>1 DEF ChannelInv, WriteInv, Leaving
  <1>3. sent[e] + n <= read[f] + WindowSize
    <2>1. f \in Ends /\ Peer(f) = e
      BY PeerFacts
    <2>2. /\ remoteWindow[e] + sent[e] - credited[e] <= WindowSize
          /\ localConsumed[f] = read[f] - granted[f] /\ credited[e] <= granted[f]
      BY <2>1 DEF ChannelInv, FlowInv, WindowBooks, Traffic
    <2>3. /\ remoteWindow[e] \in Nat /\ sent[e] \in Nat /\ credited[e] \in Nat
          /\ localConsumed[f] \in Nat /\ read[f] \in Nat /\ granted[f] \in Nat
          /\ WindowSize \in Nat
      BY <2>1, ChannelAssumption DEF ChannelInv, FlowInv, TypeInv
    <2> HIDE DEF f
    <2> QED
      BY <1>1, <2>2, <2>3
  <1>4. sent[e] \in Nat /\ read[f] \in Nat /\ WindowSize \in Nat
    BY PeerFacts, ChannelAssumption DEF ChannelInv, FlowInv, TypeInv
  <1>5. sent[e] + n \in sent[e] + 1 .. read[f] + WindowSize
    BY <1>3, <1>4
  <1>6. sent' = [sent EXCEPT ![e] = sent[e] + n]
    BY <1>1
  <1> QED
    BY <1>1, <1>2, <1>5, <1>6 DEF Pipe!Write, Leaving

LEMMA PipeRecv ==
  ASSUME ChannelInv, NEW e \in Ends, NEW n \in Nat \ {0}, Recv(e, n)
  PROVE  Pipe!Read(Peer(e))
  <1> DEFINE f == Peer(e)
             seen == [x \in Ends |-> read[Peer(x)]]
  <1>1. f \in Ends /\ Peer(f) = e /\ \A x \in Ends : Peer(x) = e <=> x = f
    BY PeerFacts
  <1>2. Context
    BY DEF ChannelInv, Context, CloseOK
  <1>3. recvQueue[e] # <<>> /\ UNCHANGED <<state, sent, eof>>
    BY <1>2, RecvFacts
  <1>4. PICK taken \in Nat \ {0} :
          read' = [read EXCEPT ![e] = @ + taken] /\ read[e] + taken <= arrived[e]
    BY <1>2, RecvFacts
  <1>5. /\ read \in [Ends -> Nat] /\ arrived[e] \in Nat /\ sent[f] \in Nat
        /\ arrived[e] <= sent[f]
    BY <1>1 DEF ChannelInv, FlowInv, TypeInv, Traffic
  <1>6. ~eof[e]
    BY <1>3 DEF ChannelInv, StreamInv
  <1>7. read[e] + taken \in read[e] + 1 .. sent[f]
    BY <1>4, <1>5
  <1>8. seen' = [seen EXCEPT ![f] = read[e] + taken]
    <2>1. \A x \in Ends : read'[Peer(x)] = IF x = f THEN read[e] + taken ELSE read[Peer(x)]
      BY <1>1, <1>4, <1>5, PeerFacts
    <2> QED
      BY <1>1, <2>1
  <1>9. seen[f] = read[e]
    BY <1>1
  <1> QED
    BY <1>1, <1>3, <1>6, <1>7, <1>8, <1>9 DEF Pipe!Read

LEMMA PipeRecvEof ==
  ASSUME ChannelInv, NEW e \in Ends, RecvEof(e)
  PROVE  Pipe!End(Peer(e))
  <1> DEFINE f == Peer(e)
             seen == [x \in Ends |-> eof[Peer(x)]]
  <1>1. f \in Ends /\ Peer(f) = e /\ \A x \in Ends : Peer(x) = e <=> x = f
    BY PeerFacts
  <1>2. /\ state[e] = "CloseResponding" /\ recvQueue[e] = <<>>
        /\ eof' = [eof EXCEPT ![e] = TRUE] /\ UNCHANGED <<state, sent, read>>
    BY DEF RecvEof
  <1>3. state[f] \in {"Closing", "Closed"} /\ read[e] = sent[f]
    BY <1>2 DEF ChannelInv, CloseInv, Leaving, StreamInv, StreamInOrder
  <1>4. seen' = [seen EXCEPT ![f] = TRUE]
    <2>1. eof \in [Ends -> BOOLEAN]
      BY DEF ChannelInv, FlowInv, TypeInv
    <2>2. \A x \in Ends : eof'[Peer(x)] = IF x = f THEN TRUE ELSE eof[Peer(x)]
      BY <1>1, <1>2, <2>1, PeerFacts
    <2> QED
      BY <1>1, <2>2
  <1> QED
    BY <1>1, <1>2, <1>3, <1>4 DEF Pipe!End

LEMMA PipeClose ==
  ASSUME ChannelInv, NEW e \in Ends, Close(e), ~Reject(e)
  PROVE  Pipe!Shut(e)
  <1> DEFINE shut == [x \in Ends |-> state[x] \in {"Closing", "Closed"}]
  <1>1. /\ state[e] \in {"Connected", "CloseResponding", "Connecting"}
        /\ UNCHANGED <<sent, read, eof>>
        /\ Goto(e, "Closed") \/ Goto(e, "Closing")
    BY DEF Close, streams
  <1>2. state \in [Ends -> States]
    BY DEF ChannelInv, FlowInv, TypeInv
  <1>3. shut' = [shut EXCEPT ![e] = TRUE]
    <2>1. \A x \in Ends : (state'[x] \in {"Closing", "Closed"})
                            = (IF x = e THEN TRUE ELSE state[x] \in {"Closing", "Closed"})
      BY <1>1, <1>2 DEF Goto
    <2> QED
      BY <2>1
  <1> QED
    BY <1>1, <1>3 DEF Pipe!Shut

\* The other steps of an end, which it takes on its own.
LEMMA PipeOther ==
  ASSUME ChannelInv, NEW e \in Ends,
         Connect(e) \/ Accept(e) \/ Reject(e) \/ Receive(e) \/ CloseTimeoutTriggered(e)
  PROVE  UNCHANGED Pipe!pipeVars
  <1>1. state \in [Ends -> States]
    BY DEF ChannelInv, FlowInv, TypeInv
  <1>2. UNCHANGED <<sent, read, eof>>
    BY DEF Connect, Accept, Reject, Receive, HandleNewChannel, DropUnregistered,
           HandleNewChannelResponse, HandleAccepted, HandleRejected, HandleChannelData,
           HandleWindowAdjust, HandleChannelClose, CloseTimeoutTriggered, streams
  <1>3. \/ UNCHANGED state
        \/ \E to \in States :
             /\ state' = [state EXCEPT ![e] = to]
             /\ to \in Leaving <=> state[e] \in Leaving
    <2>1. CASE Connect(e) \/ Accept(e) \/ Reject(e) \/ HandleNewChannel(e)
      BY <2>1 DEF Connect, Accept, Reject, HandleNewChannel, Goto, Leaving, States
    <2>2. CASE HandleNewChannelResponse(e)
      BY <2>2 DEF HandleNewChannelResponse, HandleAccepted, HandleRejected, Goto, Leaving, States
    <2>3. CASE HandleChannelClose(e) \/ CloseTimeoutTriggered(e)
      BY <2>3 DEF HandleChannelClose, CloseTimeoutTriggered, Goto, Leaving, States
    <2>4. CASE DropUnregistered(e) \/ HandleChannelData(e) \/ HandleWindowAdjust(e)
      BY <2>4 DEF DropUnregistered, HandleChannelData, HandleWindowAdjust
    <2> QED
      BY <2>1, <2>2, <2>3, <2>4 DEF Receive
  <1>4. \A x \in Ends : state'[x] \in Leaving <=> state[x] \in Leaving
    BY <1>1, <1>3
  <1> QED
    BY <1>2, <1>4, PipeStutter

LEMMA PipeNext ==
  ASSUME ChannelInv, [Next]_vars
  PROVE  [Pipe!Next]_(Pipe!pipeVars)
  <1> USE ChannelAssumption
  <1>1. ASSUME NEW e \in Ends, NEW n \in ChunkSizes, Send(e, n) PROVE Pipe!Next
    BY <1>1, PipeSend DEF Pipe!Next
  <1>2. ASSUME NEW e \in Ends, NEW n \in ReadSizes, Recv(e, n) PROVE Pipe!Next
    BY <1>2, PipeRecv, PeerFacts DEF Pipe!Next
  <1>3. ASSUME NEW e \in Ends, RecvEof(e) PROVE Pipe!Next
    BY <1>3, PipeRecvEof, PeerFacts DEF Pipe!Next
  <1>4. ASSUME NEW e \in Ends, Close(e), ~Reject(e) PROVE Pipe!Next
    BY <1>4, PipeClose DEF Pipe!Next
  <1>5. UNCHANGED vars => UNCHANGED Pipe!pipeVars
    BY PipeStutter DEF vars, streams
  <1> QED
    BY <1>1, <1>2, <1>3, <1>4, <1>5, PipeOther DEF Next, Call

\* Two applications that only know of a channel what its calls return see a
\* pair of reliable pipes of one window each (module BytePipe).
THEOREM ChannelIsPipe == Spec => ImplementsPipe
  <1>1. Init => Pipe!Init
    <2> SUFFICES ASSUME Init PROVE Pipe!Init
      OBVIOUS
    <2>1. /\ \A e \in Ends : read[Peer(e)] = 0 /\ eof[Peer(e)] = FALSE
          /\ \A e \in Ends : (state[e] \in {"Closing", "Closed"}) = FALSE
          /\ sent = [e \in Ends |-> 0]
      BY PeerFacts DEF Init
    <2> QED
      BY <2>1 DEF Pipe!Init
  <1>2. ChannelInv /\ [Next]_vars => [Pipe!Next]_(Pipe!pipeVars)
    BY PipeNext
  <1> QED
    BY <1>1, <1>2, ChannelInvariant, PTL DEF Spec, ImplementsPipe, Pipe!Spec

-----------------------------------------------------------------------------
(***************************************************************************)
(* No credit of a sender gets lost.  CreditCovered (ChannelProofs) bounds  *)
(* what a sender may send from above; NoCreditLeak bounds it from below.   *)
(* It counts the bytes that the messages on a link carry, a recursive sum, *)
(* so this part starts with an induction over the natural numbers: not by  *)
(* the induction theorems of the library, which take a predicate as a      *)
(* parameter, but from the least element of a set (WFMin).                 *)
(***************************************************************************)

-----------------------------------------------------------------------------
(* Induction and sums.                                                     *)

\* A set of natural numbers has a least element.
LEMMA LeastElement ==
  ASSUME NEW T \in SUBSET Nat, T # {}
  PROVE  \E m \in T : \A k \in T : m <= k
  <1> DEFINE R == OpToRel(<, Nat)
  <1>1. IsWellFoundedOn(R, Nat)
    BY NatLessThanWellFounded
  <1> HIDE DEF R
  <1>2. PICK m \in T : \A k \in T : <<k, m>> \notin R
    BY <1>1, WFMin
  <1>3. \A k \in T : k < m => <<k, m>> \in R
    BY DEF R, OpToRel
  <1>4. \A k \in T : k \in Nat /\ m \in Nat /\ ~(k < m)
    BY <1>2, <1>3
  <1>5. \A k \in T : m <= k
    BY <1>4
  <1> QED
    BY <1>5

\* A set that holds 0 and with every number below n the next one holds all
\* numbers up to n.
LEMMA CountUp ==
  ASSUME NEW n \in Nat, NEW S, 0 \in S, \A k \in 0 .. n - 1 : k \in S => k + 1 \in S
  PROVE  0 .. n \subseteq S
  <1> SUFFICES ASSUME ~(0 .. n \subseteq S) PROVE FALSE
    OBVIOUS
  <1> DEFINE T == (0 .. n) \ S
  <1>1. T \in SUBSET Nat /\ T # {}
    OBVIOUS
  <1>2. PICK m \in T : \A k \in T : m <= k
    BY <1>1, LeastElement
  <1>3. m \in 0 .. n /\ m # 0
    OBVIOUS
  <1>4. m - 1 \in 0 .. n - 1 /\ ~(m <= m - 1) /\ m - 1 \in 0 .. n /\ (m - 1) + 1 = m
    BY <1>3
  <1>5. m - 1 \in S
    BY <1>2, <1>4
  <1> QED
    BY <1>4, <1>5

\* The partial sums of n numbers exist.
LEMMA SumsExist ==
  ASSUME NEW n \in Nat, NEW w \in [1 .. n -> Nat]
  PROVE  \E f : f = [i \in 0 .. n |-> IF i = 0 THEN 0 ELSE f[i - 1] + w[i]]
  <1> DEFINE Good(k) == \E f \in [0 .. k -> Nat] :
                          f[0] = 0 /\ \A i \in 1 .. k : f[i] = f[i - 1] + w[i]
             S == {k \in 0 .. n : Good(k)}
  <1>1. 0 \in S
    <2> DEFINE f == [i \in 0 .. 0 |-> 0]
    <2>1. f \in [0 .. 0 -> Nat] /\ f[0] = 0 /\ \A i \in 1 .. 0 : f[i] = f[i - 1] + w[i]
      OBVIOUS
    <2>2. Good(0)
      BY <2>1
    <2> QED
      BY <2>2
  <1>2. ASSUME NEW k \in 0 .. n - 1, k \in S PROVE k + 1 \in S
    <2>1. PICK f \in [0 .. k -> Nat] :
            f[0] = 0 /\ \A i \in 1 .. k : f[i] = f[i - 1] + w[i]
      BY <1>2
    <2> DEFINE g == [i \in 0 .. k + 1 |-> IF i <= k THEN f[i] ELSE f[k] + w[k + 1]]
    <2>2. f[k] \in Nat /\ w[k + 1] \in Nat
      BY <1>2
    <2>3. g \in [0 .. k + 1 -> Nat] /\ g[0] = 0
      BY <1>2, <2>1, <2>2
    <2>4. ASSUME NEW i \in 1 .. k + 1 PROVE g[i] = g[i - 1] + w[i]
      <3>1. CASE i <= k
        BY <1>2, <2>1, <3>1
      <3>2. CASE ~(i <= k)
        BY <1>2, <2>1, <3>2
      <3> QED
        BY <3>1, <3>2
    <2> HIDE DEF g
    <2>5. Good(k + 1)
      BY <2>3, <2>4
    <2>6. k + 1 \in 0 .. n
      BY <1>2
    <2> HIDE DEF Good
    <2> QED
      BY <2>5, <2>6
  <1> HIDE DEF S
  <1>3. 0 .. n \subseteq S
    BY <1>1, <1>2, CountUp
  <1>4. PICK f \in [0 .. n -> Nat] :
          f[0] = 0 /\ \A i \in 1 .. n : f[i] = f[i - 1] + w[i]
    <2>1. n \in S
      BY <1>3
    <2>2. Good(n)
      <3> HIDE DEF Good
      <3> QED
        BY <2>1 DEF S
    <2> QED
      BY <2>2
  <1>5. f = [i \in 0 .. n |-> IF i = 0 THEN 0 ELSE f[i - 1] + w[i]]
    <2>1. \A i \in 0 .. n : f[i] = IF i = 0 THEN 0 ELSE f[i - 1] + w[i]
      BY <1>4
    <2> QED
      BY <2>1
  <1> QED
    BY <1>5

\* The bytes of the messages of one type on a link.
Weight(q, type, i) == IF q[i].type = type THEN Bytes(q[i]) ELSE 0

LEMMA OnLinkSums ==
  ASSUME NEW e \in Ends, NEW type, link[e] \in Seq(Message),
         \A i \in 1 .. Len(link[e]) : Weight(link[e], type, i) \in Nat
  PROVE  \E f : /\ OnLink(e, type) = f[Len(link[e])]
                /\ f[0] = 0
                /\ \A i \in 1 .. Len(link[e]) : f[i] = f[i - 1] + Weight(link[e], type, i)
  <1> DEFINE q == link[e]
             n == Len(q)
             F == CHOOSE f : f = [i \in 0 .. n |->
                    IF i = 0 THEN 0 ELSE f[i - 1] + IF q[i].type = type THEN Bytes(q[i]) ELSE 0]
  <1>1. OnLink(e, type) = F[n]
    BY DEF OnLink
  <1>2. \E f : f = [i \in 0 .. n |->
          IF i = 0 THEN 0 ELSE f[i - 1] + IF q[i].type = type THEN Bytes(q[i]) ELSE 0]
    <2> DEFINE w == [i \in 1 .. n |-> Weight(q, type, i)]
    <2>1. n \in Nat /\ w \in [1 .. n -> Nat]
      BY LenProperties
    <2> HIDE DEF w
    <2>2. PICK f : f = [i \in 0 .. n |-> IF i = 0 THEN 0 ELSE f[i - 1] + w[i]]
      BY <2>1, SumsExist
    <2>3. \A i \in 0 .. n : i # 0 => w[i] = IF q[i].type = type THEN Bytes(q[i]) ELSE 0
      BY <2>1 DEF w, Weight
    <2>4. f = [i \in 0 .. n |->
            IF i = 0 THEN 0 ELSE f[i - 1] + IF q[i].type = type THEN Bytes(q[i]) ELSE 0]
      BY <2>2, <2>3
    <2> QED
      BY <2>4
  <1>3. F = [i \in 0 .. n |->
          IF i = 0 THEN 0 ELSE F[i - 1] + IF q[i].type = type THEN Bytes(q[i]) ELSE 0]
    BY <1>2
  <1> HIDE DEF F
  <1>4. n \in Nat
    BY LenProperties
  <1>5. F[0] = 0 /\ \A i \in 1 .. n : F[i] = F[i - 1] + Weight(q, type, i)
    <2>1. \A i \in 0 .. n :
            F[i] = IF i = 0 THEN 0 ELSE F[i - 1] + IF q[i].type = type THEN Bytes(q[i]) ELSE 0
      BY <1>3
    <2> QED
      BY <1>4, <2>1 DEF Weight
  <1> QED
    BY <1>1, <1>5

\* Messages that carry an interval in order and without a gap carry as many
\* bytes as it is long: before each of them the sum so far has come to where
\* the message starts.
LEMMA OnLinkCounts ==
  ASSUME NEW e \in Ends, NEW type \in {"ChannelData", "ChannelWindowAdjust"},
         link[e] \in Seq(Message), NEW lo \in Nat, NEW hi \in Nat, lo <= hi,
         Ascending(link[e], type, lo, hi), Covers(link[e], type, lo, hi)
  PROVE  OnLink(e, type) = hi - lo
  <1> DEFINE q == link[e]
             n == Len(q)
  <1>1. n \in Nat /\ \A i \in 1 .. n : q[i].type = type => q[i].from \in Nat /\ q[i].upto \in Nat
    BY LenProperties, ElementOfSeq, MessageFields
  <1>2. \A i \in 1 .. n :
          /\ q[i].type = type => lo <= q[i].from /\ q[i].from < q[i].upto /\ q[i].upto <= hi
          /\ \A j \in 1 .. n : i < j /\ q[i].type = type /\ q[j].type = type =>
               q[i].upto <= q[j].from
    BY DEF Ascending
  <1>3. \A i \in 1 .. n : Weight(q, type, i) \in Nat
    BY <1>1, <1>2 DEF Weight, Bytes
  <1>4. PICK f : /\ OnLink(e, type) = f[n] /\ f[0] = 0
                 /\ \A i \in 1 .. n : f[i] = f[i - 1] + Weight(q, type, i)
    BY <1>3, OnLinkSums
  <1>5. \A x \in lo .. hi - 1 : \E i \in 1 .. n : q[i].type = type /\ q[i].from <= x /\ x < q[i].upto
    BY DEF Covers
  <1> HIDE DEF q, n
  <1> DEFINE Reached(k) ==
               /\ f[k] \in Nat /\ lo + f[k] <= hi
               /\ \A i \in 1 .. n : q[i].type = type =>
                    IF i <= k THEN q[i].upto <= lo + f[k] ELSE lo + f[k] <= q[i].from
             S == {k \in 0 .. n : Reached(k)}
  <1>6. 0 \in S
    <2>1. Reached(0)
      BY <1>1, <1>2, <1>4
    <2> HIDE DEF Reached
    <2> QED
      BY <1>1, <2>1
  <1>7. ASSUME NEW k \in 0 .. n - 1, k \in S PROVE k + 1 \in S
    <2>1. Reached(k)
      <3> HIDE DEF Reached
      <3> QED
        BY <1>7
    <2> DEFINE m == k + 1
    <2>2. m \in 1 .. n /\ m \in 0 .. n /\ f[m] = f[k] + Weight(q, type, m)
      <3>1. m \in 1 .. n /\ m \in 0 .. n /\ m - 1 = k
        BY <1>1, <1>7
      <3> HIDE DEF m
      <3> QED
        BY <1>4, <3>1
    <2>3. \A i \in 1 .. n : i <= m <=> i <= k \/ i = m
      BY <1>1, <1>7
    <2>4. \A i \in 1 .. n : ~(i <= m) => m < i
      BY <1>1, <1>7
    <2>5. ~(m <= k)
      BY <1>7
    <2> HIDE DEF m
    <2>6. CASE q[m].type = type
      <3>1. /\ q[m].from \in Nat /\ q[m].upto \in Nat
            /\ lo + f[k] <= q[m].from /\ q[m].from < q[m].upto /\ q[m].upto <= hi
        BY <1>1, <1>2, <2>1, <2>2, <2>5, <2>6
      <3>2. q[m].from = lo + f[k]
        <4>1. lo + f[k] \in lo .. hi - 1
          BY <2>1, <3>1
        <4>2. PICK i \in 1 .. n : q[i].type = type /\ q[i].from <= lo + f[k] /\ lo + f[k] < q[i].upto
          BY <1>5, <4>1
        <4>3. CASE i = m
          BY <2>1, <3>1, <4>2, <4>3
        <4>4. CASE i <= k
          BY <1>1, <2>1, <4>2, <4>4
        <4>5. CASE m < i
          <5>1. q[m].upto <= q[i].from
            BY <1>2, <2>2, <2>6, <4>2, <4>5
          <5> QED
            BY <1>1, <2>1, <3>1, <4>2, <5>1, SMTT(30)
        <4> QED
          BY <2>3, <2>4, <4>3, <4>4, <4>5
      <3>3. f[m] = f[k] + (q[m].upto - q[m].from)
        BY <2>2, <2>6 DEF Weight, Bytes
      <3>4. f[m] \in Nat /\ lo + f[m] = q[m].upto
        BY <2>1, <3>1, <3>2, <3>3, SMTT(30)
      <3>5. ASSUME NEW i \in 1 .. n, q[i].type = type
            PROVE  IF i <= m THEN q[i].upto <= lo + f[m] ELSE lo + f[m] <= q[i].from
        <4>1. CASE i <= k
          <5>1. q[i].upto <= lo + f[k] /\ q[i].upto \in Nat
            BY <1>1, <2>1, <3>5, <4>1
          <5> QED
            BY <2>1, <2>3, <3>1, <3>4, <4>1, <5>1, SMTT(30)
        <4>2. CASE i = m
          BY <2>3, <3>1, <3>4, <4>2
        <4>3. CASE ~(i <= m)
          BY <1>2, <2>2, <2>4, <2>6, <3>4, <3>5, <4>3
        <4> QED
          BY <2>3, <4>1, <4>2, <4>3
      <3>6. Reached(m)
        BY <3>1, <3>4, <3>5
      <3> HIDE DEF Reached
      <3> QED
        BY <2>2, <3>6 DEF m
    <2>7. CASE q[m].type # type
      <3>1. f[m] = f[k]
        BY <2>1, <2>2, <2>7 DEF Weight
      <3>2. Reached(m)
        BY <2>1, <2>3, <2>7, <3>1
      <3> HIDE DEF Reached
      <3> QED
        BY <2>2, <3>2 DEF m
    <2> QED
      BY <2>6, <2>7
  <1> HIDE DEF S
  <1>8. n \in S
    <2>1. 0 .. n \subseteq S
      BY <1>1, <1>6, <1>7, CountUp
    <2> QED
      BY <1>1, <2>1
  <1>9. Reached(n)
    <2> HIDE DEF Reached
    <2> QED
      BY <1>8 DEF S
  <1>10. ~(lo + f[n] < hi)
    <2> SUFFICES ASSUME lo + f[n] < hi PROVE FALSE
      OBVIOUS
    <2>1. lo + f[n] \in lo .. hi - 1
      BY <1>9
    <2>2. PICK i \in 1 .. n : q[i].type = type /\ q[i].from <= lo + f[n] /\ lo + f[n] < q[i].upto
      BY <1>5, <2>1
    <2>3. i <= n /\ q[i].upto \in Nat
      BY <1>1, <2>2
    <2> QED
      BY <1>9, <2>2, <2>3
  <1>11. f[n] = hi - lo
    BY <1>9, <1>10
  <1> QED
    BY <1>4, <1>11
-----------------------------------------------------------------------------
(* The invariant.                                                          *)

\* What a fast connect charges twice at most: the head start of the initiator.
Charge(s) == IF FastConnect /\ s = "initiator" THEN MaxPacket ELSE 0

\* End e will still take window adjusts that its peer sends.
Creditable(e) == state[e] \in {"Init", "Connecting", "ConnectResponding", "Connected"}

\* Adjusts are under way without a gap, the answer announces all of the
\* window but what has arrived, and so the credit of an end, written in
\* positions, is one window beyond what it was given back.
CreditInv ==
  /\ Unanswered => granted["initiator"] = 0 /\ granted["acceptor"] = 0
  /\ \A e \in Ends : Creditable(e) =>
       Covers(link[e], "ChannelWindowAdjust", credited[e], granted[Peer(e)])
  /\ state["initiator"] = "Connecting" =>
       \A m \in Msgs("initiator") :
         m.type = "SetupChannelResponse" /\ m.accept =>
           m.window >= WindowSize - Charge("initiator")
  /\ \A e \in Ends : state[e] \in {"ConnectResponding", "Connected"} =>
       remoteWindow[e] + sent[e] - credited[e] >= WindowSize - Charge(e)

CreditOK == StreamOK /\ CreditInv

\* What is used of CreditOK.
LEMMA CreditFacts ==
  ASSUME CreditOK
  PROVE  /\ Context /\ StreamOK /\ HandshakeInv /\ WriteInv /\ TypeInv
         /\ state \in [Ends -> States] /\ link \in [Ends -> Seq(Message)]
         /\ granted \in [Ends -> Nat] /\ credited \in [Ends -> Nat]
         /\ sent \in [Ends -> Nat] /\ remoteWindow \in [Ends -> Nat]
         /\ MaxPacket \in Nat /\ WindowSize \in Nat
         /\ \A e \in Ends : Charge(e) \in Nat
  BY ContextFacts, ChannelAssumption DEF CreditOK, StreamOK, TypeInv, Charge

\* The four parts of the invariant, for a step that gives nothing back.
LEMMA CreditKeep ==
  ASSUME CreditOK, UNCHANGED granted,
         Unanswered' => Unanswered,
         \A e \in Ends : Creditable(e)' =>
           Covers(link'[e], "ChannelWindowAdjust", credited'[e], granted[Peer(e)]),
         state'["initiator"] = "Connecting" =>
           \A m \in Msgs("initiator")' :
             m.type = "SetupChannelResponse" /\ m.accept =>
               m.window >= WindowSize - Charge("initiator"),
         \A e \in Ends : state'[e] \in {"ConnectResponding", "Connected"} =>
           remoteWindow'[e] + sent'[e] - credited'[e] >= WindowSize - Charge(e)
  PROVE  CreditInv'
  <1>1. Unanswered' => granted'["initiator"] = 0 /\ granted'["acceptor"] = 0
    BY DEF CreditOK, CreditInv
  <1>2. \A e \in Ends : Creditable(e)' =>
          Covers(link'[e], "ChannelWindowAdjust", credited'[e], granted'[Peer(e)])
    OBVIOUS
  <1> QED
    BY <1>1, <1>2 DEF CreditInv, Covers, Charge

\* The adjusts under way, when something else is sent ...
LEMMA EmitAdjusts ==
  ASSUME CreditOK, NEW e \in Ends, NEW p \in Seq(Message), Emit(e, p)
  PROVE  \A x \in Ends : Creditable(x) =>
           Covers(link'[x], "ChannelWindowAdjust", credited[x], granted[Peer(x)])
  <1> SUFFICES ASSUME NEW x \in Ends, Creditable(x)
               PROVE  Covers(link'[x], "ChannelWindowAdjust", credited[x], granted[Peer(x)])
    OBVIOUS
  <1> DEFINE q == link[x]
             lo == credited[x]
             hi == granted[Peer(x)]
  <1>1. q \in Seq(Message) /\ lo \in Nat /\ hi \in Nat /\ Covers(q, "ChannelWindowAdjust", lo, hi)
    BY CreditFacts, PeerFacts DEF CreditOK, CreditInv
  <1>2. link'[x] = q \/ link'[x] = q \o p
    <2>1. link'[e] = link[e] /\ link'[Peer(e)] = link[Peer(e)] \o p
      BY CreditFacts, EmitLink
    <2> QED
      BY <2>1, PeerFacts
  <1> HIDE DEF q, lo, hi
  <1>3. Covers(q \o p, "ChannelWindowAdjust", lo, hi)
    BY <1>1, CoversEmpty, CoversConcat
  <1> QED
    BY <1>1, <1>2, <1>3 DEF lo, hi

\* ... and when something else is taken.
LEMMA ConsumeAdjusts ==
  ASSUME CreditOK, NEW e \in Ends, link[e] # <<>>, Consume(e),
         Creditable(e) => Head(link[e]).type # "ChannelWindowAdjust"
  PROVE  \A x \in Ends : Creditable(x) =>
           Covers(link'[x], "ChannelWindowAdjust", credited[x], granted[Peer(x)])
  <1>1. link'[e] = Tail(link[e]) /\ link'[Peer(e)] = link[Peer(e)]
    BY CreditFacts, ConsumeLink
  <1>2. ASSUME Creditable(e)
        PROVE  Covers(link'[e], "ChannelWindowAdjust", credited[e], granted[Peer(e)])
    <2> DEFINE q == link[e]
               lo == credited[e]
               hi == granted[Peer(e)]
    <2>1. /\ q \in Seq(Message) /\ q # <<>> /\ lo \in Nat /\ hi \in Nat
          /\ Ascending(q, "ChannelWindowAdjust", lo, hi)
          /\ Covers(q, "ChannelWindowAdjust", lo, hi)
          /\ Head(q).type # "ChannelWindowAdjust"
      BY <1>2, CreditFacts, ContextFacts, PeerFacts DEF CreditOK, CreditInv, Traffic
    <2> HIDE DEF q, lo, hi
    <2>2. Covers(Tail(q), "ChannelWindowAdjust", lo, hi)
      BY <2>1, CoversTail
    <2> QED
      BY <1>1, <2>2 DEF q, lo, hi
  <1>3. ASSUME Creditable(Peer(e))
        PROVE  Covers(link'[Peer(e)], "ChannelWindowAdjust", credited[Peer(e)], granted[e])
    BY <1>1, <1>3, PeerFacts DEF CreditOK, CreditInv
  <1> QED
    BY <1>2, <1>3, PeerFacts

\* The answers under way, for a step that sends none.
LEMMA AnswersKept ==
  ASSUME CreditOK, NEW e \in Ends, NEW p \in Seq(Message), Emit(e, p),
         \A i \in 1 .. Len(p) : p[i].type # "SetupChannelResponse" \/ ~p[i].accept,
         state["initiator"] = "Connecting"
  PROVE  \A m \in Msgs("initiator")' :
           m.type = "SetupChannelResponse" /\ m.accept =>
             m.window >= WindowSize - Charge("initiator")
  <1>1. \A m \in Msgs("initiator")' :
          m \in Msgs("initiator") \/ \E i \in 1 .. Len(p) : m = p[i]
    BY CreditFacts, ContextFacts, EmitMsgs, SMTT(30)
  <1> QED
    BY <1>1, SMTT(30) DEF CreditOK, CreditInv

\* A step that changes no state and no window, and takes or sends nothing
\* that has to do with them.
LEMMA CreditQuiet ==
  ASSUME CreditOK, UNCHANGED <<state, granted, credited, remoteWindow, sent>>,
         \A x \in Ends : Creditable(x) =>
           Covers(link'[x], "ChannelWindowAdjust", credited[x], granted[Peer(x)]),
         Msgs("initiator")' \subseteq Msgs("initiator")
  PROVE  CreditInv'
  <1>1. \A x \in Ends : Creditable(x)' =>
          Covers(link'[x], "ChannelWindowAdjust", credited'[x], granted[Peer(x)])
    BY DEF Creditable
  <1>2. Unanswered' => Unanswered
    BY DEF Unanswered
  <1>3. \A x \in Ends : state'[x] \in {"ConnectResponding", "Connected"} =>
          remoteWindow'[x] + sent'[x] - credited'[x] >= WindowSize - Charge(x)
    BY DEF CreditOK, CreditInv
  <1>4. state'["initiator"] = "Connecting" =>
          \A m \in Msgs("initiator")' :
            m.type = "SetupChannelResponse" /\ m.accept =>
              m.window >= WindowSize - Charge("initiator")
    BY DEF CreditOK, CreditInv
  <1> QED
    BY <1>1, <1>2, <1>3, <1>4, CreditKeep
-----------------------------------------------------------------------------
(* The steps.                                                              *)

LEMMA CreditConnect ==
  ASSUME CreditOK, NEW e \in Ends, Connect(e)
  PROVE  CreditInv'
  <1> DEFINE m == SetupMsg(localWindow[e])
             p == <<m>>
  <1>1. m \in Message
    BY CreditFacts, MessageTypes DEF TypeInv
  <1>2. /\ e = "initiator" /\ state[e] = "Init" /\ Emit(e, p)
        /\ state' = [state EXCEPT ![e] = "Connecting"]
        /\ UNCHANGED <<remoteWindow, granted, credited, sent>>
    BY DEF Connect, Goto, windows, streams
  <1>3. p \in Seq(Message)
    BY <1>1, OneMessage
  <1> HIDE DEF p
  <1>4. /\ state'["initiator"] = "Connecting" /\ state'["acceptor"] = state["acceptor"]
        /\ link["initiator"] = <<>>
    BY <1>2, CreditFacts, ContextFacts DEF HandshakeInv, Unanswered
  <1>5. \A x \in Ends : Creditable(x) =>
          Covers(link'[x], "ChannelWindowAdjust", credited[x], granted[Peer(x)])
    BY <1>2, <1>3, EmitAdjusts
  <1>6. \A x \in Ends : Creditable(x)' => Creditable(x)
    BY <1>2, <1>4, CreditFacts, ContextFacts DEF Creditable
  <1>7. Unanswered' => Unanswered
    BY <1>4 DEF Unanswered
  <1>8. Msgs("initiator")' = {}
    <2>1. link'["initiator"] = <<>>
      BY <1>2, <1>3, <1>4, CreditFacts, EmitLink
    <2> QED
      BY <2>1 DEF Msgs
  <1>9. \A x \in Ends : state'[x] \in {"ConnectResponding", "Connected"} =>
          remoteWindow'[x] + sent'[x] - credited'[x] >= WindowSize - Charge(x)
    BY <1>2, <1>4, CreditFacts, ContextFacts DEF CreditOK, CreditInv
  <1>10. \A x \in Ends : Creditable(x)' =>
           Covers(link'[x], "ChannelWindowAdjust", credited'[x], granted[Peer(x)])
    BY <1>2, <1>5, <1>6
  <1> QED
    BY <1>2, <1>7, <1>8, <1>9, <1>10, CreditKeep

\* The answer announces what is left of the window: all of it but the head
\* start that has already arrived.
LEMMA CreditAccept ==
  ASSUME CreditOK, NEW e \in Ends, Accept(e)
  PROVE  CreditInv'
  <1> DEFINE m == ResponseMsg(TRUE, localWindow[e])
             p == <<m>>
  <1>1. /\ state[e] = "ConnectResponding" /\ Emit(e, p)
        /\ state' = [state EXCEPT ![e] = "Connected"]
        /\ UNCHANGED <<remoteWindow, granted, credited, sent>>
    BY DEF Accept, Goto, windows, streams
  <1>2. e = "acceptor" /\ Peer(e) = "initiator" /\ Unanswered /\ link["initiator"] = <<>>
    BY <1>1, CreditFacts, ContextFacts DEF HandshakeInv, Unanswered
  <1>3. m \in Message /\ m.window = localWindow[e] /\ m.type = "SetupChannelResponse"
    BY CreditFacts, MessageTypes DEF TypeInv, ResponseMsg
  <1>4. p \in Seq(Message) /\ \A i \in 1 .. Len(p) : p[i] = m
    BY <1>3, OneMessage
  <1> HIDE DEF p, m
  <1>5. state["initiator"] = "Connecting" => localWindow[e] >= WindowSize - Charge("initiator")
    <2> SUFFICES ASSUME state["initiator"] = "Connecting"
                 PROVE  localWindow[e] >= WindowSize - Charge("initiator")
      OBVIOUS
    <2>1. /\ localWindow[e] = WindowSize - arrived[e] + granted[e] /\ granted[e] = 0
          /\ arrived[e] <= sent["initiator"]
          /\ remoteWindow["initiator"] = MaxPacket - sent["initiator"]
          /\ ~FastConnect => sent["initiator"] = 0
      BY <1>2, CreditFacts, ContextFacts
      DEF CreditOK, CreditInv, WindowBooks, Traffic, HeadStart, Early, HandshakeInv
    <2>2. /\ sent["initiator"] \in Nat /\ arrived[e] \in Nat /\ remoteWindow["initiator"] \in Nat
          /\ WindowSize \in Nat /\ MaxPacket \in Nat
      BY <1>2, CreditFacts, ContextFacts DEF TypeInv
    <2> QED
      BY <2>1, <2>2 DEF Charge
  <1>6. /\ state'["acceptor"] = "Connected" /\ state'["initiator"] = state["initiator"]
    BY <1>1, <1>2, CreditFacts, ContextFacts
  <1>7. \A x \in Ends : Creditable(x)' =>
          Covers(link'[x], "ChannelWindowAdjust", credited'[x], granted[Peer(x)])
    <2>1. \A x \in Ends : Creditable(x)' => Creditable(x)
      BY <1>1, CreditFacts DEF Creditable
    <2> QED
      BY <1>1, <1>4, <2>1, EmitAdjusts
  <1>8. \A x \in Msgs("initiator")' : x = m
    <2>1. \A x \in Msgs("initiator")' :
            x \in Msgs("initiator") \/ \E i \in 1 .. Len(p) : x = p[i]
      <3>1. \A y \in Ends : \A x \in Msgs(y)' :
              x \in Msgs(y) \/ (y = Peer(e) /\ \E i \in 1 .. Len(p) : x = p[i])
        BY <1>1, <1>4, CreditFacts, EmitMsgs
      <3> QED
        BY <1>2, <3>1, PeerFacts
    <2>2. Msgs("initiator") = {}
      BY <1>2 DEF Msgs
    <2> QED
      BY <1>4, <2>1, <2>2
  <1>9. \A x \in Ends : state'[x] \in {"ConnectResponding", "Connected"} =>
          remoteWindow'[x] + sent'[x] - credited'[x] >= WindowSize - Charge(x)
    BY <1>1, CreditFacts DEF CreditOK, CreditInv
  <1>10. state'["initiator"] = "Connecting" =>
           \A x \in Msgs("initiator")' :
             x.type = "SetupChannelResponse" /\ x.accept =>
               x.window >= WindowSize - Charge("initiator")
    BY <1>3, <1>5, <1>6, <1>8
  <1>11. Unanswered' => Unanswered
    BY <1>2
  <1> QED
    BY <1>1, <1>7, <1>9, <1>10, <1>11, CreditKeep

LEMMA CreditClose ==
  ASSUME CreditOK, NEW e \in Ends, Close(e)
  PROVE  CreditInv'
  <1>1. PICK to \in {"Rejected", "Closing", "Closed"}, m \in Message :
          /\ Goto(e, to) /\ Emit(e, <<m>>)
          /\ m.type # "SetupChannelResponse" \/ ~m.accept
    <2>1. ResponseMsg(FALSE, 0) \in Message /\ ~ResponseMsg(FALSE, 0).accept
      BY MessageTypes DEF ResponseMsg
    <2>2. CloseMsg \in Message /\ CloseMsg.type # "SetupChannelResponse"
      BY MessageTypes DEF CloseMsg
    <2> HIDE DEF CloseMsg
    <2> QED
      BY <2>1, <2>2 DEF Close, Reject
  <1> DEFINE p == <<m>>
  <1>2. p \in Seq(Message) /\ Emit(e, p)
        /\ \A i \in 1 .. Len(p) : p[i].type # "SetupChannelResponse" \/ ~p[i].accept
    BY <1>1, OneMessage
  <1> HIDE DEF p
  <1>3. UNCHANGED <<remoteWindow, granted, credited, sent>>
    BY DEF Close, Reject, windows, streams
  <1>4. \A x \in Ends : state'[x] = state[x] \/ state'[x] = to
    BY <1>1, CreditFacts DEF Goto
  <1>5. \A x \in Ends : Creditable(x)' =>
          Covers(link'[x], "ChannelWindowAdjust", credited'[x], granted[Peer(x)])
    <2>1. \A x \in Ends : Creditable(x)' => Creditable(x)
      BY <1>4 DEF Creditable
    <2> QED
      BY <1>2, <1>3, <2>1, EmitAdjusts
  <1>6. Unanswered' => Unanswered
    BY <1>4, CreditFacts, ContextFacts DEF Unanswered
  <1>7. state'["initiator"] = "Connecting" =>
          \A x \in Msgs("initiator")' :
            x.type = "SetupChannelResponse" /\ x.accept =>
              x.window >= WindowSize - Charge("initiator")
    <2>1. state'["initiator"] = "Connecting" => state["initiator"] = "Connecting"
      BY <1>4, CreditFacts, ContextFacts
    <2> QED
      BY <1>2, <2>1, AnswersKept
  <1>8. \A x \in Ends : state'[x] \in {"ConnectResponding", "Connected"} =>
          remoteWindow'[x] + sent'[x] - credited'[x] >= WindowSize - Charge(x)
    BY <1>3, <1>4 DEF CreditOK, CreditInv
  <1> QED
    BY <1>3, <1>5, <1>6, <1>7, <1>8, CreditKeep

LEMMA CreditSend ==
  ASSUME CreditOK, NEW e \in Ends, NEW n \in Nat \ {0}, Send(e, n)
  PROVE  CreditInv'
  <1>1. PICK p \in Seq(Message) :
          /\ Emit(e, p) /\ \A i \in 1 .. Len(p) : p[i].type = "ChannelData"
          /\ UNCHANGED <<state, granted, credited>>
    BY CreditFacts, SendFacts
  <1>2. remoteWindow' = [remoteWindow EXCEPT ![e] = @ - n] /\ sent' = [sent EXCEPT ![e] = @ + n]
    BY DEF Send
  <1>3. \A x \in Ends :
          /\ remoteWindow'[x] + sent'[x] = remoteWindow[x] + sent[x]
          /\ remoteWindow'[x] + sent'[x] - credited'[x] = remoteWindow[x] + sent[x] - credited[x]
    <2> TAKE x \in Ends
    <2>1. remoteWindow[x] \in Nat /\ sent[x] \in Nat /\ credited[x] \in Nat /\ credited'[x] = credited[x]
      BY <1>1, CreditFacts
    <2>2. \/ remoteWindow'[x] = remoteWindow[x] /\ sent'[x] = sent[x]
          \/ remoteWindow'[x] = remoteWindow[x] - n /\ sent'[x] = sent[x] + n
      BY <1>2, CreditFacts
    <2> QED
      BY <2>1, <2>2
  <1>4. \A x \in Ends : state'[x] \in {"ConnectResponding", "Connected"} =>
          remoteWindow'[x] + sent'[x] - credited'[x] >= WindowSize - Charge(x)
    BY <1>1, <1>3 DEF CreditOK, CreditInv
  <1>5. \A x \in Ends : Creditable(x)' =>
          Covers(link'[x], "ChannelWindowAdjust", credited'[x], granted[Peer(x)])
    BY <1>1, EmitAdjusts DEF Creditable
  <1>6. state'["initiator"] = "Connecting" =>
          \A x \in Msgs("initiator")' :
            x.type = "SetupChannelResponse" /\ x.accept =>
              x.window >= WindowSize - Charge("initiator")
    BY <1>1, AnswersKept
  <1>7. Unanswered' => Unanswered
    BY <1>1 DEF Unanswered
  <1> QED
    BY <1>1, <1>4, <1>5, <1>6, <1>7, CreditKeep

\* What is given back is on its way at once.
LEMMA CreditRecv ==
  ASSUME CreditOK, NEW e \in Ends, NEW n \in Nat \ {0}, Recv(e, n)
  PROVE  CreditInv'
  <1> DEFINE f == Peer(e)
  <1>1. Readable(e) /\ UNCHANGED <<state, sent, credited>>
    BY CreditFacts, RecvFacts
  <1>2. UNCHANGED remoteWindow
    BY DEF Recv
  <1>3. CASE UNCHANGED <<granted, link>>
    <2>1. \A x \in Ends : Creditable(x) =>
            Covers(link'[x], "ChannelWindowAdjust", credited[x], granted[Peer(x)])
      BY <1>3 DEF CreditOK, CreditInv
    <2>2. Msgs("initiator")' = Msgs("initiator")
      BY <1>3 DEF Msgs
    <2> QED
      BY <1>1, <1>2, <1>3, <2>1, <2>2, CreditQuiet
  <1>4. ASSUME NEW k \in Nat, NEW m \in Message, m.type = "ChannelWindowAdjust",
               m.from = granted[e], m.upto = granted[e] + k,
               Emit(e, <<m>>), granted' = [granted EXCEPT ![e] = @ + k]
        PROVE  CreditInv'
    <2> DEFINE p == <<m>>
    <2>1. p \in Seq(Message) /\ Len(p) = 1 /\ p[1] = m /\ Emit(e, p)
          /\ \A i \in 1 .. Len(p) : p[i] = m
      BY <1>4, OneMessage
    <2> HIDE DEF p
    <2>2. /\ f \in Ends /\ f # e /\ Peer(f) = e /\ \A x \in Ends : x = e \/ x = f
          /\ link'[e] = link[e] /\ link'[f] = link[f] \o p /\ link[f] \in Seq(Message)
          /\ granted[e] \in Nat /\ credited[f] \in Nat
          /\ granted'[e] = granted[e] + k /\ granted'[f] = granted[f]
      BY <1>4, <2>1, PeerFacts, CreditFacts, EmitLink
    <2>3. Covers(p, "ChannelWindowAdjust", granted[e], granted[e] + k)
      <3> DEFINE lo == granted[e]
                 hi == granted[e] + k
      <3>1. \A x \in lo .. hi - 1 : m.from <= x /\ x < m.upto
        BY <1>4, <2>2
      <3>2. 1 \in 1 .. Len(p) /\ p[1] = m /\ m.type = "ChannelWindowAdjust"
        BY <1>4, <2>1
      <3> HIDE DEF lo, hi
      <3>3. Covers(p, "ChannelWindowAdjust", lo, hi)
        BY <3>1, <3>2, Zenon DEF Covers
      <3> QED
        BY <3>3 DEF lo, hi
    <2>4. Creditable(f) => Covers(link'[f], "ChannelWindowAdjust", credited[f], granted'[e])
      <3> SUFFICES ASSUME Creditable(f)
                   PROVE  Covers(link'[f], "ChannelWindowAdjust", credited[f], granted'[e])
        OBVIOUS
      <3> DEFINE q == link[f]
                 lo == credited[f]
                 hi == granted[e]
      <3>1. q \in Seq(Message) /\ lo \in Nat /\ hi \in Nat /\ hi + k \in Nat
            /\ Covers(q, "ChannelWindowAdjust", lo, hi)
            /\ Covers(p, "ChannelWindowAdjust", hi, hi + k)
        BY <2>2, <2>3 DEF CreditOK, CreditInv
      <3> HIDE DEF q, lo, hi
      <3>2. Covers(q \o p, "ChannelWindowAdjust", lo, hi + k)
        BY <2>1, <3>1, CoversConcat
      <3> QED
        BY <2>2, <3>2 DEF q, lo, hi
    <2>5. Creditable(e) => Covers(link'[e], "ChannelWindowAdjust", credited[e], granted'[f])
      BY <2>2 DEF CreditOK, CreditInv
    <2>6. \A x \in Ends : Creditable(x)' =>
            Covers(link'[x], "ChannelWindowAdjust", credited'[x], granted'[Peer(x)])
      BY <1>1, <2>2, <2>4, <2>5 DEF Creditable
    <2>7. ~Unanswered
      BY <1>1, CreditFacts, ContextFacts DEF Readable, HandshakeInv, Unanswered
    <2>8. state'["initiator"] = "Connecting" =>
            \A x \in Msgs("initiator")' :
              x.type = "SetupChannelResponse" /\ x.accept =>
                x.window >= WindowSize - Charge("initiator")
      BY <1>1, <1>4, <2>1, AnswersKept
    <2>9. \A x \in Ends : state'[x] \in {"ConnectResponding", "Connected"} =>
            remoteWindow'[x] + sent'[x] - credited'[x] >= WindowSize - Charge(x)
      BY <1>1, <1>2 DEF CreditOK, CreditInv
    <2>10. ~Unanswered'
      BY <1>1, <2>7 DEF Unanswered
    <2> QED
      BY <2>6, <2>8, <2>9, <2>10 DEF CreditInv, Covers, Charge
  <1> QED
    BY <1>3, <1>4, CreditFacts, RecvFacts

\* Before the request is handled the acceptor knows nothing of the channel;
\* the request announces all of the window of the initiator.
LEMMA CreditNewChannel ==
  ASSUME CreditOK, NEW e \in Ends, HandleNewChannel(e)
  PROVE  CreditInv'
  <1> DEFINE m == Head(link[e])
  <1>1. /\ Incoming(e, "SetupChannel") /\ link[e] # <<>> /\ m.type = "SetupChannel"
        /\ state[e] = "Init" /\ Consume(e)
        /\ state' = [state EXCEPT ![e] = "ConnectResponding"]
        /\ remoteWindow' = [remoteWindow EXCEPT ![e] = m.window]
        /\ UNCHANGED <<granted, credited, sent>>
    BY DEF HandleNewChannel, Incoming, Goto, streams
  <1>2. m \in Msgs(e)
    BY <1>1, IncomingMsg DEF CreditOK, StreamOK, Context, CloseOK
  <1>3. e = "acceptor" /\ Unanswered
    BY <1>1, <1>2, CreditFacts, ContextFacts DEF Context, CloseOK, SetupInv, Unanswered
  <1>4. m.window = WindowSize
    <2>1. Len(link[e]) \in Nat /\ 1 \in 1 .. Len(link[e]) /\ m = link[e][1]
      BY <1>1, CreditFacts, HeadTailProperties, EmptySeq, LenProperties
    <2>2. Sound(link[e], Early(e))
      BY CreditFacts DEF Context, CloseOK, FlowInv, Announced
    <2> QED
      BY <1>1, <2>1, <2>2 DEF Sound
  <1>5. sent[e] = 0 /\ credited[e] = 0
    BY <1>1, CreditFacts, ContextFacts DEF HeadStart, Early
  <1>6. \A x \in Ends : Creditable(x)' => Creditable(x)
    BY <1>1, CreditFacts DEF Creditable
  <1>7. \A x \in Ends : Creditable(x)' =>
          Covers(link'[x], "ChannelWindowAdjust", credited'[x], granted[Peer(x)])
    BY <1>1, <1>6, ConsumeAdjusts
  <1>8. \A x \in Ends : state'[x] \in {"ConnectResponding", "Connected"} =>
          remoteWindow'[x] + sent'[x] - credited'[x] >= WindowSize - Charge(x)
    <2>1. remoteWindow'[e] = WindowSize /\ sent'[e] = 0 /\ credited'[e] = 0
      BY <1>1, <1>4, <1>5, CreditFacts
    <2>2. \A x \in Ends : x # e =>
            /\ state'[x] = state[x] /\ remoteWindow'[x] = remoteWindow[x]
            /\ sent'[x] = sent[x] /\ credited'[x] = credited[x]
      BY <1>1, CreditFacts
    <2>3. remoteWindow'[e] + sent'[e] - credited'[e] >= WindowSize - Charge(e)
      BY <2>1, CreditFacts
    <2> QED
      BY <2>2, <2>3 DEF CreditOK, CreditInv
  <1>9. link'["initiator"] = link["initiator"] /\ state'["initiator"] = state["initiator"]
    BY <1>1, <1>3, CreditFacts, ContextFacts, ConsumeLink
  <1>10. state'["initiator"] = "Connecting" =>
           \A x \in Msgs("initiator")' :
             x.type = "SetupChannelResponse" /\ x.accept =>
               x.window >= WindowSize - Charge("initiator")
    BY <1>9 DEF Msgs, CreditOK, CreditInv
  <1> QED
    BY <1>1, <1>3, <1>7, <1>8, <1>10, CreditKeep

\* The initiator takes its head start off the announced window.
LEMMA CreditAccepted ==
  ASSUME CreditOK, NEW e \in Ends, Incoming(e, "SetupChannelResponse"),
         state[e] = "Connecting", Head(link[e]).accept, HandleAccepted(e, Head(link[e]))
  PROVE  CreditInv'
  <1> DEFINE m == Head(link[e])
             used == MaxPacket - remoteWindow[e]
  <1>1. /\ link[e] # <<>> /\ m.type = "SetupChannelResponse" /\ Consume(e)
        /\ state' = [state EXCEPT ![e] = "Connected"]
        /\ remoteWindow' = [remoteWindow EXCEPT ![e] =
                              IF used <= m.window THEN m.window - used ELSE 0]
        /\ UNCHANGED <<granted, credited, sent>>
    BY DEF HandleAccepted, Incoming, Goto, streams
  <1>2. m \in Msgs(e) /\ m \in Message
    <2>1. m \in Msgs(e)
      BY CreditFacts, IncomingMsg DEF Context, CloseOK
    <2>2. Len(link[e]) \in Nat /\ 1 \in 1 .. Len(link[e]) /\ m = link[e][1]
      BY <1>1, CreditFacts, HeadTailProperties, EmptySeq, LenProperties
    <2> QED
      BY <2>1, <2>2, CreditFacts, ElementOfSeq
  <1>3. e = "initiator" /\ ~Unanswered
    BY <1>1, CreditFacts, ContextFacts DEF HandshakeInv, Unanswered
  <1>4. m.window \in Nat /\ MaxPacket <= m.window /\ m.window >= WindowSize - Charge(e)
    <2>1. Len(link[e]) \in Nat /\ 1 \in 1 .. Len(link[e]) /\ m = link[e][1]
      BY <1>1, CreditFacts, HeadTailProperties, EmptySeq, LenProperties
    <2>2. Sound(link[e], Early(e)) /\ Early(e)
      BY CreditFacts DEF Context, CloseOK, FlowInv, Announced, Early
    <2>3. m.window \in Nat
      BY <1>1, <1>2, MessageFields
    <2> QED
      BY <1>1, <1>2, <1>3, <2>1, <2>2, <2>3 DEF Sound, CreditOK, CreditInv
  <1>5. /\ remoteWindow[e] = MaxPacket - sent[e] /\ credited[e] = 0
        /\ remoteWindow[e] \in Nat /\ sent[e] \in Nat
    BY CreditFacts, ContextFacts DEF HeadStart, Early
  <1>6. remoteWindow'[e] + sent'[e] - credited'[e] >= WindowSize - Charge(e)
    <2>1. used = sent[e] /\ used <= m.window
      <3> DEFINE w == m.window
                 r == remoteWindow[e]
                 s == sent[e]
      <3>1. w \in Nat /\ r \in Nat /\ s \in Nat /\ MaxPacket \in Nat /\ MaxPacket <= w /\ r = MaxPacket - s
        BY <1>4, <1>5, CreditFacts
      <3> HIDE DEF w, r, s
      <3>2. MaxPacket - r = s /\ MaxPacket - r <= w
        BY <3>1
      <3> QED
        BY <3>2 DEF w, r, s
    <2>2. remoteWindow'[e] = m.window - sent[e] /\ sent'[e] = sent[e] /\ credited'[e] = 0
      BY <1>1, <1>5, <2>1, CreditFacts
    <2> QED
      BY <1>4, <1>5, <2>2, CreditFacts
  <1>7. \A x \in Ends : x # e =>
          /\ state'[x] = state[x] /\ remoteWindow'[x] = remoteWindow[x]
          /\ sent'[x] = sent[x] /\ credited'[x] = credited[x]
    BY <1>1, CreditFacts
  <1>8. \A x \in Ends : state'[x] \in {"ConnectResponding", "Connected"} =>
          remoteWindow'[x] + sent'[x] - credited'[x] >= WindowSize - Charge(x)
    BY <1>6, <1>7 DEF CreditOK, CreditInv
  <1>9. \A x \in Ends : Creditable(x)' => Creditable(x)
    BY <1>1, CreditFacts DEF Creditable
  <1>10. \A x \in Ends : Creditable(x)' =>
           Covers(link'[x], "ChannelWindowAdjust", credited'[x], granted[Peer(x)])
    BY <1>1, <1>9, ConsumeAdjusts
  <1>11. state'["initiator"] = "Connected" /\ (Unanswered' => Unanswered)
    BY <1>1, <1>3, CreditFacts, ContextFacts DEF Unanswered
  <1> QED
    BY <1>1, <1>8, <1>10, <1>11, CreditKeep

LEMMA CreditRejected ==
  ASSUME CreditOK, NEW e \in Ends, Incoming(e, "SetupChannelResponse"),
         state[e] = "Connecting", ~Head(link[e]).accept, HandleRejected(e)
  PROVE  CreditInv'
  <1>1. /\ state' = [state EXCEPT ![e] = "Rejected"]
        /\ UNCHANGED granted
    BY DEF HandleRejected, Goto, windows
  <1>2. e = "initiator"
    BY CreditFacts, ContextFacts
  <1>3. state["acceptor"] = "Rejected"
    BY <1>2, CreditFacts, IncomingMsg DEF Incoming, Context, CloseOK, SetupInv
  <1>4. \A x \in Ends : state'[x] = "Rejected"
    BY <1>1, <1>2, <1>3, CreditFacts, ContextFacts
  <1>5. state'["initiator"] = "Rejected" /\ ~Unanswered'
    BY <1>4, ContextFacts, CreditFacts DEF Unanswered
  <1>6. \A x \in Ends : ~Creditable(x)' /\ state'[x] \notin {"ConnectResponding", "Connected"}
    BY <1>4 DEF Creditable
  <1> QED
    BY <1>5, <1>6 DEF CreditInv

\* What stays when a message is taken and nothing else happens.
LEMMA CreditConsume ==
  ASSUME CreditOK, NEW e \in Ends, link[e] # <<>>, Consume(e),
         UNCHANGED <<state, granted, credited, remoteWindow, sent>>,
         Creditable(e) => Head(link[e]).type # "ChannelWindowAdjust"
  PROVE  CreditInv'
  <1>1. \A x \in Ends : Creditable(x) =>
          Covers(link'[x], "ChannelWindowAdjust", credited[x], granted[Peer(x)])
    BY ConsumeAdjusts
  <1>2. \A x \in Ends : Msgs(x)' \subseteq Msgs(x)
    BY CreditFacts, ConsumeMsgs
  <1> QED
    BY <1>1, <1>2, ContextFacts, CreditFacts, CreditQuiet

\* An end that waits for adjusts takes them: none comes before the answer.
LEMMA AdjustMeetsOpen ==
  ASSUME CreditOK, NEW e \in Ends, link[e] # <<>>, Consume(e), UNCHANGED <<state, sent>>,
         Head(link[e]).type = "ChannelWindowAdjust", Creditable(e)
  PROVE  /\ state[e] = "Connected"
         /\ Head(link[e]).from = credited[e] /\ Head(link[e]).upto \in Nat
         /\ Covers(Tail(link[e]), "ChannelWindowAdjust", Head(link[e]).upto, granted[Peer(e)])
  <1> DEFINE q == link[e]
             lo == credited[e]
             hi == granted[Peer(e)]
             m == Head(q)
  <1>1. state[e] \notin {"Init", "Connecting"}
    BY CreditFacts, HandshakeConsume
  <1>2. /\ q \in Seq(Message) /\ q # <<>> /\ lo \in Nat /\ hi \in Nat
        /\ Ascending(q, "ChannelWindowAdjust", lo, hi)
        /\ Covers(q, "ChannelWindowAdjust", lo, hi)
        /\ Head(q).type = "ChannelWindowAdjust"
    BY CreditFacts, ContextFacts, PeerFacts DEF CreditOK, CreditInv, Traffic
  <1> HIDE DEF q, lo, hi
  <1>3. m.from = lo /\ Covers(Tail(q), "ChannelWindowAdjust", m.upto, hi)
    BY <1>2, CoversTail
  <1>4. m.from \in Nat /\ m.upto \in Nat /\ m.from < m.upto /\ m.upto <= hi
    <2>1. Len(q) \in Nat /\ 1 \in 1 .. Len(q) /\ m = q[1] /\ m \in Message
      BY <1>2, HeadTailProperties, EmptySeq, LenProperties, ElementOfSeq
    <2> QED
      BY <1>2, <2>1, MessageFields DEF Ascending
  <1>5. state[e] # "ConnectResponding"
    <2> SUFFICES ASSUME state[e] = "ConnectResponding" PROVE FALSE
      OBVIOUS
    <2>1. hi = 0
      BY CreditFacts, ContextFacts DEF hi, CreditOK, CreditInv, Unanswered
    <2> QED
      BY <1>2, <1>4, <2>1
  <1>6. state[e] = "Connected"
    BY <1>1, <1>5 DEF Creditable
  <1> QED
    BY <1>3, <1>4, <1>6 DEF q, lo, hi

LEMMA CreditWindowAdjust ==
  ASSUME CreditOK, NEW e \in Ends, HandleWindowAdjust(e)
  PROVE  CreditInv'
  <1> DEFINE m == Head(link[e])
  <1>1. /\ link[e] # <<>> /\ m.type = "ChannelWindowAdjust" /\ Consume(e)
        /\ UNCHANGED <<state, granted, sent>>
    BY DEF HandleWindowAdjust, Incoming, streams
  <1>2. CASE Creditable(e)
    <2>1. /\ state[e] = "Connected" /\ m.from = credited[e] /\ m.upto \in Nat
          /\ Covers(Tail(link[e]), "ChannelWindowAdjust", m.upto, granted[Peer(e)])
      BY <1>1, <1>2, AdjustMeetsOpen
    <2>2. /\ remoteWindow' = [remoteWindow EXCEPT ![e] = @ + (m.upto - m.from)]
          /\ credited' = [credited EXCEPT ![e] = @ + (m.upto - m.from)]
      BY <2>1 DEF HandleWindowAdjust, Readable, Bytes
    <2>3. /\ credited'[e] = m.upto
          /\ remoteWindow'[e] + sent'[e] - credited'[e] = remoteWindow[e] + sent[e] - credited[e]
      <3>1. credited[e] \in Nat /\ remoteWindow[e] \in Nat /\ sent[e] \in Nat /\ sent'[e] = sent[e]
        BY <1>1, CreditFacts
      <3>2. /\ credited'[e] = credited[e] + (m.upto - credited[e])
            /\ remoteWindow'[e] = remoteWindow[e] + (m.upto - credited[e])
        BY <2>1, <2>2, CreditFacts
      <3> QED
        BY <2>1, <3>1, <3>2
    <2>4. \A x \in Ends : x # e => credited'[x] = credited[x] /\ remoteWindow'[x] = remoteWindow[x]
      BY <2>2, CreditFacts
    <2>5. link'[e] = Tail(link[e]) /\ link'[Peer(e)] = link[Peer(e)]
      BY <1>1, CreditFacts, ConsumeLink
    <2>6. \A x \in Ends : Creditable(x)' =>
            Covers(link'[x], "ChannelWindowAdjust", credited'[x], granted[Peer(x)])
      <3>1. Covers(link'[e], "ChannelWindowAdjust", credited'[e], granted[Peer(e)])
        BY <2>1, <2>3, <2>5
      <3>2. Creditable(Peer(e))' =>
              Covers(link'[Peer(e)], "ChannelWindowAdjust", credited'[Peer(e)],
                     granted[Peer(Peer(e))])
        BY <1>1, <2>4, <2>5, PeerFacts DEF CreditOK, CreditInv, Creditable
      <3> QED
        BY <3>1, <3>2, PeerFacts
    <2>7. \A x \in Ends : state'[x] \in {"ConnectResponding", "Connected"} =>
            remoteWindow'[x] + sent'[x] - credited'[x] >= WindowSize - Charge(x)
      <3>1. \A x \in Ends :
              remoteWindow'[x] + sent'[x] - credited'[x] = remoteWindow[x] + sent[x] - credited[x]
        BY <1>1, <2>3, <2>4
      <3> QED
        BY <1>1, <3>1 DEF CreditOK, CreditInv
    <2>8. \A x \in Ends : Msgs(x)' \subseteq Msgs(x)
      BY <1>1, CreditFacts, ConsumeMsgs
    <2>9. state'["initiator"] = "Connecting" =>
            \A x \in Msgs("initiator")' :
              x.type = "SetupChannelResponse" /\ x.accept =>
                x.window >= WindowSize - Charge("initiator")
      BY <1>1, <2>8, ContextFacts, CreditFacts DEF CreditOK, CreditInv
    <2>10. Unanswered' => Unanswered
      BY <1>1 DEF Unanswered
    <2> QED
      BY <1>1, <2>6, <2>7, <2>9, <2>10, CreditKeep
  <1>3. CASE ~Creditable(e)
    <2>1. \A x \in Ends : state'[x] \in {"ConnectResponding", "Connected"} =>
            remoteWindow'[x] + sent'[x] - credited'[x] >= WindowSize - Charge(x)
      <3>1. state'[e] \notin {"ConnectResponding", "Connected"}
        BY <1>1, <1>3 DEF Creditable
      <3>2. \A x \in Ends : x # e => credited'[x] = credited[x] /\ remoteWindow'[x] = remoteWindow[x]
        BY CreditFacts DEF HandleWindowAdjust
      <3> QED
        BY <1>1, <3>1, <3>2 DEF CreditOK, CreditInv
    <2>2. \A x \in Ends : Creditable(x)' =>
            Covers(link'[x], "ChannelWindowAdjust", credited'[x], granted[Peer(x)])
      <3>1. \A x \in Ends : x # e => credited'[x] = credited[x]
        BY CreditFacts DEF HandleWindowAdjust
      <3> QED
        BY <1>1, <1>3, <3>1, ConsumeAdjusts DEF Creditable
    <2>3. \A x \in Ends : Msgs(x)' \subseteq Msgs(x)
      BY <1>1, CreditFacts, ConsumeMsgs
    <2>4. state'["initiator"] = "Connecting" =>
            \A x \in Msgs("initiator")' :
              x.type = "SetupChannelResponse" /\ x.accept =>
                x.window >= WindowSize - Charge("initiator")
      BY <1>1, <2>3, ContextFacts, CreditFacts DEF CreditOK, CreditInv
    <2>5. Unanswered' => Unanswered
      BY <1>1 DEF Unanswered
    <2> QED
      BY <1>1, <2>1, <2>2, <2>4, <2>5, CreditKeep
  <1> QED
    BY <1>2, <1>3

\* The rest of what may come takes no part in the credit.
LEMMA CreditReceive ==
  ASSUME CreditOK, NEW e \in Ends,
         HandleNewChannelResponse(e) \/ HandleChannelData(e) \/ DropUnregistered(e)
  PROVE  CreditInv'
  <1>1. CASE HandleNewChannelResponse(e)
    <2>1. /\ Incoming(e, "SetupChannelResponse")
          /\ link[e] # <<>> /\ Head(link[e]).type = "SetupChannelResponse"
      BY <1>1 DEF HandleNewChannelResponse, Incoming
    <2>2. CASE state[e] = "Connecting" /\ Head(link[e]).accept /\ HandleAccepted(e, Head(link[e]))
      BY <2>1, <2>2, CreditAccepted
    <2>3. CASE state[e] = "Connecting" /\ ~Head(link[e]).accept /\ HandleRejected(e)
      BY <2>1, <2>3, CreditRejected
    <2>4. CASE Consume(e) /\ UNCHANGED <<state, windows, streams>>
      BY <2>1, <2>4, CreditConsume DEF windows, streams
    <2> QED
      BY <1>1, <2>2, <2>3, <2>4 DEF HandleNewChannelResponse
  <1>2. CASE HandleChannelData(e)
    BY <1>2, CreditConsume DEF HandleChannelData, Incoming
  <1>3. CASE DropUnregistered(e)
    <2>1. /\ link[e] # <<>> /\ ~registered[e] /\ Head(link[e]).type # "SetupChannel" /\ Consume(e)
          /\ UNCHANGED <<state, granted, credited, remoteWindow, sent>>
      BY <1>3 DEF DropUnregistered, windows, streams
    <2>2. Creditable(e) => Head(link[e]).type # "ChannelWindowAdjust"
      <3> SUFFICES ASSUME Creditable(e), Head(link[e]).type = "ChannelWindowAdjust" PROVE FALSE
        OBVIOUS
      <3>1. state[e] = "Connected"
        BY <2>1, AdjustMeetsOpen
      <3>2. registered[e]
        BY <3>1, CreditFacts, ContextFacts DEF Held
      <3> QED
        BY <2>1, <3>2
    <2> QED
      BY <2>1, <2>2, CreditConsume
  <1> QED
    BY <1>1, <1>2, <1>3

LEMMA CreditLeave ==
  ASSUME CreditOK, NEW e \in Ends, HandleChannelClose(e) \/ CloseTimeoutTriggered(e)
  PROVE  CreditInv'
  <1>1. UNCHANGED <<granted, credited, remoteWindow, sent>>
    BY DEF HandleChannelClose, CloseTimeoutTriggered, windows, streams
  <1>2. \A x \in Ends : state'[x] = state[x] \/ state'[x] \in {"CloseResponding", "Closed"}
    BY CreditFacts DEF HandleChannelClose, CloseTimeoutTriggered, Goto
  <1>3. \A x \in Ends : Creditable(x) =>
          Covers(link'[x], "ChannelWindowAdjust", credited[x], granted[Peer(x)])
    <2>1. CASE HandleChannelClose(e)
      BY <2>1, ConsumeAdjusts DEF HandleChannelClose, Incoming
    <2>2. CASE CloseTimeoutTriggered(e)
      BY <2>2 DEF CloseTimeoutTriggered, CreditOK, CreditInv
    <2> QED
      BY <2>1, <2>2
  <1>4. \A x \in Ends : Msgs(x)' \subseteq Msgs(x)
    <2>1. CASE HandleChannelClose(e)
      BY <2>1, CreditFacts, ConsumeMsgs DEF HandleChannelClose, Incoming
    <2>2. CASE CloseTimeoutTriggered(e)
      BY <2>2 DEF CloseTimeoutTriggered, Msgs
    <2> QED
      BY <2>1, <2>2
  <1>5. \A x \in Ends : Creditable(x)' =>
          Covers(link'[x], "ChannelWindowAdjust", credited'[x], granted[Peer(x)])
    BY <1>1, <1>2, <1>3 DEF Creditable
  <1>6. Unanswered' => Unanswered
    BY <1>2, CreditFacts, ContextFacts DEF Unanswered
  <1>7. \A x \in Ends : state'[x] \in {"ConnectResponding", "Connected"} =>
          remoteWindow'[x] + sent'[x] - credited'[x] >= WindowSize - Charge(x)
    BY <1>1, <1>2 DEF CreditOK, CreditInv
  <1>8. state'["initiator"] = "Connecting" =>
          \A m \in Msgs("initiator")' :
            m.type = "SetupChannelResponse" /\ m.accept =>
              m.window >= WindowSize - Charge("initiator")
    BY <1>2, <1>4, CreditFacts, ContextFacts DEF CreditOK, CreditInv
  <1> QED
    BY <1>1, <1>5, <1>6, <1>7, <1>8, CreditKeep

LEMMA CreditNext ==
  ASSUME CreditOK, [Next]_vars
  PROVE  CreditInv'
  <1>1. ASSUME UNCHANGED <<state, granted, credited, remoteWindow, sent, link>>
        PROVE  CreditInv'
    <2>1. \A x \in Ends : Creditable(x) =>
            Covers(link'[x], "ChannelWindowAdjust", credited[x], granted[Peer(x)])
      BY <1>1 DEF CreditOK, CreditInv
    <2>2. Msgs("initiator")' = Msgs("initiator")
      BY <1>1 DEF Msgs
    <2> QED
      BY <1>1, <2>1, <2>2, CreditQuiet
  <1>2. CASE UNCHANGED vars
    BY <1>1, <1>2 DEF vars, windows, streams
  <1>3. ASSUME NEW e \in Ends, Call(e)
        PROVE  CreditInv'
    <2>1. \A n \in ChunkSizes \cup ReadSizes : n \in Nat \ {0}
      BY ChannelAssumption
    <2>2. CASE RecvEof(e)
      BY <1>1, <2>2 DEF RecvEof, windows
    <2> QED
      BY <1>3, <2>1, <2>2, CreditConnect, CreditAccept, CreditClose, CreditSend, CreditRecv DEF Call
  <1>4. ASSUME NEW e \in Ends, Receive(e)
        PROVE  CreditInv'
    BY <1>4, CreditNewChannel, CreditReceive, CreditWindowAdjust, CreditLeave DEF Receive
  <1> QED
    BY <1>2, <1>3, <1>4, CreditLeave DEF Next

LEMMA CreditInit ==
  ASSUME Init
  PROVE  CreditInv
  <1>1. \A e \in Ends :
          state[e] = "Init" /\ link[e] = <<>> /\ granted[e] = 0 /\ credited[e] = 0
    BY DEF Init
  <1>2. "initiator" \in Ends /\ "acceptor" \in Ends
    BY DEF Ends
  <1>3. \A e \in Ends : Covers(link[e], "ChannelWindowAdjust", credited[e], granted[Peer(e)])
    BY <1>1, PeerFacts, CoversEmpty
  <1> QED
    BY <1>1, <1>2, <1>3 DEF CreditInv
-----------------------------------------------------------------------------
\* While both ends are connected, the window that a receiver keeps open is
\* the credit of the sender plus what is under way in both directions, to
\* the byte: nothing is lost but the head start of a fast connect, which
\* handleNewChannelResponse charges once more than the announced window did.
LEMMA LeakFromCredit ==
  ASSUME CreditOK
  PROVE  NoCreditLeak
  <1> SUFFICES ASSUME NEW s \in Ends, state[s] = "Connected", state[Peer(s)] = "Connected"
               PROVE  localWindow[Peer(s)]
                        - (remoteWindow[s] + OnLink(Peer(s), "ChannelData")
                             + OnLink(s, "ChannelWindowAdjust"))
                        <= Charge(s)
    BY DEF NoCreditLeak, Charge
  <1> DEFINE p == Peer(s)
  <1>1. p \in Ends /\ Peer(p) = s
    BY PeerFacts
  <1>2. /\ link[p] \in Seq(Message) /\ link[s] \in Seq(Message)
        /\ arrived[p] \in Nat /\ sent[s] \in Nat /\ credited[s] \in Nat /\ granted[p] \in Nat
        /\ remoteWindow[s] \in Nat /\ WindowSize \in Nat /\ Charge(s) \in Nat
    BY <1>1, CreditFacts DEF TypeInv
  <1>3. /\ Ascending(link[p], "ChannelData", arrived[p], sent[s])
        /\ Ascending(link[s], "ChannelWindowAdjust", credited[s], granted[p])
        /\ arrived[p] <= sent[s] /\ credited[s] <= granted[p]
        /\ localWindow[p] = WindowSize - arrived[p] + granted[p]
    BY <1>1, CreditFacts, ContextFacts DEF Traffic, WindowBooks
  <1>4. Covers(link[p], "ChannelData", arrived[p], sent[s])
    BY <1>1 DEF CreditOK, StreamOK, StreamInv, Able
  <1>5. /\ Covers(link[s], "ChannelWindowAdjust", credited[s], granted[p])
        /\ remoteWindow[s] + sent[s] - credited[s] >= WindowSize - Charge(s)
    BY <1>1 DEF CreditOK, CreditInv, Creditable
  <1> HIDE DEF p
  <1>6. OnLink(p, "ChannelData") = sent[s] - arrived[p]
    BY <1>1, <1>2, <1>3, <1>4, OnLinkCounts, SMTT(30)
  <1>7. OnLink(s, "ChannelWindowAdjust") = granted[p] - credited[s]
    BY <1>1, <1>2, <1>3, <1>5, OnLinkCounts, SMTT(30)
  <1>8. localWindow[p] - (remoteWindow[s] + (sent[s] - arrived[p]) + (granted[p] - credited[s]))
          <= Charge(s)
    <2> DEFINE l == localWindow[p]
               a == arrived[p]
               t == sent[s]
               c == credited[s]
               g == granted[p]
               r == remoteWindow[s]
               h == Charge(s)
    <2>1. /\ a \in Nat /\ t \in Nat /\ c \in Nat /\ g \in Nat /\ r \in Nat /\ h \in Nat
          /\ WindowSize \in Nat /\ l = WindowSize - a + g /\ r + t - c >= WindowSize - h
      BY <1>2, <1>3, <1>5
    <2> HIDE DEF l, a, t, c, g, r, h
    <2>2. l - (r + (t - a) + (g - c)) <= h
      BY <2>1
    <2> QED
      BY <2>2 DEF l, a, t, c, g, r, h
  <1> QED
    BY <1>6, <1>7, <1>8 DEF p

\* No window adjust is lost, forgotten or counted short, whatever the order of
\* data, adjusts, answer and Close: a channel can stay open for ever and its
\* sender gets back every byte its peer has read (Channel::adjustWindow,
\* handleChannelWindowAdjust).
THEOREM NoCreditIsLost == Spec => []NoCreditLeak
  <1>1. Init => CreditInv
    BY CreditInit
  <1>2. ChannelInv /\ CreditInv /\ [Next]_vars => CreditInv'
    BY CreditNext DEF ChannelInv, CreditOK, StreamOK, Context, CloseOK
  <1>3. ChannelInv /\ CreditInv => NoCreditLeak
    BY LeakFromCredit DEF ChannelInv, CreditOK, StreamOK, Context, CloseOK
  <1> QED
    BY <1>1, <1>2, <1>3, ChannelInvariant, PTL DEF Spec
=============================================================================
