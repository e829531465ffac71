-------------------------- MODULE TransportManager --------------------------
(***************************************************************************)
(* One end of the transport (transport/TransportManager.cc): how messages  *)
(* are framed, written as far as the socket takes them, queued, read in    *)
(* pieces and put together again.  The operators work on a record t with   *)
(* the members of TransportManager, and on the units on their way to the   *)
(* peer; Session makes the actions out of them.                            *)
(*                                                                         *)
(* A frame is a length, in two digits, and that many units: either the     *)
(* mark of a definition frame and definitions of paths, or the mark of a   *)
(* value frame and the body of a message.  Before the first frame each end *)
(* sends its signature.                                                    *)
(***************************************************************************)
EXTENDS PathRegistry, PinggyValue, SequencesExt

CONSTANTS Capacity,     \* units that the sockets between two ends hold
          LengthBase,   \* a digit of a length is below this: the uint16_t of the code
          Serialize(_, _),   \* Serializer: from definitions and a tree to [defs, stream]
          Deserialize(_, _)  \* Deserializer: from a stream and the paths known to a tree

ASSUME TransportAssumption == Capacity \in Nat \ {0} /\ LengthBase \in Nat \ {0, 1}

Signature == <<Unit("signature", 1), Unit("signature", 2)>>
HANDSHAKE_LENGTH == Len(Signature)
TRANSPORT_HEADER_LENGTH == 2

MsgType_Type == Unit("mark", "Type")
MsgType_Value == Unit("mark", "Value")

\* A length as it is written, and as it is read.
LengthUnits(n) == <<Unit("digit", n % LengthBase), Unit("digit", (n \div LengthBase) % LengthBase)>>
LengthOf(units) == units[1].of + LengthBase * units[2].of

\* The constructor.
NewTransportManager ==
  [registry |-> EmptyRegistry, known |-> NothingKnown,
   senderQueue |-> <<>>, writePoll |-> FALSE,
   signatureSent |-> FALSE, signatureRcvd |-> FALSE,
   recvRaw |-> <<>>, expectedLen |-> HANDSHAKE_LENGTH, readingHeader |-> TRUE,
   endTransport |-> FALSE, open |-> TRUE]
-----------------------------------------------------------------------------
(* Sending.  s has the transport and the units on their way: [t, wire].    *)

\* Write: as much as there is room for.
Accepted(wire, data) == SubSeq(data, 1, Min({Len(data), Capacity - Len(wire)}))
Remainder(wire, data) == SubSeq(data, Len(Accepted(wire, data)) + 1, Len(data))

\* Mutant: the rest of a partial write is sent, but the poll is not enabled.
QueueWithoutPoll(s, data) ==
  IF s.t.senderQueue # <<>> THEN [s EXCEPT !.t.senderQueue = Append(@, data)]
  ELSE [wire |-> s.wire \o Accepted(s.wire, data),
        t |-> IF Remainder(s.wire, data) = <<>> THEN s.t
              ELSE [s.t EXCEPT !.senderQueue = <<Remainder(s.wire, data)>>]]

\* sendOrQueueData on a connection that works.
SendOrQueueData(s, data) ==
  IF s.t.senderQueue # <<>> THEN [s EXCEPT !.t.senderQueue = Append(@, data)]
  ELSE [wire |-> s.wire \o Accepted(s.wire, data),
        t |-> IF Remainder(s.wire, data) = <<>> THEN s.t
              ELSE [s.t EXCEPT !.senderQueue = <<Remainder(s.wire, data)>>, !.writePoll = TRUE]]

\* GetSerializer: the signature goes ahead of everything.
SendSignature(s) ==
  IF s.t.signatureSent THEN s
  ELSE [SendOrQueueData(s, Signature) EXCEPT !.t.signatureSent = TRUE]

Frame(s, units) == SendOrQueueData(SendOrQueueData(s, LengthUnits(Len(units))), units)

\* Mutant: new paths are cleared although they are not announced.
AnnounceNothing(s) == [s EXCEPT !.t.registry = ClearNewlyAddedPath(@)]

PathUnits(defs) == [i \in DOMAIN defs |-> Unit("path", defs[i])]

\* The definitions of new paths go ahead of the message that uses them.
AnnouncePaths(s) ==
  IF NewlyAddedPath(s.t.registry) = <<>> THEN s
  ELSE [Frame(s, <<MsgType_Type>> \o PathUnits(NewlyAddedPath(s.t.registry)))
          EXCEPT !.t.registry = ClearNewlyAddedPath(@)]

\* Serialize and SendMsg: FALSE if the sender queue is not empty.  The paths of the
\* message are registered in either case.
SendBody(s, body) ==
  LET registered == [s EXCEPT !.t.registry.defs = body.defs]
  IN  IF s.t.senderQueue # <<>> THEN [s |-> registered, sent |-> FALSE]
      ELSE [s |-> Frame(AnnouncePaths(registered), <<MsgType_Value>> \o body.stream),
            sent |-> TRUE]
Serialized(s, tree) == SendBody(s, Serialize(s.t.registry.defs, tree))
SendTree(s, tree) == Serialized(SendSignature(s), tree)

CloseConnections(t) == [t EXCEPT !.open = FALSE, !.writePoll = FALSE]

\* Mutant: the connection is closed at once.
EndTransportAtOnce(t) == CloseConnections([t EXCEPT !.endTransport = TRUE])

\* EndTransport: closes when everything is written.
EndTransport(t) ==
  LET ended == [t EXCEPT !.endTransport = TRUE]
  IN  IF t.endTransport \/ t.senderQueue # <<>> THEN ended ELSE CloseConnections(ended)

\* Mutant: what is written stays in the queue.
WriteFrontStays(s) ==
  [wire |-> s.wire \o Accepted(s.wire, s.t.senderQueue[1]),
   t |-> [s.t EXCEPT !.senderQueue[1] = Remainder(s.wire, @)]]

\* HandleFDWrite with something queued: the front, as far as it goes.
CloseWhenEmpty(t) ==
  IF t.senderQueue = <<>> /\ t.endTransport THEN CloseConnections(t) ELSE t
WriteFront(s) ==
  LET rest == Remainder(s.wire, s.t.senderQueue[1])
  IN  [wire |-> s.wire \o Accepted(s.wire, s.t.senderQueue[1]),
       t |-> CloseWhenEmpty([s.t EXCEPT !.senderQueue =
               IF rest = <<>> THEN Tail(@) ELSE <<rest>> \o Tail(@)])]
-----------------------------------------------------------------------------
(* Receiving.                                                              *)

Wanted(t) == t.expectedLen - Len(t.recvRaw)
Taken(t, wire) == Min({Wanted(t), Len(wire)})

NextHeader(t) == [t EXCEPT !.readingHeader = TRUE, !.expectedLen = TRANSPORT_HEADER_LENGTH]

\* recvSignature, parseHeader and parseData of a whole frame: the transport after
\* it, whether it made sense, and the tree of a value frame.
NoTree == [type |-> "None"]
Parsed(t, ok, tree) == [t |-> t, ok |-> ok, tree |-> tree]

RecvSignature(t, units) ==
  Parsed([NextHeader(t) EXCEPT !.signatureRcvd = TRUE], units = Signature, NoTree)

ParseHeader(t, units) ==
  IF \A i \in DOMAIN units : units[i].unit = "digit"
  THEN Parsed([t EXCEPT !.expectedLen = LengthOf(units), !.readingHeader = FALSE], TRUE, NoTree)
  ELSE Parsed(t, FALSE, NoTree)

ParsePathDefinition(t, units) ==
  IF \A i \in DOMAIN units : units[i].unit = "path"
  THEN Parsed([NextHeader(t) EXCEPT
                 !.known = UpdatePathRegistryFromStream(@, [i \in DOMAIN units |-> units[i].of])],
              TRUE, NoTree)
  ELSE Parsed(t, FALSE, NoTree)
ParseBody(t, tree) == Parsed(NextHeader(t), tree.type # "Corrupt", tree)

ParseData(t, units) ==
  CASE units[1] = MsgType_Type -> ParsePathDefinition(t, Tail(units))
    [] units[1] = MsgType_Value -> ParseBody(t, Deserialize(Tail(units), t.known))
    [] OTHER -> Parsed(t, FALSE, NoTree)

\* HandleFDRead with n units at hand: they are kept until the frame is whole.
ParseWhole(t, raw) ==
  IF ~t.signatureRcvd THEN RecvSignature(t, raw)
  ELSE IF t.readingHeader THEN ParseHeader(t, raw)
  ELSE ParseData(t, raw)
ReadUnits(t, units) ==
  IF Len(t.recvRaw) + Len(units) < t.expectedLen
  THEN Parsed([t EXCEPT !.recvRaw = @ \o units], TRUE, NoTree)
  ELSE ParseWhole([t EXCEPT !.recvRaw = <<>>], t.recvRaw \o units)
=============================================================================
