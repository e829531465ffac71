------------------------------- MODULE Session -------------------------------
(***************************************************************************)
(* The two ends of a session over one connection (protocol/Session.cc),    *)
(* from the first byte to the last: hello with version negotiation,        *)
(* authentication, forwarding requests, keepalive, notices, Disconnect,    *)
(* the queue of messages in front of the transport, and the reset of the   *)
(* connection.  The client is the Session that the SDK drives; the server  *)
(* is the same class in server mode, whose application is not part of the  *)
(* repository and may use its methods whenever their guards allow.         *)
(* The messages of channels take the same way and are in module Channel;   *)
(* incomingActivities is in SdkLifecycle; the writer that logs messages is *)
(* left out.                                                               *)
(***************************************************************************)
EXTENDS TransportManager

CONSTANTS ServerVersions,  \* what the server may offer
          Notices,         \* the notices that an end sends: Error, Usages
          MaxCalls,        \* requests, keepalives and notices of both ends together
          MaxEndings,      \* things that end the session: End, Cleanup, a loss
          Definitions(_)   \* what an end may have registered as paths

ASSUME SessionAssumption ==
  /\ ServerVersions \subseteq Nat /\ Notices \subseteq {"Error", "Usages"}
  /\ MaxCalls \in Nat /\ MaxEndings \in Nat

VARIABLES
  session,    \* the members of Session at each end
  transport,  \* its TransportManager, with the connection
  wire,       \* units on their way to each end
  lost,       \* the network has failed
  accepted,   \* history: the messages that sendMsg has taken at each end
  delivered,  \* history: the messages that each end has handled
  aborted,    \* an end met what it does not expect: ABORT_WITH_MSG or an exception
  crashed     \* an end has called a method of its null transportManager
vars == <<session, transport, wire, lost, accepted, delivered, aborted, crashed>>

Ends == {"client", "server"}
Peer(e) == IF e = "client" THEN "server" ELSE "client"
-----------------------------------------------------------------------------
(* Versions.                                                               *)

PINGGY_SESSION_VERSION_0_00 == 0
PINGGY_SESSION_VERSION_1_00 == 4096
PINGGY_SESSION_VERSION_1_01 == 4097
PINGGY_SESSION_VERSION_1_02 == 4098

Known == {PINGGY_SESSION_VERSION_1_00, PINGGY_SESSION_VERSION_1_01, PINGGY_SESSION_VERSION_1_02}

\* configureFeatures: a version has the features of those before it; one that is
\* not known has those of version 0 and becomes version 0.
ConfigureFeatures(version) ==
  IF version \notin Known
  THEN [version |-> PINGGY_SESSION_VERSION_0_00, on |-> {"primaryForwardingMode"}]
  ELSE [version |-> version,
        on |-> {"fastConnect", "closeTimeOutChannel"}
               \cup (IF version >= PINGGY_SESSION_VERSION_1_01
                     THEN {"implicitUsagesAndGreeting"} ELSE {})
               \cup (IF version = PINGGY_SESSION_VERSION_1_02
                     THEN {} ELSE {"primaryForwardingMode"})]

\* Mutant: an end keeps its own version.
KeepVersion(own, offered) == ConfigureFeatures(own)

NegotiateVersion(own, offered) == ConfigureFeatures(Min({own, offered}))
-----------------------------------------------------------------------------
(* Messages and their trees (Schema.hh, SchemaBodyGenerator.hh): the field *)
(* that a message depends on, and one of each other shape.                 *)

Msg(type, arg) == [type |-> type, arg |-> arg]

ArgName == [ClientHello |-> "Version", ServerHello |-> "Version",
            Authenticate |-> "AdvancedParsing", AuthenticationResponse |-> "Success",
            RemoteForwardRequest |-> "ReqId", RemoteForwardResponse |-> "ReqId",
            KeepAlive |-> "Tick", KeepAliveResponse |-> "ForTick",
            Disconnect |-> "Reason", Error |-> "ErrorNo", Usages |-> "Usages"]
MsgTypes == DOMAIN ArgName
Hellos == {"ClientHello", "ServerHello"}

\* Fields without a default are always there.
PlainFields(m) ==
  CASE m.type = "AuthenticationResponse" /\ m.arg = 1 ->
         [MsgId |-> Lit(0), TunnelInfo |-> Obj([GreetingMsg |-> Lit(0)])]
    [] m.type = "RemoteForwardResponse" ->
         [MsgId |-> Lit(0),
          RemoteForwardings |-> Arr(<<Obj([Mode |-> Lit(0), ForwardTo |-> Arr(<<Lit(1)>>)])>>)]
    [] m.type \in Hellos -> <<>>
    [] OTHER -> [MsgId |-> Lit(0)]

\* A field that has its default is left out.
Fields(m) ==
  IF m.arg = 0 /\ m.type \notin Hellos THEN PlainFields(m)
  ELSE LET arg == ArgName[m.type]
       IN  [f \in {arg} \cup DOMAIN PlainFields(m) |->
              IF f = arg THEN Lit(m.arg) ELSE PlainFields(m)[f]]

\* ToPinggyValue.
Tree(m) ==
  Obj([msg |-> Obj([f \in {"msgType", m.type} |->
                      IF f = "msgType" THEN Lit(m.type) ELSE Obj(Fields(m))])])

\* FromPinggyValue: a field that is left out has its default.
Inflate(tree) ==
  LET type == tree.of.msg.of.msgType.of
      fields == tree.of.msg.of[type].of
  IN  Msg(type, IF ArgName[type] \in DOMAIN fields THEN fields[ArgName[type]].of ELSE 0)

\* What an end may have to send, its hello first.
HelloOf(e, version) == Msg(IF e = "client" THEN "ClientHello" ELSE "ServerHello", version)
HellosOf(e) ==
  {HelloOf(e, v) : v \in IF e = "client" THEN {PINGGY_SESSION_VERSION_1_02} ELSE ServerVersions}
Calls(type, from, n) == {Msg(type, i) : i \in from .. from + n - 1}
Sendable(e) ==
  HellosOf(e) \cup {Msg("Disconnect", 0)} \cup
  IF e = "client"
  THEN {Msg("Authenticate", 0)}
       \cup Calls("RemoteForwardRequest", 4, MaxCalls) \cup Calls("KeepAlive", 0, MaxCalls)
  ELSE Calls("AuthenticationResponse", 0, 2) \cup {Msg(type, 0) : type \in Notices}
       \cup Calls("RemoteForwardResponse", 4, MaxCalls)
       \cup Calls("KeepAliveResponse", 0, MaxCalls)

\* What the transport needs of the serializer: paths are numbered as they come, a
\* frame fits into its length, and a receiver that knows the paths reads the tree.
IsSequence(s) == Len(s) \in Nat /\ s = [i \in 1 .. Len(s) |-> s[i]]
ReadsBack(all, defs, tree) ==
  LET body == Serialize(defs, tree)
  IN  /\ body.defs # <<>> /\ body.defs \in all /\ IsPrefix(defs, body.defs)
      /\ IsSequence(body.stream) /\ Len(body.stream) + 1 < LengthBase * LengthBase
      /\ Deserialize(body.stream, UpdatePathRegistryFromStream(NothingKnown, body.defs)) = tree
Registrable(e, all, defs) ==
  /\ IsSequence(defs) /\ Len(defs) + 1 < LengthBase * LengthBase
  /\ \A i \in DOMAIN defs : defs[i].id = ROOT_PATH_ID + i
  /\ \A m \in IF defs = <<>> THEN HellosOf(e) ELSE Sendable(e) : ReadsBack(all, defs, Tree(m))

ASSUME SerializerAssumption ==
  \A e \in Ends :
    LET all == Definitions(e)
    IN  <<>> \in all /\ \A defs \in all : Registrable(e, all, defs)
-----------------------------------------------------------------------------
(* One end at work: its session, its transport, the units on their way to  *)
(* the peer and what it has accepted.                                      *)

At(e) == [n |-> session[e], t |-> transport[e], wire |-> wire[Peer(e)],
          accepted |-> accepted[e], crashed |-> crashed]

Put(e, x) ==
  /\ session' = [session EXCEPT ![e] = x.n]
  /\ transport' = [transport EXCEPT ![e] = x.t]
  /\ wire' = [wire EXCEPT ![Peer(e)] = x.wire]
  /\ accepted' = [accepted EXCEPT ![e] = x.accepted]
  /\ crashed' = x.crashed
  /\ UNCHANGED <<lost, delivered, aborted>>

Broken(x) == lost \/ ~x.t.open
\* The application closes the connection.
Release(x) == [x EXCEPT !.t = CloseConnections(@), !.n.released = TRUE]

\* HandleConnectionReset, also from within a failing write.
HandleConnectionReset(x) == [Release(x) EXCEPT !.n.tm = FALSE]

\* A null transportManager is called.
Crash(x) == [x EXCEPT !.crashed = TRUE]

\* A write that fails resets the connection and counts as a success.
WriteFails(x, m) ==
  [x |-> IF m.type = "Disconnect" THEN Crash(HandleConnectionReset(x))
         ELSE HandleConnectionReset(x),
   sent |-> TRUE]

\* What the transport has made of the message, and EndTransport after Disconnect.
Transmitted(x, m, r) ==
  [x |-> [x EXCEPT !.t = IF r.sent /\ m.type = "Disconnect" THEN EndTransport(r.s.t)
                         ELSE r.s.t,
                   !.wire = r.s.wire],
   sent |-> r.sent]

\* Handing a message to the transport.
Transmit(x, m) ==
  IF ~x.n.tm THEN [x |-> Crash(x), sent |-> FALSE]
  ELSE IF Broken(x) /\ x.t.senderQueue = <<>> THEN WriteFails(x, m)
  ELSE Transmitted(x, m, SendTree([t |-> x.t, wire |-> x.wire], Tree(m)))

Enqueue(x, m) == [x EXCEPT !.n.sendQueue = Append(@, m), !.accepted = Append(@, m)]

\* Mutant: a message is tried although others wait.
SentAhead(x, m, r) ==
  IF ~r.sent THEN Enqueue(r.x, m)
  ELSE IF Broken(x) THEN r.x
  ELSE [r.x EXCEPT !.accepted = Append(@, m)]

\* Mutant: a message whose write has failed is sent again.
SentAgain(x, m, r) ==
  IF x.n.sendQueue # <<>> THEN Enqueue(x, m)
  ELSE IF ~r.sent THEN Enqueue(r.x, m)
  ELSE IF Broken(x) THEN Transmit(r.x, m).x
  ELSE [r.x EXCEPT !.accepted = Append(@, m)]

\* sendMsg: r is what the transport does with m, unless others wait already.
Sent(x, m, r) ==
  IF x.n.sendQueue # <<>> THEN Enqueue(x, m)
  ELSE IF ~r.sent THEN Enqueue(r.x, m)
  ELSE IF Broken(x) THEN r.x
  ELSE [r.x EXCEPT !.accepted = Append(@, m)]

TryOrQueue(x, m) == Sent(x, m, Transmit(x, m))
SendMsg(x, m) ==
  IF x.n.endSent \/ ~x.n.tm THEN x
  ELSE TryOrQueue([x EXCEPT !.n.endSent = m.type = "Disconnect"], m)

\* HandleReadyToSendBuffer: until the transport takes no more.
Dequeued(r) == IF r.sent THEN [r EXCEPT !.x.n.sendQueue = Tail(@)] ELSE r
HandleReadyToSendBuffer(x) ==
  LET tried[i \in 0 .. Len(x.n.sendQueue)] ==
        IF i = 0 THEN [x |-> x, sent |-> TRUE]
        ELSE IF ~tried[i - 1].sent THEN tried[i - 1]
        ELSE Dequeued(Transmit(tried[i - 1].x, x.n.sendQueue[i]))
  IN  tried[Len(x.n.sendQueue)].x
-----------------------------------------------------------------------------
(* handleDeserializedMsg: the session after it and whether the message was *)
(* expected.  The SDK is in the handlers of the client, and closes the     *)
(* connection when a message is fatal: a primary forwarding is refused, or *)
(* an error is not recoverable.  Which messages are is left open.          *)

Handled(x, ok) == [x |-> x, ok |-> ok]
Negotiated(x, m) ==
  [x EXCEPT !.n.features = NegotiateVersion(x.n.features.version, m.arg)]

\* HandleSessionInitiated: the SDK authenticates unless the server is too old.
SessionInitiated(x) ==
  IF x.n.features.version < PINGGY_SESSION_VERSION_1_02 THEN Release(x)
  ELSE [SendMsg(x, Msg("Authenticate", 0)) EXCEPT !.n.state = "AuthenticationRequestSent"]
HandleServerHello(x, m) ==
  Handled(SessionInitiated(Negotiated(x, m)), x.n.state = "ClientHelloSent")

HandleClientHello(x, m) == Handled(Negotiated(x, m), x.n.state = "ServerHelloSent")

HandleAuthenticate(x, m) ==
  Handled([x EXCEPT !.n.state = "AuthenticationRequestRecved"], x.n.state = "ServerHelloSent")

HandleAuthenticationResponse(x, m) ==
  Handled(IF m.arg = 1 THEN [x EXCEPT !.n.state = "AuthenticatedAsClient"]
          ELSE Release([x EXCEPT !.n.state = "AuthenticationFailed"]),
          x.n.state = "AuthenticationRequestSent")

HandleRemoteForwardRequest(x, m) ==
  Handled([x EXCEPT !.n.requests = @ \cup {m.arg}], x.n.state = "AuthenticatedAsServer")

ReleaseIf(fatal, x) == IF fatal THEN Release(x) ELSE x

HandleRemoteForwardResponse(x, m, fatal) ==
  Handled(ReleaseIf(fatal, [x EXCEPT !.n.requests = @ \ {m.arg}]),
          x.n.state = "AuthenticatedAsClient" /\ m.arg \in x.n.requests)

HandleKeepAlive(x, m) == Handled(SendMsg(x, Msg("KeepAliveResponse", m.arg)), TRUE)

\* The SDK closes the connection; the application of the server does so when it likes.
HandleDisconnect(e, x) == Handled(IF e = "client" THEN Release(x) ELSE x, TRUE)

HandleMsg(e, x, m, fatal) ==
  CASE m.type = "ServerHello" -> HandleServerHello(x, m)
    [] m.type = "ClientHello" -> HandleClientHello(x, m)
    [] m.type = "Authenticate" -> HandleAuthenticate(x, m)
    [] m.type = "AuthenticationResponse" -> HandleAuthenticationResponse(x, m)
    [] m.type = "RemoteForwardRequest" -> HandleRemoteForwardRequest(x, m)
    [] m.type = "RemoteForwardResponse" -> HandleRemoteForwardResponse(x, m, fatal)
    [] m.type = "KeepAlive" -> HandleKeepAlive(x, m)
    [] m.type = "Disconnect" -> HandleDisconnect(e, x)
    [] m.type = "Error" -> Handled(ReleaseIf(fatal, x), TRUE)
    [] m.type \in {"KeepAliveResponse", "Usages"} -> Handled(x, TRUE)
-----------------------------------------------------------------------------
(* The actions.                                                            *)

Init ==
  /\ session \in
       [Ends -> [state : {"Init"}, features : {ConfigureFeatures(PINGGY_SESSION_VERSION_1_02)}
                                     \cup {[version |-> v, on |-> {"primaryForwardingMode"}] : v \in ServerVersions},
                 sendQueue : {<<>>}, endSent : {FALSE}, tm : {FALSE},
                 lastReqId : {3}, requests : {{}}, tick : {0}, calls : {0},
                 released : {FALSE}]]
  /\ session["client"].features = ConfigureFeatures(PINGGY_SESSION_VERSION_1_02)
  /\ session["server"].features.version \in ServerVersions
  /\ session["server"].features.on = {"primaryForwardingMode"}
  /\ transport = [e \in Ends |-> NewTransportManager]
  /\ wire = [e \in Ends |-> <<>>]
  /\ lost = FALSE
  /\ accepted = [e \in Ends |-> <<>>]
  /\ delivered = [e \in Ends |-> <<>>]
  /\ aborted = FALSE
  /\ crashed = FALSE

Alive == ~aborted /\ ~crashed

\* An application leaves a session alone before Start and once it has closed it.
InUse(e) == session[e].state # "Init" /\ transport[e].open

\* The bound on requests, keepalives and notices.
MayCall(e) == InUse(e) /\ session["client"].calls + session["server"].calls < MaxCalls

\* The bound on what ends the session.
MayEnd ==
  Cardinality({e \in Ends : session[e].endSent}) + Cardinality({e \in Ends : session[e].released})
    + (IF lost THEN 1 ELSE 0) < MaxEndings

\* A method of Session at end e that sends m.
Call(e, x, m) == Alive /\ Put(e, SendMsg(x, m))

CanStart(e) == Alive /\ session[e].state = "Init"

\* Start.  A connection that is lost already leaves a null transportManager behind,
\* which is then told to use PinggyValues.
Started(e, x) ==
  LET y == [x EXCEPT !.n.state = IF e = "client" THEN "ClientHelloSent" ELSE "ServerHelloSent"]
  IN  IF y.n.tm THEN y ELSE Crash(y)
Start(e) ==
  /\ CanStart(e)
  /\ Put(e, Started(e, SendMsg([At(e) EXCEPT !.n.tm = TRUE],
                              HelloOf(e, session[e].features.version))))

SendRemoteForwardRequest ==
  LET id == session["client"].lastReqId + 1
  IN  /\ MayCall("client") /\ session["client"].state = "AuthenticatedAsClient"
      /\ Call("client", [At("client") EXCEPT !.n.lastReqId = id, !.n.requests = @ \cup {id},
                                             !.n.calls = @ + 1],
              Msg("RemoteForwardRequest", id))

\* AuthenticationSucceeded and AuthenticationFailed: the application answers once.
AnswerAuthentication(success) ==
  /\ InUse("server") /\ session["server"].state = "AuthenticationRequestRecved"
  /\ ~\E i \in DOMAIN accepted["server"] : accepted["server"][i].type = "AuthenticationResponse"
  /\ Call("server",
          [At("server") EXCEPT !.n.state = IF success THEN "AuthenticatedAsServer" ELSE @],
          Msg("AuthenticationResponse", IF success THEN 1 ELSE 0))

\* AcceptRemoteForwardRequest and RejectRemoteForwardRequest.
AnswerForwardRequest(id) ==
  /\ InUse("server") /\ session["server"].state = "AuthenticatedAsServer"
  /\ id \in session["server"].requests
  /\ Call("server", [At("server") EXCEPT !.n.requests = @ \ {id}],
          Msg("RemoteForwardResponse", id))

\* Keepalives are sent by the SDK.
SendKeepAlive ==
  /\ MayCall("client")
  /\ Call("client", [At("client") EXCEPT !.n.tick = @ + 1, !.n.calls = @ + 1],
          Msg("KeepAlive", session["client"].tick))

\* SendError and SendUsages, whose messages the SDK only receives.
SendNotice(type) ==
  /\ MayCall("server")
  /\ Call("server", [At("server") EXCEPT !.n.calls = @ + 1], Msg(type, 0))

\* End.
End(e) ==
  /\ InUse(e) /\ MayEnd
  /\ ~session[e].endSent
  /\ Call(e, At(e), Msg("Disconnect", 0))

\* Cleanup by the SDK while the connection is open.  Later it finds nothing to do.
Cleanup ==
  /\ Alive
  /\ InUse("client") /\ MayEnd
  /\ Put("client", HandleConnectionReset(At("client")))

\* The poll controller watches an open connection once the session has started.
Registered(e) == Alive /\ session[e].tm /\ transport[e].open

HasData(e) == Registered(e) /\ wire[e] # <<>>
AtEnd(e) == Registered(e) /\ wire[e] = <<>> /\ (lost \/ ~transport[Peer(e)].open)
Writable(e) ==
  Registered(e) /\ transport[e].writePoll /\ (lost \/ Len(wire[Peer(e)]) < Capacity)

\* HandleFDRead: n units are read, and r is what the transport makes of them.
Receive(e, n, h, message) ==
  /\ session' = [session EXCEPT ![e] = h.x.n]
  /\ transport' = [transport EXCEPT ![e] = h.x.t]
  /\ wire' = [wire EXCEPT ![e] = SubSeq(@, n + 1, Len(@)), ![Peer(e)] = h.x.wire]
  /\ accepted' = [accepted EXCEPT ![e] = h.x.accepted]
  /\ delivered' = [delivered EXCEPT ![e] = @ \o message]
  /\ aborted' = (~h.ok \/ n = 0)
  /\ crashed' = h.x.crashed
  /\ UNCHANGED lost

Dispatch(e, n, x, r, fatal) ==
  IF r.tree = NoTree \/ ~r.ok
  THEN Receive(e, n, Handled([x EXCEPT !.t = r.t], r.ok), <<>>)
  ELSE Receive(e, n, HandleMsg(e, [x EXCEPT !.t = r.t], Inflate(r.tree), fatal),
               <<Inflate(r.tree)>>)

HandleFDRead(e) ==
  LET n == Taken(transport[e], wire[e])
  IN  /\ HasData(e)
      /\ \E fatal \in BOOLEAN :
           Dispatch(e, n, At(e), ReadUnits(transport[e], SubSeq(wire[e], 1, n)), fatal)

\* HandleFDRead at the end of the stream, or when the network has failed.
ReadEnd(e) == AtEnd(e) /\ Put(e, HandleConnectionReset(At(e)))

\* HandleFDWrite when the socket takes data, or fails.
WriteQueued(x, s) == [x EXCEPT !.t = s.t, !.wire = s.wire]
Written(x) ==
  IF x.t.senderQueue = <<>> THEN HandleReadyToSendBuffer([x EXCEPT !.t.writePoll = FALSE])
  ELSE IF lost THEN HandleConnectionReset(x)
  ELSE WriteQueued(x, WriteFront([t |-> x.t, wire |-> x.wire]))
HandleFDWrite(e) == Writable(e) /\ Put(e, Written(At(e)))

\* The network fails, and takes with it what was on its way.
LoseConnection ==
  /\ Alive /\ MayEnd
  /\ ~lost
  /\ \E e \in Ends : transport[e].open
  /\ lost' = TRUE
  /\ wire' = [e \in Ends |-> <<>>]
  /\ UNCHANGED <<session, transport, accepted, delivered, aborted, crashed>>

Next ==
  \/ \E e \in Ends : Start(e) \/ End(e) \/ HandleFDRead(e) \/ ReadEnd(e) \/ HandleFDWrite(e)
  \/ SendRemoteForwardRequest \/ SendKeepAlive \/ Cleanup \/ LoseConnection
  \/ \E type \in Notices : SendNotice(type)
  \/ \E success \in BOOLEAN : AnswerAuthentication(success)
  \/ \E id \in session["server"].requests : AnswerForwardRequest(id)

\* The poll loop of each end calls the handlers of a connection that is ready.  Weak
\* fairness, with the guards in the place of ENABLED, which TLC is slow to evaluate
\* here: each of these actions changes something whenever its guard holds.
Fairness ==
  \A e \in Ends : /\ []<>~CanStart(e) \/ []<><<Start(e)>>_vars
                  /\ []<>~HasData(e) \/ []<><<HandleFDRead(e)>>_vars
                  /\ []<>~AtEnd(e) \/ []<><<ReadEnd(e)>>_vars
                  /\ []<>~Writable(e) \/ []<><<HandleFDWrite(e)>>_vars

Spec == Init /\ [][Next]_vars /\ Fairness
-----------------------------------------------------------------------------
(* Properties.                                                             *)

States == {"Init", "ClientHelloSent", "ServerHelloSent", "AuthenticationRequestSent",
           "AuthenticationRequestRecved", "AuthenticatedAsClient", "AuthenticatedAsServer",
           "AuthenticationFailed"}

\* Every variable has its type, and the bounds of the sockets and of the reader are kept.
SessionTypeOK ==
  /\ \A e \in Ends :
       /\ session[e].state \in States
       /\ {session[e].endSent, session[e].tm, session[e].released} \subseteq BOOLEAN
       /\ Len(wire[e]) <= Capacity
       /\ \A i \in DOMAIN transport[e].senderQueue : transport[e].senderQueue[i] # <<>>
       /\ Len(transport[e].recvRaw) < transport[e].expectedLen
       /\ \A i \in DOMAIN accepted[e] : accepted[e][i].type \in MsgTypes
  /\ {lost, aborted, crashed} \subseteq BOOLEAN

\* Nothing unexpected arrives: frames stay in step with the stream however it is cut,
\* every path is known when a body uses it, and no message meets a session in the
\* wrong state (ABORT_WITH_MSG in handleDeserializedMsg, at() in GetPathDefForId).
NeverUnexpected == ~aborted

\* Once both ends have negotiated, they run the same version with the same features
\* (NegotiateVersion), and a client authenticates with its own version only.
FeaturesAgree ==
  /\ session["client"].state \notin {"Init", "ClientHelloSent"}
  /\ session["server"].state \notin {"Init", "ServerHelloSent"}
  => /\ session["client"].features = session["server"].features
     /\ session["client"].features.version = PINGGY_SESSION_VERSION_1_02

\* An end that EndTransport has closed.
EndedGracefully(e) ==
  transport[e].endTransport /\ ~transport[e].open /\ ~session[e].released

\* EndTransport closes a connection only when everything is written: the peer that has
\* read the connection to its end has handled every message, Disconnect included.
EndFlushes ==
  \A e \in Ends :
    /\ EndedGracefully(e) /\ ~lost
    /\ transport[Peer(e)].open /\ session[Peer(e)].tm /\ wire[Peer(e)] = <<>>
    => delivered[Peer(e)] = accepted[e]

\* A null transportManager is called only after a failed write in one of three
\* places: Start, the sending of Disconnect, and a buffer with a message left after
\* the one that failed.  Every other message survives the loss of the connection.
CrashWindow ==
  [][crashed' # crashed =>
       /\ lost
       /\ \E e \in Ends : \/ session[e].state = "Init"
                          \/ session'[e].endSent
                          \/ Len(session[e].sendQueue) >= 2]_vars

\* A session is a pipe of messages in each direction.
Pipe == INSTANCE MessagePipe WITH
          Other <- Peer, closed <- {e \in Ends : ~transport[e].open}
ImplementsMessagePipe == Pipe!Spec

\* What keeps a message of e from its peer: the network, the peer, or a Cleanup.
CutOff(e) ==
  \/ lost \/ aborted \/ crashed
  \/ ~transport[Peer(e)].open
  \/ ~transport[e].open /\ ~EndedGracefully(e)

\* What sendMsg has taken is handled at the other end: no partial write, queue or
\* missing poll holds it back for ever.
MessagesArrive ==
  []<>(\A e \in Ends : delivered[Peer(e)] = accepted[e] \/ CutOff(e))
=============================================================================
