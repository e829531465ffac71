---------------------------- MODULE SessionProofs ----------------------------
(***************************************************************************)
(* Proofs about the steps of module Session: what each handler and method  *)
(* does to its end, the invariant that ties what one end has sent to what  *)
(* the other one has handled, the order of the conversation, and the       *)
(* properties that follow from both.                                       *)
(***************************************************************************)
EXTENDS SessionStreamProofs

-----------------------------------------------------------------------------
(* The handlers of handleDeserializedMsg.                                  *)

NextState(n, m) ==
  IF m.type = "ServerHello" /\ n.features.version >= PINGGY_SESSION_VERSION_1_02
  THEN "AuthenticationRequestSent"
  ELSE IF m.type = "Authenticate" THEN "AuthenticationRequestRecved"
  ELSE IF m.type = "AuthenticationResponse"
  THEN IF m.arg = 1 THEN "AuthenticatedAsClient" ELSE "AuthenticationFailed"
  ELSE n.state

NextRequests(n, m) ==
  IF m.type = "RemoteForwardRequest" THEN n.requests \cup {m.arg}
  ELSE IF m.type = "RemoteForwardResponse" THEN n.requests \ {m.arg}
  ELSE n.requests

\* What a message does to the session of the end that handles it, and what it answers.
Reaction(x, m, y) ==
  /\ y.n.lastReqId = x.n.lastReqId /\ y.n.tick = x.n.tick /\ y.n.calls = x.n.calls
  /\ y.n.features = IF m.type \in Hellos THEN NegotiateVersion(x.n.features.version, m.arg)
                    ELSE x.n.features
  /\ y.n.requests = NextRequests(x.n, m)
  /\ y.n.state = NextState([x.n EXCEPT !.features = y.n.features], m)
  /\ \/ y.accepted = x.accepted
     \/ /\ m.type = "ServerHello" /\ y.n.state = "AuthenticationRequestSent"
        /\ y.accepted = Append(x.accepted, Msg("Authenticate", 0))
     \/ m.type = "KeepAlive" /\ y.accepted = Append(x.accepted, Msg("KeepAliveResponse", m.arg))

\* Features of a version,
LEMMA ConfiguredFeatures ==
  ASSUME NEW v \in Nat
  PROVE  ConfigureFeatures(v) \in Features
  <1> DEFINE all == {"fastConnect", "closeTimeOutChannel"}
                    \cup (IF v >= PINGGY_SESSION_VERSION_1_01
                          THEN {"implicitUsagesAndGreeting"} ELSE {})
                    \cup (IF v = PINGGY_SESSION_VERSION_1_02
                          THEN {} ELSE {"primaryForwardingMode"})
  <1>1. [version |-> v, on |-> all] \in Features
    BY DEF Features
  <1>2. [version |-> PINGGY_SESSION_VERSION_0_00, on |-> {"primaryForwardingMode"}] \in Features
    BY DEF Features, PINGGY_SESSION_VERSION_0_00
  <1>3. ConfigureFeatures(v) =
          IF v \notin Known
          THEN [version |-> PINGGY_SESSION_VERSION_0_00, on |-> {"primaryForwardingMode"}]
          ELSE [version |-> v, on |-> all]
    BY DEF ConfigureFeatures
  <1> HIDE DEF all
  <1> QED
    BY <1>1, <1>2, <1>3

\* and of two versions.
LEMMA NegotiatedFeatures ==
  ASSUME NEW a \in Nat, NEW b \in Nat
  PROVE  NegotiateVersion(a, b) \in Features
  <1>1. Min({a, b}) = IF a <= b THEN a ELSE b
    BY MinOfTwo
  <1>2. Min({a, b}) \in Nat
    BY <1>1
  <1> QED
    BY <1>2, ConfiguredFeatures DEF NegotiateVersion

\* An application that changes its part of the session while the connection is open.
LEMMA ApplicationEffect ==
  ASSUME NEW e \in Ends, NEW x, EndOK(e, x), x.t.open, x.n.tm => x.t.registry.defs # <<>>,
         NEW k \in SessionRecords(e),
         k.sendQueue = x.n.sendQueue, k.endSent = x.n.endSent, k.released = x.n.released,
         k.tm = x.n.tm
  PROVE  LET y == [x EXCEPT !.n = k]
         IN  Effect(e, x, y) /\ y.n = k /\ EndOK(e, y) /\ SameButApplication(x, y)
  <1> DEFINE y == [x EXCEPT !.n = k]
  <1>1. EndOK(e, y) /\ SameButApplication(x, y) /\ y.n = k
    BY ApplicationKeeps
  <1> HIDE DEF y
  <1>2. Effect(e, x, y)
    BY <1>1, NoEffect DEF SameButApplication
  <1> QED
    BY <1>1, <1>2 DEF y

\* The types of an end.
LEMMA EndFacts ==
  ASSUME NEW e \in Ends, NEW x, EndOK(e, x)
  PROVE  x \in EndRecords(e) /\ x.n \in SessionRecords(e) /\ x.t \in Transports
  BY DEF EndOK, EndBase, EndRecords

\* The two hellos,
LEMMA HelloKeeps ==
  ASSUME NEW e \in Ends, NEW x, EndOK(e, x), x.t.open, x.n.tm => x.t.registry.defs # <<>>,
         NEW m \in Sendable(Peer(e)), m.type \in Hellos, NEW fatal \in BOOLEAN
  PROVE  LET y == HandleMsg(e, x, m, fatal).x
         IN  Effect(e, x, y) /\ Reaction(x, m, y)
  <1> DEFINE v == NegotiateVersion(x.n.features.version, m.arg)
             k == [x.n EXCEPT !.features = v]
             z == [x EXCEPT !.n = k]
             y == HandleMsg(e, x, m, fatal).x
  <1>1. x \in EndRecords(e) /\ x.n \in SessionRecords(e) /\ Peer(e) \in Ends
    BY EndFacts DEF Peer, Ends
  <1>2. m.arg \in Nat /\ x.n.features.version \in Nat
    BY <1>1, SendableFacts DEF SessionRecords, Features
  <1>3. v \in Features
    BY <1>2, NegotiatedFeatures
  <1>4. Negotiated(x, m) = z
    BY <1>1 DEF Negotiated, EndRecords
  <1> HIDE DEF v
  <1>5. /\ k \in SessionRecords(e) /\ k.features = v
        /\ k.sendQueue = x.n.sendQueue /\ k.endSent = x.n.endSent /\ k.released = x.n.released
        /\ k.tm = x.n.tm /\ k.state = x.n.state /\ k.lastReqId = x.n.lastReqId
        /\ k.requests = x.n.requests /\ k.tick = x.n.tick /\ k.calls = x.n.calls
    BY <1>1, <1>3 DEF SessionRecords
  <1> HIDE DEF k
  <1>6. Effect(e, x, z) /\ z.n = k /\ EndOK(e, z) /\ SameButApplication(x, z)
    BY <1>5, ApplicationEffect
  <1> HIDE DEF z
  <1>7. z.t = x.t /\ z.accepted = x.accepted
    BY <1>6 DEF SameButApplication
  <1>8. NextRequests(x.n, m) = x.n.requests
    BY DEF NextRequests, Hellos
  <1> DEFINE j == [x.n EXCEPT !.features = v]
  <1>9. /\ j.state = x.n.state /\ j.features = v
        /\ NextState(j, m) = IF m.type = "ServerHello" /\ v.version >= PINGGY_SESSION_VERSION_1_02
                             THEN "AuthenticationRequestSent" ELSE x.n.state
    <2>1. j.state = x.n.state /\ j.features = v
      BY <1>1 DEF SessionRecords
    <2> HIDE DEF j
    <2> QED
      BY <2>1 DEF NextState, Hellos
  <1>10. CASE m.type = "ClientHello"
    <2>1. y = z
      BY <1>4, <1>10 DEF HandleMsg, HandleClientHello, Handled
    <2> HIDE DEF y
    <2>2. NextState(j, m) = x.n.state
      BY <1>9, <1>10
    <2>3. y.n.features = v /\ y.n.state = NextState(j, m) /\ y.n.requests = x.n.requests
          /\ y.n.lastReqId = x.n.lastReqId /\ y.n.tick = x.n.tick /\ y.n.calls = x.n.calls
          /\ y.accepted = x.accepted
      BY <1>5, <1>6, <1>7, <2>1, <2>2
    <2> HIDE DEF j
    <2>4. Reaction(x, m, y)
      BY <1>8, <1>10, <2>3 DEF Reaction, Hellos, j, v
    <2> QED
      BY <1>6, <2>1, <2>4 DEF y
  <1>11. CASE m.type = "ServerHello"
    <2>1. y = SessionInitiated(z)
      BY <1>4, <1>11 DEF HandleMsg, HandleServerHello, Handled
    <2> HIDE DEF y
    <2>2. e = "client"
      BY <1>11, SendableFacts DEF Peer, Ends, ClientTypes
    <2>3. v.version \in Nat /\ PINGGY_SESSION_VERSION_1_02 \in Nat
      BY <1>3 DEF Features, PINGGY_SESSION_VERSION_1_02
    <2>4. CASE v.version < PINGGY_SESSION_VERSION_1_02
      <3>1. y = Release(z)
        BY <1>5, <1>6, <2>1, <2>4 DEF SessionInitiated
      <3>2. Effect(e, z, y) /\ SameApplication(z.n, y.n) /\ y.accepted = z.accepted
        BY <1>5, <1>6, <1>7, <3>1, ReleaseEffect
      <3>3. Effect(e, x, y)
        BY <1>5, <1>6, <3>2, EffectBefore
      <3>4. y.n.state = x.n.state /\ y.n.features = v
        BY <1>5, <1>6, <3>2 DEF SameApplication
      <3>5. NextState(j, m) = x.n.state
        BY <1>9, <2>3, <2>4
      <3> HIDE DEF j
      <3>6. Reaction(x, m, y)
        BY <1>5, <1>6, <1>7, <1>8, <1>11, <3>2, <3>4, <3>5 DEF Reaction, SameApplication, Hellos, j, v
      <3> QED
        BY <3>3, <3>6 DEF y
    <2>5. CASE ~(v.version < PINGGY_SESSION_VERSION_1_02)
      <3> DEFINE a == Msg("Authenticate", 0)
                 s == SendMsg(z, a)
                 u == [s.n EXCEPT !.state = "AuthenticationRequestSent"]
      <3>1. y = [s EXCEPT !.n.state = "AuthenticationRequestSent"]
        BY <1>5, <1>6, <2>1, <2>5 DEF SessionInitiated
      <3>2. a \in Sendable(e)
        BY <2>2 DEF Sendable
      <3> HIDE DEF a
      <3>3. /\ Effect(e, z, s) /\ SameApplication(z.n, s.n)
            /\ s.accepted = z.accepted \/ s.accepted = Append(z.accepted, a)
        BY <1>5, <1>6, <1>7, <3>2, SendEffect
      <3> HIDE DEF s
      <3>4. EndOK(e, s)
        BY <3>3 DEF Effect
      <3>5. s \in EndRecords(e) /\ s.n \in SessionRecords(e)
        BY <3>4, EndFacts
      <3>6. y = [s EXCEPT !.n = u]
        BY <3>1, <3>5 DEF EndRecords
      <3>7. /\ u \in SessionRecords(e) /\ u.state = "AuthenticationRequestSent"
            /\ u.sendQueue = s.n.sendQueue /\ u.endSent = s.n.endSent /\ u.released = s.n.released
            /\ u.tm = s.n.tm /\ u.features = s.n.features /\ u.lastReqId = s.n.lastReqId
            /\ u.requests = s.n.requests /\ u.tick = s.n.tick /\ u.calls = s.n.calls
        BY <3>5 DEF SessionRecords, States
      <3> HIDE DEF u
      <3>8. EndOK(e, y) /\ SameButApplication(s, y) /\ y.n = u
        BY <3>4, <3>6, <3>7, ApplicationKeeps
      <3>9. Effect(e, z, y)
        BY <3>3, <3>7, <3>8, EffectAfter
      <3>10. Effect(e, x, y)
        BY <1>5, <1>6, <3>9, EffectBefore
      <3>11. NextState(j, m) = "AuthenticationRequestSent"
        BY <1>9, <1>11, <2>3, <2>5
      <3> HIDE DEF j
      <3>12. y.n.features = v /\ y.n.requests = x.n.requests
        BY <1>5, <1>6, <3>3, <3>7, <3>8 DEF SameApplication
      <3>13. y.accepted = x.accepted \/ y.accepted = Append(x.accepted, a)
        BY <1>7, <3>3, <3>8 DEF SameButApplication
      <3>14. /\ y.n.lastReqId = x.n.lastReqId /\ y.n.tick = x.n.tick /\ y.n.calls = x.n.calls
             /\ y.n.state = NextState(j, m) /\ y.n.state = "AuthenticationRequestSent"
        BY <1>5, <1>6, <3>3, <3>7, <3>8, <3>11 DEF SameApplication
      <3>15. Reaction(x, m, y)
        BY <1>8, <1>11, <3>12, <3>13, <3>14 DEF Reaction, Hellos, j, v, a
      <3> QED
        BY <3>10, <3>15 DEF y
    <2> QED
      BY <2>4, <2>5
  <1> QED
    BY <1>10, <1>11 DEF Hellos

\* and the other messages.
LEMMA OtherMessageKeeps ==
  ASSUME NEW e \in Ends, NEW x, EndOK(e, x), x.t.open, x.n.tm => x.t.registry.defs # <<>>,
         NEW m \in Sendable(Peer(e)), m.type \notin Hellos, NEW fatal \in BOOLEAN
  PROVE  LET y == HandleMsg(e, x, m, fatal).x
         IN  Effect(e, x, y) /\ Reaction(x, m, y)
  <1> DEFINE y == HandleMsg(e, x, m, fatal).x
             j == [x.n EXCEPT !.features = x.n.features]
  <1>1. x \in EndRecords(e) /\ x.n \in SessionRecords(e) /\ Peer(e) \in Ends
    BY EndFacts DEF Peer, Ends
  <1>2. m.arg \in Nat /\ m.type \in ClientTypes \cup ServerTypes
    BY <1>1, SendableFacts
  <1>3. j = x.n
    BY <1>1 DEF SessionRecords
  <1> HIDE DEF j
  \* A handler that changes the state or the requests only.
  <1>4. ASSUME NEW k \in SessionRecords(e), y = [x EXCEPT !.n = k],
               k.sendQueue = x.n.sendQueue, k.endSent = x.n.endSent, k.released = x.n.released,
               k.tm = x.n.tm, k.features = x.n.features, k.lastReqId = x.n.lastReqId,
               k.tick = x.n.tick, k.calls = x.n.calls,
               k.state = NextState(x.n, m), k.requests = NextRequests(x.n, m)
        PROVE  Effect(e, x, y) /\ Reaction(x, m, y)
    <2> HIDE DEF y
    <2>1. Effect(e, x, y) /\ y.n = k /\ SameButApplication(x, y)
      BY <1>4, ApplicationEffect
    <2>2. [x.n EXCEPT !.features = y.n.features] = x.n
      BY <1>3, <1>4, <2>1 DEF j
    <2>3. y.accepted = x.accepted
      BY <2>1 DEF SameButApplication
    <2>4. Reaction(x, m, y)
      BY <1>4, <2>1, <2>2, <2>3 DEF Reaction
    <2> QED
      BY <2>1, <2>4
  \* A handler that does nothing.
  <1>5. ASSUME y = x, NextState(x.n, m) = x.n.state, NextRequests(x.n, m) = x.n.requests
        PROVE  Effect(e, x, y) /\ Reaction(x, m, y)
    <2> HIDE DEF y
    <2>1. x = [x EXCEPT !.n = x.n]
      BY <1>1 DEF EndRecords
    <2>2. Effect(e, x, y)
      BY <1>1, <1>5, <2>1, ApplicationEffect
    <2>3. Reaction(x, m, y)
      BY <1>3, <1>5 DEF Reaction, j
    <2> QED
      BY <2>2, <2>3
  \* A handler that closes the connection.
  <1>6. ASSUME NEW z, EndOK(e, z), Effect(e, x, z), z.n.tm = x.n.tm, z.t = x.t, y = Release(z),
               z.accepted = x.accepted, z.n.features = x.n.features, SameButApplication(x, z),
               z.n.lastReqId = x.n.lastReqId, z.n.tick = x.n.tick, z.n.calls = x.n.calls,
               z.n.state = NextState(x.n, m), z.n.requests = NextRequests(x.n, m),
               z.n.state # "Init" \/ z.n.state = x.n.state
        PROVE  Effect(e, x, y) /\ Reaction(x, m, y)
    <2> HIDE DEF y
    <2>1. Effect(e, z, y) /\ SameApplication(z.n, y.n) /\ y.accepted = z.accepted
      BY <1>6, ReleaseEffect
    <2>2. Effect(e, x, y)
      BY <1>6, <2>1, EffectBefore
    <2>3. y.n.features = x.n.features /\ y.n.state = NextState(x.n, m)
          /\ y.n.requests = NextRequests(x.n, m) /\ y.accepted = x.accepted
          /\ y.n.lastReqId = x.n.lastReqId /\ y.n.tick = x.n.tick /\ y.n.calls = x.n.calls
      BY <1>6, <2>1 DEF SameApplication
    <2>4. [x.n EXCEPT !.features = y.n.features] = x.n
      BY <1>3, <2>3 DEF j
    <2>5. Reaction(x, m, y)
      BY <2>3, <2>4 DEF Reaction
    <2> QED
      BY <2>2, <2>5
  <1>7. CASE m.type = "Authenticate"
    <2> DEFINE k == [x.n EXCEPT !.state = "AuthenticationRequestRecved"]
    <2>1. y = [x EXCEPT !.n = k]
      BY <1>1, <1>7 DEF HandleMsg, HandleAuthenticate, Handled, EndRecords
    <2>2. k \in SessionRecords(e)
      BY <1>1 DEF SessionRecords, States
    <2>3. k.state = NextState(x.n, m) /\ k.requests = NextRequests(x.n, m)
      BY <1>1, <1>7 DEF SessionRecords, NextState, NextRequests
    <2>4. /\ k.sendQueue = x.n.sendQueue /\ k.endSent = x.n.endSent /\ k.released = x.n.released
          /\ k.tm = x.n.tm /\ k.features = x.n.features /\ k.lastReqId = x.n.lastReqId
          /\ k.tick = x.n.tick /\ k.calls = x.n.calls
      BY <1>1 DEF SessionRecords
    <2> HIDE DEF k, y
    <2> QED
      BY <1>4, <2>1, <2>2, <2>3, <2>4 DEF y
  <1>8. CASE m.type = "RemoteForwardRequest" \/ m.type = "RemoteForwardResponse"
    <2> DEFINE k == [x.n EXCEPT !.requests = NextRequests(x.n, m)]
               z == [x EXCEPT !.n = k]
    <2>1. y = z \/ y = Release(z)
      <3>1. CASE m.type = "RemoteForwardRequest"
        BY <1>1, <3>1 DEF HandleMsg, HandleRemoteForwardRequest, Handled, EndRecords, NextRequests
      <3>2. CASE m.type = "RemoteForwardResponse"
        <4>1. [x EXCEPT !.n.requests = @ \ {m.arg}] = z
          BY <1>1, <3>2 DEF EndRecords, NextRequests
        <4> HIDE DEF z
        <4> QED
          BY <3>2, <4>1 DEF HandleMsg, HandleRemoteForwardResponse, ReleaseIf, Handled
      <3> QED
        BY <1>8, <3>1, <3>2
    <2>2. NextRequests(x.n, m) \in SUBSET Nat
      BY <1>1, <1>2 DEF SessionRecords, NextRequests
    <2>3. x.n.state = NextState(x.n, m)
      BY <1>8 DEF NextState
    <2>4. k \in SessionRecords(e) /\ k.requests = NextRequests(x.n, m) /\ k.state = x.n.state
      BY <1>1, <2>2 DEF SessionRecords
    <2>5. /\ k.sendQueue = x.n.sendQueue /\ k.endSent = x.n.endSent /\ k.released = x.n.released
          /\ k.tm = x.n.tm /\ k.features = x.n.features /\ k.lastReqId = x.n.lastReqId
          /\ k.tick = x.n.tick /\ k.calls = x.n.calls
      BY <1>1 DEF SessionRecords
    <2> HIDE DEF k
    <2>6. CASE y = z
      <3>1. y = [x EXCEPT !.n = k]
        BY <2>6
      <3> HIDE DEF y
      <3> QED
        BY <1>4, <2>3, <2>4, <2>5, <3>1 DEF y
    <2>7. CASE y = Release(z)
      <3>1. Effect(e, x, z) /\ z.n = k /\ EndOK(e, z) /\ SameButApplication(x, z)
        BY <2>4, <2>5, ApplicationEffect
      <3> HIDE DEF z
      <3>2. z.t = x.t /\ z.accepted = x.accepted
        BY <3>1 DEF SameButApplication
      <3>3. EndOK(e, z) /\ Effect(e, x, z) /\ z.n.tm = x.n.tm /\ z.t = x.t /\ y = Release(z)
            /\ z.accepted = x.accepted /\ z.n.features = x.n.features /\ SameButApplication(x, z)
            /\ z.n.lastReqId = x.n.lastReqId /\ z.n.tick = x.n.tick /\ z.n.calls = x.n.calls
            /\ z.n.state = NextState(x.n, m) /\ z.n.requests = NextRequests(x.n, m)
            /\ z.n.state = x.n.state
        BY <2>3, <2>4, <2>5, <2>7, <3>1, <3>2
      <3> HIDE DEF y
      <3> QED
        BY <1>6, <3>3 DEF y
    <2> QED
      BY <2>1, <2>6, <2>7
  <1>9. CASE m.type = "AuthenticationResponse"
    <2> DEFINE k == [x.n EXCEPT !.state = NextState(x.n, m)]
               z == [x EXCEPT !.n = k]
    <2>1. NextState(x.n, m) = IF m.arg = 1 THEN "AuthenticatedAsClient" ELSE "AuthenticationFailed"
      BY <1>9 DEF NextState
    <2>2. k \in SessionRecords(e)
      BY <1>1, <2>1 DEF SessionRecords, States
    <2>3. k.state = NextState(x.n, m) /\ k.requests = NextRequests(x.n, m)
      BY <1>1, <1>9 DEF SessionRecords, NextRequests
    <2>4. /\ k.sendQueue = x.n.sendQueue /\ k.endSent = x.n.endSent /\ k.released = x.n.released
          /\ k.tm = x.n.tm /\ k.features = x.n.features /\ k.lastReqId = x.n.lastReqId
          /\ k.tick = x.n.tick /\ k.calls = x.n.calls
      BY <1>1 DEF SessionRecords
    <2>5. y = IF m.arg = 1 THEN z ELSE Release(z)
      BY <1>1, <1>9, <2>1 DEF HandleMsg, HandleAuthenticationResponse, Handled, EndRecords
    <2> HIDE DEF k
    <2>6. CASE m.arg = 1
      <3>1. y = [x EXCEPT !.n = k]
        BY <2>5, <2>6
      <3> HIDE DEF y
      <3> QED
        BY <1>4, <2>2, <2>3, <2>4, <3>1 DEF y
    <2>7. CASE m.arg # 1
      <3>1. Effect(e, x, z) /\ z.n = k /\ EndOK(e, z) /\ SameButApplication(x, z)
        BY <2>2, <2>4, ApplicationEffect
      <3>2. y = Release(z)
        BY <2>5, <2>7
      <3> HIDE DEF z
      <3>3. z.t = x.t /\ z.accepted = x.accepted
        BY <3>1 DEF SameButApplication
      <3>4. z.n.state # "Init"
        BY <2>1, <2>3, <3>1
      <3>5. EndOK(e, z) /\ Effect(e, x, z) /\ z.n.tm = x.n.tm /\ z.t = x.t /\ y = Release(z)
            /\ z.accepted = x.accepted /\ z.n.features = x.n.features /\ SameButApplication(x, z)
            /\ z.n.lastReqId = x.n.lastReqId /\ z.n.tick = x.n.tick /\ z.n.calls = x.n.calls
            /\ z.n.state = NextState(x.n, m) /\ z.n.requests = NextRequests(x.n, m)
        BY <2>3, <2>4, <3>1, <3>2, <3>3
      <3> HIDE DEF y
      <3> QED
        BY <1>6, <3>4, <3>5 DEF y
    <2> QED
      BY <2>6, <2>7
  <1>10. CASE m.type = "KeepAlive"
    <2> DEFINE a == Msg("KeepAliveResponse", m.arg)
    <2>1. y = SendMsg(x, a)
      BY <1>10 DEF HandleMsg, HandleKeepAlive, Handled
    <2>2. a \in Sendable(e)
      <3>1. e = "server" /\ m.arg \in 0 .. MaxCalls - 1 /\ MaxCalls \in Nat
        BY <1>1, <1>10, SendableFacts, SessionAssumption DEF Peer, Ends, ServerTypes
      <3>2. a \in Calls("KeepAliveResponse", 0, MaxCalls)
        BY <3>1 DEF Calls
      <3> HIDE DEF a
      <3> QED
        BY <3>1, <3>2 DEF Sendable
    <2>3. NextState(x.n, m) = x.n.state /\ NextRequests(x.n, m) = x.n.requests
      BY <1>10 DEF NextState, NextRequests
    <2> HIDE DEF a, y
    <2>4. /\ Effect(e, x, y) /\ SameApplication(x.n, y.n)
          /\ y.accepted = x.accepted \/ y.accepted = Append(x.accepted, a)
      BY <2>1, <2>2, SendEffect
    <2>5. [x.n EXCEPT !.features = y.n.features] = x.n
      BY <1>3, <2>4 DEF SameApplication, j
    <2>6. Reaction(x, m, y)
      BY <1>10, <2>3, <2>4, <2>5 DEF Reaction, SameApplication, Hellos, a
    <2> QED
      BY <2>4, <2>6 DEF y
  <1>11. CASE m.type \in {"Disconnect", "Error", "KeepAliveResponse", "Usages"}
    <2>1. NextState(x.n, m) = x.n.state /\ NextRequests(x.n, m) = x.n.requests
      BY <1>11 DEF NextState, NextRequests
    <2>2. y = x \/ y = Release(x)
      BY <1>11 DEF HandleMsg, HandleDisconnect, ReleaseIf, Handled
    <2>3. CASE y = Release(x)
      <3>1. SameButApplication(x, x)
        BY DEF SameButApplication
      <3>2. x = [x EXCEPT !.n = x.n]
        BY <1>1 DEF EndRecords
      <3>3. Effect(e, x, x)
        BY <1>1, <3>2, ApplicationEffect
      <3> HIDE DEF y
      <3> QED
        BY <1>6, <2>1, <2>3, <3>1, <3>3 DEF y
    <2>4. CASE y = x
      <3> HIDE DEF y
      <3> QED
        BY <1>5, <2>1, <2>4 DEF y
    <2> QED
      BY <2>2, <2>3, <2>4
  <1> QED
    BY <1>2, <1>7, <1>8, <1>9, <1>10, <1>11 DEF ClientTypes, ServerTypes, Hellos

\* Whatever a message makes of the session, what sendMsg has taken stays in order.
LEMMA HandleMsgKeeps ==
  ASSUME NEW e \in Ends, NEW x, EndOK(e, x), x.t.open, x.n.tm => x.t.registry.defs # <<>>,
         NEW m \in Sendable(Peer(e)), NEW fatal \in BOOLEAN
  PROVE  LET h == HandleMsg(e, x, m, fatal)
         IN  Effect(e, x, h.x) /\ Reaction(x, m, h.x)
  BY HelloKeeps, OtherMessageKeeps

\* What handleDeserializedMsg expects.
Expected(x, m) ==
  /\ m.type = "ServerHello" => x.n.state = "ClientHelloSent"
  /\ m.type = "ClientHello" => x.n.state = "ServerHelloSent"
  /\ m.type = "Authenticate" => x.n.state = "ServerHelloSent"
  /\ m.type = "AuthenticationResponse" => x.n.state = "AuthenticationRequestSent"
  /\ m.type = "RemoteForwardRequest" => x.n.state = "AuthenticatedAsServer"
  /\ m.type = "RemoteForwardResponse" =>
       x.n.state = "AuthenticatedAsClient" /\ m.arg \in x.n.requests

\* What handleDeserializedMsg expects.
LEMMA HandleMsgExpects ==
  ASSUME NEW e \in Ends, NEW x, NEW m \in Sendable(Peer(e)), NEW fatal \in BOOLEAN
  PROVE  HandleMsg(e, x, m, fatal).ok = Expected(x, m)
  <1>1. Peer(e) \in Ends
    BY DEF Peer, Ends
  <1>2. m.type \in ClientTypes \cup ServerTypes
    BY <1>1, SendableFacts
  <1>3. CASE m.type = "ServerHello"
    BY <1>3 DEF HandleMsg, HandleServerHello, Handled, Expected
  <1>4. CASE m.type = "ClientHello"
    BY <1>4 DEF HandleMsg, HandleClientHello, Handled, Expected
  <1>5. CASE m.type = "Authenticate"
    BY <1>5 DEF HandleMsg, HandleAuthenticate, Handled, Expected
  <1>6. CASE m.type = "AuthenticationResponse"
    BY <1>6 DEF HandleMsg, HandleAuthenticationResponse, Handled, Expected
  <1>7. CASE m.type = "RemoteForwardRequest"
    BY <1>7 DEF HandleMsg, HandleRemoteForwardRequest, Handled, Expected
  <1>8. CASE m.type = "RemoteForwardResponse"
    BY <1>8 DEF HandleMsg, HandleRemoteForwardResponse, Handled, Expected
  <1>9. CASE m.type \in {"KeepAlive", "Disconnect", "KeepAliveResponse", "Error", "Usages"}
    BY <1>9 DEF HandleMsg, HandleKeepAlive, HandleDisconnect, Handled, Expected
  <1> QED
    BY <1>2, <1>3, <1>4, <1>5, <1>6, <1>7, <1>8, <1>9 DEF ClientTypes, ServerTypes

-----------------------------------------------------------------------------
(* The invariant.                                                          *)

\* A session before Start.
Fresh(e) ==
  /\ session[e].sendQueue = <<>> /\ ~session[e].endSent /\ ~session[e].tm
  /\ ~session[e].released
  /\ transport[e] = NewTransportManager
  /\ accepted[e] = <<>> /\ delivered[e] = <<>>
  /\ HelloOf(e, session[e].features.version) \in HellosOf(e)

\* The numbers that a session gives to its requests and keepalives.
Counted(n) ==
  /\ n.lastReqId \in 3 .. 3 + n.calls /\ n.tick \in 0 .. n.calls
  /\ n.requests \subseteq 4 .. 3 + MaxCalls

EndInv(e) ==
  /\ EndOK(e, At(e))
  /\ delivered[e] \in Seq(Messages)
  /\ Counted(session[e])
  /\ session[e].tm => transport[e].registry.defs # <<>>
  /\ session[e].state = "Init" => Fresh(e)
  /\ Len(transport[e].recvRaw) < transport[e].expectedLen

\* What e has sent and its peer has not handled is on its way.
LinkInv(e) ==
  \E from \in Positions : /\ Reads(transport[Peer(e)], delivered[Peer(e)], from)
                          /\ OutOK(At(e), transport[Peer(e)].recvRaw, from)

\* The peer has handled the first of the messages that e has accepted.
OrderInv(e) ==
  \E more \in Seq(Messages) : accepted[e] = delivered[Peer(e)] \o more

Shape ==
  /\ session = [e \in Ends |-> session[e]] /\ transport = [e \in Ends |-> transport[e]]
  /\ wire = [e \in Ends |-> wire[e]] /\ accepted = [e \in Ends |-> accepted[e]]
  /\ delivered = [e \in Ends |-> delivered[e]]
  /\ lost \in BOOLEAN /\ aborted \in BOOLEAN /\ crashed \in BOOLEAN

FlowInv ==
  /\ Shape
  /\ \A e \in Ends : EndInv(e) /\ OrderInv(e)
  /\ ~lost => \A e \in Ends : LinkInv(e)
  /\ lost => \A e \in Ends : wire[e] = <<>>

\* There are two ends.
LEMMA PeerFacts ==
  ASSUME NEW e \in Ends
  PROVE  Peer(e) \in Ends /\ Peer(Peer(e)) = e /\ Peer(e) # e /\ Ends = {e, Peer(e)}
  BY DEF Peer, Ends

\* The parts of an end.
LEMMA AtFields ==
  \A e : /\ At(e).n = session[e] /\ At(e).t = transport[e] /\ At(e).wire = wire[Peer(e)]
         /\ At(e).accepted = accepted[e] /\ At(e).crashed = crashed
  BY DEF At

\* Another end's crash.
LEMMA CrashedElsewhere ==
  ASSUME NEW e \in Ends, NEW x, EndOK(e, x), NEW c \in BOOLEAN
  PROVE  LET y == [x EXCEPT !.crashed = c]
         IN  /\ EndOK(e, y)
             /\ \A pre, from : OutOK(x, pre, from) => OutOK(y, pre, from)
  <1> DEFINE y == [x EXCEPT !.crashed = c]
  <1>1. x \in EndRecords(e)
    BY EndFacts
  <1>2. /\ y.t = x.t /\ y.n = x.n /\ y.wire = x.wire /\ y.accepted = x.accepted
        /\ y \in EndRecords(e)
    BY <1>1 DEF EndRecords
  <1> HIDE DEF y
  <1>3. EndOK(e, y)
    BY <1>2 DEF EndOK, EndBase, Sender
  <1>4. \A pre, from : OutOK(x, pre, from) => OutOK(y, pre, from)
    BY <1>2 DEF OutOK, Sender
  <1> QED
    BY <1>3, <1>4 DEF y

\* The state of an end that has taken a step, and of the other one.
LEMMA PutFacts ==
  ASSUME Shape, NEW e \in Ends, NEW y \in EndRecords(e), Put(e, y)
  PROVE  LET p == Peer(e)
         IN  /\ session'[e] = y.n /\ transport'[e] = y.t /\ wire'[p] = y.wire
             /\ accepted'[e] = y.accepted /\ crashed' = y.crashed
             /\ session'[p] = session[p] /\ transport'[p] = transport[p] /\ wire'[e] = wire[e]
             /\ accepted'[p] = accepted[p]
             /\ delivered' = delivered /\ lost' = lost /\ aborted' = aborted
             /\ At(e)' = y /\ At(p)' = [At(p) EXCEPT !.crashed = y.crashed]
             /\ Shape'
  <1> DEFINE p == Peer(e)
  <1>1. p \in Ends /\ Peer(p) = e /\ p # e /\ Ends = {e, p}
    BY PeerFacts
  <1>2. /\ session' = [session EXCEPT ![e] = y.n] /\ transport' = [transport EXCEPT ![e] = y.t]
        /\ wire' = [wire EXCEPT ![p] = y.wire] /\ accepted' = [accepted EXCEPT ![e] = y.accepted]
        /\ crashed' = y.crashed /\ lost' = lost /\ delivered' = delivered /\ aborted' = aborted
    BY DEF Put
  <1>3. y.crashed \in BOOLEAN
    BY DEF EndRecords
  <1> HIDE DEF p
  <1>4. /\ session'[e] = y.n /\ transport'[e] = y.t /\ wire'[p] = y.wire
        /\ accepted'[e] = y.accepted
        /\ session'[p] = session[p] /\ transport'[p] = transport[p] /\ wire'[e] = wire[e]
        /\ accepted'[p] = accepted[p]
    BY <1>1, <1>2 DEF Shape
  <1>5. Shape'
    BY <1>2, <1>3 DEF Shape
  <1>6. At(e)' = [n |-> y.n, t |-> y.t, wire |-> y.wire, accepted |-> y.accepted,
                  crashed |-> y.crashed]
    BY <1>2, <1>4 DEF At, p
  <1>7. At(e)' = y
    BY <1>6 DEF EndRecords
  <1>8. At(p)' = [n |-> session[p], t |-> transport[p], wire |-> wire[e],
                  accepted |-> accepted[p], crashed |-> y.crashed]
    BY <1>1, <1>2, <1>4 DEF At
  <1>9. At(p)' = [At(p) EXCEPT !.crashed = y.crashed]
    BY <1>1, <1>8 DEF At
  <1> QED
    BY <1>2, <1>4, <1>5, <1>7, <1>9 DEF p

\* A step of one end keeps the invariant.
LEMMA PutKeeps ==
  ASSUME FlowInv, NEW e \in Ends, NEW y, Put(e, y), Effect(e, At(e), y),
         y.n.state # "Init", Counted(y.n)
  PROVE  FlowInv'
  <1> DEFINE p == Peer(e)
             x == At(e)
             q == At(p)
             z == [q EXCEPT !.crashed = y.crashed]
  <1>1. p \in Ends /\ Peer(p) = e /\ p # e /\ Ends = {e, p}
    BY PeerFacts
  <1>2. EndInv(e) /\ EndInv(p) /\ OrderInv(e) /\ OrderInv(p) /\ Shape
    BY <1>1 DEF FlowInv
  <1>3. /\ EndOK(e, y) /\ SameReader(x.t, y.t) /\ x.t.open
        /\ y.n.tm => y.t.registry.defs # <<>>
        /\ y.accepted = x.accepted \/ \E m \in Sendable(e) : y.accepted = Append(x.accepted, m)
        /\ lost => y.wire = x.wire
        /\ \A pre \in Data, from \in Positions : ~lost /\ OutOK(x, pre, from) => OutOK(y, pre, from)
    BY DEF Effect
  <1>4. y \in EndRecords(e) /\ y.crashed \in BOOLEAN
    BY <1>3, EndFacts DEF EndRecords
  <1>5. /\ session'[e] = y.n /\ transport'[e] = y.t /\ wire'[p] = y.wire
        /\ accepted'[e] = y.accepted /\ crashed' = y.crashed
        /\ session'[p] = session[p] /\ transport'[p] = transport[p] /\ wire'[e] = wire[e]
        /\ accepted'[p] = accepted[p]
        /\ delivered' = delivered /\ lost' = lost /\ aborted' = aborted
        /\ At(e)' = y /\ At(p)' = z
        /\ Shape'
    BY <1>2, <1>4, PutFacts
  <1>6. /\ x.n = session[e] /\ x.t = transport[e] /\ x.wire = wire[p] /\ x.accepted = accepted[e]
    BY AtFields
  <1>7. EndOK(p, q)
    BY <1>2 DEF EndInv
  <1> HIDE DEF x, q, p
  <1>8. EndOK(p, z) /\ \A pre, from : OutOK(q, pre, from) => OutOK(z, pre, from)
    BY <1>1, <1>4, <1>7, CrashedElsewhere
  <1> HIDE DEF z
  <1>9. EndInv(e)'
    <2>1. EndOK(e, At(e))'
      BY <1>3, <1>5
    <2>2. (delivered[e] \in Seq(Messages))' /\ Counted(session[e])'
      BY <1>2, <1>5 DEF EndInv, Counted
    <2>3. Len(transport'[e].recvRaw) < transport'[e].expectedLen
      BY <1>2, <1>3, <1>5, <1>6 DEF EndInv, SameReader
    <2>4. session'[e].state # "Init" /\ (session'[e].tm => transport'[e].registry.defs # <<>>)
      BY <1>3, <1>5
    <2> QED
      BY <2>1, <2>2, <2>3, <2>4 DEF EndInv
  <1>10. EndInv(p)'
    <2>1. EndOK(p, At(p))'
      BY <1>5, <1>8
    <2>2. Fresh(p) => Fresh(p)'
      BY <1>5 DEF Fresh
    <2>3. Counted(session[p])'
      BY <1>2, <1>5 DEF EndInv, Counted
    <2> QED
      BY <1>2, <1>5, <2>1, <2>2, <2>3 DEF EndInv
  <1>11. OrderInv(e)' /\ OrderInv(p)'
    <2>1. OrderInv(p)'
      BY <1>1, <1>2, <1>5 DEF OrderInv
    <2>2. PICK more \in Seq(Messages) : accepted[e] = delivered[p] \o more
      BY <1>2 DEF OrderInv, p
    <2>3. CASE y.accepted = x.accepted
      <3>1. accepted'[e] = delivered'[p] \o more
        BY <1>5, <1>6, <2>2, <2>3
      <3> QED
        BY <2>1, <3>1 DEF OrderInv, p
    <2>4. ASSUME NEW m \in Sendable(e), y.accepted = Append(x.accepted, m)
          PROVE  OrderInv(e)'
      <3>1. m \in Messages
        BY DEF Messages
      <3>2. delivered[p] \in Seq(Messages)
        BY <1>2 DEF EndInv
      <3> DEFINE d == delivered[p]
                 rest == Append(more, m)
      <3>3. rest \in Seq(Messages) /\ d \o rest = Append(d \o more, m)
        <4>1. d \in Seq(Messages)
          BY <3>2
        <4> HIDE DEF d
        <4> QED
          BY <3>1, <4>1
      <3> HIDE DEF rest
      <3>4. accepted'[e] = delivered'[p] \o rest
        BY <1>5, <1>6, <2>2, <2>4, <3>3
      <3> QED
        BY <3>3, <3>4 DEF OrderInv, p
    <2> QED
      BY <1>3, <2>1, <2>3, <2>4
  <1>12. ASSUME ~lost' PROVE LinkInv(e)' /\ LinkInv(p)'
    <2>1. ~lost /\ LinkInv(e) /\ LinkInv(p)
      BY <1>1, <1>5, <1>12 DEF FlowInv
    <2>2. LinkInv(e)'
      <3>1. PICK from \in Positions : /\ Reads(transport[p], delivered[p], from)
                                      /\ OutOK(x, transport[p].recvRaw, from)
        BY <2>1 DEF LinkInv, p, x
      <3>2. transport[p].recvRaw \in Data
        <4>1. q.t = transport[p] /\ q.t \in Transports
          BY <1>1, <1>7, EndFacts, AtFields DEF q
        <4> QED
          BY <4>1 DEF Transports
      <3>3. OutOK(y, transport[p].recvRaw, from)
        BY <1>3, <2>1, <3>1, <3>2
      <3> HIDE DEF x
      <3>4. OutOK(At(e), transport[p].recvRaw, from)'
        BY <1>5, <3>3
      <3>5. Reads(transport'[p], delivered'[p], from)
        BY <1>5, <3>1
      <3> QED
        BY <3>4, <3>5 DEF LinkInv, p
    <2>3. LinkInv(p)'
      <3>1. PICK from \in Positions : /\ Reads(transport[e], delivered[e], from)
                                      /\ OutOK(q, transport[e].recvRaw, from)
        BY <1>1, <2>1 DEF LinkInv, q
      <3>2. transport'[e].recvRaw = transport[e].recvRaw /\ SameReader(transport[e], transport'[e])
        BY <1>3, <1>5, <1>6 DEF SameReader
      <3>3. OutOK(At(p), transport[e].recvRaw, from)'
        BY <1>5, <1>8, <3>1, <3>2
      <3>4. Reads(transport'[e], delivered'[e], from)
        BY <1>5, <3>1, <3>2 DEF Reads, SameReader
      <3> QED
        BY <1>1, <3>3, <3>4 DEF LinkInv
    <2> QED
      BY <2>2, <2>3
  <1>13. ASSUME lost' PROVE wire'[e] = <<>> /\ wire'[p] = <<>>
    BY <1>1, <1>3, <1>5, <1>6, <1>13 DEF FlowInv
  <1> QED
    BY <1>1, <1>5, <1>9, <1>10, <1>11, <1>12, <1>13 DEF FlowInv

\* What is on its way is behind what the peer has handled.
LEMMA InOrder ==
  ASSUME NEW e \in Ends, NEW x, EndOK(e, x), NEW pre, NEW from \in Positions, OutOK(x, pre, from)
  PROVE  \E more \in Seq(Messages) : x.accepted = from.messages \o more
  <1>1. PICK M \in Seq(Messages) : /\ x.accepted = M \o x.n.sendQueue
                                   /\ Linked(pre, from, Sender(x), WritePosition(x.t, M))
    BY DEF OutOK
  <1> DEFINE to == WritePosition(x.t, M)
             queue == x.n.sendQueue
             a == from.messages
  <1>2. to.messages = M
    BY DEF WritePosition, Position
  <1> HIDE DEF to
  <1>3. PICK u \in Data : Leads(from, pre \o (x.wire \o u), to)
    BY <1>1 DEF Linked, Sender, to
  <1>4. PICK b \in Seq(Messages) : M = a \o b
    BY <1>2, <1>3, LeadsForward
  <1>5. queue \in Seq(Messages)
    BY EndFacts, SendableMessages DEF SessionRecords
  <1>6. a \in Seq(Messages)
    BY DEF Positions
  <1> HIDE DEF a, queue
  <1> DEFINE more == b \o queue
  <1>7. more \in Seq(Messages) /\ (a \o b) \o queue = a \o more
    BY <1>4, <1>5, <1>6, ConcatMessages, ConcatAssociative
  <1> HIDE DEF more
  <1>8. x.accepted = a \o more
    BY <1>1, <1>4, <1>7 DEF queue
  <1> QED
    BY <1>7, <1>8 DEF a

\* The end that is not at work: the units on their way from it, and a crash of its peer.
Elsewhere(x, units, c) == [[x EXCEPT !.wire = units] EXCEPT !.crashed = c]

\* The state of both ends after a read.
LEMMA ReceiveFacts ==
  ASSUME Shape, NEW e \in Ends, NEW n, NEW h, NEW message, Receive(e, n, h, message),
         h.x \in EndRecords(e)
  PROVE  LET p == Peer(e)
             y == h.x
             rest == SubSeq(wire[e], n + 1, Len(wire[e]))
         IN  /\ session'[e] = y.n /\ transport'[e] = y.t /\ wire'[p] = y.wire
             /\ accepted'[e] = y.accepted /\ crashed' = y.crashed
             /\ session'[p] = session[p] /\ transport'[p] = transport[p] /\ wire'[e] = rest
             /\ accepted'[p] = accepted[p]
             /\ delivered'[e] = delivered[e] \o message /\ delivered'[p] = delivered[p]
             /\ lost' = lost /\ aborted' = (~h.ok \/ n = 0)
             /\ At(e)' = y
             /\ At(p)' = Elsewhere(At(p), rest, y.crashed)
             /\ Shape'
  <1> DEFINE p == Peer(e)
             y == h.x
             rest == SubSeq(wire[e], n + 1, Len(wire[e]))
  <1>1. p \in Ends /\ Peer(p) = e /\ p # e /\ Ends = {e, p}
    BY PeerFacts
  <1>2. /\ session' = [session EXCEPT ![e] = y.n] /\ transport' = [transport EXCEPT ![e] = y.t]
        /\ wire' = [wire EXCEPT ![e] = rest, ![p] = y.wire]
        /\ accepted' = [accepted EXCEPT ![e] = y.accepted]
        /\ delivered' = [delivered EXCEPT ![e] = delivered[e] \o message]
        /\ crashed' = y.crashed /\ lost' = lost /\ aborted' = (~h.ok \/ n = 0)
    BY DEF Receive
  <1>3. y.crashed \in BOOLEAN
    BY DEF EndRecords
  <1>4. y = [n |-> y.n, t |-> y.t, wire |-> y.wire, accepted |-> y.accepted, crashed |-> y.crashed]
    BY DEF EndRecords
  <1> HIDE DEF p, rest, y
  <1>5. /\ session'[e] = y.n /\ transport'[e] = y.t /\ wire'[p] = y.wire
        /\ accepted'[e] = y.accepted
        /\ session'[p] = session[p] /\ transport'[p] = transport[p] /\ wire'[e] = rest
        /\ accepted'[p] = accepted[p]
        /\ delivered'[e] = delivered[e] \o message /\ delivered'[p] = delivered[p]
    BY <1>1, <1>2 DEF Shape
  <1>6. (~h.ok \/ n = 0) \in BOOLEAN
    OBVIOUS
  <1>7. Shape'
    BY <1>1, <1>2, <1>3, <1>6 DEF Shape
  <1>8. At(e)' = y
    BY <1>2, <1>4, <1>5 DEF At, p
  <1>9. At(p)' = [n |-> session[p], t |-> transport[p], wire |-> rest,
                  accepted |-> accepted[p], crashed |-> y.crashed]
    BY <1>1, <1>2, <1>5 DEF At
  <1>10. At(p)' = [[At(p) EXCEPT !.wire = rest] EXCEPT !.crashed = y.crashed]
    <2> DEFINE v == [At(p) EXCEPT !.wire = rest]
    <2>1. v = [n |-> session[p], t |-> transport[p], wire |-> rest,
               accepted |-> accepted[p], crashed |-> crashed]
      BY <1>1 DEF At
    <2> HIDE DEF v
    <2>2. At(p)' = [v EXCEPT !.crashed = y.crashed]
      BY <1>9, <2>1
    <2> QED
      BY <2>2 DEF v
  <1> QED
    BY <1>2, <1>5, <1>7, <1>8, <1>10 DEF p, rest, y, Elsewhere

\* The invariant after units have been taken from the wire and handled.
LEMMA ReceiveKeeps ==
  ASSUME FlowInv, ~lost, NEW e \in Ends, NEW n \in 1 .. Len(wire[e]), NEW x,
         x.n = session[e], x.accepted = accepted[e],
         \A pre \in Data, from \in Positions : OutOK(At(e), pre, from) => OutOK(x, pre, from),
         NEW h, NEW message, Receive(e, n, h, message),
         Effect(e, x, h.x), h.x.n.state # "Init", Counted(h.x.n),
         NEW next \in Positions, delivered[e] \o message \in Seq(Messages),
         Reads(x.t, delivered[e] \o message, next),
         OutOK([At(Peer(e)) EXCEPT !.wire = SubSeq(wire[e], n + 1, Len(wire[e]))],
               x.t.recvRaw, next)
  PROVE  FlowInv'
  <1> DEFINE p == Peer(e)
             y == h.x
             q == At(p)
             rest == SubSeq(wire[e], n + 1, Len(wire[e]))
             v == [q EXCEPT !.wire = rest]
             z == [v EXCEPT !.crashed = y.crashed]
             read == delivered[e] \o message
  <1>1. p \in Ends /\ Peer(p) = e /\ p # e /\ Ends = {e, p}
    BY PeerFacts
  <1>2. EndInv(e) /\ EndInv(p) /\ OrderInv(e) /\ OrderInv(p) /\ LinkInv(e) /\ Shape
    BY <1>1 DEF FlowInv
  <1>3. /\ EndOK(e, y) /\ SameReader(x.t, y.t) /\ x.t.open
        /\ y.n.tm => y.t.registry.defs # <<>>
        /\ y.accepted = x.accepted \/ \E m \in Sendable(e) : y.accepted = Append(x.accepted, m)
        /\ \A pre \in Data, from \in Positions : OutOK(x, pre, from) => OutOK(y, pre, from)
    BY DEF Effect
  <1>4. y \in EndRecords(e) /\ y.crashed \in BOOLEAN
    BY <1>3, EndFacts DEF EndRecords
  <1>5. /\ session'[e] = y.n /\ transport'[e] = y.t /\ wire'[p] = y.wire
        /\ accepted'[e] = y.accepted /\ crashed' = y.crashed
        /\ session'[p] = session[p] /\ transport'[p] = transport[p] /\ wire'[e] = rest
        /\ accepted'[p] = accepted[p]
        /\ delivered'[e] = read /\ delivered'[p] = delivered[p]
        /\ lost' = lost
        /\ At(e)' = y /\ At(p)' = z
        /\ Shape'
    <2>1. Shape /\ h.x \in EndRecords(e)
      BY <1>2, <1>4
    <2>2. session'[e] = y.n /\ transport'[e] = y.t /\ wire'[p] = y.wire
          /\ accepted'[e] = y.accepted /\ crashed' = y.crashed
      BY <2>1, ReceiveFacts
    <2>3. session'[p] = session[p] /\ transport'[p] = transport[p] /\ wire'[e] = rest
          /\ accepted'[p] = accepted[p]
      BY <2>1, ReceiveFacts
    <2>4. delivered'[e] = read /\ delivered'[p] = delivered[p] /\ lost' = lost
      <3>1. delivered' = [delivered EXCEPT ![e] = delivered[e] \o message] /\ lost' = lost
        BY DEF Receive
      <3> HIDE DEF p
      <3> QED
        BY <1>1, <1>2, <3>1 DEF Shape
    <2>5. At(e)' = y /\ Shape'
      BY <2>1, ReceiveFacts
    <2>6. At(p)' = Elsewhere(At(p), SubSeq(wire[e], n + 1, Len(wire[e])), h.x.crashed)
      BY <2>1, ReceiveFacts
    <2>7. At(p)' = z
      BY <2>6 DEF Elsewhere
    <2> QED
      BY <2>2, <2>3, <2>4, <2>5, <2>7
  <1>6. EndOK(p, q) /\ q.wire = wire[e] /\ q.t = transport[p] /\ q \in EndRecords(p)
    BY <1>1, <1>2, AtFields, EndFacts DEF EndInv
  <1>7. rest \in Data /\ Len(rest) <= Len(wire[e]) /\ Len(wire[e]) <= Capacity
    <2>1. wire[e] \in Data /\ Len(wire[e]) <= Capacity
      BY <1>6 DEF EndRecords, EndOK, EndBase, SenderOK, Sender
    <2> DEFINE w == wire[e]
    <2>2. n \in 0 .. Len(w) /\ w \in Data
      BY <2>1
    <2> HIDE DEF w
    <2>3. SubSeq(w, n + 1, Len(w)) \in Data /\ Len(SubSeq(w, n + 1, Len(w))) = Len(w) - n
      BY <2>2, CutData
    <2>4. Len(w) \in Nat
      BY <2>2, LenProperties DEF Data
    <2>5. rest \in Data /\ Len(rest) = Len(w) - n
      BY <2>3 DEF w
    <2> HIDE DEF rest
    <2> QED
      BY <2>1, <2>2, <2>4, <2>5 DEF w
  <1>8. OutOK(v, x.t.recvRaw, next)
    OBVIOUS
  <1> HIDE DEF q, p, rest, y, read
  <1>9. EndOK(p, v)
    <2>1. /\ v.t = q.t /\ v.n = q.n /\ v.wire = rest /\ v.accepted = q.accepted
          /\ v.crashed = q.crashed /\ v \in EndRecords(p)
      BY <1>6, <1>7 DEF EndRecords
    <2> HIDE DEF v
    <2>2. SenderOK(Sender(v))
      <3>1. SenderOK(Sender(q)) /\ Len(rest) <= Capacity
        <4>1. Len(rest) \in Nat /\ Len(wire[e]) \in Nat /\ Capacity \in Nat
          <5>1. wire[e] \in Data
            BY <1>6 DEF EndRecords
          <5> QED
            BY <1>7, <5>1, TransportAssumption, LenProperties DEF Data
        <4> QED
          BY <1>6, <1>7, <4>1 DEF EndOK, EndBase
      <3> QED
        BY <1>7, <2>1, <3>1 DEF SenderOK, Sender
    <2> QED
      BY <1>6, <2>1, <2>2 DEF EndOK, EndBase
  <1>10. v.accepted = accepted[p]
    BY <1>6, AtFields DEF EndRecords, q
  <1> HIDE DEF v
  <1>11. EndOK(p, z) /\ \A pre, from : OutOK(v, pre, from) => OutOK(z, pre, from)
    BY <1>1, <1>4, <1>9, CrashedElsewhere
  <1> HIDE DEF z
  <1>12. Len(transport'[e].recvRaw) < transport'[e].expectedLen /\ transport'[e].recvRaw = x.t.recvRaw
         /\ Reads(transport'[e], delivered'[e], next)
    BY <1>3, <1>5 DEF Reads, SameReader, read
  <1>13. EndInv(e)'
    <2>1. EndOK(e, At(e))'
      BY <1>3, <1>5
    <2>2. (delivered[e] \in Seq(Messages))' /\ Counted(session[e])'
      BY <1>5 DEF Counted, y, read
    <2>3. session'[e].state # "Init" /\ (session'[e].tm => transport'[e].registry.defs # <<>>)
      BY <1>3, <1>5 DEF y
    <2> QED
      BY <1>12, <2>1, <2>2, <2>3 DEF EndInv
  <1>14. EndInv(p)'
    <2>1. EndOK(p, At(p))'
      BY <1>5, <1>11
    <2>2. Fresh(p) => Fresh(p)'
      BY <1>5 DEF Fresh
    <2>3. Counted(session[p])'
      BY <1>2, <1>5 DEF EndInv, Counted
    <2> QED
      BY <1>2, <1>5, <2>1, <2>2, <2>3 DEF EndInv
  <1>15. LinkInv(p)'
    <2>1. OutOK(At(p), transport[e].recvRaw, next)'
      BY <1>5, <1>8, <1>11, <1>12
    <2> QED
      BY <1>1, <1>12, <2>1 DEF LinkInv
  <1>16. OrderInv(p)'
    <2>1. next.messages = read
      BY DEF Reads, read
    <2>2. PICK more \in Seq(Messages) : v.accepted = next.messages \o more
      BY <1>1, <1>8, <1>9, InOrder
    <2> QED
      BY <1>1, <1>5, <1>10, <2>1, <2>2 DEF OrderInv
  <1>17. LinkInv(e)' /\ OrderInv(e)'
    <2>1. PICK from \in Positions : /\ Reads(transport[p], delivered[p], from)
                                    /\ OutOK(At(e), transport[p].recvRaw, from)
      BY <1>2 DEF LinkInv, p
    <2>2. transport[p].recvRaw \in Data
      BY <1>6 DEF EndRecords, Transports
    <2>3. OutOK(x, transport[p].recvRaw, from)
      BY <2>1, <2>2
    <2>4. OutOK(y, transport[p].recvRaw, from)
      BY <1>3, <2>2, <2>3
    <2>5. OutOK(At(e), transport[p].recvRaw, from)' /\ Reads(transport'[p], delivered'[p], from)
      BY <1>5, <2>1, <2>4
    <2>6. LinkInv(e)'
      BY <2>5 DEF LinkInv, p
    <2>7. from.messages = delivered'[p]
      BY <1>5, <2>1 DEF Reads
    <2>8. PICK more \in Seq(Messages) : y.accepted = from.messages \o more
      BY <1>3, <2>4, InOrder
    <2>9. OrderInv(e)'
      BY <1>5, <2>7, <2>8 DEF OrderInv, p
    <2> QED
      BY <2>6, <2>9
  <1> QED
    BY <1>1, <1>5, <1>13, <1>14, <1>15, <1>16, <1>17 DEF FlowInv

\* A read without a message, and one whose message is handled: the next of the peer's.
NoMessage(e) ==
  /\ session' = session /\ accepted' = accepted /\ delivered' = delivered
  /\ aborted' = FALSE
Handles(e, m, x, y) ==
  /\ x.n = session[e] /\ x.accepted = accepted[e] /\ Effect(e, x, y) /\ Reaction(x, m, y)
  /\ m \in Sendable(Peer(e)) /\ Len(delivered[e]) < Len(accepted[Peer(e)])
  /\ m = accepted[Peer(e)][Len(delivered[e]) + 1]
  /\ session' = [session EXCEPT ![e] = y.n]
  /\ accepted' = [accepted EXCEPT ![e] = y.accepted]
  /\ delivered' = [delivered EXCEPT ![e] = Append(delivered[e], m)]
  /\ aborted' = ~Expected(x, m)

\* An end whose transport has read something.
LEMMA ReaderKeeps ==
  ASSUME NEW e \in Ends, NEW x, EndOK(e, x), NEW t \in Transports, SameWriting(x.t, t)
  PROVE  LET y == [x EXCEPT !.t = t]
         IN  /\ EndOK(e, y) /\ y.t = t /\ y.n = x.n /\ y.wire = x.wire
             /\ y.accepted = x.accepted /\ y.crashed = x.crashed
             /\ \A pre \in Data, from \in Positions : OutOK(x, pre, from) => OutOK(y, pre, from)
  <1> DEFINE y == [x EXCEPT !.t = t]
  <1>1. x \in EndRecords(e) /\ EndBase(e, x)
    BY EndFacts DEF EndOK
  <1>2. /\ y.t = t /\ y.n = x.n /\ y.wire = x.wire /\ y.accepted = x.accepted
        /\ y.crashed = x.crashed /\ y \in EndRecords(e)
    BY <1>1 DEF EndRecords
  <1> HIDE DEF y
  <1>3. SameWriter(x, y)
    BY <1>2 DEF SameWriter, SameWriting, SameProgress
  <1>4. /\ EndBase(e, y)
        /\ \A pre \in Data, from \in Positions : OutOK(x, pre, from) => OutOK(y, pre, from)
    BY <1>1, <1>2, <1>3, SameWriterKeeps
  <1>5. EndOK(e, y)
    BY <1>2, <1>4 DEF EndOK, SameWriting, SameEnd
  <1> QED
    BY <1>2, <1>4, <1>5 DEF y

\* A message that the reader has after those it has handled is the peer's next one.
LEMMA NextInOrder ==
  ASSUME NEW p \in Ends, NEW x, EndOK(p, x), NEW pre, NEW from \in Positions, OutOK(x, pre, from),
         NEW d \in Seq(Messages), NEW m \in Messages, from.messages = Append(d, m)
  PROVE  Len(d) < Len(x.accepted) /\ m = x.accepted[Len(d) + 1] /\ m \in Sendable(p)
  <1> DEFINE a == Append(d, m)
             k == Len(d) + 1
             s == x.accepted
  <1>1. PICK more \in Seq(Messages) : s = a \o more
    BY InOrder
  <1>2. a \in Seq(Messages) /\ Len(a) = k /\ a[k] = m /\ Len(d) \in Nat
    BY AppendProperties, LenProperties
  <1>3. s \in Seq(Sendable(p))
    BY EndFacts DEF EndRecords
  <1> HIDE DEF a, s
  <1>4. Len(s) = Len(a) + Len(more) /\ (\A i \in 1 .. Len(a) : s[i] = a[i]) /\ Len(more) \in Nat
    <2>1. a \in Seq(Messages) /\ more \in Seq(Messages)
      BY <1>2
    <2> DEFINE b == a \o more
    <2>2. Len(b) = Len(a) + Len(more) /\ Len(more) \in Nat /\ Len(a) \in Nat
      BY <2>1, ConcatProperties, LenProperties
    <2>3. \A i \in 1 .. Len(a) : b[i] = a[i]
      BY <2>1, <2>2
    <2> HIDE DEF b
    <2> QED
      BY <1>1, <2>2, <2>3 DEF b
  <1>5. k \in 1 .. Len(a) /\ k \in 1 .. Len(s)
    BY <1>2, <1>4
  <1>6. s[k] = m
    BY <1>2, <1>4, <1>5
  <1> QED
    BY <1>2, <1>3, <1>5, <1>6, ElementOfSeq DEF s

\* HandleFDRead: a piece in part, a piece that is no message, or a message.
LEMMA ReadStep ==
  ASSUME FlowInv, NEW e \in Ends, HandleFDRead(e)
  PROVE  /\ FlowInv' /\ transport[e].open /\ session[e].state # "Init"
         /\ ~lost /\ lost' = lost /\ crashed' = crashed
         /\ transport'[Peer(e)] = transport[Peer(e)]
         /\ NoMessage(e) \/ \E m, x, y : Handles(e, m, x, y)
  <1> DEFINE p == Peer(e)
             w == wire[e]
             t == transport[e]
             d == delivered[e]
             n == Taken(t, w)
             rest == SubSeq(w, n + 1, Len(w))
             r == ReadUnits(t, SubSeq(w, 1, n))
             x == [At(e) EXCEPT !.t = r.t]
             q == At(p)
             v == [q EXCEPT !.wire = rest]
  <1>1. p \in Ends /\ Peer(p) = e /\ p # e /\ Ends = {e, p}
    BY PeerFacts
  <1>2. EndInv(e) /\ EndInv(p) /\ Shape
    BY <1>1 DEF FlowInv
  <1>3. session[e].tm /\ t.open /\ w # <<>> /\ ~lost /\ session[e].state # "Init"
    BY <1>1, <1>2 DEF HandleFDRead, HasData, Registered, FlowInv, EndInv, Fresh
  <1>4. PICK fatal \in BOOLEAN : Dispatch(e, n, At(e), r, fatal)
    BY DEF HandleFDRead
  <1>5. /\ EndOK(e, At(e)) /\ EndOK(p, q) /\ At(e).t = t /\ At(e).n = session[e]
        /\ At(e).accepted = accepted[e] /\ q.t = transport[p] /\ q.wire = w
        /\ q.accepted = accepted[p] /\ q.n = session[p] /\ q \in EndRecords(p)
        /\ t \in Transports /\ w \in Data /\ d \in Seq(Messages)
    <2>1. EndOK(e, At(e)) /\ EndOK(p, q) /\ d \in Seq(Messages)
      BY <1>1, <1>2 DEF EndInv
    <2>2. /\ At(e).t = t /\ At(e).n = session[e] /\ At(e).accepted = accepted[e]
          /\ q.t = transport[p] /\ q.wire = w /\ q.accepted = accepted[p] /\ q.n = session[p]
      BY <1>1, AtFields
    <2>3. At(e) \in EndRecords(e) /\ q \in EndRecords(p) /\ At(e).t \in Transports
      BY <1>1, <2>1, EndFacts
    <2>4. q.wire \in Data
      BY <2>3 DEF EndRecords
    <2> QED
      BY <2>1, <2>2, <2>3, <2>4
  <1> HIDE DEF p, q
  <1>6. PICK from \in Positions : Reads(t, d, from) /\ OutOK(q, t.recvRaw, from)
    BY <1>1, <1>3 DEF FlowInv, LinkInv, q
  <1>7. PICK M \in Seq(Messages) : /\ q.accepted = M \o q.n.sendQueue
                                   /\ Linked(t.recvRaw, from, Sender(q), WritePosition(q.t, M))
    BY <1>6 DEF OutOK
  <1> DEFINE to == WritePosition(q.t, M)
  <1>8. PICK u \in Data : Made(u, q.t.senderQueue) /\ Leads(from, t.recvRaw \o (w \o u), to)
    BY <1>5, <1>7 DEF Linked, Sender
  <1> HIDE DEF t, w, d, to
  <1>9. /\ n \in 1 .. Len(w) /\ r.ok = TRUE /\ r.t \in Transports /\ SameWriting(t, r.t)
        /\ \E next \in Positions :
             /\ Leads(next, r.t.recvRaw \o (rest \o u), to)
             /\ \/ r.tree = NoTree /\ Reads(r.t, d, next)
                \/ \E m \in Messages : r.tree = Tree(m) /\ Reads(r.t, Append(d, m), next)
    <2>1. /\ t \in Transports /\ d \in Seq(Messages) /\ Reads(t, d, from) /\ w \in Data /\ w # <<>>
          /\ Leads(from, t.recvRaw \o (w \o u), to)
      BY <1>3, <1>5, <1>6, <1>8
    <2> QED
      BY <2>1, ReadUnitsKeeps, ZenonT(60)
  <1>10. PICK next \in Positions :
           /\ Leads(next, r.t.recvRaw \o (rest \o u), to)
           /\ \/ r.tree = NoTree /\ Reads(r.t, d, next)
              \/ \E m \in Messages : r.tree = Tree(m) /\ Reads(r.t, Append(d, m), next)
    BY <1>9
  <1> HIDE DEF n, rest, r
  <1>11. /\ EndOK(e, x) /\ x.t = r.t /\ x.n = session[e] /\ x.accepted = accepted[e]
         /\ x.crashed = crashed
         /\ \A pre \in Data, pos \in Positions : OutOK(At(e), pre, pos) => OutOK(x, pre, pos)
    BY <1>5, <1>9, ReaderKeeps, AtFields
  <1>12. OutOK(v, x.t.recvRaw, next)
    <2>1. v.t = q.t /\ v.n = q.n /\ v.wire = rest /\ v.accepted = q.accepted
      BY <1>5 DEF EndRecords
    <2> HIDE DEF v, x
    <2>2. Linked(x.t.recvRaw, next, Sender(v), WritePosition(v.t, M))
      BY <1>8, <1>10, <1>11, <2>1 DEF Linked, Sender, to
    <2> QED
      BY <1>7, <2>1, <2>2 DEF OutOK
  <1>13. x.t.open /\ x.n.tm /\ x.t.registry.defs # <<>>
    <2>1. SameProgress(t, r.t) /\ SameEnd(t, r.t)
      BY <1>9 DEF SameWriting
    <2>2. t.registry.defs # <<>>
      BY <1>2, <1>3 DEF EndInv, t
    <2> QED
      BY <1>3, <1>11, <2>1, <2>2 DEF SameProgress, SameEnd
  <1> HIDE DEF x
  <1>14. OutOK([At(Peer(e)) EXCEPT !.wire = SubSeq(wire[e], n + 1, Len(wire[e]))], x.t.recvRaw, next)
    BY <1>12 DEF p, q, w, rest
  <1> HIDE DEF v
  <1>15. CASE r.tree = NoTree /\ Reads(r.t, d, next)
    <2> DEFINE h == Handled(x, r.ok)
               none == <<>>
    <2>1. Receive(e, n, h, none)
      BY <1>4, <1>15 DEF Dispatch, x
    <2>2. h.x = x /\ h.ok = TRUE
      BY <1>9 DEF Handled
    <2> HIDE DEF h
    <2>3. Effect(e, x, h.x)
      <3>1. SameButApplication(x, x)
        BY DEF SameButApplication
      <3> QED
        BY <1>11, <1>13, <2>2, <3>1, NoEffect
    <2>4. delivered[e] \o none = d /\ d \o none \in Seq(Messages)
      BY <1>5, ConcatMessages DEF d
    <2> HIDE DEF none
    <2>5. Reads(x.t, delivered[e] \o none, next) /\ delivered[e] \o none \in Seq(Messages)
      BY <1>5, <1>11, <1>15, <2>4
    <2>6. Counted(h.x.n) /\ h.x.n.state # "Init"
      BY <1>2, <1>3, <1>11, <2>2 DEF EndInv
    <2>7. n \in 1 .. Len(wire[e])
      BY <1>9 DEF w
    <2>8. FlowInv'
      BY <1>3, <1>11, <1>14, <2>1, <2>3, <2>5, <2>6, <2>7, ReceiveKeeps
    <2>9. /\ session' = [session EXCEPT ![e] = h.x.n] /\ transport' = [transport EXCEPT ![e] = h.x.t]
          /\ accepted' = [accepted EXCEPT ![e] = h.x.accepted]
          /\ delivered' = [delivered EXCEPT ![e] = delivered[e] \o none]
          /\ lost' = lost /\ aborted' = (~h.ok \/ n = 0) /\ crashed' = h.x.crashed
      BY <2>1 DEF Receive
    <2>10. session' = session /\ accepted' = accepted /\ delivered' = delivered
      BY <1>2, <1>11, <2>2, <2>4, <2>9 DEF Shape, d
    <2>11. aborted' = FALSE
      <3>1. n # 0
        BY <2>7
      <3> QED
        BY <2>2, <2>9, <3>1
    <2>12. transport'[Peer(e)] = transport[Peer(e)]
      BY <1>1, <1>2, <2>9 DEF Shape, p
    <2>13. crashed' = crashed
      BY <1>11, <2>2, <2>9
    <2> QED
      BY <1>3, <2>8, <2>9, <2>10, <2>11, <2>12, <2>13 DEF NoMessage, t
  <1>16. ASSUME NEW m \in Messages, r.tree = Tree(m), Reads(r.t, Append(d, m), next)
         PROVE  /\ FlowInv' /\ lost' = lost /\ transport'[Peer(e)] = transport[Peer(e)]
                /\ crashed' = crashed
                /\ \E a, b, c : Handles(e, a, b, c)
    <2> DEFINE h == HandleMsg(e, x, m, fatal)
               one == <<m>>
    <2>1. Inflate(r.tree) = m /\ r.tree # NoTree
      BY <1>16, TreeReadsBack
    <2>2. Receive(e, n, h, one)
      BY <1>4, <1>9, <2>1 DEF Dispatch, x
    <2>3. Len(d) < Len(accepted[p]) /\ m = accepted[p][Len(d) + 1] /\ m \in Sendable(p)
      <3>1. EndOK(p, q) /\ OutOK(q, t.recvRaw, from)
        BY <1>5, <1>6
      <3>2. next.messages = Append(d, m)
        BY <1>16 DEF Reads
      <3> DEFINE y == Elsewhere(q, rest, q.crashed)
      <3>3. v = y
        BY <1>5 DEF v, Elsewhere, EndRecords
      <3>4. EndOK(p, v)
        <4>1. /\ v.t = q.t /\ v.n = q.n /\ v.wire = rest /\ v.accepted = q.accepted
              /\ v.crashed = q.crashed
          BY <1>5 DEF v, EndRecords
        <4>2. rest \in Data /\ Len(rest) <= Len(w)
          <5>1. n \in 0 .. Len(w) /\ Len(w) \in Nat
            BY <1>5, <1>9, LenProperties DEF Data
          <5>2. rest \in Data /\ Len(rest) = Len(w) - n
            BY <1>5, <5>1, CutData DEF rest
          <5> QED
            BY <5>1, <5>2
        <4>3. Len(rest) <= Capacity
          <5>1. Len(w) <= Capacity /\ Len(w) \in Nat /\ Len(rest) \in Nat /\ Capacity \in Nat
            BY <1>5, <4>2, TransportAssumption, LenProperties DEF EndOK, EndBase, SenderOK, Sender, Data
          <5> QED
            BY <4>2, <5>1
        <4>4. v \in EndRecords(p)
          BY <1>5, <4>2 DEF v, EndRecords
        <4> HIDE DEF v
        <4>5. SenderOK(Sender(v))
          BY <1>5, <4>1, <4>2, <4>3 DEF SenderOK, Sender, EndOK, EndBase
        <4> QED
          BY <1>5, <4>1, <4>4, <4>5 DEF EndOK, EndBase
      <3>5. v.accepted = accepted[p]
        BY <1>5 DEF v, EndRecords
      <3>6. Len(d) < Len(v.accepted) /\ m = v.accepted[Len(d) + 1] /\ m \in Sendable(p)
        BY <1>1, <1>5, <1>12, <3>2, <3>4, NextInOrder
      <3> QED
        BY <3>5, <3>6
    <2>4. Effect(e, x, h.x) /\ Reaction(x, m, h.x) /\ h.ok = Expected(x, m)
      BY <1>11, <1>13, <2>3, HandleMsgKeeps, HandleMsgExpects DEF p
    <2> HIDE DEF h
    <2>5. delivered[e] \o one = Append(d, m) /\ Append(d, m) \in Seq(Messages)
      BY <1>5, AppendProperties DEF d
    <2> HIDE DEF one
    <2>6. Reads(x.t, delivered[e] \o one, next) /\ delivered[e] \o one \in Seq(Messages)
      BY <1>11, <1>16, <2>5
    <2>7. h.x.n.state # "Init"
      BY <1>3, <1>11, <2>4 DEF Reaction, NextState
    <2>8. Counted(h.x.n)
      <3>1. m.type \in {"RemoteForwardRequest", "RemoteForwardResponse"} => m.arg \in 4 .. 3 + MaxCalls
        BY <1>1, <2>3, SendableFacts
      <3>2. Counted(x.n)
        BY <1>2, <1>11 DEF EndInv
      <3> QED
        BY <2>4, <3>1, <3>2 DEF Reaction, NextRequests, Counted
    <2>9. n \in 1 .. Len(wire[e])
      BY <1>9 DEF w
    <2>10. FlowInv'
      BY <1>3, <1>11, <1>14, <2>2, <2>4, <2>6, <2>7, <2>8, <2>9, ReceiveKeeps
    <2>11. /\ session' = [session EXCEPT ![e] = h.x.n] /\ transport' = [transport EXCEPT ![e] = h.x.t]
           /\ accepted' = [accepted EXCEPT ![e] = h.x.accepted]
           /\ delivered' = [delivered EXCEPT ![e] = delivered[e] \o one]
           /\ lost' = lost /\ aborted' = (~h.ok \/ n = 0) /\ crashed' = h.x.crashed
      BY <2>2 DEF Receive
    <2>12. aborted' = ~Expected(x, m)
      <3>1. n # 0
        BY <2>9
      <3> QED
        BY <2>4, <2>11, <3>1
    <2>13. transport'[Peer(e)] = transport[Peer(e)]
      BY <1>1, <1>2, <2>11 DEF Shape, p
    <2>14. Handles(e, m, x, h.x)
      BY <1>11, <2>3, <2>4, <2>5, <2>11, <2>12 DEF Handles, p, d
    <2>15. crashed' = crashed
      BY <1>3, <1>11, <2>4, <2>11 DEF Effect
    <2> QED
      BY <2>10, <2>11, <2>13, <2>14, <2>15
  <1> QED
    BY <1>3, <1>10, <1>15, <1>16 DEF t

-----------------------------------------------------------------------------
(* The other actions: an application makes its session k, may send one of  *)
(* the messages, and its end becomes y.                                    *)

Does(e, k, messages, y) ==
  /\ Put(e, y) /\ Effect(e, At(e), y) /\ SameApplication(k, y.n)
  /\ y.n.state # "Init" /\ Counted(y.n)
  /\ y.accepted = accepted[e] \/ \E m \in messages : y.accepted = Append(accepted[e], m)

\* Such an action keeps the invariant.
LEMMA DoesKeeps ==
  ASSUME FlowInv, NEW e \in Ends, NEW k, NEW messages, NEW y, Does(e, k, messages, y)
  PROVE  FlowInv'
  BY PutKeeps DEF Does

\* What the invariant says of one end.
LEMMA AtWork ==
  ASSUME FlowInv, NEW e \in Ends
  PROVE  /\ EndOK(e, At(e)) /\ At(e) \in EndRecords(e) /\ session[e] \in SessionRecords(e)
         /\ transport[e] \in Transports /\ At(e).t = transport[e] /\ At(e).n = session[e]
         /\ At(e).accepted = accepted[e] /\ Counted(session[e])
         /\ session[e].tm => transport[e].registry.defs # <<>>
         /\ session[e].state = "Init" => Fresh(e)
  <1>1. EndInv(e)
    BY DEF FlowInv
  <1>2. EndOK(e, At(e))
    BY <1>1 DEF EndInv
  <1> QED
    BY <1>1, <1>2, EndFacts, AtFields DEF EndInv

\* A method that sends a message.
LEMMA CallStep ==
  ASSUME FlowInv, NEW e \in Ends, InUse(e), NEW k \in SessionRecords(e),
         k.sendQueue = session[e].sendQueue, k.endSent = session[e].endSent,
         k.released = session[e].released, k.tm = session[e].tm,
         k.state # "Init", Counted(k),
         NEW m \in Sendable(e), Call(e, [At(e) EXCEPT !.n = k], m)
  PROVE  \E y : Does(e, k, {m}, y)
  <1> DEFINE x == At(e)
             z == [x EXCEPT !.n = k]
             y == SendMsg(z, m)
  <1>1. /\ EndOK(e, x) /\ x.t = transport[e] /\ x.n = session[e]
        /\ x.accepted = accepted[e] /\ x.t.open
        /\ x.n.tm => x.t.registry.defs # <<>>
    BY AtWork DEF InUse
  <1>2. Put(e, y)
    BY DEF Call
  <1> HIDE DEF x, y
  <1>3. Effect(e, x, z) /\ z.n = k /\ EndOK(e, z) /\ SameButApplication(x, z)
    BY <1>1, ApplicationEffect
  <1> HIDE DEF z
  <1>4. z.t = x.t /\ z.accepted = x.accepted
    BY <1>3 DEF SameButApplication
  <1>5. /\ Effect(e, z, y) /\ SameApplication(z.n, y.n)
        /\ y.accepted = z.accepted \/ y.accepted = Append(z.accepted, m)
    BY <1>1, <1>3, <1>4, SendEffect DEF y
  <1>6. Effect(e, x, y)
    BY <1>3, <1>5, EffectBefore
  <1>7. Counted(y.n) /\ y.n.state # "Init" /\ SameApplication(k, y.n)
    BY <1>3, <1>5 DEF Counted, SameApplication
  <1> QED
    BY <1>1, <1>2, <1>4, <1>5, <1>6, <1>7 DEF Does, x

\* The connection is reset or written to.
LEMMA QuietStep ==
  ASSUME FlowInv, NEW e \in Ends, session[e].state # "Init", NEW y, Put(e, y),
         Effect(e, At(e), y), SameApplication(session[e], y.n), y.accepted = accepted[e]
  PROVE  Does(e, session[e], {}, y)
  <1>1. Counted(session[e])
    BY AtWork
  <1> QED
    BY <1>1 DEF Does, Counted, SameApplication

\* Cleanup.
LEMMA CleanupStep ==
  ASSUME FlowInv, Cleanup
  PROVE  \E y : Does("client", session["client"], {}, y)
  <1> DEFINE e == "client"
             y == HandleConnectionReset(At(e))
  <1>1. e \in Ends
    BY DEF Ends
  <1>2. session[e].state # "Init" /\ transport[e].open /\ Put(e, y)
    BY DEF Cleanup, InUse
  <1> HIDE DEF e
  <1>3. EndOK(e, At(e)) /\ At(e).t.open /\ At(e).n = session[e] /\ At(e).accepted = accepted[e]
    BY <1>1, <1>2, AtWork
  <1>4. Effect(e, At(e), y) /\ SameApplication(session[e], y.n) /\ y.accepted = accepted[e]
    BY <1>1, <1>3, ResetEffect
  <1> HIDE DEF y
  <1> QED
    BY <1>1, <1>2, <1>4, QuietStep DEF e

\* The end of the stream.
LEMMA ReadEndStep ==
  ASSUME FlowInv, NEW e \in Ends, ReadEnd(e)
  PROVE  \E y : Does(e, session[e], {}, y)
  <1> DEFINE y == HandleConnectionReset(At(e))
  <1>1. session[e].tm /\ transport[e].open /\ Put(e, y)
    BY DEF ReadEnd, AtEnd, Registered
  <1>2. EndOK(e, At(e)) /\ At(e).t.open /\ At(e).n = session[e] /\ At(e).accepted = accepted[e]
        /\ session[e].state # "Init"
    BY <1>1, AtWork DEF Fresh
  <1>3. Effect(e, At(e), y) /\ SameApplication(session[e], y.n) /\ y.accepted = accepted[e]
    BY <1>2, ResetEffect
  <1> HIDE DEF y
  <1> QED
    BY <1>1, <1>2, <1>3, QuietStep

\* HandleFDWrite.
LEMMA WriteStep ==
  ASSUME FlowInv, NEW e \in Ends, HandleFDWrite(e)
  PROVE  \E y : Does(e, session[e], {}, y)
  <1> DEFINE y == Written(At(e))
  <1>1. session[e].tm /\ transport[e].open /\ Put(e, y)
    BY DEF HandleFDWrite, Writable, Registered
  <1>2. EndOK(e, At(e)) /\ At(e).t.open /\ At(e).n = session[e] /\ At(e).accepted = accepted[e]
        /\ session[e].state # "Init" /\ At(e).n.tm /\ At(e).t.registry.defs # <<>>
    BY <1>1, AtWork DEF Fresh
  <1>3. Effect(e, At(e), y) /\ SameApplication(session[e], y.n) /\ y.accepted = accepted[e]
    BY <1>2, WrittenEffect
  <1> HIDE DEF y
  <1> QED
    BY <1>1, <1>2, <1>3, QuietStep

Hello(e) == HelloOf(e, session[e].features.version)
Begun(e) ==
  [session[e] EXCEPT !.state = IF e = "client" THEN "ClientHelloSent" ELSE "ServerHelloSent"]

\* A session that has just begun accepts its message or loses its transport.
LEMMA FirstIsAccepted ==
  ASSUME NEW e \in Ends, NEW z, EndOK(e, z), z.t.open, z.n.sendQueue = <<>>, ~z.n.endSent,
         NEW m, m.type # "Disconnect", z.t.senderQueue = <<>>
  PROVE  LET s == SendMsg(z, m) IN s.accepted = Append(z.accepted, m) \/ ~s.n.tm
  <1> DEFINE w == [z EXCEPT !.n.endSent = m.type = "Disconnect"]
             r == Transmit(w, m)
             s == SendMsg(z, m)
  <1>1. /\ z.n \in SessionRecords(e)
        /\ z = [n |-> z.n, t |-> z.t, wire |-> z.wire, accepted |-> z.accepted,
                crashed |-> z.crashed]
    BY EndFacts DEF EndRecords
  <1>2. CASE ~z.n.tm
    BY <1>2 DEF SendMsg
  <1>3. CASE z.n.tm
    <2>1. w = [n |-> w.n, t |-> z.t, wire |-> z.wire, accepted |-> z.accepted,
               crashed |-> z.crashed] /\ w.n = [z.n EXCEPT !.endSent = m.type = "Disconnect"]
      BY <1>1
    <2>2. w.n \in SessionRecords(e) /\ w.n.sendQueue = <<>> /\ w.n.tm
      BY <1>1, <1>3, <2>1 DEF SessionRecords
    <2>3. s = Sent(w, m, r)
      BY <1>3 DEF SendMsg, TryOrQueue
    <2> HIDE DEF w, s
    <2>4. CASE lost
      <3>1. Broken(w) /\ r = [x |-> HandleConnectionReset(w), sent |-> TRUE]
        BY <2>1, <2>2, <2>4 DEF Broken, Transmit, WriteFails
      <3> HIDE DEF r
      <3>2. s = HandleConnectionReset(w)
        BY <2>2, <2>3, <3>1 DEF Sent
      <3>3. ~HandleConnectionReset(w).n.tm
        BY <2>1, <2>2 DEF HandleConnectionReset, Release, SessionRecords
      <3> QED
        BY <3>2, <3>3 DEF s
    <2>5. CASE ~lost
      <3> DEFINE i == SendTree([t |-> w.t, wire |-> w.wire], Tree(m))
      <3>1. ~Broken(w)
        BY <2>1, <2>5 DEF Broken
      <3>2. r = Transmitted(w, m, i)
        BY <2>2, <3>1 DEF Transmit
      <3> DEFINE tt == IF i.sent /\ m.type = "Disconnect" THEN EndTransport(i.s.t) ELSE i.s.t
                 uu == i.s.wire
      <3>7. r.x = [[w EXCEPT !.t = tt] EXCEPT !.wire = uu]
        BY <3>2 DEF Transmitted
      <3> HIDE DEF i, r, tt, uu
      <3>3. r.x = [n |-> w.n, t |-> r.x.t, wire |-> r.x.wire, accepted |-> z.accepted,
                   crashed |-> z.crashed]
        <4> DEFINE a == z.accepted
                   b == z.crashed
                   c == z.t
                   d == z.wire
                   g == w.n
        <4>1. w = [n |-> g, t |-> c, wire |-> d, accepted |-> a, crashed |-> b]
          BY <2>1
        <4>2. r.x = [[w EXCEPT !.t = tt] EXCEPT !.wire = uu]
          BY <3>7
        <4> DEFINE rx == r.x
        <4> HIDE DEF a, b, c, d, g, rx
        <4>3. rx = [n |-> g, t |-> tt, wire |-> uu, accepted |-> a, crashed |-> b]
          BY <4>1, <4>2 DEF rx
        <4> QED
          BY <4>3 DEF a, b, c, d, g, rx
      <3> DEFINE v == r.x
      <3> HIDE DEF v
      <3>4. s = Enqueue(v, m) \/ s = [v EXCEPT !.accepted = Append(@, m)]
        BY <2>2, <2>3, <3>1 DEF Sent, v
      <3>5. v.accepted = z.accepted /\ v = [n |-> w.n, t |-> v.t, wire |-> v.wire,
                 accepted |-> z.accepted, crashed |-> z.crashed]
        BY <3>3 DEF v
      <3>6. s.accepted = Append(z.accepted, m)
        BY <3>4, <3>5 DEF Enqueue
      <3> QED
        BY <3>6 DEF s
    <2> QED
      BY <2>4, <2>5
  <1> QED
    BY <1>2, <1>3

\* Start.
LEMMA StartStep ==
  ASSUME FlowInv, NEW e \in Ends, Start(e)
  PROVE  /\ session[e].state = "Init"
         /\ \E y : /\ Does(e, Begun(e), {Hello(e)}, y)
                   /\ y.accepted = Append(accepted[e], Hello(e)) \/ y.crashed
  <1> DEFINE x == At(e)
             m == Hello(e)
             k == [session[e] EXCEPT !.tm = TRUE]
             z == [x EXCEPT !.n = k]
             s == SendMsg(z, m)
             j == [s.n EXCEPT !.state = IF e = "client" THEN "ClientHelloSent" ELSE "ServerHelloSent"]
             y == [s EXCEPT !.n = j]
             end == Started(e, s)
  <1>1. session[e].state = "Init"
    BY DEF Start, CanStart
  <1>2. /\ EndOK(e, x) /\ x \in EndRecords(e) /\ session[e] \in SessionRecords(e)
        /\ x.t = transport[e] /\ x.n = session[e] /\ x.accepted = accepted[e]
        /\ Counted(session[e]) /\ Fresh(e)
    BY <1>1, AtWork
  <1>3. z = [x EXCEPT !.n.tm = TRUE]
    BY <1>2 DEF EndRecords
  <1>4. Put(e, end)
    BY <1>3 DEF Start, Hello
  <1>5. /\ x.t.open /\ x.n.sendQueue = <<>> /\ ~x.n.endSent /\ m \in HellosOf(e)
        /\ m \in Sendable(e) /\ m.type # "Disconnect" /\ x.t.senderQueue = <<>>
    BY <1>2 DEF Fresh, NewTransportManager, Hello, HelloOf, Msg, Sendable
  <1> HIDE DEF x, m
  <1>6. /\ k \in SessionRecords(e) /\ k.sendQueue = x.n.sendQueue /\ k.endSent = x.n.endSent
        /\ k.released = x.n.released /\ k.tm = TRUE /\ SameApplication(session[e], k)
    BY <1>2 DEF SessionRecords, SameApplication
  <1> HIDE DEF k
  <1>7. EndOK(e, z) /\ SameButApplication(x, z) /\ z.n = k
    BY <1>2, <1>6, ApplicationKeeps
  <1> HIDE DEF z
  <1>8. z.t = x.t /\ z.accepted = x.accepted
    BY <1>7 DEF SameButApplication
  <1>9. /\ Effect(e, z, s) /\ SameApplication(z.n, s.n)
        /\ s.accepted = z.accepted \/ s.accepted = Append(z.accepted, m)
        /\ ~lost => s.n.tm = z.n.tm
    BY <1>5, <1>6, <1>7, <1>8, SendEffect
  <1>20. s.accepted = Append(accepted[e], m) \/ ~s.n.tm
    <2>1. z.t.senderQueue = <<>> /\ z.n.sendQueue = <<>> /\ ~z.n.endSent /\ z.t.open
      BY <1>5, <1>6, <1>7, <1>8
    <2> QED
      BY <1>2, <1>5, <1>7, <1>8, <2>1, FirstIsAccepted
  <1> HIDE DEF s
  <1>10. EndOK(e, s) /\ s \in EndRecords(e) /\ s.n \in SessionRecords(e)
    BY <1>9, EndFacts DEF Effect
  <1>11. /\ j \in SessionRecords(e) /\ j.state # "Init" /\ j.tm = s.n.tm
         /\ j.sendQueue = s.n.sendQueue /\ j.endSent = s.n.endSent /\ j.released = s.n.released
         /\ SameApplication(Begun(e), j) /\ Counted(j)
    <2> DEFINE sent == IF e = "client" THEN "ClientHelloSent" ELSE "ServerHelloSent"
    <2>1. sent \in States /\ sent # "Init"
      BY DEF States
    <2> HIDE DEF sent
    <2>2. /\ j \in SessionRecords(e) /\ j.state = sent /\ j.tm = s.n.tm
          /\ j.sendQueue = s.n.sendQueue /\ j.endSent = s.n.endSent /\ j.released = s.n.released
          /\ j.features = s.n.features /\ j.lastReqId = s.n.lastReqId
          /\ j.requests = s.n.requests /\ j.tick = s.n.tick /\ j.calls = s.n.calls
      <3>1. j = [s.n EXCEPT !.state = sent]
        BY DEF sent
      <3> HIDE DEF j
      <3> QED
        BY <1>10, <2>1, <3>1 DEF SessionRecords
    <2>3. /\ Begun(e).state = sent /\ Begun(e).features = session[e].features
          /\ Begun(e).lastReqId = session[e].lastReqId /\ Begun(e).requests = session[e].requests
          /\ Begun(e).tick = session[e].tick /\ Begun(e).calls = session[e].calls
      BY <1>2 DEF Begun, SessionRecords, sent
    <2> HIDE DEF j
    <2> QED
      BY <1>2, <1>6, <1>7, <1>9, <2>1, <2>2, <2>3 DEF SameApplication, Counted
  <1>12. y = [s EXCEPT !.n.state = IF e = "client" THEN "ClientHelloSent" ELSE "ServerHelloSent"]
    BY <1>10 DEF EndRecords
  <1> HIDE DEF j
  <1>13. EndOK(e, y) /\ SameButApplication(s, y) /\ y.n = j
    BY <1>10, <1>11, ApplicationKeeps
  <1>14. end = IF y.n.tm THEN y ELSE Crash(y)
    BY <1>12 DEF Started
  <1> HIDE DEF y, end
  <1>15. Effect(e, z, y)
    BY <1>9, <1>11, <1>13, EffectAfter
  <1>16. Effect(e, x, y) /\ y.accepted = s.accepted
    BY <1>1, <1>2, <1>7, <1>13, <1>15, EffectBefore DEF SameButApplication
  <1>17. Effect(e, x, end) /\ end.n = j /\ end.accepted = s.accepted
    <2>1. CASE y.n.tm
      BY <1>13, <1>14, <1>16, <2>1
    <2>2. CASE ~y.n.tm
      <3>1. end = Crash(y) /\ lost
        BY <1>6, <1>7, <1>9, <1>11, <1>13, <1>14, <2>2
      <3>2. /\ EndOK(e, end) /\ end.n = y.n /\ end.t = y.t /\ end.wire = y.wire
            /\ end.accepted = y.accepted
        BY <1>13, <3>1, CrashKeeps DEF SameWriter
      <3>3. Effect(e, x, end)
        BY <1>1, <1>2, <1>16, <2>2, <3>1, <3>2 DEF Effect
      <3> QED
        BY <1>13, <1>16, <3>2, <3>3
    <2> QED
      BY <2>1, <2>2
  <1>18. end.accepted = accepted[e] \/ end.accepted = Append(accepted[e], m)
    BY <1>2, <1>8, <1>9, <1>17
  <1>19. Does(e, Begun(e), {m}, end)
    BY <1>4, <1>11, <1>17, <1>18 DEF Does, x
  <1>21. end.accepted = Append(accepted[e], m) \/ end.crashed
    <2>1. CASE s.n.tm
      BY <1>17, <1>20, <2>1
    <2>2. CASE ~s.n.tm
      <3>1. end = Crash(y) /\ y \in EndRecords(e)
        BY <1>11, <1>13, <1>14, <2>2, EndFacts
      <3> QED
        BY <3>1 DEF Crash, EndRecords
    <2> QED
      BY <2>1, <2>2
  <1> QED
    BY <1>1, <1>19, <1>21 DEF m

\* The bound on calls.
LEMMA CallsLeft ==
  ASSUME FlowInv, NEW e \in Ends, MayCall(e)
  PROVE  InUse(e) /\ session[e].calls + 1 <= MaxCalls /\ session[e].calls \in Nat
         /\ MaxCalls \in Nat
  <1>1. session["client"].calls \in Nat /\ session["server"].calls \in Nat
    BY AtWork DEF SessionRecords, Ends
  <1>2. session["client"].calls + session["server"].calls < MaxCalls /\ InUse(e) /\ MaxCalls \in Nat
    BY SessionAssumption DEF MayCall
  <1>3. e = "client" \/ e = "server"
    BY DEF Ends
  <1> QED
    BY <1>1, <1>2, <1>3

\* A session record in an application's hands.
With(n, s, id, requests, tick, calls) ==
  [n EXCEPT !.state = s, !.lastReqId = id, !.requests = requests, !.tick = tick, !.calls = calls]

\* Its fields and its type.
LEMMA SessionWith ==
  ASSUME NEW e \in Ends, NEW n \in SessionRecords(e), NEW s \in States, NEW id \in Nat,
         NEW requests \in SUBSET Nat, NEW tick \in Nat, NEW calls \in Nat
  PROVE  LET k == With(n, s, id, requests, tick, calls)
         IN  /\ k \in SessionRecords(e)
             /\ k.sendQueue = n.sendQueue /\ k.endSent = n.endSent
             /\ k.released = n.released /\ k.tm = n.tm /\ k.features = n.features
             /\ k.state = s /\ k.lastReqId = id /\ k.requests = requests
             /\ k.tick = tick /\ k.calls = calls
  BY DEF SessionRecords, With

\* A method that sends a message and changes the session so.
LEMMA MethodStep ==
  ASSUME FlowInv, NEW e \in Ends, InUse(e), NEW s \in States, s # "Init",
         NEW id \in Nat, NEW requests \in SUBSET Nat, NEW tick \in Nat, NEW calls \in Nat,
         id \in 3 .. 3 + calls, tick \in 0 .. calls, requests \subseteq 4 .. 3 + MaxCalls,
         NEW m \in Sendable(e),
         Call(e, [At(e) EXCEPT !.n = With(session[e], s, id, requests, tick, calls)], m)
  PROVE  \E y : Does(e, With(session[e], s, id, requests, tick, calls), {m}, y)
  <1> DEFINE n == session[e]
             k == With(n, s, id, requests, tick, calls)
  <1>1. n \in SessionRecords(e)
    BY AtWork
  <1> HIDE DEF n
  <1>2. /\ k \in SessionRecords(e)
        /\ k.sendQueue = n.sendQueue /\ k.endSent = n.endSent
        /\ k.released = n.released /\ k.tm = n.tm
        /\ k.state = s /\ k.lastReqId = id /\ k.requests = requests
        /\ k.tick = tick /\ k.calls = calls
    BY <1>1, SessionWith
  <1>3. Call(e, [At(e) EXCEPT !.n = k], m)
    BY DEF n
  <1> HIDE DEF k
  <1>4. Counted(k)
    BY <1>2 DEF Counted
  <1>5. \E y : Does(e, k, {m}, y)
    BY <1>2, <1>3, <1>4, CallStep DEF n
  <1> QED
    BY <1>5 DEF k, n

Requesting ==
  LET n == session["client"]
  IN  With(n, n.state, n.lastReqId + 1, n.requests \cup {n.lastReqId + 1}, n.tick, n.calls + 1)

\* SendRemoteForwardRequest.
LEMMA RequestStep ==
  ASSUME FlowInv, SendRemoteForwardRequest
  PROVE  /\ session["client"].state = "AuthenticatedAsClient"
         /\ \E y : Does("client", Requesting,
                        {Msg("RemoteForwardRequest", session["client"].lastReqId + 1)}, y)
  <1> DEFINE e == "client"
             n == session[e]
             id == n.lastReqId + 1
             m == Msg("RemoteForwardRequest", id)
             requests == n.requests \cup {id}
             calls == n.calls + 1
             k == With(n, n.state, id, requests, n.tick, calls)
  <1>1. e \in Ends
    BY DEF Ends
  <1>2. MayCall(e) /\ n.state = "AuthenticatedAsClient"
    BY DEF SendRemoteForwardRequest
  <1>3. n \in SessionRecords(e) /\ Counted(n) /\ At(e).n = n /\ At(e) \in EndRecords(e)
    BY <1>1, AtWork
  <1>4. InUse(e) /\ n.calls + 1 <= MaxCalls /\ n.calls \in Nat /\ MaxCalls \in Nat
    BY <1>1, <1>2, CallsLeft
  <1>5. id \in Nat /\ id \in 4 .. 3 + MaxCalls /\ id \in 3 .. 3 + calls /\ calls \in Nat
        /\ n.tick \in 0 .. calls /\ n.tick \in Nat
        /\ requests \in SUBSET Nat /\ requests \subseteq 4 .. 3 + MaxCalls
    BY <1>3, <1>4 DEF Counted, SessionRecords
  <1>6. m \in Sendable(e)
    <2>1. m \in Calls("RemoteForwardRequest", 4, MaxCalls)
      BY <1>4, <1>5 DEF Calls
    <2> HIDE DEF m
    <2> QED
      BY <2>1 DEF Sendable
  <1>7. Call(e, [At(e) EXCEPT !.n = k], m)
    <2>1. k = [n EXCEPT !.lastReqId = id, !.requests = requests, !.calls = calls]
      BY <1>3 DEF With, SessionRecords
    <2>2. [At(e) EXCEPT !.n.lastReqId = id, !.n.requests = @ \cup {id}, !.n.calls = @ + 1]
            = [At(e) EXCEPT !.n = [n EXCEPT !.lastReqId = id, !.requests = requests,
                                            !.calls = calls]]
      BY <1>3 DEF EndRecords, SessionRecords
    <2>3. Call(e, [At(e) EXCEPT !.n.lastReqId = id, !.n.requests = @ \cup {id},
                                !.n.calls = @ + 1], m)
      BY DEF SendRemoteForwardRequest
    <2> HIDE DEF m, k
    <2> QED
      BY <2>1, <2>2, <2>3
  <1>8. n.state \in States /\ n.state # "Init"
    BY <1>2 DEF States
  <1> HIDE DEF e, n, id, requests, calls, m
  <1>9. \E y : Does(e, k, {m}, y)
    BY <1>1, <1>4, <1>5, <1>6, <1>7, <1>8, MethodStep DEF n
  <1> QED
    BY <1>2, <1>9 DEF Requesting, e, n, id, requests, calls, m

KeepingAlive ==
  LET n == session["client"]
  IN  With(n, n.state, n.lastReqId, n.requests, n.tick + 1, n.calls + 1)

\* SendKeepAlive.
LEMMA KeepAliveStep ==
  ASSUME FlowInv, SendKeepAlive
  PROVE  \E y : Does("client", KeepingAlive, {Msg("KeepAlive", session["client"].tick)}, y)
  <1> DEFINE e == "client"
             n == session[e]
             m == Msg("KeepAlive", n.tick)
             tick == n.tick + 1
             calls == n.calls + 1
             k == With(n, n.state, n.lastReqId, n.requests, tick, calls)
  <1>1. e \in Ends
    BY DEF Ends
  <1>2. MayCall(e)
    BY DEF SendKeepAlive
  <1>3. n \in SessionRecords(e) /\ Counted(n) /\ At(e).n = n /\ At(e) \in EndRecords(e)
    BY <1>1, AtWork
  <1>4. InUse(e) /\ n.calls + 1 <= MaxCalls /\ n.calls \in Nat /\ MaxCalls \in Nat
    BY <1>1, <1>2, CallsLeft
  <1>5. n.lastReqId \in Nat /\ n.lastReqId \in 3 .. 3 + calls /\ calls \in Nat
        /\ tick \in 0 .. calls /\ tick \in Nat /\ n.tick \in 0 .. MaxCalls - 1
        /\ n.requests \in SUBSET Nat /\ n.requests \subseteq 4 .. 3 + MaxCalls
    <2>1. /\ n.lastReqId \in Nat /\ n.tick \in Nat /\ n.requests \in SUBSET Nat
      BY <1>3 DEF SessionRecords
    <2>2. /\ n.lastReqId \in 3 .. 3 + n.calls /\ n.tick \in 0 .. n.calls
          /\ n.requests \subseteq 4 .. 3 + MaxCalls
      BY <1>3 DEF Counted
    <2> HIDE DEF n
    <2> QED
      BY <1>4, <2>1, <2>2
  <1>6. m \in Sendable(e)
    <2>1. m \in Calls("KeepAlive", 0, MaxCalls)
      BY <1>4, <1>5 DEF Calls
    <2> HIDE DEF m
    <2> QED
      BY <2>1 DEF Sendable
  <1>7. Call(e, [At(e) EXCEPT !.n = k], m)
    <2>1. k = [n EXCEPT !.tick = tick, !.calls = calls]
      BY <1>3 DEF With, SessionRecords
    <2>2. [At(e) EXCEPT !.n.tick = @ + 1, !.n.calls = @ + 1]
            = [At(e) EXCEPT !.n = [n EXCEPT !.tick = tick, !.calls = calls]]
      BY <1>3 DEF EndRecords, SessionRecords
    <2>3. Call(e, [At(e) EXCEPT !.n.tick = @ + 1, !.n.calls = @ + 1], m)
      BY DEF SendKeepAlive
    <2> HIDE DEF m, k
    <2> QED
      BY <2>1, <2>2, <2>3
  <1>8. n.state \in States /\ n.state # "Init"
    BY <1>3, <1>4 DEF InUse, SessionRecords
  <1> HIDE DEF e, n, tick, calls, m
  <1>9. \E y : Does(e, k, {m}, y)
    BY <1>1, <1>4, <1>5, <1>6, <1>7, <1>8, MethodStep DEF n
  <1> QED
    BY <1>9 DEF KeepingAlive, e, n, tick, calls, m

Noticing ==
  LET n == session["server"]
  IN  With(n, n.state, n.lastReqId, n.requests, n.tick, n.calls + 1)

\* SendError and SendUsages.
LEMMA NoticeStep ==
  ASSUME FlowInv, NEW type \in Notices, SendNotice(type)
  PROVE  \E y : Does("server", Noticing, {Msg(type, 0)}, y)
  <1> DEFINE e == "server"
             n == session[e]
             m == Msg(type, 0)
             calls == n.calls + 1
             k == With(n, n.state, n.lastReqId, n.requests, n.tick, calls)
  <1>1. e \in Ends
    BY DEF Ends
  <1>2. MayCall(e)
    BY DEF SendNotice
  <1>3. n \in SessionRecords(e) /\ Counted(n) /\ At(e).n = n /\ At(e) \in EndRecords(e)
    BY <1>1, AtWork
  <1>4. InUse(e) /\ n.calls + 1 <= MaxCalls /\ n.calls \in Nat /\ MaxCalls \in Nat
    BY <1>1, <1>2, CallsLeft
  <1>5. n.lastReqId \in Nat /\ n.lastReqId \in 3 .. 3 + calls /\ calls \in Nat
        /\ n.tick \in 0 .. calls /\ n.tick \in Nat
        /\ n.requests \in SUBSET Nat /\ n.requests \subseteq 4 .. 3 + MaxCalls
    BY <1>3, <1>4 DEF Counted, SessionRecords
  <1>6. m \in Sendable(e)
    BY DEF Sendable
  <1>7. Call(e, [At(e) EXCEPT !.n = k], m)
    <2>1. k = [n EXCEPT !.calls = calls]
      BY <1>3 DEF With, SessionRecords
    <2>2. [At(e) EXCEPT !.n.calls = @ + 1] = [At(e) EXCEPT !.n = [n EXCEPT !.calls = calls]]
      BY <1>3 DEF EndRecords, SessionRecords
    <2>3. Call(e, [At(e) EXCEPT !.n.calls = @ + 1], m)
      BY DEF SendNotice
    <2> HIDE DEF m, k
    <2> QED
      BY <2>1, <2>2, <2>3
  <1>8. n.state \in States /\ n.state # "Init"
    BY <1>3, <1>4 DEF InUse, SessionRecords
  <1> HIDE DEF e, n, calls, m
  <1>9. \E y : Does(e, k, {m}, y)
    BY <1>1, <1>4, <1>5, <1>6, <1>7, <1>8, MethodStep DEF n
  <1> QED
    BY <1>9 DEF Noticing, e, n, calls, m

Answering(success) ==
  LET n == session["server"]
  IN  With(n, IF success THEN "AuthenticatedAsServer" ELSE n.state,
           n.lastReqId, n.requests, n.tick, n.calls)

\* AuthenticationSucceeded and AuthenticationFailed.
LEMMA AnswerStep ==
  ASSUME FlowInv, NEW success \in BOOLEAN, AnswerAuthentication(success)
  PROVE  /\ session["server"].state = "AuthenticationRequestRecved"
         /\ \A i \in DOMAIN accepted["server"] :
              accepted["server"][i].type # "AuthenticationResponse"
         /\ \E y : Does("server", Answering(success),
                        {Msg("AuthenticationResponse", IF success THEN 1 ELSE 0)}, y)
  <1> DEFINE e == "server"
             n == session[e]
             i == IF success THEN 1 ELSE 0
             m == Msg("AuthenticationResponse", i)
             s == IF success THEN "AuthenticatedAsServer" ELSE n.state
             k == With(n, s, n.lastReqId, n.requests, n.tick, n.calls)
  <1>1. e \in Ends
    BY DEF Ends
  <1>2. /\ InUse(e) /\ n.state = "AuthenticationRequestRecved"
        /\ \A j \in DOMAIN accepted[e] : accepted[e][j].type # "AuthenticationResponse"
    BY DEF AnswerAuthentication
  <1>3. n \in SessionRecords(e) /\ Counted(n) /\ At(e).n = n /\ At(e) \in EndRecords(e)
    BY <1>1, AtWork
  <1>4. n.lastReqId \in Nat /\ n.lastReqId \in 3 .. 3 + n.calls /\ n.calls \in Nat
        /\ n.tick \in 0 .. n.calls /\ n.tick \in Nat
        /\ n.requests \in SUBSET Nat /\ n.requests \subseteq 4 .. 3 + MaxCalls
    BY <1>3 DEF Counted, SessionRecords
  <1>5. m \in Sendable(e)
    <2>1. i \in 0 .. 0 + 2 - 1
      OBVIOUS
    <2>2. m \in Calls("AuthenticationResponse", 0, 2)
      BY <2>1 DEF Calls
    <2> HIDE DEF m
    <2> QED
      BY <2>2 DEF Sendable
  <1>6. Call(e, [At(e) EXCEPT !.n = k], m)
    <2>1. k = [n EXCEPT !.state = s]
      BY <1>3 DEF With, SessionRecords
    <2>2. [At(e) EXCEPT !.n.state = IF success THEN "AuthenticatedAsServer" ELSE @]
             = [At(e) EXCEPT !.n = [n EXCEPT !.state = s]]
      BY <1>3 DEF EndRecords, SessionRecords
    <2>3. Call(e, [At(e) EXCEPT !.n.state = IF success THEN "AuthenticatedAsServer" ELSE @], m)
      BY DEF AnswerAuthentication
    <2> HIDE DEF m, k
    <2> QED
      BY <2>1, <2>2, <2>3
  <1>7. s \in States /\ s # "Init"
    BY <1>2 DEF States
  <1> HIDE DEF e, n, m, s
  <1>8. \E y : Does(e, k, {m}, y)
    BY <1>1, <1>2, <1>4, <1>5, <1>6, <1>7, MethodStep DEF n
  <1> QED
    BY <1>2, <1>8 DEF Answering, e, n, m, s

Replying(id) ==
  LET n == session["server"]
  IN  With(n, n.state, n.lastReqId, n.requests \ {id}, n.tick, n.calls)

\* AcceptRemoteForwardRequest and RejectRemoteForwardRequest.
LEMMA ReplyStep ==
  ASSUME FlowInv, NEW id \in session["server"].requests, AnswerForwardRequest(id)
  PROVE  /\ session["server"].state = "AuthenticatedAsServer"
         /\ \E y : Does("server", Replying(id), {Msg("RemoteForwardResponse", id)}, y)
  <1> DEFINE e == "server"
             n == session[e]
             m == Msg("RemoteForwardResponse", id)
             requests == n.requests \ {id}
             k == With(n, n.state, n.lastReqId, requests, n.tick, n.calls)
  <1>1. e \in Ends
    BY DEF Ends
  <1>2. InUse(e) /\ n.state = "AuthenticatedAsServer"
    BY DEF AnswerForwardRequest
  <1>3. n \in SessionRecords(e) /\ Counted(n) /\ At(e).n = n /\ At(e) \in EndRecords(e)
    BY <1>1, AtWork
  <1>4. n.lastReqId \in Nat /\ n.lastReqId \in 3 .. 3 + n.calls /\ n.calls \in Nat
        /\ n.tick \in 0 .. n.calls /\ n.tick \in Nat /\ id \in 4 .. 3 + MaxCalls
        /\ requests \in SUBSET Nat /\ requests \subseteq 4 .. 3 + MaxCalls
    BY <1>3 DEF Counted, SessionRecords
  <1>5. m \in Sendable(e)
    <2>1. m \in Calls("RemoteForwardResponse", 4, MaxCalls)
      BY <1>4, SessionAssumption DEF Calls
    <2> HIDE DEF m
    <2> QED
      BY <2>1 DEF Sendable
  <1>6. Call(e, [At(e) EXCEPT !.n = k], m)
    <2>1. k = [n EXCEPT !.requests = requests]
      BY <1>3 DEF With, SessionRecords
    <2>2. [At(e) EXCEPT !.n.requests = @ \ {id}] = [At(e) EXCEPT !.n = [n EXCEPT !.requests = requests]]
      BY <1>3 DEF EndRecords, SessionRecords
    <2>3. Call(e, [At(e) EXCEPT !.n.requests = @ \ {id}], m)
      BY DEF AnswerForwardRequest
    <2> HIDE DEF m, k
    <2> QED
      BY <2>1, <2>2, <2>3
  <1>7. n.state \in States /\ n.state # "Init"
    BY <1>2 DEF States
  <1> HIDE DEF e, n, m, requests
  <1>8. \E y : Does(e, k, {m}, y)
    BY <1>1, <1>2, <1>4, <1>5, <1>6, <1>7, MethodStep DEF n
  <1> QED
    BY <1>2, <1>8 DEF Replying, e, n, m, requests

\* End.
LEMMA EndStep ==
  ASSUME FlowInv, NEW e \in Ends, End(e)
  PROVE  session[e].state # "Init" /\ \E y : Does(e, session[e], {Msg("Disconnect", 0)}, y)
  <1> DEFINE n == session[e]
             m == Msg("Disconnect", 0)
             x == At(e)
  <1>1. InUse(e) /\ Call(e, x, m) /\ n.state # "Init"
    BY DEF End, InUse
  <1>2. n \in SessionRecords(e) /\ Counted(n) /\ x.n = n /\ x \in EndRecords(e)
    BY AtWork
  <1>3. m \in Sendable(e)
    BY DEF Sendable
  <1> HIDE DEF n, m
  <1>4. x = [x EXCEPT !.n = n]
    BY <1>2 DEF EndRecords
  <1>5. Call(e, [At(e) EXCEPT !.n = n], m)
    BY <1>1, <1>4
  <1>6. \E y : Does(e, n, {m}, y)
    BY <1>1, <1>2, <1>3, <1>5, CallStep DEF n
  <1> QED
    BY <1>1, <1>6 DEF n, m

-----------------------------------------------------------------------------
(* The invariant holds.                                                    *)

\* Without definitions no path is known.
LEMMA NothingLearned == Learned(<<>>) = NothingKnown
  <1> DEFINE s == <<>>
             f == [id \in {} |-> s]
  <1>1. NothingKnown = f
    BY DEF NothingKnown
  <1>2. {s[i].id : i \in DOMAIN s} \cup DOMAIN NothingKnown = {}
    BY DEF NothingKnown
  <1> QED
    BY <1>1, <1>2 DEF Learned, UpdatePathRegistryFromStream

\* A new transport is at the position before the signature.
LEMMA NewTransport ==
  LET t == NewTransportManager
  IN  /\ t \in Transports /\ t.open /\ ~t.endTransport /\ t.senderQueue = <<>>
      /\ \A e \in Ends : RegistryOK(e, t)
      /\ WritePosition(t, <<>>) = Position("signature", 0, <<>>, <<>>)
      /\ Reads(t, <<>>, Position("signature", 0, <<>>, <<>>))
      /\ t.recvRaw = <<>> /\ Len(t.recvRaw) < t.expectedLen
  <1> DEFINE t == NewTransportManager
             none == <<>>
             from == Position("signature", 0, none, none)
  <1>1. none \in Seq(Paths) /\ none \in Data /\ none \in Seq(Data) /\ none \in Seq(Messages)
        /\ Len(none) = 0
    BY NothingIsData
  <1>2. /\ t.registry = [defs |-> none, announced |-> 0] /\ t.known = NothingKnown
        /\ t.senderQueue = none /\ t.writePoll = FALSE /\ t.signatureSent = FALSE
        /\ t.signatureRcvd = FALSE /\ t.recvRaw = none /\ t.expectedLen = 2
        /\ t.readingHeader = TRUE /\ t.endTransport = FALSE /\ t.open = TRUE
    BY SignatureFacts DEF NewTransportManager, EmptyRegistry, HANDSHAKE_LENGTH
  <1>3. NothingKnown \in {Learned(k) : k \in Seq(Paths)}
    BY <1>1, NothingLearned
  <1>4. t \in Transports
    <2>1. t = [registry |-> [defs |-> none, announced |-> 0], known |-> NothingKnown,
               senderQueue |-> none, writePoll |-> FALSE,
               signatureSent |-> FALSE, signatureRcvd |-> FALSE,
               recvRaw |-> none, expectedLen |-> 2, readingHeader |-> TRUE,
               endTransport |-> FALSE, open |-> TRUE]
      BY SignatureFacts DEF NewTransportManager, EmptyRegistry, HANDSHAKE_LENGTH
    <2> HIDE DEF t, none
    <2> QED
      BY <1>1, <1>3, <2>1 DEF Transports
  <1> HIDE DEF t
  <1>5. ASSUME NEW e \in Ends PROVE RegistryOK(e, t)
    <2>1. none \in Definitions(e)
      BY SerializerAssumption
    <2> HIDE DEF none
    <2> QED
      BY <1>1, <1>2, <2>1 DEF RegistryOK
  <1>6. SubSeq(none, 1, 0) = none
    <2>1. SubSeq(none, 1, Len(none)) = none
      <3>1. none \in Seq(Paths)
        BY <1>1
      <3> HIDE DEF none
      <3> QED
        BY <3>1, SubSeqFull
    <2> QED
      BY <1>1, <2>1
  <1>7. WritePosition(t, none) = from
    <2>1. t.registry.defs = none /\ t.registry.announced = 0
      BY <1>2
    <2> HIDE DEF none
    <2> QED
      BY <1>2, <1>6, <2>1 DEF WritePosition
  <1>8. from \in Positions /\ from.stage = "signature" /\ from.known = none /\ from.messages = none
    <2> HIDE DEF none
    <2> QED
      BY <1>1 DEF Position, Positions
  <1>9. Numbered(none)
    BY <1>1 DEF Numbered
  <1>10. Reads(t, none, from)
    <2>1. t.known = Learned(none)
      BY <1>2, NothingLearned
    <2> HIDE DEF none, from
    <2>2. t.known = Learned(from.known) /\ Numbered(from.known) /\ from.messages = none
      BY <1>8, <1>9, <2>1
    <2>3. t.signatureRcvd = (from.stage # "signature") /\ t.readingHeader = (from.stage # "body")
      BY <1>2, <1>8
    <2>4. t.expectedLen = (IF from.stage = "body" THEN from.length ELSE 2)
      BY <1>2, <1>8
    <2>5. Len(t.recvRaw) < t.expectedLen
      BY <1>1, <1>2
    <2> QED
      BY <1>8, <2>2, <2>3, <2>4, <2>5 DEF Reads
  <1> QED
    BY <1>1, <1>2, <1>4, <1>5, <1>7, <1>10 DEF t

\* The sessions before Start.
LEMMA InitialSessions ==
  ASSUME Init, NEW e \in Ends
  PROVE  /\ session[e] \in SessionRecords(e) /\ session[e].state = "Init"
         /\ session[e].sendQueue = <<>> /\ ~session[e].endSent /\ ~session[e].tm
         /\ ~session[e].released /\ session[e].lastReqId = 3 /\ session[e].requests = {}
         /\ session[e].tick = 0 /\ session[e].calls = 0
         /\ HelloOf(e, session[e].features.version) \in HellosOf(e)
         /\ e = "client" => session[e].features.version = PINGGY_SESSION_VERSION_1_02
  <1> DEFINE own == ConfigureFeatures(PINGGY_SESSION_VERSION_1_02)
             old(v) == [version |-> v, on |-> {"primaryForwardingMode"}]
             all == {own} \cup {old(v) : v \in ServerVersions}
             n == session[e]
  <1>1. PINGGY_SESSION_VERSION_1_02 \in Nat /\ ServerVersions \subseteq Nat
    BY SessionAssumption DEF PINGGY_SESSION_VERSION_1_02
  <1>2. own \in Features /\ own.version = PINGGY_SESSION_VERSION_1_02
    <2>1. own \in Features
      BY <1>1, ConfiguredFeatures
    <2> QED
      BY <2>1 DEF ConfigureFeatures, Known
  <1>3. \A v \in ServerVersions : old(v) \in Features
    BY <1>1 DEF Features
  <1>4. session["client"].features = own
    BY DEF Init
  <1> HIDE DEF own, old
  <1>5. all \subseteq Features
    BY <1>2, <1>3
  <1>6. n \in [state : {"Init"}, features : all, sendQueue : {<<>>}, endSent : {FALSE},
               tm : {FALSE}, lastReqId : {3}, requests : {{}}, tick : {0}, calls : {0},
               released : {FALSE}]
    BY DEF Init, own, old
  <1> HIDE DEF all
  <1>7. /\ n.state = "Init" /\ n.sendQueue = <<>> /\ ~n.endSent /\ ~n.tm
        /\ ~n.released /\ n.lastReqId = 3 /\ n.requests = {}
        /\ n.tick = 0 /\ n.calls = 0
    BY <1>6
  <1>8. n \in SessionRecords(e)
    <2>1. <<>> \in Seq(Sendable(e)) /\ "Init" \in States
      BY DEF States
    <2> DEFINE none == <<>>
               empty == {}
    <2>2. none \in Seq(Sendable(e)) /\ empty \in SUBSET Nat /\ 3 \in Nat /\ 0 \in Nat
      BY <2>1
    <2>3. n \in [state : {"Init"}, features : all, sendQueue : {none}, endSent : {FALSE},
                 tm : {FALSE}, lastReqId : {3}, requests : {empty}, tick : {0}, calls : {0},
                 released : {FALSE}]
      BY <1>6
    <2> HIDE DEF none, empty, n
    <2> QED
      BY <1>5, <2>1, <2>2, <2>3 DEF SessionRecords
  <1>9. e = "client" => n.features.version = PINGGY_SESSION_VERSION_1_02
    BY <1>2, <1>4
  <1>10. HelloOf(e, n.features.version) \in HellosOf(e)
    <2>1. CASE e = "client"
      BY <1>9, <2>1 DEF HellosOf
    <2>2. CASE e # "client"
      <3>1. e = "server"
        BY <2>2 DEF Ends
      <3>2. n.features.version \in ServerVersions
        BY <3>1 DEF Init
      <3> HIDE DEF n
      <3> QED
        BY <2>2, <3>2 DEF HellosOf
    <2> QED
      BY <2>1, <2>2
  <1> QED
    BY <1>7, <1>8, <1>9, <1>10

\* The invariant at the start,
LEMMA FlowInit ==
  ASSUME Init
  PROVE  FlowInv
  <1> DEFINE none == <<>>
             new == NewTransportManager
             from == Position("signature", 0, none, none)
  <1>1. Shape
    BY DEF Init, Shape
  <1>2. /\ lost = FALSE /\ crashed = FALSE /\ aborted = FALSE
        /\ \A e \in Ends : /\ transport[e] = new /\ wire[e] = none
                           /\ accepted[e] = none /\ delivered[e] = none
    BY DEF Init
  <1>3. /\ none \in Data /\ none \in Seq(Messages) /\ Len(none) = 0 /\ none \o none = none
        /\ \A e \in Ends : none \in Seq(Sendable(e))
    <2>1. none \in Seq(Messages) /\ \A e \in Ends : none \in Seq(Sendable(e))
      OBVIOUS
    <2>2. none \o none = none
      <3>1. none \in Seq(Messages)
        BY <2>1
      <3> HIDE DEF none
      <3> QED
        BY <3>1, ConcatMessages DEF none
    <2> QED
      BY <2>1, <2>2, NothingIsData
  <1>4. /\ new \in Transports /\ new.open /\ ~new.endTransport /\ new.senderQueue = none
        /\ \A e \in Ends : RegistryOK(e, new)
        /\ WritePosition(new, none) = from
        /\ Reads(new, none, from)
        /\ new.recvRaw = none /\ Len(new.recvRaw) < new.expectedLen
    BY NewTransport
  <1>5. from \in Positions
    BY <1>4 DEF Reads
  <1>6. Made(none, none) /\ Leads(from, none, from)
    BY <1>5, MadeOfNothing, LeadsNowhere
  <1>7. ~HasDisconnect(none) /\ OnlyLast(none) /\ NoneEmpty(none)
    BY <1>3 DEF HasDisconnect, OnlyLast, NoneEmpty
  <1> HIDE DEF none, new, from
  <1>8. ASSUME NEW e \in Ends PROVE EndInv(e)
    <2> DEFINE x == At(e)
    <2>1. /\ x.n = session[e] /\ x.t = new /\ x.wire = none /\ x.accepted = none
          /\ x.crashed = FALSE
          /\ x = [n |-> session[e], t |-> new, wire |-> none, accepted |-> none, crashed |-> FALSE]
      BY <1>2, PeerFacts DEF At
    <2>2. /\ session[e] \in SessionRecords(e) /\ session[e].state = "Init"
          /\ session[e].sendQueue = none /\ ~session[e].endSent /\ ~session[e].tm
          /\ ~session[e].released /\ session[e].lastReqId = 3 /\ session[e].requests = {}
          /\ session[e].tick = 0 /\ session[e].calls = 0
          /\ HelloOf(e, session[e].features.version) \in HellosOf(e)
      BY InitialSessions DEF none
    <2> HIDE DEF x
    <2>3. x \in EndRecords(e)
      BY <1>3, <1>4, <2>1, <2>2 DEF EndRecords
    <2>4. SenderOK(Sender(x))
      BY <1>3, <1>4, <1>7, <2>1, TransportAssumption DEF SenderOK, Sender
    <2>5. EndOK(e, x)
      BY <1>4, <1>7, <2>1, <2>2, <2>3, <2>4 DEF EndOK, EndBase
    <2>6. Fresh(e)
      BY <1>2, <2>2 DEF Fresh, new, none
    <2>7. Counted(session[e])
      <3>1. 3 \in 3 .. 3 + 0 /\ 0 \in 0 .. 0
        OBVIOUS
      <3> QED
        BY <2>2, <3>1 DEF Counted
    <2>8. delivered[e] \in Seq(Messages) /\ Len(transport[e].recvRaw) < transport[e].expectedLen
      BY <1>2, <1>3, <1>4
    <2> QED
      BY <2>2, <2>5, <2>6, <2>7, <2>8 DEF EndInv, x
  <1>9. ASSUME NEW e \in Ends PROVE OrderInv(e) /\ LinkInv(e)
    <2>1. Peer(e) \in Ends
      BY PeerFacts
    <2>2. OrderInv(e)
      BY <1>2, <1>3, <2>1 DEF OrderInv
    <2> DEFINE x == At(e)
    <2>3. x.n = session[e] /\ x.t = new /\ x.wire = none /\ x.accepted = none
          /\ session[e].sendQueue = none
      BY <1>2, <2>1, AtFields, InitialSessions DEF none
    <2> HIDE DEF x
    <2>4. Linked(none, from, Sender(x), WritePosition(x.t, none))
      BY <1>3, <1>4, <1>6, <2>3 DEF Linked, Sender
    <2>5. OutOK(x, none, from)
      BY <1>3, <2>3, <2>4 DEF OutOK
    <2>6. LinkInv(e)
      BY <1>2, <1>4, <1>5, <2>1, <2>5 DEF LinkInv, x
    <2> QED
      BY <2>2, <2>6
  <1> QED
    BY <1>1, <1>2, <1>8, <1>9 DEF FlowInv

\* and when the network fails: what was on its way is gone, and so is LinkInv.
LEMMA LossKeeps ==
  ASSUME FlowInv, LoseConnection
  PROVE  FlowInv'
  <1> DEFINE none == <<>>
  <1>1. /\ lost' = TRUE /\ wire' = [e \in Ends |-> none]
        /\ session' = session /\ transport' = transport /\ accepted' = accepted
        /\ delivered' = delivered /\ aborted' = aborted /\ crashed' = crashed
    BY DEF LoseConnection
  <1>2. none \in Data /\ Len(none) = 0 /\ Capacity \in Nat
    BY NothingIsData, TransportAssumption
  <1>3. Shape'
    BY <1>1 DEF FlowInv, Shape
  <1>4. \A e \in Ends : wire'[e] = none
    BY <1>1
  <1> HIDE DEF none
  <1>5. ASSUME NEW e \in Ends PROVE EndInv(e)' /\ OrderInv(e)'
    <2> DEFINE x == At(e)
               y == [x EXCEPT !.wire = none]
    <2>1. EndInv(e) /\ OrderInv(e) /\ x \in EndRecords(e) /\ EndOK(e, x)
      BY AtWork DEF FlowInv
    <2>2. At(e)' = y
      <3>1. At(e)' = [n |-> session[e], t |-> transport[e], wire |-> none,
                      accepted |-> accepted[e], crashed |-> crashed]
        BY <1>1, <1>4, PeerFacts DEF At
      <3> QED
        BY <3>1 DEF At
    <2> HIDE DEF x
    <2>3. /\ y.t = x.t /\ y.n = x.n /\ y.wire = none /\ y.accepted = x.accepted
          /\ y.crashed = x.crashed /\ y \in EndRecords(e)
      BY <1>2, <2>1 DEF EndRecords
    <2> HIDE DEF y
    <2>4. SenderOK(Sender(y))
      BY <1>2, <2>1, <2>3 DEF SenderOK, Sender, EndOK, EndBase
    <2>5. EndOK(e, y)
      BY <2>1, <2>3, <2>4 DEF EndOK, EndBase
    <2>6. Fresh(e) => Fresh(e)'
      BY <1>1 DEF Fresh
    <2>7. EndInv(e)'
      BY <1>1, <2>1, <2>2, <2>5, <2>6 DEF EndInv, Counted
    <2>8. OrderInv(e)'
      BY <1>1, <2>1 DEF OrderInv
    <2> QED
      BY <2>7, <2>8
  <1> QED
    BY <1>1, <1>3, <1>4, <1>5 DEF FlowInv, none

\* Every step reads, loses the connection or is one of the others.
LEMMA NextCases ==
  ASSUME FlowInv, Next
  PROVE  \/ \E e \in Ends : HandleFDRead(e)
         \/ LoseConnection
         \/ \E e \in Ends : \E k, messages, y : Does(e, k, messages, y)
  <1>1. "client" \in Ends /\ "server" \in Ends
    BY DEF Ends
  <1>2. ASSUME NEW e \in Ends, Start(e) PROVE \E k, messages, y : Does(e, k, messages, y)
    BY <1>2, StartStep
  <1>3. ASSUME NEW e \in Ends, End(e) PROVE \E k, messages, y : Does(e, k, messages, y)
    BY <1>3, EndStep
  <1>4. ASSUME NEW e \in Ends, ReadEnd(e) PROVE \E k, messages, y : Does(e, k, messages, y)
    BY <1>4, ReadEndStep
  <1>5. ASSUME NEW e \in Ends, HandleFDWrite(e) PROVE \E k, messages, y : Does(e, k, messages, y)
    BY <1>5, WriteStep
  <1>6. CASE SendRemoteForwardRequest
    BY <1>1, <1>6, RequestStep
  <1>7. CASE SendKeepAlive
    BY <1>1, <1>7, KeepAliveStep
  <1>8. CASE Cleanup
    BY <1>1, <1>8, CleanupStep
  <1>9. ASSUME NEW type \in Notices, SendNotice(type)
        PROVE  \E k, messages, y : Does("server", k, messages, y)
    BY <1>9, NoticeStep
  <1>10. ASSUME NEW success \in BOOLEAN, AnswerAuthentication(success)
         PROVE  \E k, messages, y : Does("server", k, messages, y)
    BY <1>10, AnswerStep
  <1>11. ASSUME NEW id \in session["server"].requests, AnswerForwardRequest(id)
         PROVE  \E k, messages, y : Does("server", k, messages, y)
    BY <1>11, ReplyStep
  <1> QED
    BY <1>1, <1>2, <1>3, <1>4, <1>5, <1>6, <1>7, <1>8, <1>9, <1>10, <1>11 DEF Next

\* The invariant is inductive.
LEMMA FlowNext ==
  ASSUME FlowInv, [Next]_vars
  PROVE  FlowInv'
  <1>1. CASE Next
    <2>1. ASSUME NEW e \in Ends, HandleFDRead(e) PROVE FlowInv'
      BY <2>1, ReadStep
    <2>2. CASE LoseConnection
      BY <2>2, LossKeeps
    <2>3. ASSUME NEW e \in Ends, NEW k, NEW messages, NEW y, Does(e, k, messages, y)
          PROVE  FlowInv'
      BY <2>3, DoesKeeps
    <2> QED
      BY <1>1, <2>1, <2>2, <2>3, NextCases
  <1>2. CASE UNCHANGED vars
    <2>1. /\ session' = session /\ transport' = transport /\ wire' = wire /\ lost' = lost
          /\ accepted' = accepted /\ delivered' = delivered /\ aborted' = aborted
          /\ crashed' = crashed
      BY <1>2 DEF vars
    <2>2. \A e : At(e)' = At(e) /\ (Fresh(e)' <=> Fresh(e))
      BY <2>1 DEF At, Fresh
    <2>3. Shape'
      BY <2>1 DEF FlowInv, Shape
    <2>4. \A e \in Ends : EndInv(e)' /\ OrderInv(e)'
      BY <2>1, <2>2 DEF FlowInv, EndInv, OrderInv, Counted
    <2>5. ~lost' => \A e \in Ends : LinkInv(e)'
      BY <2>1, <2>2 DEF FlowInv, LinkInv
    <2> QED
      BY <2>1, <2>3, <2>4, <2>5 DEF FlowInv
  <1> QED
    BY <1>1, <1>2

\* What is between two ends: the reader is in step with the stream that the writer has
\* made, however writes were partial and reads were cut, and what it has not read yet
\* holds the messages that are accepted and not handled, in their order.
THEOREM StreamsInStep == Spec => []FlowInv
  <1>1. Init => FlowInv
    BY FlowInit
  <1>2. FlowInv /\ [Next]_vars => FlowInv'
    BY FlowNext
  <1> QED
    BY <1>1, <1>2, PTL DEF Spec

\* Every variable has its type, what is written never exceeds the sockets, no entry of a
\* sender queue is empty and no whole piece stays in recvRaw.
THEOREM SessionTypes == Spec => []SessionTypeOK
  <1>1. ASSUME FlowInv PROVE SessionTypeOK
    <2>1. ASSUME NEW e \in Ends
          PROVE  /\ session[e].state \in States
                 /\ {session[e].endSent, session[e].tm, session[e].released} \subseteq BOOLEAN
                 /\ Len(wire[e]) <= Capacity
                 /\ \A i \in DOMAIN transport[e].senderQueue : transport[e].senderQueue[i] # <<>>
                 /\ Len(transport[e].recvRaw) < transport[e].expectedLen
                 /\ \A i \in DOMAIN accepted[e] : accepted[e][i].type \in MsgTypes
      <3> DEFINE p == Peer(e)
                 q == transport[e].senderQueue
                 s == accepted[e]
      <3>1. p \in Ends /\ Peer(p) = e
        BY PeerFacts
      <3>2. EndInv(e) /\ EndOK(e, At(e)) /\ EndOK(p, At(p)) /\ session[e] \in SessionRecords(e)
            /\ transport[e] \in Transports /\ At(e).t = transport[e] /\ At(p).wire = wire[e]
            /\ At(e).accepted = s /\ At(e) \in EndRecords(e)
        BY <1>1, <3>1, AtWork, AtFields DEF FlowInv
      <3>3. Len(wire[e]) <= Capacity
        BY <3>2 DEF EndOK, EndBase, SenderOK, Sender
      <3>4. NoneEmpty(q) /\ q \in Seq(Data)
        BY <3>2 DEF EndOK, EndBase, SenderOK, Sender, Transports
      <3>5. s \in Seq(Messages)
        BY <3>2, SendableMessages DEF EndRecords
      <3> HIDE DEF p, q, s
      <3>6. \A i \in DOMAIN q : q[i] # <<>>
        BY <3>4 DEF NoneEmpty
      <3>7. \A i \in DOMAIN s : s[i].type \in MsgTypes
        <4>1. \A i \in DOMAIN s : s[i] \in Messages
          BY <3>5
        <4> QED
          BY <4>1, MessageFacts
      <3>8. {session[e].endSent, session[e].tm, session[e].released} \subseteq BOOLEAN
            /\ session[e].state \in States
        BY <3>2 DEF SessionRecords
      <3> QED
        BY <3>2, <3>3, <3>6, <3>7, <3>8 DEF EndInv, q, s
    <2> QED
      BY <1>1, <2>1 DEF SessionTypeOK, FlowInv, Shape
  <1> QED
    BY <1>1, StreamsInStep, PTL

\* EndTransport flushes: a peer that has read a gracefully closed connection to its end
\* has handled everything that was accepted, Disconnect included.
THEOREM EndTransportFlushes == Spec => []EndFlushes
  <1>1. ASSUME FlowInv PROVE EndFlushes
    <2>1. SUFFICES ASSUME NEW e \in Ends, EndedGracefully(e), ~lost, wire[Peer(e)] = <<>>
                   PROVE  delivered[Peer(e)] = accepted[e]
      BY DEF EndFlushes
    <2> DEFINE p == Peer(e)
               x == At(e)
               pre == transport[p].recvRaw
               none == <<>>
    <2>2. p \in Ends
      BY PeerFacts
    <2>3. /\ EndOK(e, x) /\ x.t = transport[e] /\ x.n = session[e] /\ x.accepted = accepted[e]
          /\ x.wire = none
      BY <1>1, <2>1, AtWork, AtFields
    <2>4. x.n.sendQueue = none /\ x.t.senderQueue = none
      BY <2>1, <2>3 DEF EndOK, EndedGracefully
    <2>5. transport[p] \in Transports /\ pre \in Data
      BY <1>1, <2>2, AtWork DEF Transports
    <2> HIDE DEF x, none
    <2>6. PICK from \in Positions : Reads(transport[p], delivered[p], from) /\ OutOK(x, pre, from)
      BY <1>1, <2>1 DEF FlowInv, LinkInv, x
    <2>7. PICK M \in Seq(Messages) : /\ x.accepted = M \o x.n.sendQueue
                                     /\ Linked(pre, from, Sender(x), WritePosition(x.t, M))
      BY <2>6 DEF OutOK
    <2> DEFINE to == WritePosition(x.t, M)
    <2>8. PICK u \in Data : Made(u, x.t.senderQueue) /\ Leads(from, pre \o (x.wire \o u), to)
      BY <2>7 DEF Linked, Sender
    <2>9. u = none
      BY <2>4, <2>8, MadeEmpty DEF none
    <2>10. none \o none = none /\ pre \o none = pre
      BY <2>5, NothingIsData, DataAndNothing DEF none
    <2>11. to.messages = M
      BY DEF WritePosition, Position
    <2> HIDE DEF p, pre, to
    <2>12. Leads(from, pre, to)
      BY <2>3, <2>8, <2>9, <2>10
    <2>13. from = to
      <3>1. ASSUME NEW d \in Data, NEW v \in Data, NEW next \in Positions,
                   pre = d \o v, Piece(from, d, next)
            PROVE  FALSE
        <4>1. Len(pre) < Len(d)
          <5>1. Len(pre) < IF from.stage = "body" THEN from.length ELSE 2
            BY <2>6 DEF Reads, pre
          <5>2. CASE from.stage = "signature"
            BY <3>1, <5>1, <5>2, SignatureFacts DEF Piece
          <5>3. CASE from.stage = "header"
            <6>1. PICK i \in 1 .. Base - 1 : d = LengthUnits(i)
              BY <3>1, <5>3 DEF Piece
            <6>2. Base \in Nat
              BY TransportAssumption DEF Base
            <6>3. i \in Nat /\ i < Base
              BY <6>2
            <6>4. Len(d) = 2
              BY <6>1, <6>3, LengthReads
            <6> QED
              BY <5>1, <5>3, <6>4
          <5>4. CASE from.stage = "body"
            BY <3>1, <5>1, <5>4 DEF Piece
          <5>5. from.stage \in {"signature", "header", "body"}
            BY DEF Positions
          <5> QED
            BY <5>2, <5>3, <5>4, <5>5
        <4>2. Len(pre) = Len(d) + Len(v)
          BY <3>1, ConcatData
        <4>3. Len(d) \in Nat /\ Len(v) \in Nat
          BY LenProperties DEF Data
        <4> QED
          BY <4>1, <4>2, <4>3
      <3> QED
        BY <2>12, <3>1, LeadsFirst
    <2>14. M = delivered[p]
      BY <2>6, <2>11, <2>13 DEF Reads
    <2>15. M \o none = M
      BY ConcatMessages DEF none
    <2> QED
      BY <2>3, <2>4, <2>7, <2>14, <2>15 DEF p
  <1> QED
    BY <1>1, StreamsInStep, PTL

\* A null transportManager is called only when the network has failed, by Start, by an
\* end that sends Disconnect, or with two messages or more in the queue.
THEOREM CrashOnlyInWindow == Spec => CrashWindow
  <1> DEFINE Window == crashed' # crashed =>
               /\ lost
               /\ \E e \in Ends : \/ session[e].state = "Init"
                                  \/ session'[e].endSent
                                  \/ Len(session[e].sendQueue) >= 2
  <1>1. ASSUME FlowInv, [Next]_vars PROVE [Window]_vars
    <2>1. CASE Next
      <3>1. ASSUME NEW e \in Ends, HandleFDRead(e) PROVE Window
        BY <1>1, <3>1, ReadStep
      <3>2. CASE LoseConnection
        BY <3>2 DEF LoseConnection
      <3>3. ASSUME NEW e \in Ends, NEW k, NEW messages, NEW y, Does(e, k, messages, y)
            PROVE  Window
        <4>1. Effect(e, At(e), y) /\ Put(e, y)
          BY <3>3 DEF Does
        <4>2. y \in EndRecords(e)
          BY <4>1, EndFacts DEF Effect
        <4>3. session'[e] = y.n /\ crashed' = y.crashed
          BY <1>1, <4>1, <4>2, PutFacts DEF FlowInv
        <4>4. At(e).n = session[e] /\ At(e).crashed = crashed
          BY AtFields
        <4> QED
          BY <4>1, <4>3, <4>4 DEF Effect
      <3> QED
        BY <1>1, <2>1, <3>1, <3>2, <3>3, NextCases
    <2>2. CASE UNCHANGED vars
      BY <2>2 DEF vars
    <2> QED
      BY <1>1, <2>1, <2>2
  <1>2. Spec => [][Window]_vars
    BY <1>1, StreamsInStep, PTL DEF Spec
  <1> QED
    BY <1>2 DEF CrashWindow

-----------------------------------------------------------------------------
(* The session implements the pipe of messages.                            *)

\* A sequence with one more element.
LEMMA OneMore ==
  ASSUME NEW T, NEW s \in Seq(T), NEW m \in T
  PROVE  /\ Len(Append(s, m)) = Len(s) + 1 /\ IsPrefix(s, Append(s, m))
         /\ Append(s, m)[Len(s) + 1] = m
  <1> DEFINE a == Append(s, m)
  <1>1. a \in Seq(T) /\ Len(a) = Len(s) + 1 /\ Len(s) \in Nat
        /\ (\A i \in 1 .. Len(s) : a[i] = s[i]) /\ a[Len(s) + 1] = m
    BY AppendProperties, LenProperties
  <1> HIDE DEF a
  <1>2. SubSeq(a, 1, Len(s)) = s
    <2> DEFINE b == SubSeq(a, 1, Len(s))
    <2>1. b \in Seq(T) /\ Len(b) = Len(s) /\ \A i \in 1 .. Len(s) : b[i] = s[i]
      BY <1>1
    <2> HIDE DEF b
    <2>2. b = s
      BY <1>1, <2>1, SeqEqual
    <2> QED
      BY <2>2 DEF b
  <1>3. SubSeq(s, 1, Len(s)) = s
    BY SubSeqFull
  <1>4. IsPrefix(s, a)
    BY <1>1, <1>2, <1>3 DEF IsPrefix
  <1> QED
    BY <1>1, <1>4 DEF a

Closing == {e \in Ends : ~transport[e].open}

\* An effect accepts at most one message, and none after Disconnect.
LEMMA PipeAccepts ==
  ASSUME FlowInv, NEW e \in Ends, NEW x, NEW y, Effect(e, x, y), x.accepted = accepted[e],
         accepted' = [accepted EXCEPT ![e] = y.accepted]
  PROVE  Pipe!MayAccept(e)
  <1>1. Shape /\ accepted[e] \in Seq(Sendable(e))
    BY AtWork DEF FlowInv, EndRecords
  <1>2. CASE y.accepted = x.accepted
    BY <1>1, <1>2 DEF Shape, Pipe!MayAccept
  <1>3. ASSUME NEW m \in Sendable(e), ~HasDisconnect(x.accepted), y.accepted = Append(x.accepted, m)
        PROVE  Pipe!MayAccept(e)
    <2> DEFINE s == accepted[e]
    <2>1. accepted'[e] = Append(s, m) /\ accepted' = [accepted EXCEPT ![e] = accepted'[e]]
      BY <1>1, <1>3 DEF Shape
    <2>2. Len(Append(s, m)) = Len(s) + 1 /\ IsPrefix(s, Append(s, m))
      BY <1>1, OneMore
    <2>3. ~Pipe!Ended(e)
      BY <1>1, <1>3 DEF Pipe!Ended, HasDisconnect
    <2> QED
      BY <2>1, <2>2, <2>3 DEF Pipe!MayAccept, Pipe!IsPrefix, IsPrefix
  <1> QED
    BY <1>2, <1>3 DEF Effect

\* A step closes at most its own end.
LEMMA PipeCloses ==
  ASSUME NEW e \in Ends, transport[e].open, transport'[Peer(e)] = transport[Peer(e)]
  PROVE  e \notin Closing /\ Closing' \in {Closing, Closing \cup {e}}
  BY PeerFacts DEF Closing

\* Every step of a session is a step of the pipe.
LEMMA PipeNext ==
  ASSUME FlowInv, [Next]_vars
  PROVE  [Pipe!Next]_(Pipe!vars)
  <1>1. ASSUME NEW e \in Ends, HandleFDRead(e) PROVE Pipe!Work(e)
    <2>1. /\ transport[e].open /\ transport'[Peer(e)] = transport[Peer(e)]
          /\ NoMessage(e) \/ \E m, x, y : Handles(e, m, x, y)
      BY <1>1, ReadStep
    <2>2. e \notin Closing /\ Closing' \in {Closing, Closing \cup {e}}
      BY <2>1, PipeCloses
    <2>3. CASE NoMessage(e)
      BY <2>2, <2>3 DEF NoMessage, Pipe!Work, Pipe!MayAccept, Pipe!MayDeliver, Closing
    <2>4. ASSUME NEW m, NEW x, NEW y, Handles(e, m, x, y) PROVE Pipe!Work(e)
      <3>1. Pipe!MayAccept(e)
        BY <2>4, PipeAccepts DEF Handles
      <3>2. Pipe!MayDeliver(e)
        BY <2>4 DEF Handles, Pipe!MayDeliver
      <3> QED
        BY <2>2, <3>1, <3>2 DEF Pipe!Work, Closing
    <2> QED
      BY <2>1, <2>3, <2>4
  <1>2. ASSUME NEW e \in Ends, NEW k, NEW messages, NEW y, Does(e, k, messages, y)
        PROVE  Pipe!Work(e)
    <2>1. Effect(e, At(e), y) /\ Put(e, y)
      BY <1>2 DEF Does
    <2>2. y \in EndRecords(e) /\ At(e).t.open /\ At(e).t = transport[e]
          /\ At(e).accepted = accepted[e]
      BY <2>1, EndFacts, AtFields DEF Effect
    <2>3. transport'[Peer(e)] = transport[Peer(e)] /\ delivered' = delivered
          /\ accepted' = [accepted EXCEPT ![e] = y.accepted]
      BY <2>1, <2>2, PutFacts DEF FlowInv, Put
    <2>4. e \notin Closing /\ Closing' \in {Closing, Closing \cup {e}}
      BY <2>2, <2>3, PipeCloses
    <2>5. Pipe!MayAccept(e)
      BY <2>1, <2>2, <2>3, PipeAccepts
    <2>6. Pipe!MayDeliver(e)
      BY <2>3 DEF Pipe!MayDeliver
    <2> QED
      BY <2>4, <2>5, <2>6 DEF Pipe!Work, Closing
  <1>3. CASE LoseConnection \/ UNCHANGED vars
    <2>1. accepted' = accepted /\ delivered' = delivered /\ transport' = transport
      BY <1>3 DEF LoseConnection, vars
    <2> QED
      BY <2>1 DEF Pipe!vars
  <1> QED
    BY <1>1, <1>2, <1>3, NextCases DEF Pipe!Next

\* The session implements its abstraction: messages arrive in order, once and unchanged,
\* Disconnect is the last one, and an end that has closed takes no part any more.
THEOREM SessionIsPipe == Spec => ImplementsMessagePipe
  <1>1. Init => Pipe!Init
    <2>1. SUFFICES ASSUME Init PROVE Pipe!Init
      OBVIOUS
    <2>2. \A e \in Ends : transport[e].open
      BY <2>1, NewTransport DEF Init
    <2> QED
      BY <2>1, <2>2 DEF Init, Pipe!Init
  <1>2. FlowInv /\ [Next]_vars => [Pipe!Next]_(Pipe!vars)
    BY PipeNext
  <1> QED
    BY <1>1, <1>2, StreamsInStep, PTL DEF Spec, ImplementsMessagePipe, Pipe!Spec

-----------------------------------------------------------------------------
(* The order of the conversation.                                          *)

\* What an end has accepted, and what it has handled.
Told(e) == ToSet(accepted[e])
Heard(e) == ToSet(delivered[e])
Has(S, type) == \E m \in S : m.type = type

\* Two messages of which an end sends only one.
Alike(a, b) ==
  /\ a.type = b.type
  /\ \/ a.type \in Hellos \cup {"Authenticate", "AuthenticationResponse"}
     \/ a.type \in {"RemoteForwardRequest", "RemoteForwardResponse"} /\ a.arg = b.arg
Once(q) == \A i, j \in 1 .. Len(q) : Alike(q[i], q[j]) => i = j

\* A session sends its hello first, unless its Start has crashed.
GreetInv(e) ==
  /\ Once(accepted[e])
  /\ accepted[e] # <<>> => accepted[e][1].type \in Hellos
  /\ session[e].state # "Init" /\ accepted[e] = <<>> => crashed

Outset == {"Init", "ClientHelloSent"}

\* The client: what its state says of what it has heard, and what it has told of its state.
ClientInv ==
  LET n == session["client"]
      told == Told("client")
      heard == Heard("client")
  IN  /\ n.state \in Outset \cup {"AuthenticationRequestSent", "AuthenticatedAsClient",
                                  "AuthenticationFailed"}
      /\ heard = {} => n.state \in Outset /\ n.features.version = PINGGY_SESSION_VERSION_1_02
      /\ n.state \notin Outset =>
           /\ Has(heard, "ServerHello")
           /\ n.features = ConfigureFeatures(PINGGY_SESSION_VERSION_1_02)
           /\ \A m \in heard : m.type = "ServerHello" => m.arg >= PINGGY_SESSION_VERSION_1_02
      /\ n.state \in {"AuthenticatedAsClient", "AuthenticationFailed"} =>
           Has(heard, "AuthenticationResponse")
      /\ n.state = "AuthenticatedAsClient" => Msg("AuthenticationResponse", 1) \in heard
      /\ Has(told, "Authenticate") => n.state \notin Outset
      /\ \A m \in told : m.type = "RemoteForwardRequest" =>
           /\ n.state = "AuthenticatedAsClient" /\ m.arg <= n.lastReqId
           /\ m.arg \in n.requests \/ Msg("RemoteForwardResponse", m.arg) \in heard

\* The server: likewise, and its features are its own until it hears the version of the
\* client.
ServerInv ==
  LET n == session["server"]
      told == Told("server")
      heard == Heard("server")
  IN  /\ n.state \in {"Init", "ServerHelloSent", "AuthenticationRequestRecved",
                      "AuthenticatedAsServer"}
      /\ n.state \in {"Init", "ServerHelloSent"} <=> ~Has(heard, "Authenticate")
      /\ Has(told, "AuthenticationResponse") => Has(heard, "Authenticate")
      /\ Msg("AuthenticationResponse", 1) \in told => n.state = "AuthenticatedAsServer"
      /\ \A m \in told : m.type = "RemoteForwardResponse" =>
           Msg("RemoteForwardRequest", m.arg) \in heard /\ m.arg \notin n.requests
      /\ \A id \in n.requests : Msg("RemoteForwardRequest", id) \in heard
      /\ \A m \in told : m.type = "ServerHello" =>
           IF heard = {} THEN n.features.version = m.arg
           ELSE n.features = NegotiateVersion(m.arg, PINGGY_SESSION_VERSION_1_02)

ProtocolInv == ClientInv /\ ServerInv /\ \A e \in Ends : GreetInv(e)

\* One message more.
LEMMA OneToldMore ==
  ASSUME NEW T, NEW q \in Seq(T), NEW m \in T
  PROVE  /\ ToSet(Append(q, m)) = ToSet(q) \cup {m}
         /\ Once(q) /\ (\A k \in ToSet(q) : ~Alike(k, m)) => Once(Append(q, m))
  <1> DEFINE r == Append(q, m)
  <1>1. /\ r \in Seq(T) /\ Len(r) = Len(q) + 1 /\ Len(q) \in Nat /\ r[Len(q) + 1] = m
        /\ \A i \in 1 .. Len(q) : r[i] = q[i]
    OBVIOUS
  <1>2. DOMAIN r = 1 .. Len(q) + 1 /\ DOMAIN q = 1 .. Len(q)
    BY <1>1
  <1> HIDE DEF r
  <1>3. ToSet(r) = ToSet(q) \cup {m}
    BY <1>1, <1>2 DEF ToSet
  <1>4. ASSUME Once(q), \A k \in ToSet(q) : ~Alike(k, m) PROVE Once(r)
    <2>1. \A i \in 1 .. Len(q) : ~Alike(q[i], m)
      BY <1>2, <1>4 DEF ToSet
    <2>2. \A i \in 1 .. Len(q) : ~Alike(m, q[i])
      BY <2>1 DEF Alike
    <2>3. \A i, j \in 1 .. Len(q) : Alike(q[i], q[j]) => i = j
      BY <1>4 DEF Once
    <2>4. ASSUME NEW i \in 1 .. Len(r), NEW j \in 1 .. Len(r), Alike(r[i], r[j]) PROVE i = j
      <3>1. CASE i \in 1 .. Len(q) /\ j \in 1 .. Len(q)
        BY <1>1, <2>3, <2>4, <3>1
      <3>2. CASE i \in 1 .. Len(q) /\ j = Len(q) + 1
        BY <1>1, <2>1, <2>4, <3>2
      <3>3. CASE i = Len(q) + 1 /\ j \in 1 .. Len(q)
        BY <1>1, <2>2, <2>4, <3>3
      <3> QED
        BY <1>1, <3>1, <3>2, <3>3
    <2> QED
      BY <2>4 DEF Once
  <1> QED
    BY <1>3, <1>4 DEF r

\* What an end has heard its peer has told.
LEMMA HeardIsTold ==
  ASSUME FlowInv, NEW e \in Ends
  PROVE  /\ accepted[e] \in Seq(Sendable(e)) /\ delivered[e] \in Seq(Messages)
         /\ Len(delivered[e]) <= Len(accepted[Peer(e)])
         /\ \A i \in 1 .. Len(delivered[e]) : delivered[e][i] = accepted[Peer(e)][i]
         /\ Heard(e) \subseteq Told(Peer(e)) /\ Told(e) \subseteq Sendable(e)
         /\ session[e] \in SessionRecords(e)
  <1> DEFINE a == accepted[Peer(e)]
             b == accepted[e]
             d == delivered[e]
  <1>1. Peer(e) \in Ends /\ Peer(Peer(e)) = e
    BY PeerFacts
  <1>2. b \in Seq(Sendable(e)) /\ a \in Seq(Sendable(Peer(e))) /\ session[e] \in SessionRecords(e)
    BY <1>1, AtWork DEF EndRecords
  <1>3. d \in Seq(Messages) /\ \E more \in Seq(Messages) : a = d \o more
    BY <1>1 DEF FlowInv, EndInv, OrderInv
  <1> HIDE DEF a, b, d
  <1>4. Len(d) <= Len(a) /\ \A i \in 1 .. Len(d) : d[i] = a[i]
    BY <1>3
  <1>5. DOMAIN d = 1 .. Len(d) /\ DOMAIN a = 1 .. Len(a) /\ DOMAIN b = 1 .. Len(b)
        /\ Len(a) \in Nat /\ Len(d) \in Nat
    BY <1>2, <1>3
  <1>6. ToSet(d) \subseteq ToSet(a)
    BY <1>4, <1>5 DEF ToSet
  <1>7. ToSet(b) \subseteq Sendable(e)
    BY <1>2, <1>5 DEF ToSet
  <1> QED
    BY <1>2, <1>3, <1>4, <1>6, <1>7 DEF a, b, d, Told, Heard

\* The next message is none of those that are sent only once and have been heard.
LEMMA NextIsNew ==
  ASSUME FlowInv, NEW e \in Ends, GreetInv(Peer(e)), NEW m \in Sendable(Peer(e)),
         Len(delivered[e]) < Len(accepted[Peer(e)]),
         m = accepted[Peer(e)][Len(delivered[e]) + 1]
  PROVE  /\ m \in Told(Peer(e)) /\ \A k \in Heard(e) : ~Alike(k, m)
         /\ \A k \in Told(Peer(e)) : Alike(k, m) => k = m
         /\ m.type \in Hellos <=> Heard(e) = {}
  <1> DEFINE p == Peer(e)
             a == accepted[p]
             d == delivered[e]
             n == Len(d) + 1
  <1>1. p \in Ends
    BY PeerFacts
  <1>2. /\ a \in Seq(Sendable(p)) /\ d \in Seq(Messages)
        /\ \A i \in 1 .. Len(d) : d[i] = a[i]
        /\ Len(d) < Len(a) /\ m = a[n]
    BY <1>1, HeardIsTold
  <1>3. Once(a) /\ (a # <<>> => a[1].type \in Hellos)
    BY DEF GreetInv
  <1> HIDE DEF a, d
  <1>4. /\ DOMAIN d = 1 .. Len(d) /\ DOMAIN a = 1 .. Len(a) /\ Len(a) \in Nat /\ Len(d) \in Nat
        /\ n \in 1 .. Len(a) /\ 1 \in 1 .. Len(a) /\ a # <<>> /\ a[1] \in Sendable(p)
    BY <1>2
  <1>5. m \in ToSet(a)
    BY <1>2, <1>4 DEF ToSet
  <1>6. ASSUME NEW k \in ToSet(d) PROVE ~Alike(k, m)
    <2>1. PICK i \in 1 .. Len(d) : k = d[i]
      BY <1>4 DEF ToSet
    <2>2. i \in 1 .. Len(a) /\ k = a[i] /\ i # n
      BY <1>2, <1>4, <2>1
    <2> QED
      BY <1>2, <1>3, <1>4, <2>2 DEF Once
  <1>7. ASSUME NEW k \in ToSet(a), Alike(k, m) PROVE k = m
    <2>1. PICK i \in 1 .. Len(a) : k = a[i]
      BY <1>4 DEF ToSet
    <2> QED
      BY <1>2, <1>3, <1>4, <1>7, <2>1 DEF Once
  <1>8. ASSUME m.type \in Hellos PROVE n = 1
    <2>1. m.type = a[1].type
      BY <1>1, <1>3, <1>4, <1>8, SendableFacts DEF HelloOf, Msg
    <2>2. Alike(a[1], a[n])
      BY <1>2, <1>8, <2>1 DEF Alike
    <2> QED
      BY <1>3, <1>4, <2>2 DEF Once
  <1>9. n = 1 <=> ToSet(d) = {}
    <2>1. d # <<>> => d[1] \in ToSet(d)
      BY <1>2, <1>4 DEF ToSet
    <2>2. d = <<>> => ToSet(d) = {}
      BY DEF ToSet
    <2> QED
      BY <1>2, <1>4, <2>1, <2>2
  <1> QED
    BY <1>2, <1>3, <1>4, <1>5, <1>6, <1>7, <1>8, <1>9 DEF a, d, p, Told, Heard

\* Both hellos are accepted as long as nothing has crashed.
LEMMA GreetKeeps ==
  ASSUME FlowInv, ~crashed, NEW e \in Ends, GreetInv(e), GreetInv(Peer(e)),
         session[e].state # "Init",
         session'[Peer(e)] = session[Peer(e)], accepted'[Peer(e)] = accepted[Peer(e)],
         \/ accepted'[e] = accepted[e]
         \/ \E m \in Sendable(e) : /\ accepted'[e] = Append(accepted[e], m)
                                   /\ \A k \in Told(e) : ~Alike(k, m)
  PROVE  \A q \in Ends : GreetInv(q)'
  <1> DEFINE p == Peer(e)
             a == accepted[e]
             b == accepted'[e]
  <1>1. Ends = {e, p}
    BY PeerFacts
  <1>2. GreetInv(p)'
    BY DEF GreetInv
  <1>3. a \in Seq(Sendable(e)) /\ a # <<>> /\ a[1].type \in Hellos /\ Once(a)
    BY HeardIsTold DEF GreetInv
  <1>4. b = a \/ \E m \in Sendable(e) : b = Append(a, m) /\ \A k \in ToSet(a) : ~Alike(k, m)
    BY DEF Told
  <1> HIDE DEF a, b
  <1>5. Once(b)
    <2> DEFINE T == Sendable(e)
    <2>1. ASSUME NEW m \in T, \A k \in ToSet(a) : ~Alike(k, m) PROVE Once(Append(a, m))
      <3>1. a \in Seq(T)
        BY <1>3
      <3> HIDE DEF T
      <3> QED
        BY <1>3, <2>1, <3>1, OneToldMore
    <2> QED
      BY <1>3, <1>4, <2>1
  <1>6. b # <<>> /\ b[1] = a[1]
    BY <1>3, <1>4
  <1>7. GreetInv(e)'
    BY <1>3, <1>5, <1>6 DEF GreetInv, b
  <1> QED
    BY <1>1, <1>2, <1>7

\* What a call or a write leaves: one end moves, and no message is heard.
LEMMA DoesFacts ==
  ASSUME FlowInv, NEW e \in Ends, NEW k, NEW messages, NEW y, Does(e, k, messages, y)
  PROVE  /\ SameApplication(k, session'[e]) /\ session'[Peer(e)] = session[Peer(e)]
         /\ accepted'[Peer(e)] = accepted[Peer(e)] /\ accepted'[e] = y.accepted
         /\ crashed' = y.crashed /\ aborted' = aborted
         /\ Heard(e)' = Heard(e) /\ Heard(Peer(e))' = Heard(Peer(e))
         /\ Told(Peer(e))' = Told(Peer(e))
         /\ \/ accepted'[e] = accepted[e] /\ Told(e)' = Told(e)
            \/ \E m \in messages : /\ m \in Sendable(e) /\ accepted'[e] = Append(accepted[e], m)
                                   /\ Told(e)' = Told(e) \cup {m}
  <1>1. y \in EndRecords(e) /\ Shape
    BY EndFacts DEF Does, Effect, FlowInv
  <1>2. /\ session'[e] = y.n /\ session'[Peer(e)] = session[Peer(e)]
        /\ accepted'[e] = y.accepted /\ accepted'[Peer(e)] = accepted[Peer(e)]
        /\ crashed' = y.crashed /\ aborted' = aborted /\ delivered' = delivered
    BY <1>1, PutFacts DEF Does
  <1>3. Heard(e)' = Heard(e) /\ Heard(Peer(e))' = Heard(Peer(e))
        /\ Told(Peer(e))' = Told(Peer(e))
    BY <1>2 DEF Heard, Told
  <1>4. CASE y.accepted = accepted[e]
    <2>1. accepted'[e] = accepted[e]
      BY <1>2, <1>4
    <2>2. Told(e)' = Told(e)
      BY <2>1 DEF Told
    <2> QED
      BY <1>2, <1>3, <2>1, <2>2 DEF Does
  <1>5. ASSUME NEW m \in messages, y.accepted = Append(accepted[e], m)
        PROVE  /\ m \in Sendable(e) /\ accepted'[e] = Append(accepted[e], m)
               /\ Told(e)' = Told(e) \cup {m}
    <2> DEFINE q == accepted[e]
               T == Sendable(e)
               r == Append(q, m)
    <2>1. q \in Seq(T) /\ r \in Seq(T)
      BY <1>1, <1>5, HeardIsTold DEF EndRecords
    <2>2. accepted'[e] = r
      BY <1>2, <1>5
    <2> HIDE DEF q, T
    <2>3. m \in T
      <3>1. r[Len(q) + 1] = m /\ Len(q) + 1 \in 1 .. Len(r)
        BY <2>1
      <3> QED
        BY <2>1, <3>1
    <2>4. ToSet(r) = ToSet(q) \cup {m}
      BY <2>1, <2>3, OneToldMore
    <2>5. Told(e)' = ToSet(r)
      BY <2>2 DEF Told
    <2> QED
      BY <2>2, <2>3, <2>4, <2>5 DEF q, T, Told
  <1>6. y.accepted = accepted[e] \/ \E m \in messages : y.accepted = Append(accepted[e], m)
    BY DEF Does
  <1>7. SameApplication(k, session'[e])
    BY <1>2 DEF Does
  <1> QED
    BY <1>2, <1>3, <1>4, <1>5, <1>6, <1>7

\* What the client may do between two messages that it hears.
ClientMay(k, m) ==
  LET n == session["client"]
  IN  \/ m.type \notin {"Authenticate", "RemoteForwardRequest"}
      \/ /\ m.type = "RemoteForwardRequest" /\ n.state = "AuthenticatedAsClient"
         /\ m.arg = k.lastReqId /\ m.arg \in k.requests

\* The client after a step in which it hears nothing.
LEMMA ClientMoves ==
  ASSUME FlowInv, ClientInv, Heard("client")' = Heard("client"),
         LET n == session["client"]
             k == session'["client"]
         IN  /\ k.state = n.state \/ (n.state \in Outset /\ k.state \in Outset)
             /\ k.features = n.features /\ n.requests \subseteq k.requests
             /\ n.lastReqId <= k.lastReqId /\ k.lastReqId \in Nat
             /\ \A m \in Told("client")' : m \in Told("client") \/ ClientMay(k, m)
  PROVE  ClientInv'
  <1> DEFINE n == session["client"]
             k == session'["client"]
             told == Told("client")
             heard == Heard("client")
             later == Told("client")'
  <1>1. told \subseteq Sendable("client") /\ n \in SessionRecords("client")
    BY HeardIsTold DEF Ends
  <1>2. \A m \in told : m.type = "RemoteForwardRequest" => m.arg \in Nat
    BY <1>1, SendableFacts DEF Ends
  <1>3. n.lastReqId \in Nat
    BY <1>1 DEF SessionRecords
  <1>4. /\ k.state = n.state \/ (n.state \in Outset /\ k.state \in Outset)
        /\ k.features = n.features /\ n.requests \subseteq k.requests
        /\ n.lastReqId <= k.lastReqId /\ k.lastReqId \in Nat
        /\ \A m \in later : m \in told \/ ClientMay(k, m)
        /\ Heard("client")' = heard
    OBVIOUS
  <1>5. /\ n.state \in Outset \cup {"AuthenticationRequestSent", "AuthenticatedAsClient",
                                    "AuthenticationFailed"}
        /\ heard = {} => n.state \in Outset /\ n.features.version = PINGGY_SESSION_VERSION_1_02
        /\ n.state \notin Outset =>
             /\ Has(heard, "ServerHello")
             /\ n.features = ConfigureFeatures(PINGGY_SESSION_VERSION_1_02)
             /\ \A m \in heard : m.type = "ServerHello" => m.arg >= PINGGY_SESSION_VERSION_1_02
        /\ n.state \in {"AuthenticatedAsClient", "AuthenticationFailed"} =>
             Has(heard, "AuthenticationResponse")
        /\ n.state = "AuthenticatedAsClient" => Msg("AuthenticationResponse", 1) \in heard
        /\ Has(told, "Authenticate") => n.state \notin Outset
        /\ \A m \in told : m.type = "RemoteForwardRequest" =>
             /\ n.state = "AuthenticatedAsClient" /\ m.arg <= n.lastReqId
             /\ m.arg \in n.requests \/ Msg("RemoteForwardResponse", m.arg) \in heard
    BY DEF ClientInv
  <1> HIDE DEF n, k, told, heard, later
  <1>6. k.state \notin Outset => k.state = n.state
    BY <1>4
  <1>7. k.state # n.state => n.state \in Outset /\ k.state \in Outset
    BY <1>4
  <1>8. k.state \in Outset \cup {"AuthenticationRequestSent", "AuthenticatedAsClient",
                                 "AuthenticationFailed"}
        /\ (heard = {} => k.state \in Outset /\ k.features.version = PINGGY_SESSION_VERSION_1_02)
    BY <1>4, <1>5
  <1>9. /\ k.state \notin Outset =>
             /\ Has(heard, "ServerHello")
             /\ k.features = ConfigureFeatures(PINGGY_SESSION_VERSION_1_02)
             /\ \A m \in heard : m.type = "ServerHello" => m.arg >= PINGGY_SESSION_VERSION_1_02
        /\ k.state \in {"AuthenticatedAsClient", "AuthenticationFailed"} =>
             Has(heard, "AuthenticationResponse")
        /\ k.state = "AuthenticatedAsClient" => Msg("AuthenticationResponse", 1) \in heard
    <2>1. k.state \in {"AuthenticatedAsClient", "AuthenticationFailed"} => k.state \notin Outset
      BY DEF Outset
    <2> QED
      BY <1>4, <1>5, <1>6, <2>1
  <1>10. Has(later, "Authenticate") => k.state \notin Outset
    <2>1. ASSUME NEW m \in later, m.type = "Authenticate" PROVE m \in told
      BY <1>4, <2>1 DEF ClientMay
    <2>2. Has(later, "Authenticate") => Has(told, "Authenticate")
      BY <2>1 DEF Has
    <2> QED
      BY <1>5, <1>7, <2>2
  <1>11. ASSUME NEW m \in later, m.type = "RemoteForwardRequest"
         PROVE  /\ k.state = "AuthenticatedAsClient" /\ m.arg <= k.lastReqId
                /\ m.arg \in k.requests \/ Msg("RemoteForwardResponse", m.arg) \in heard
    <2>1. n.state = "AuthenticatedAsClient" => k.state = n.state
      BY <1>7 DEF Outset
    <2>2. CASE m \in told
      <3>1. m.arg \in Nat /\ m.arg <= n.lastReqId /\ m.arg <= k.lastReqId
        BY <1>2, <1>3, <1>4, <1>5, <1>11, <2>2
      <3> QED
        BY <1>4, <1>5, <1>11, <2>1, <2>2, <3>1
    <2>3. CASE ClientMay(k, m)
      BY <1>4, <1>11, <2>1, <2>3 DEF ClientMay, n
    <2> QED
      BY <1>4, <2>2, <2>3
  <1> QED
    BY <1>4, <1>8, <1>9, <1>10, <1>11 DEF ClientInv, k, later, heard

\* What the server may do between two messages that it hears.
ServerMay(k, m) ==
  LET n == session["server"]
  IN  \/ m.type \notin {"AuthenticationResponse", "RemoteForwardResponse", "ServerHello"}
      \/ /\ m.type = "AuthenticationResponse" /\ n.state = "AuthenticationRequestRecved"
         /\ m.arg = 1 => k.state = "AuthenticatedAsServer"
      \/ /\ m.type = "RemoteForwardResponse"
         /\ m.arg \in n.requests /\ m.arg \notin k.requests
      \/ /\ m.type = "ServerHello" /\ Heard("server") = {} /\ n.features.version = m.arg

\* The server after a step in which it hears nothing.
LEMMA ServerMoves ==
  ASSUME FlowInv, ServerInv, Heard("server")' = Heard("server"),
         LET n == session["server"]
             k == session'["server"]
         IN  /\ \/ k.state = n.state
                \/ n.state = "Init" /\ k.state = "ServerHelloSent"
                \/ /\ n.state = "AuthenticationRequestRecved"
                   /\ k.state = "AuthenticatedAsServer"
             /\ k.features = n.features /\ k.requests \subseteq n.requests
             /\ \A m \in Told("server")' : m \in Told("server") \/ ServerMay(k, m)
  PROVE  ServerInv'
  <1> DEFINE n == session["server"]
             k == session'["server"]
             told == Told("server")
             heard == Heard("server")
             later == Told("server")'
             one == Msg("AuthenticationResponse", 1)
  <1>1. /\ \/ k.state = n.state
           \/ n.state = "Init" /\ k.state = "ServerHelloSent"
           \/ /\ n.state = "AuthenticationRequestRecved"
              /\ k.state = "AuthenticatedAsServer"
        /\ k.features = n.features /\ k.requests \subseteq n.requests
        /\ \A m \in later : m \in told \/ ServerMay(k, m)
        /\ Heard("server")' = heard
    OBVIOUS
  <1>2. /\ n.state \in {"Init", "ServerHelloSent", "AuthenticationRequestRecved",
                        "AuthenticatedAsServer"}
        /\ n.state \in {"Init", "ServerHelloSent"} <=> ~Has(heard, "Authenticate")
        /\ Has(told, "AuthenticationResponse") => Has(heard, "Authenticate")
        /\ one \in told => n.state = "AuthenticatedAsServer"
        /\ \A m \in told : m.type = "RemoteForwardResponse" =>
             Msg("RemoteForwardRequest", m.arg) \in heard /\ m.arg \notin n.requests
        /\ \A id \in n.requests : Msg("RemoteForwardRequest", id) \in heard
        /\ \A m \in told : m.type = "ServerHello" =>
             IF heard = {} THEN n.features.version = m.arg
             ELSE n.features = NegotiateVersion(m.arg, PINGGY_SESSION_VERSION_1_02)
    BY DEF ServerInv
  <1>3. one.type = "AuthenticationResponse" /\ one.arg = 1
    BY DEF Msg
  <1> HIDE DEF n, k, told, heard, later, one
  <1>4. /\ k.state \in {"Init", "ServerHelloSent", "AuthenticationRequestRecved",
                        "AuthenticatedAsServer"}
        /\ k.state \in {"Init", "ServerHelloSent"} <=> ~Has(heard, "Authenticate")
    BY <1>1, <1>2
  <1>5. ASSUME Has(later, "AuthenticationResponse") PROVE Has(heard, "Authenticate")
    <2>1. PICK m \in later : m.type = "AuthenticationResponse"
      BY <1>5 DEF Has
    <2>2. CASE m \in told
      BY <1>2, <2>1, <2>2 DEF Has
    <2>3. CASE ServerMay(k, m)
      BY <1>2, <2>1, <2>3 DEF ServerMay, n
    <2> QED
      BY <1>1, <2>2, <2>3
  <1>6. ASSUME one \in later PROVE k.state = "AuthenticatedAsServer"
    <2>1. CASE one \in told
      BY <1>1, <1>2, <2>1
    <2>2. CASE ServerMay(k, one)
      BY <1>3, <2>2 DEF ServerMay
    <2> QED
      BY <1>1, <1>6, <2>1, <2>2
  <1>7. ASSUME NEW m \in later, m.type = "RemoteForwardResponse"
        PROVE  Msg("RemoteForwardRequest", m.arg) \in heard /\ m.arg \notin k.requests
    <2>1. CASE m \in told
      BY <1>1, <1>2, <1>7, <2>1
    <2>2. CASE ServerMay(k, m)
      BY <1>2, <1>7, <2>2 DEF ServerMay, n
    <2> QED
      BY <1>1, <2>1, <2>2
  <1>8. ASSUME NEW m \in later, m.type = "ServerHello"
        PROVE  IF heard = {} THEN k.features.version = m.arg
               ELSE k.features = NegotiateVersion(m.arg, PINGGY_SESSION_VERSION_1_02)
    <2>1. CASE m \in told
      BY <1>1, <1>2, <1>8, <2>1
    <2>2. CASE ServerMay(k, m)
      BY <1>1, <1>8, <2>2 DEF ServerMay, n, heard
    <2> QED
      BY <1>1, <2>1, <2>2
  <1> QED
    BY <1>1, <1>2, <1>4, <1>5, <1>6, <1>7, <1>8 DEF ServerInv, k, later, heard, one

\* The state after a message, and what a message that is handled leaves.
AfterState(n, features, m) ==
  IF m.type = "ServerHello" /\ features.version >= PINGGY_SESSION_VERSION_1_02
  THEN "AuthenticationRequestSent"
  ELSE IF m.type = "Authenticate" THEN "AuthenticationRequestRecved"
  ELSE IF m.type = "AuthenticationResponse"
  THEN IF m.arg = 1 THEN "AuthenticatedAsClient" ELSE "AuthenticationFailed"
  ELSE n.state

\* What an end answers to a message on its own.
Answers(m, state) ==
  {a \in {Msg("Authenticate", 0), Msg("KeepAliveResponse", m.arg)} :
     \/ a = Msg("Authenticate", 0) /\ m.type = "ServerHello" /\ state = "AuthenticationRequestSent"
     \/ a = Msg("KeepAliveResponse", m.arg) /\ m.type = "KeepAlive"}

\* What a message that is handled changes.
LEMMA HandlesFacts ==
  ASSUME FlowInv, NEW e \in Ends, NEW m, NEW x, NEW y, Handles(e, m, x, y)
  PROVE  LET n == session[e]
             k == session'[e]
         IN  /\ session'[Peer(e)] = session[Peer(e)] /\ accepted'[Peer(e)] = accepted[Peer(e)]
             /\ Heard(Peer(e))' = Heard(Peer(e)) /\ Told(Peer(e))' = Told(Peer(e))
             /\ Heard(e)' = Heard(e) \cup {m}
             /\ k.lastReqId = n.lastReqId /\ k.requests = NextRequests(n, m)
             /\ k.features = IF m.type \in Hellos THEN NegotiateVersion(n.features.version, m.arg)
                             ELSE n.features
             /\ k.state = AfterState(n, k.features, m)
             /\ \/ accepted'[e] = accepted[e] /\ Told(e)' = Told(e)
                \/ \E a \in Answers(m, k.state) : /\ a \in Sendable(e)
                                                  /\ accepted'[e] = Append(accepted[e], a)
                                                  /\ Told(e)' = Told(e) \cup {a}
  <1> DEFINE p == Peer(e)
             n == session[e]
             k == session'[e]
  <1>1. p \in Ends /\ Peer(p) = e /\ p # e /\ Shape /\ y \in EndRecords(e)
        /\ n \in SessionRecords(e) /\ m \in Sendable(p) /\ m \in Messages
    <2>1. p \in Ends /\ Peer(p) = e /\ p # e
      BY PeerFacts
    <2>2. Shape /\ n \in SessionRecords(e)
      BY HeardIsTold DEF FlowInv
    <2>3. m \in Sendable(p) /\ EndOK(e, y)
      BY DEF Handles, Effect
    <2>4. y \in EndRecords(e)
      BY <2>3, EndFacts
    <2>5. m \in Messages
      BY <2>1, <2>3 DEF Messages
    <2> QED
      BY <2>1, <2>2, <2>3, <2>4, <2>5
  <1>2. /\ session' = [session EXCEPT ![e] = y.n] /\ accepted' = [accepted EXCEPT ![e] = y.accepted]
        /\ delivered' = [delivered EXCEPT ![e] = Append(delivered[e], m)]
        /\ x.n = n /\ x.accepted = accepted[e] /\ Reaction(x, m, y)
    BY DEF Handles
  <1>3. /\ k = y.n /\ accepted'[e] = y.accepted /\ delivered'[e] = Append(delivered[e], m)
        /\ session'[p] = session[p] /\ accepted'[p] = accepted[p] /\ delivered'[p] = delivered[p]
    BY <1>1, <1>2 DEF Shape
  <1>4. Heard(p)' = Heard(p) /\ Told(p)' = Told(p)
    BY <1>3 DEF Heard, Told
  <1>5. Heard(e)' = Heard(e) \cup {m}
    <2> DEFINE d == delivered[e]
    <2>1. d \in Seq(Messages)
      BY HeardIsTold
    <2> HIDE DEF d
    <2>2. ToSet(Append(d, m)) = ToSet(d) \cup {m}
      BY <1>1, <2>1, OneToldMore
    <2>3. Heard(e)' = ToSet(Append(d, m))
      BY <1>3 DEF Heard, d
    <2> QED
      BY <2>2, <2>3 DEF Heard, d
  <1> HIDE DEF k, n
  <1>6. /\ k.lastReqId = n.lastReqId /\ k.requests = NextRequests(n, m)
        /\ k.features = IF m.type \in Hellos THEN NegotiateVersion(n.features.version, m.arg)
                        ELSE n.features
        /\ k.state = NextState([n EXCEPT !.features = k.features], m)
    BY <1>2, <1>3 DEF Reaction
  <1>7. k.state = AfterState(n, k.features, m)
    <2> DEFINE f == k.features
               g == [n EXCEPT !.features = f]
    <2> HIDE DEF f
    <2>1. g.features = f /\ g.state = n.state
      BY <1>1 DEF SessionRecords
    <2>2. k.state = NextState(g, m)
      BY <1>6 DEF f
    <2> HIDE DEF g
    <2> QED
      BY <2>1, <2>2 DEF NextState, AfterState, f
  <1>8. CASE y.accepted = accepted[e]
    <2>1. Told(e)' = Told(e)
      BY <1>3, <1>8 DEF Told
    <2> QED
      BY <1>1, <1>3, <1>4, <1>5, <1>6, <1>7, <1>8, <2>1 DEF k, n, p
  <1>9. ASSUME NEW a \in Answers(m, k.state), y.accepted = Append(accepted[e], a)
        PROVE  a \in Sendable(e) /\ Told(e)' = Told(e) \cup {a}
    <2> DEFINE q == accepted[e]
               T == Sendable(e)
               r == Append(q, a)
    <2>1. q \in Seq(T) /\ r \in Seq(T)
      BY <1>1, <1>9, HeardIsTold DEF EndRecords
    <2>2. Told(e)' = ToSet(r) /\ Told(e) = ToSet(q)
      BY <1>3, <1>9 DEF Told
    <2> HIDE DEF q, T
    <2>3. a \in T
      <3>1. r[Len(q) + 1] = a /\ Len(q) + 1 \in 1 .. Len(r)
        BY <2>1
      <3> QED
        BY <2>1, <3>1
    <2>4. ToSet(r) = ToSet(q) \cup {a}
      BY <2>1, <2>3, OneToldMore
    <2> QED
      BY <2>2, <2>3, <2>4 DEF T
  <1>10. \/ y.accepted = accepted[e]
         \/ \E a \in Answers(m, k.state) : y.accepted = Append(accepted[e], a)
    BY <1>2, <1>3 DEF Reaction, Answers
  <1>11. CASE \E a \in Answers(m, k.state) : y.accepted = Append(accepted[e], a)
    <2>1. PICK a \in Answers(m, k.state) : y.accepted = Append(accepted[e], a)
      BY <1>11
    <2>2. a \in Sendable(e) /\ Told(e)' = Told(e) \cup {a} /\ accepted'[e] = Append(accepted[e], a)
      BY <1>3, <1>9, <2>1
    <2> QED
      BY <1>1, <1>3, <1>4, <1>5, <1>6, <1>7, <2>2 DEF k, n, p
  <1> QED
    BY <1>8, <1>10, <1>11

\* The least of two versions: a newer one gives way, an older one is not new enough.
LEMMA VersionsMeet ==
  ASSUME NEW v \in Nat
  PROVE  LET own == PINGGY_SESSION_VERSION_1_02
             f == NegotiateVersion(own, v)
         IN  /\ f.version >= own => v >= own
             /\ v >= own => f = ConfigureFeatures(own)
             /\ NegotiateVersion(v, own) = f
             /\ ConfigureFeatures(own).version = own
  <1> DEFINE own == PINGGY_SESSION_VERSION_1_02
  <1>1. own \in Nat /\ own = 4098 /\ own \in Known
    BY DEF PINGGY_SESSION_VERSION_1_02, Known
  <1>2. \A w : ConfigureFeatures(w).version = IF w \in Known THEN w ELSE 0
    BY DEF ConfigureFeatures, PINGGY_SESSION_VERSION_0_00
  <1>3. Min({own, v}) = IF own <= v THEN own ELSE v
    BY <1>1, MinOfTwo
  <1>4. Min({v, own}) = IF v <= own THEN v ELSE own
    BY <1>1, MinOfTwo
  <1>5. Min({v, own}) = Min({own, v})
    BY <1>1, <1>3, <1>4
  <1> HIDE DEF own
  <1>6. CASE own <= v
    <2>1. NegotiateVersion(own, v) = ConfigureFeatures(own)
      BY <1>3, <1>6 DEF NegotiateVersion
    <2> QED
      BY <1>1, <1>2, <1>5, <1>6, <2>1 DEF NegotiateVersion, own
  <1>7. CASE ~(own <= v)
    <2>1. NegotiateVersion(own, v) = ConfigureFeatures(v)
      BY <1>3, <1>7 DEF NegotiateVersion
    <2>2. ~(ConfigureFeatures(v).version >= own) /\ ~(v >= own)
      BY <1>1, <1>2, <1>7
    <2> QED
      BY <1>1, <1>2, <1>5, <2>1, <2>2 DEF NegotiateVersion, own
  <1> QED
    BY <1>6, <1>7

\* Whatever arrives is expected.
LEMMA AllExpected ==
  ASSUME FlowInv, ProtocolInv, NEW e \in Ends, NEW m, NEW x, NEW y, Handles(e, m, x, y),
         session[e].state # "Init"
  PROVE  Expected(x, m)
  <1> DEFINE p == Peer(e)
             n == session[e]
  <1>1. p \in Ends /\ Peer(p) = e /\ x.n = n /\ m \in Sendable(p) /\ n.state # "Init"
    BY PeerFacts DEF Handles
  <1>2. /\ m \in Told(p) /\ (\A k \in Heard(e) : ~Alike(k, m))
        /\ m.type \in Hellos <=> Heard(e) = {}
    BY <1>1, NextIsNew DEF Handles, ProtocolInv
  <1>3. Heard("client") \subseteq Told("server") /\ Heard("server") \subseteq Told("client")
    BY HeardIsTold DEF Ends, Peer
  <1> DEFINE c == session["client"]
             s == session["server"]
  <1>4. /\ m = Msg(m.type, m.arg)
        /\ m.type \in IF p = "client" THEN ClientTypes ELSE ServerTypes
    BY <1>1, SendableFacts
  <1>5. ASSUME Has(Heard(e), m.type) PROVE m.type \notin {"Authenticate", "AuthenticationResponse"}
    <2>1. PICK k \in Heard(e) : k.type = m.type
      BY <1>5 DEF Has
    <2> QED
      BY <1>2, <2>1 DEF Alike
  <1>6. CASE e = "client"
    <2>1. p = "server" /\ n = c
      BY <1>6 DEF Peer
    <2>2. ASSUME m.type = "ServerHello" PROVE c.state = "ClientHelloSent"
      <3>1. Heard("client") = {}
        BY <1>2, <1>6, <2>2 DEF Hellos
      <3> QED
        BY <1>1, <2>1, <3>1 DEF ProtocolInv, ClientInv, Outset
    <2>3. ASSUME m.type = "AuthenticationResponse" PROVE c.state = "AuthenticationRequestSent"
      <3>1. Has(Told("server"), "AuthenticationResponse")
        BY <1>2, <2>1, <2>3 DEF Has
      <3>2. Has(Heard("server"), "Authenticate")
        BY <3>1 DEF ProtocolInv, ServerInv
      <3>3. Has(Told("client"), "Authenticate")
        BY <1>3, <3>2 DEF Has
      <3>4. c.state \notin Outset
        BY <3>3 DEF ProtocolInv, ClientInv
      <3>5. ~Has(Heard("client"), "AuthenticationResponse")
        BY <1>5, <1>6, <2>3
      <3> QED
        BY <3>4, <3>5 DEF ProtocolInv, ClientInv
    <2>4. ASSUME m.type = "RemoteForwardResponse"
          PROVE  c.state = "AuthenticatedAsClient" /\ m.arg \in c.requests
      <3> DEFINE q == Msg("RemoteForwardRequest", m.arg)
      <3>1. q \in Heard("server")
        BY <1>2, <2>1, <2>4 DEF ProtocolInv, ServerInv
      <3>2. q \in Told("client") /\ q.type = "RemoteForwardRequest" /\ q.arg = m.arg
        BY <1>3, <3>1 DEF Msg
      <3> HIDE DEF q
      <3>3. m \notin Heard("client")
        BY <1>2, <1>6, <2>4 DEF Alike
      <3>4. Msg("RemoteForwardResponse", m.arg) \notin Heard("client")
        BY <1>4, <2>4, <3>3
      <3> QED
        BY <3>2, <3>4 DEF ProtocolInv, ClientInv
    <2>5. m.type \notin {"ClientHello", "Authenticate", "RemoteForwardRequest"}
      BY <1>4, <2>1 DEF ServerTypes
    <2> QED
      BY <1>1, <2>1, <2>2, <2>3, <2>4, <2>5 DEF Expected
  <1>7. CASE e = "server"
    <2>1. p = "client" /\ n = s
      BY <1>7 DEF Peer
    <2>2. ASSUME m.type \in {"ClientHello", "Authenticate"} PROVE s.state = "ServerHelloSent"
      <3>1. ~Has(Heard("server"), "Authenticate")
        <4>1. CASE m.type = "ClientHello"
          BY <1>2, <1>7, <4>1 DEF Hellos, Has
        <4>2. CASE m.type = "Authenticate"
          BY <1>5, <1>7, <4>2
        <4> QED
          BY <2>2, <4>1, <4>2
      <3> QED
        BY <1>1, <2>1, <3>1 DEF ProtocolInv, ServerInv
    <2>3. ASSUME m.type = "RemoteForwardRequest" PROVE s.state = "AuthenticatedAsServer"
      <3>1. c.state = "AuthenticatedAsClient"
        BY <1>2, <2>1, <2>3 DEF ProtocolInv, ClientInv
      <3>2. Msg("AuthenticationResponse", 1) \in Heard("client")
        BY <3>1 DEF ProtocolInv, ClientInv
      <3> QED
        BY <1>3, <3>2 DEF ProtocolInv, ServerInv
    <2>4. m.type \notin {"ServerHello", "AuthenticationResponse", "RemoteForwardResponse"}
      BY <1>4, <2>1 DEF ClientTypes
    <2> QED
      BY <1>1, <2>1, <2>2, <2>3, <2>4 DEF Expected
  <1> QED
    BY <1>6, <1>7 DEF Ends

\* The client hears a message.
LEMMA ClientHears ==
  ASSUME FlowInv, ProtocolInv, NEW m, NEW x, NEW y, Handles("client", m, x, y),
         session["client"].state # "Init"
  PROVE  ClientInv'
  <1> DEFINE n == session["client"]
             k == session'["client"]
             told == Told("client")
             heard == Heard("client")
             later == Told("client")'
             own == PINGGY_SESSION_VERSION_1_02
             one == Msg("AuthenticationResponse", 1)
             auth == Msg("Authenticate", 0)
             AllHeard == {m} \cup heard
  <1>1. "client" \in Ends /\ Peer("client") = "server"
    BY DEF Ends, Peer
  <1>2. /\ m \in Sendable("server") /\ x.n = n /\ Expected(x, m)
    BY <1>1, AllExpected DEF Handles
  <1>3. m = Msg(m.type, m.arg) /\ m.arg \in Nat /\ m.type \in ServerTypes
        /\ "server" \in Ends
    BY <1>2, SendableFacts DEF Ends
  <1>4. m.type \in Hellos <=> heard = {}
    <2>1. GreetInv("server")
      BY <1>3 DEF ProtocolInv
    <2>2. /\ Len(delivered["client"]) < Len(accepted["server"])
          /\ m = accepted["server"][Len(delivered["client"]) + 1]
      BY <1>1 DEF Handles
    <2> QED
      BY <1>1, <1>2, <2>1, <2>2, NextIsNew
  <1>5. /\ k.lastReqId = n.lastReqId /\ k.requests = NextRequests(n, m)
        /\ k.features = IF m.type \in Hellos THEN NegotiateVersion(n.features.version, m.arg)
                        ELSE n.features
        /\ k.state = AfterState(n, k.features, m)
        /\ Heard("client")' = AllHeard
        /\ \/ later = told
           \/ later = told \cup {auth} /\ m.type = "ServerHello"
              /\ k.state = "AuthenticationRequestSent"
    <2>1. \A a \in Answers(m, k.state) : a = auth /\ m.type = "ServerHello"
                                          /\ k.state = "AuthenticationRequestSent"
      BY <1>3 DEF Answers, ServerTypes
    <2> QED
      BY <1>1, <2>1, HandlesFacts
  <1>6. /\ n.state \in Outset \cup {"AuthenticationRequestSent", "AuthenticatedAsClient",
                                    "AuthenticationFailed"}
        /\ heard = {} => n.state \in Outset /\ n.features.version = own
        /\ n.state \notin Outset =>
             /\ Has(heard, "ServerHello")
             /\ n.features = ConfigureFeatures(own)
             /\ \A h \in heard : h.type = "ServerHello" => h.arg >= own
        /\ n.state \in {"AuthenticatedAsClient", "AuthenticationFailed"} =>
             Has(heard, "AuthenticationResponse")
        /\ n.state = "AuthenticatedAsClient" => one \in heard
        /\ Has(told, "Authenticate") => n.state \notin Outset
        /\ \A h \in told : h.type = "RemoteForwardRequest" =>
             /\ n.state = "AuthenticatedAsClient" /\ h.arg <= n.lastReqId
             /\ h.arg \in n.requests \/ Msg("RemoteForwardResponse", h.arg) \in heard
    BY DEF ProtocolInv, ClientInv
  <1>7. auth.type = "Authenticate"
    BY DEF Msg
  <1>8. /\ m.type = "ServerHello" => n.state = "ClientHelloSent"
        /\ m.type = "AuthenticationResponse" => n.state = "AuthenticationRequestSent"
        /\ m.type = "RemoteForwardResponse" => n.state = "AuthenticatedAsClient"
    BY <1>2 DEF Expected
  <1>9. AllHeard # {} /\ m \in AllHeard /\ heard \subseteq AllHeard
    OBVIOUS
  <1>10. /\ k.state \in Outset \cup {"AuthenticationRequestSent", "AuthenticatedAsClient",
                                     "AuthenticationFailed"}
         /\ k.state \notin Outset =>
              /\ Has(AllHeard, "ServerHello")
              /\ k.features = ConfigureFeatures(own)
              /\ \A h \in AllHeard : h.type = "ServerHello" => h.arg >= own
         /\ k.state \in {"AuthenticatedAsClient", "AuthenticationFailed"} =>
              Has(AllHeard, "AuthenticationResponse")
         /\ k.state = "AuthenticatedAsClient" => one \in AllHeard
         /\ Has(later, "Authenticate") => k.state \notin Outset
         /\ \A h \in later : h.type = "RemoteForwardRequest" =>
              /\ k.state = "AuthenticatedAsClient" /\ h.arg <= k.lastReqId
              /\ h.arg \in k.requests \/ Msg("RemoteForwardResponse", h.arg) \in AllHeard
    <2> HIDE DEF n, k, told, heard, later, own, one, auth
    <2>1. CASE m.type = "ServerHello"
      <3>1. heard = {} /\ n.state = "ClientHelloSent" /\ n.features.version = own
            /\ k.features = NegotiateVersion(own, m.arg)
        BY <1>4, <1>5, <1>6, <1>8, <2>1 DEF Hellos
      <3>2. k.state = IF k.features.version >= own THEN "AuthenticationRequestSent"
                      ELSE "ClientHelloSent"
        BY <1>5, <2>1, <3>1 DEF AfterState, own
      <3>3. k.features.version >= own => m.arg >= own /\ k.features = ConfigureFeatures(own)
        BY <1>3, <3>1, VersionsMeet DEF own
      <3>4. ~Has(told, "Authenticate") /\ \A h \in told : h.type # "RemoteForwardRequest"
        BY <1>6, <3>1 DEF Outset
      <3>5. \A h \in later : h.type # "RemoteForwardRequest"
        BY <1>5, <1>7, <3>4
      <3>6. Has(later, "Authenticate") => k.state = "AuthenticationRequestSent"
        BY <1>5, <3>4
      <3>7. k.state \notin Outset => k.features.version >= own
        BY <3>2 DEF Outset
      <3>8. Has(AllHeard, "ServerHello") /\ \A h \in AllHeard : h = m
        BY <2>1, <3>1 DEF Has
      <3>9. k.state \notin {"AuthenticatedAsClient", "AuthenticationFailed"}
            /\ k.state \in Outset \cup {"AuthenticationRequestSent"}
            /\ (k.state = "AuthenticationRequestSent" => k.state \notin Outset)
        BY <3>2 DEF Outset
      <3> HIDE DEF AllHeard
      <3> QED
        BY <3>3, <3>5, <3>6, <3>7, <3>8, <3>9
    <2>2. CASE m.type = "AuthenticationResponse"
      <3>1. n.state = "AuthenticationRequestSent" /\ n.state \notin Outset
            /\ k.features = n.features /\ later = told
        BY <1>5, <1>8, <2>2 DEF Hellos, Outset
      <3>2. k.state = IF m.arg = 1 THEN "AuthenticatedAsClient" ELSE "AuthenticationFailed"
        BY <1>5, <2>2 DEF AfterState
      <3>3. \A h \in told : h.type # "RemoteForwardRequest"
        BY <1>6, <3>1
      <3>4. Has(AllHeard, "ServerHello") /\ Has(AllHeard, "AuthenticationResponse")
        BY <1>6, <2>2, <3>1 DEF Has
      <3>5. \A h \in AllHeard : h.type = "ServerHello" => h.arg >= own
        BY <1>6, <2>2, <3>1
      <3>6. m.arg = 1 => m = one
        BY <1>3, <2>2 DEF one
      <3>7. k.state \notin Outset /\ k.state \in {"AuthenticatedAsClient", "AuthenticationFailed"}
            /\ (k.state = "AuthenticatedAsClient" => m.arg = 1)
        BY <3>2 DEF Outset
      <3>8. m \in AllHeard /\ k.features = ConfigureFeatures(own)
        BY <1>6, <1>9, <3>1
      <3> HIDE DEF AllHeard
      <3> QED
        BY <3>1, <3>3, <3>4, <3>5, <3>6, <3>7, <3>8
    <2>3. CASE m.type \notin {"ServerHello", "AuthenticationResponse"}
      <3>1. m.type \notin Hellos /\ m.type # "Authenticate" /\ m.type # "RemoteForwardRequest"
        BY <1>3, <2>3 DEF Hellos, ServerTypes
      <3>2. k.state = n.state /\ k.features = n.features /\ later = told
            /\ k.lastReqId = n.lastReqId
        BY <1>5, <2>3, <3>1 DEF AfterState
      <3>3. \/ k.requests = n.requests
            \/ m.type = "RemoteForwardResponse" /\ k.requests = n.requests \ {m.arg}
        BY <1>5 , <3>1 DEF NextRequests
      <3>4. n.state \notin Outset =>
              /\ Has(AllHeard, "ServerHello")
              /\ \A h \in AllHeard : h.type = "ServerHello" => h.arg >= own
        BY <1>6, <2>3 DEF Has
      <3>5. Has(heard, "AuthenticationResponse") => Has(AllHeard, "AuthenticationResponse")
        BY DEF Has
      <3>6. ASSUME NEW h \in told, h.type = "RemoteForwardRequest"
            PROVE  h.arg \in k.requests \/ Msg("RemoteForwardResponse", h.arg) \in AllHeard
        <4>1. h.arg \in n.requests \/ Msg("RemoteForwardResponse", h.arg) \in heard
          BY <1>6, <3>6
        <4>2. CASE m.type = "RemoteForwardResponse" /\ h.arg = m.arg
          BY <1>3, <1>9, <4>2
        <4>3. CASE ~(m.type = "RemoteForwardResponse" /\ h.arg = m.arg)
          BY <3>3, <4>1, <4>3
        <4> QED
          BY <4>2, <4>3
      <3> HIDE DEF AllHeard
      <3> QED
        BY <1>6, <1>9, <3>2, <3>4, <3>5, <3>6
    <2> QED
      BY <2>1, <2>2, <2>3
  <1>11. Heard("client")' = AllHeard /\ AllHeard # {}
    BY <1>5, <1>9
  <1> HIDE DEF AllHeard
  <1> QED
    BY <1>10, <1>11 DEF ClientInv, k, later, own, one

\* The server hears a message.
LEMMA ServerHears ==
  ASSUME FlowInv, ProtocolInv, NEW m, NEW x, NEW y, Handles("server", m, x, y),
         session["server"].state # "Init"
  PROVE  ServerInv'
  <1> DEFINE n == session["server"]
             k == session'["server"]
             told == Told("server")
             heard == Heard("server")
             later == Told("server")'
             own == PINGGY_SESSION_VERSION_1_02
             one == Msg("AuthenticationResponse", 1)
             tick == Msg("KeepAliveResponse", m.arg)
             AllHeard == {m} \cup heard
  <1>1. "server" \in Ends /\ Peer("server") = "client" /\ "client" \in Ends
    BY DEF Ends, Peer
  <1>2. m \in Sendable("client") /\ x.n = n /\ Expected(x, m)
    BY <1>1, AllExpected DEF Handles
  <1>3. /\ m = Msg(m.type, m.arg) /\ m.type \in ClientTypes
        /\ m.type = "ClientHello" => m.arg = own
    BY <1>1, <1>2, SendableFacts
  <1>4. (m.type \in Hellos <=> heard = {}) /\ \A h \in heard : ~Alike(h, m)
    <2>1. GreetInv("client")
      BY <1>1 DEF ProtocolInv
    <2>2. /\ Len(delivered["server"]) < Len(accepted["client"])
          /\ m = accepted["client"][Len(delivered["server"]) + 1]
      BY <1>1 DEF Handles
    <2> QED
      BY <1>1, <1>2, <2>1, <2>2, NextIsNew
  <1>5. /\ k.requests = NextRequests(n, m)
        /\ k.features = IF m.type \in Hellos THEN NegotiateVersion(n.features.version, m.arg)
                        ELSE n.features
        /\ k.state = AfterState(n, k.features, m)
        /\ Heard("server")' = AllHeard
        /\ later = told \/ later = told \cup {tick}
    <2>1. \A a \in Answers(m, k.state) : a = tick
      BY <1>3 DEF Answers, ClientTypes
    <2> QED
      BY <1>1, <2>1, HandlesFacts
  <1>6. /\ n.state \in {"Init", "ServerHelloSent", "AuthenticationRequestRecved",
                        "AuthenticatedAsServer"}
        /\ n.state \in {"Init", "ServerHelloSent"} <=> ~Has(heard, "Authenticate")
        /\ Has(told, "AuthenticationResponse") => Has(heard, "Authenticate")
        /\ one \in told => n.state = "AuthenticatedAsServer"
        /\ \A h \in told : h.type = "RemoteForwardResponse" =>
             Msg("RemoteForwardRequest", h.arg) \in heard /\ h.arg \notin n.requests
        /\ \A id \in n.requests : Msg("RemoteForwardRequest", id) \in heard
        /\ \A h \in told : h.type = "ServerHello" =>
             IF heard = {} THEN n.features.version = h.arg
             ELSE n.features = NegotiateVersion(h.arg, own)
    BY DEF ProtocolInv, ServerInv
  <1>7. /\ m.type = "ClientHello" => n.state = "ServerHelloSent"
        /\ m.type = "Authenticate" => n.state = "ServerHelloSent"
        /\ m.type = "RemoteForwardRequest" => n.state = "AuthenticatedAsServer"
    BY <1>2 DEF Expected
  <1>8. AllHeard # {} /\ m \in AllHeard /\ heard \subseteq AllHeard
    OBVIOUS
  <1>9. \A h \in later : h.type # "KeepAliveResponse" => h \in told
    BY <1>5 DEF Msg
  <1>10. Has(later, "AuthenticationResponse") => Has(told, "AuthenticationResponse")
    BY <1>9 DEF Has
  <1>11. one \in later => one \in told
    BY <1>9 DEF Msg
  <1> HIDE DEF n, k, told, heard, later, own, one, tick
  <1>12. /\ k.state \in {"Init", "ServerHelloSent", "AuthenticationRequestRecved",
                         "AuthenticatedAsServer"}
         /\ k.state \in {"Init", "ServerHelloSent"} <=> ~Has(AllHeard, "Authenticate")
         /\ Has(later, "AuthenticationResponse") => Has(AllHeard, "Authenticate")
         /\ one \in later => k.state = "AuthenticatedAsServer"
    <2>1. Has(AllHeard, "Authenticate") <=> Has(heard, "Authenticate") \/ m.type = "Authenticate"
      BY DEF Has
    <2>2. CASE m.type = "Authenticate"
      <3>1. k.state = "AuthenticationRequestRecved"
        BY <1>5, <2>2 DEF AfterState
      <3>2. one \notin told
        BY <1>6, <1>7, <2>2
      <3> QED
        BY <1>11, <2>1, <2>2, <3>1, <3>2
    <2>3. CASE m.type # "Authenticate"
      <3>1. k.state = n.state
        BY <1>3, <1>5, <2>3 DEF AfterState, ClientTypes
      <3> HIDE DEF AllHeard
      <3> QED
        BY <1>6, <1>10, <1>11, <2>1, <2>3, <3>1
    <2> QED
      BY <2>2, <2>3
  <1>13. /\ \A h \in later : h.type = "RemoteForwardResponse" =>
              Msg("RemoteForwardRequest", h.arg) \in AllHeard /\ h.arg \notin k.requests
         /\ \A id \in k.requests : Msg("RemoteForwardRequest", id) \in AllHeard
    <2>1. CASE m.type = "RemoteForwardRequest"
      <3>1. k.requests = n.requests \cup {m.arg}
        BY <1>5, <2>1 DEF NextRequests
      <3>2. ASSUME NEW h \in later, h.type = "RemoteForwardResponse"
            PROVE  Msg("RemoteForwardRequest", h.arg) \in AllHeard /\ h.arg \notin k.requests
        <4> DEFINE r == Msg("RemoteForwardRequest", h.arg)
        <4>1. r \in heard /\ h.arg \notin n.requests
          BY <1>6, <1>9, <3>2
        <4>2. r.type = "RemoteForwardRequest" /\ r.arg = h.arg
          BY DEF Msg
        <4> HIDE DEF r
        <4>3. h.arg # m.arg
          BY <1>4, <2>1, <4>1, <4>2 DEF Alike
        <4> QED
          BY <1>8, <3>1, <4>1, <4>3 DEF r
      <3>3. Msg("RemoteForwardRequest", m.arg) = m
        BY <1>3, <2>1
      <3> QED
        BY <1>6, <1>8, <3>1, <3>2, <3>3
    <2>2. CASE m.type # "RemoteForwardRequest"
      <3>1. k.requests = n.requests
        BY <1>3, <1>5, <2>2 DEF NextRequests, ClientTypes
      <3> QED
        BY <1>6, <1>8, <1>9, <3>1
    <2> QED
      BY <2>1, <2>2
  <1>14. \A h \in later : h.type = "ServerHello" => k.features = NegotiateVersion(h.arg, own)
    <2>1. ASSUME NEW h \in told, h.type = "ServerHello"
          PROVE  k.features = NegotiateVersion(h.arg, own)
      <3>1. CASE m.type \in Hellos
        <4>1. heard = {} /\ m.type = "ClientHello" /\ m.arg = own
          BY <1>3, <1>4, <3>1 DEF Hellos, ClientTypes
        <4>2. n.features.version = h.arg
          BY <1>6, <2>1, <4>1
        <4> QED
          BY <1>5, <3>1, <4>1, <4>2
      <3>2. CASE m.type \notin Hellos
        BY <1>4, <1>5, <1>6, <2>1, <3>2
      <3> QED
        BY <3>1, <3>2
    <2> QED
      BY <1>9, <2>1
  <1>15. Heard("server")' = AllHeard
    BY <1>5
  <1> HIDE DEF AllHeard
  <1> QED
    BY <1>8, <1>12, <1>13, <1>14, <1>15 DEF ServerInv, k, later, own, one

\* A call of the client, or a write or reset at its end.
LEMMA ClientDoes ==
  ASSUME FlowInv, ProtocolInv, ~crashed, session["client"].state # "Init",
         NEW k, NEW messages, NEW y, Does("client", k, messages, y),
         k.state = session["client"].state, k.features = session["client"].features,
         session["client"].requests \subseteq k.requests,
         session["client"].lastReqId <= k.lastReqId, k.lastReqId \in Nat,
         \A m \in messages : ClientMay(k, m) /\ \A h \in Told("client") : ~Alike(h, m)
  PROVE  ProtocolInv'
  <1> DEFINE n == session["client"]
             after == session'["client"]
  <1>1. "client" \in Ends /\ "server" \in Ends /\ Peer("client") = "server"
    BY DEF Ends, Peer
  <1>2. /\ SameApplication(k, after) /\ session'["server"] = session["server"]
        /\ accepted'["server"] = accepted["server"]
        /\ Heard("client")' = Heard("client") /\ Heard("server")' = Heard("server")
        /\ Told("server")' = Told("server")
        /\ \/ accepted'["client"] = accepted["client"] /\ Told("client")' = Told("client")
           \/ \E m \in messages : /\ m \in Sendable("client")
                                  /\ accepted'["client"] = Append(accepted["client"], m)
                                  /\ Told("client")' = Told("client") \cup {m}
    BY <1>1, DoesFacts
  <1>3. /\ after.state = n.state /\ after.features = n.features
        /\ n.requests \subseteq after.requests
        /\ n.lastReqId <= after.lastReqId /\ after.lastReqId \in Nat
        /\ after.lastReqId = k.lastReqId /\ after.requests = k.requests
    BY <1>2 DEF SameApplication
  <1> HIDE DEF after
  <1>4. \A m \in Told("client")' : m \in Told("client") \/ ClientMay(after, m)
    <2>1. \A m \in messages : ClientMay(after, m)
      BY <1>3 DEF ClientMay
    <2> QED
      BY <1>2, <2>1
  <1>5. ClientInv'
    BY <1>2, <1>3, <1>4, ClientMoves DEF ProtocolInv, after
  <1>6. ServerInv'
    BY <1>2, ServerMoves DEF ProtocolInv
  <1>7. \A q \in Ends : GreetInv(q)'
    <2>1. GreetInv("client") /\ GreetInv("server")
      BY <1>1 DEF ProtocolInv
    <2>2. \/ accepted'["client"] = accepted["client"]
          \/ \E m \in Sendable("client") :
               /\ accepted'["client"] = Append(accepted["client"], m)
               /\ \A h \in Told("client") : ~Alike(h, m)
      BY <1>2
    <2> QED
      BY <1>1, <1>2, <2>1, <2>2, GreetKeeps
  <1> QED
    BY <1>5, <1>6, <1>7 DEF ProtocolInv

\* A call of the server, or a write or reset at its end.
LEMMA ServerDoes ==
  ASSUME FlowInv, ProtocolInv, ~crashed, session["server"].state # "Init",
         NEW k, NEW messages, NEW y, Does("server", k, messages, y),
         \/ k.state = session["server"].state
         \/ /\ session["server"].state = "AuthenticationRequestRecved"
            /\ k.state = "AuthenticatedAsServer",
         k.features = session["server"].features,
         k.requests \subseteq session["server"].requests,
         \A m \in messages : ServerMay(k, m) /\ \A h \in Told("server") : ~Alike(h, m)
  PROVE  ProtocolInv'
  <1> DEFINE n == session["server"]
             after == session'["server"]
  <1>1. "client" \in Ends /\ "server" \in Ends /\ Peer("server") = "client"
    BY DEF Ends, Peer
  <1>2. /\ SameApplication(k, after) /\ session'["client"] = session["client"]
        /\ accepted'["client"] = accepted["client"]
        /\ Heard("client")' = Heard("client") /\ Heard("server")' = Heard("server")
        /\ Told("client")' = Told("client")
        /\ \/ accepted'["server"] = accepted["server"] /\ Told("server")' = Told("server")
           \/ \E m \in messages : /\ m \in Sendable("server")
                                  /\ accepted'["server"] = Append(accepted["server"], m)
                                  /\ Told("server")' = Told("server") \cup {m}
    BY <1>1, DoesFacts
  <1>3. /\ \/ after.state = n.state
           \/ n.state = "AuthenticationRequestRecved" /\ after.state = "AuthenticatedAsServer"
        /\ after.features = n.features /\ after.requests \subseteq n.requests
        /\ after.state = k.state /\ after.requests = k.requests
    BY <1>2 DEF SameApplication
  <1> HIDE DEF after
  <1>4. \A m \in Told("server")' : m \in Told("server") \/ ServerMay(after, m)
    <2>1. \A m \in messages : ServerMay(after, m)
      BY <1>3 DEF ServerMay
    <2> QED
      BY <1>2, <2>1
  <1>5. ServerInv'
    BY <1>2, <1>3, <1>4, ServerMoves DEF ProtocolInv, after
  <1>6. ClientInv'
    <2>1. session["client"].lastReqId \in Nat
      BY <1>1, HeardIsTold DEF SessionRecords
    <2> QED
      BY <1>2, <2>1, ClientMoves DEF ProtocolInv
  <1>7. \A q \in Ends : GreetInv(q)'
    <2>1. GreetInv("client") /\ GreetInv("server")
      BY <1>1 DEF ProtocolInv
    <2>2. \/ accepted'["server"] = accepted["server"]
          \/ \E m \in Sendable("server") :
               /\ accepted'["server"] = Append(accepted["server"], m)
               /\ \A h \in Told("server") : ~Alike(h, m)
      BY <1>2
    <2> QED
      BY <1>1, <1>2, <2>1, <2>2, GreetKeeps
  <1> QED
    BY <1>5, <1>6, <1>7 DEF ProtocolInv

\* A write, a reset, or a call that leaves the conversation alone.
LEMMA QuietConversation ==
  ASSUME FlowInv, ProtocolInv, ~crashed, NEW e \in Ends, session[e].state # "Init",
         NEW k, NEW messages, NEW y, Does(e, k, messages, y),
         k.state = session[e].state, k.features = session[e].features,
         k.requests = session[e].requests, k.lastReqId = session[e].lastReqId,
         \A m \in messages : m.type \in {"Disconnect", "KeepAlive", "Error", "Usages"}
  PROVE  ProtocolInv'
  <1>1. \A m \in messages : \A h : ~Alike(h, m)
    BY DEF Alike, Hellos
  <1>2. CASE e = "client"
    <2>1. session["client"].lastReqId \in Nat
      BY <1>2, HeardIsTold DEF SessionRecords
    <2>2. \A m \in messages : ClientMay(k, m)
      BY DEF ClientMay
    <2> QED
      BY <1>1, <1>2, <2>1, <2>2, ClientDoes
  <1>3. CASE e = "server"
    <2>1. \A m \in messages : ServerMay(k, m)
      BY DEF ServerMay
    <2> QED
      BY <1>1, <1>3, <2>1, ServerDoes
  <1> QED
    BY <1>2, <1>3 DEF Ends

\* The handlers.
LEMMA HandlesConversation ==
  ASSUME FlowInv, ProtocolInv, ~crashed, NEW e \in Ends, NEW m, NEW x, NEW y,
         Handles(e, m, x, y), session[e].state # "Init"
  PROVE  ProtocolInv' /\ ~aborted'
  <1> DEFINE p == Peer(e)
  <1>1. p \in Ends /\ GreetInv(e) /\ GreetInv(p) /\ ClientInv /\ ServerInv
    BY PeerFacts DEF ProtocolInv
  <1>2. Expected(x, m) /\ ~aborted'
    BY AllExpected DEF Handles
  <1>3. /\ session'[p] = session[p] /\ accepted'[p] = accepted[p]
        /\ Heard(p)' = Heard(p) /\ Told(p)' = Told(p)
        /\ \/ accepted'[e] = accepted[e]
           \/ \E a \in Answers(m, session'[e].state) :
                a \in Sendable(e) /\ accepted'[e] = Append(accepted[e], a)
    BY HandlesFacts
  <1>4. ASSUME NEW a \in Answers(m, session'[e].state), a \in Sendable(e)
        PROVE  \A h \in Told(e) : ~Alike(h, a)
    <2>1. CASE a = Msg("KeepAliveResponse", m.arg)
      BY <2>1 DEF Alike, Msg, Hellos
    <2>2. CASE a = Msg("Authenticate", 0) /\ m.type = "ServerHello"
      <3>1. m \in Sendable(p) /\ x.n = session[e]
        BY DEF Handles
      <3>2. p = "server" /\ e = "client"
        BY <1>1, <2>2, <3>1, SendableFacts DEF ClientTypes, Peer, Ends
      <3>3. session["client"].state = "ClientHelloSent"
        BY <1>2, <2>2, <3>1, <3>2 DEF Expected
      <3>4. ~Has(Told("client"), "Authenticate")
        BY <1>1, <3>3 DEF ClientInv, Outset
      <3> QED
        BY <2>2, <3>2, <3>4 DEF Alike, Msg, Has
    <2> QED
      BY <2>1, <2>2 DEF Answers
  <1>5. \A q \in Ends : GreetInv(q)'
    <2>1. \/ accepted'[e] = accepted[e]
          \/ \E a \in Sendable(e) : /\ accepted'[e] = Append(accepted[e], a)
                                    /\ \A h \in Told(e) : ~Alike(h, a)
      BY <1>3, <1>4
    <2> QED
      BY <1>1, <1>3, <2>1, GreetKeeps
  <1>6. CASE e = "client"
    <2>1. p = "server"
      BY <1>6 DEF Peer
    <2>2. ServerInv'
      BY <1>1, <1>3, <2>1, ServerMoves
    <2>3. ClientInv'
      BY <1>6, ClientHears
    <2> QED
      BY <1>2, <1>5, <2>2, <2>3 DEF ProtocolInv
  <1>7. CASE e = "server"
    <2>1. p = "client"
      BY <1>7 DEF Peer
    <2>2. session["client"].lastReqId \in Nat
      BY <1>1, <2>1, HeardIsTold DEF SessionRecords
    <2>3. ClientInv'
      BY <1>1, <1>3, <2>1, <2>2, ClientMoves
    <2>4. ServerInv'
      BY <1>7, ServerHears
    <2> QED
      BY <1>2, <1>5, <2>3, <2>4 DEF ProtocolInv
  <1> QED
    BY <1>6, <1>7 DEF Ends

\* Start.
LEMMA StartConversation ==
  ASSUME FlowInv, ProtocolInv, NEW e \in Ends, Start(e)
  PROVE  ProtocolInv'
  <1> DEFINE p == Peer(e)
             n == session[e]
             after == session'[e]
             hello == Hello(e)
  <1>1. /\ n.state = "Init"
        /\ \E y : /\ Does(e, Begun(e), {hello}, y)
                  /\ y.accepted = Append(accepted[e], hello) \/ y.crashed
    BY StartStep
  <1>2. PICK y : /\ Does(e, Begun(e), {hello}, y)
                 /\ y.accepted = Append(accepted[e], hello) \/ y.crashed
    BY <1>1
  <1>3. /\ SameApplication(Begun(e), after) /\ session'[p] = session[p]
        /\ accepted'[p] = accepted[p] /\ accepted'[e] = y.accepted /\ crashed' = y.crashed
        /\ Heard(e)' = Heard(e) /\ Heard(p)' = Heard(p) /\ Told(p)' = Told(p)
        /\ \/ accepted'[e] = accepted[e] /\ Told(e)' = Told(e)
           \/ \E m \in {hello} : /\ m \in Sendable(e) /\ accepted'[e] = Append(accepted[e], m)
                                 /\ Told(e)' = Told(e) \cup {m}
    BY <1>2, DoesFacts
  <1>4. p \in Ends /\ Ends = {e, p} /\ GreetInv(p) /\ ClientInv /\ ServerInv
    BY PeerFacts DEF ProtocolInv
  <1>5. accepted[e] = <<>> /\ delivered[e] = <<>> /\ n \in SessionRecords(e)
    BY <1>1, AtWork DEF Fresh
  <1>6. Heard(e) = {}
    BY <1>5 DEF Heard, ToSet
  <1>7. /\ after.state = IF e = "client" THEN "ClientHelloSent" ELSE "ServerHelloSent"
        /\ after.features = n.features /\ after.requests = n.requests
        /\ after.lastReqId = n.lastReqId /\ n.lastReqId \in Nat
    BY <1>3, <1>5 DEF SameApplication, Begun, SessionRecords
  <1>8. hello.type \in Hellos /\ hello.arg = n.features.version
        /\ hello.type = IF e = "client" THEN "ClientHello" ELSE "ServerHello"
    BY DEF Hello, HelloOf, Msg, Hellos
  <1>9. \A m \in Told(e)' : m \in Told(e) \/ m = hello
    BY <1>3
  <1> HIDE DEF after, hello
  <1>14. ~crashed
    BY DEF Start, CanStart, Alive
  <1>10. GreetInv(p)'
    BY <1>3, <1>4, <1>14 DEF GreetInv
  <1>11. GreetInv(e)'
    <2>1. CASE accepted'[e] = accepted[e]
      <3>1. accepted'[e] = <<>> /\ crashed'
        <4>1. y.accepted # Append(accepted[e], hello)
          <5>1. Append(<<>>, hello) # <<>>
            OBVIOUS
          <5> QED
            BY <1>3, <1>5, <2>1, <5>1
        <4> QED
          BY <1>2, <1>3, <1>5, <2>1, <4>1
      <3> QED
        BY <3>1 DEF GreetInv, Once
    <2>2. CASE accepted'[e] = Append(accepted[e], hello)
      <3> DEFINE q == accepted'[e]
      <3>1. q = <<hello>>
        BY <1>5, <2>2
      <3> HIDE DEF q
      <3>2. Len(q) = 1 /\ q[1] = hello /\ q # <<>>
        BY <3>1
      <3>3. Once(q)
        BY <3>2 DEF Once
      <3> QED
        BY <1>8, <3>2, <3>3 DEF GreetInv, q
    <2> QED
      BY <1>3, <2>1, <2>2
  <1>12. CASE e = "client"
    <2>1. p = "server"
      BY <1>12 DEF Peer
    <2>2. \A m \in Told("client")' : m \in Told("client") \/ ClientMay(after, m)
      BY <1>8, <1>9, <1>12 DEF ClientMay, Hellos
    <2>3. ClientInv'
      BY <1>1, <1>3, <1>4, <1>7, <1>12, <2>2, ClientMoves DEF Outset, after
    <2>4. ServerInv'
      BY <1>3, <1>4, <2>1, ServerMoves
    <2> QED
      BY <1>4, <1>10, <1>11, <2>3, <2>4 DEF ProtocolInv
  <1>13. CASE e = "server"
    <2>1. p = "client"
      BY <1>13 DEF Peer
    <2>2. \A m \in Told("server")' : m \in Told("server") \/ ServerMay(after, m)
      BY <1>6, <1>8, <1>9, <1>13 DEF ServerMay
    <2>3. ServerInv'
      BY <1>1, <1>3, <1>4, <1>7, <1>13, <2>2, ServerMoves DEF after
    <2>4. session["client"].lastReqId \in Nat
      BY <1>4, <2>1, HeardIsTold DEF SessionRecords
    <2>5. ClientInv'
      BY <1>3, <1>4, <2>1, <2>4, ClientMoves
    <2> QED
      BY <1>4, <1>10, <1>11, <2>3, <2>5 DEF ProtocolInv
  <1> QED
    BY <1>12, <1>13 DEF Ends

\* The calls that take part in the conversation.
LEMMA RequestConversation ==
  ASSUME FlowInv, ProtocolInv, ~crashed, SendRemoteForwardRequest
  PROVE  ProtocolInv'
  <1> DEFINE n == session["client"]
             id == n.lastReqId + 1
             requests == n.requests \cup {id}
             calls == n.calls + 1
             k == With(n, n.state, id, requests, n.tick, calls)
             m == Msg("RemoteForwardRequest", id)
  <1>1. "client" \in Ends
    BY DEF Ends
  <1>2. n \in SessionRecords("client")
    BY <1>1, HeardIsTold
  <1>3. n.state = "AuthenticatedAsClient" /\ \E y : Does("client", Requesting, {m}, y)
    BY RequestStep
  <1>4. PICK y : Does("client", Requesting, {m}, y)
    BY <1>3
  <1>5. Requesting = k
    BY DEF Requesting
  <1>6. /\ n.state \in States /\ id \in Nat /\ requests \in SUBSET Nat /\ n.tick \in Nat
        /\ calls \in Nat /\ n.lastReqId \in Nat /\ n.lastReqId < id
    BY <1>2 DEF SessionRecords
  <1>7. /\ k.state = n.state /\ k.features = n.features /\ k.lastReqId = id
        /\ k.requests = requests
    <2> DEFINE tick == n.tick
               s == n.state
    <2>1. k = With(n, s, id, requests, tick, calls)
      OBVIOUS
    <2>2. /\ s \in States /\ tick \in Nat /\ id \in Nat /\ requests \in SUBSET Nat
          /\ calls \in Nat
      BY <1>6
    <2> HIDE DEF n, id, requests, calls, tick, s, k
    <2>3. k.state = s /\ k.features = n.features /\ k.lastReqId = id /\ k.requests = requests
      BY <1>1, <1>2, <2>1, <2>2, SessionWith
    <2> QED
      BY <2>3 DEF s
  <1> HIDE DEF k
  <1>8. m.type = "RemoteForwardRequest" /\ m.arg = id
    BY DEF Msg
  <1>9. ClientMay(k, m)
    BY <1>3, <1>7, <1>8 DEF ClientMay
  <1>10. \A h \in Told("client") : ~Alike(h, m)
    <2>1. ASSUME NEW h \in Told("client"), h.type = "RemoteForwardRequest" PROVE h.arg # id
      <3>1. h.arg <= n.lastReqId
        BY <2>1 DEF ProtocolInv, ClientInv
      <3>2. h.arg \in Nat
        BY <1>1, HeardIsTold, SendableFacts
      <3> QED
        BY <1>6, <3>1, <3>2
    <2> HIDE DEF m, id
    <2> QED
      BY <1>8, <2>1 DEF Alike, Hellos
  <1>11. Does("client", k, {m}, y) /\ n.requests \subseteq k.requests /\ n.lastReqId <= k.lastReqId
         /\ k.lastReqId \in Nat
    BY <1>4, <1>5, <1>6, <1>7
  <1>12. \A a \in {m} : ClientMay(k, a) /\ \A h \in Told("client") : ~Alike(h, a)
    BY <1>9, <1>10
  <1> HIDE DEF m, id
  <1> QED
    BY <1>3, <1>7, <1>11, <1>12, ClientDoes

\* AuthenticationSucceeded and AuthenticationFailed.
LEMMA AnswerConversation ==
  ASSUME FlowInv, ProtocolInv, ~crashed, NEW success \in BOOLEAN, AnswerAuthentication(success)
  PROVE  ProtocolInv'
  <1> DEFINE n == session["server"]
             s == IF success THEN "AuthenticatedAsServer" ELSE n.state
             k == With(n, s, n.lastReqId, n.requests, n.tick, n.calls)
             m == Msg("AuthenticationResponse", IF success THEN 1 ELSE 0)
             q == accepted["server"]
  <1>1. "server" \in Ends
    BY DEF Ends
  <1>2. n \in SessionRecords("server") /\ q \in Seq(Sendable("server"))
    BY <1>1, HeardIsTold
  <1>3. /\ n.state = "AuthenticationRequestRecved"
        /\ \A i \in DOMAIN q : q[i].type # "AuthenticationResponse"
        /\ \E y : Does("server", Answering(success), {m}, y)
    BY AnswerStep
  <1>4. PICK y : Does("server", Answering(success), {m}, y)
    BY <1>3
  <1>5. Answering(success) = k
    BY DEF Answering
  <1>6. k.state = s /\ k.features = n.features /\ k.requests = n.requests
    <2> DEFINE id == n.lastReqId
               requests == n.requests
               tick == n.tick
               calls == n.calls
    <2>1. /\ s \in States /\ id \in Nat /\ requests \in SUBSET Nat /\ tick \in Nat /\ calls \in Nat
      BY <1>2 DEF SessionRecords, States
    <2>2. k = With(n, s, id, requests, tick, calls)
      OBVIOUS
    <2> HIDE DEF id, requests, calls, tick, s, k
    <2>3. k.state = s /\ k.features = n.features /\ k.requests = requests
      BY <1>1, <1>2, <2>1, <2>2, SessionWith
    <2> QED
      BY <2>3 DEF requests
  <1>7. m.type = "AuthenticationResponse" /\ (m.arg = 1 => s = "AuthenticatedAsServer")
        /\ (s = n.state \/ s = "AuthenticatedAsServer")
    BY DEF Msg
  <1> HIDE DEF k, m, s
  <1>8. ServerMay(k, m)
    BY <1>3, <1>6, <1>7 DEF ServerMay
  <1>9. \A h \in Told("server") : ~Alike(h, m)
    <2>1. \A h \in Told("server") : h.type # "AuthenticationResponse"
      BY <1>3 DEF Told, ToSet
    <2> QED
      BY <1>7, <2>1 DEF Alike
  <1>10. Does("server", k, {m}, y)
    BY <1>4, <1>5
  <1>11. \A a \in {m} : ServerMay(k, a) /\ \A h \in Told("server") : ~Alike(h, a)
    BY <1>8, <1>9
  <1>12. n.state # "Init"
    BY <1>3
  <1> QED
    BY <1>3, <1>6, <1>7, <1>10, <1>11, <1>12, ServerDoes

\* AcceptRemoteForwardRequest and RejectRemoteForwardRequest.
LEMMA ReplyConversation ==
  ASSUME FlowInv, ProtocolInv, ~crashed, NEW id \in session["server"].requests,
         AnswerForwardRequest(id)
  PROVE  ProtocolInv'
  <1> DEFINE n == session["server"]
             requests == n.requests \ {id}
             k == With(n, n.state, n.lastReqId, requests, n.tick, n.calls)
             m == Msg("RemoteForwardResponse", id)
  <1>1. "server" \in Ends
    BY DEF Ends
  <1>2. n \in SessionRecords("server")
    BY <1>1, HeardIsTold
  <1>3. n.state = "AuthenticatedAsServer" /\ \E y : Does("server", Replying(id), {m}, y)
    BY ReplyStep
  <1>4. PICK y : Does("server", Replying(id), {m}, y)
    BY <1>3
  <1>5. Replying(id) = k
    BY DEF Replying
  <1>6. k.state = n.state /\ k.features = n.features /\ k.requests = requests
    <2> DEFINE s == n.state
               last == n.lastReqId
               tick == n.tick
               calls == n.calls
    <2>1. /\ s \in States /\ last \in Nat /\ requests \in SUBSET Nat /\ tick \in Nat
          /\ calls \in Nat
      BY <1>2 DEF SessionRecords
    <2>2. k = With(n, s, last, requests, tick, calls)
      OBVIOUS
    <2> HIDE DEF requests, calls, tick, s, k, last
    <2>3. k.state = s /\ k.features = n.features /\ k.requests = requests
      BY <1>1, <1>2, <2>1, <2>2, SessionWith
    <2> QED
      BY <2>3 DEF s
  <1>7. m.type = "RemoteForwardResponse" /\ m.arg = id /\ id \in n.requests
        /\ id \notin requests /\ requests \subseteq n.requests
    BY DEF Msg
  <1> HIDE DEF k, m, requests
  <1>8. ServerMay(k, m)
    BY <1>6, <1>7 DEF ServerMay
  <1>9. \A h \in Told("server") : ~Alike(h, m)
    <2>1. \A h \in Told("server") : h.type = "RemoteForwardResponse" => h.arg \notin n.requests
      BY DEF ProtocolInv, ServerInv
    <2> QED
      BY <1>7, <2>1 DEF Alike, Hellos
  <1>10. Does("server", k, {m}, y)
    BY <1>4, <1>5
  <1>11. \A a \in {m} : ServerMay(k, a) /\ \A h \in Told("server") : ~Alike(h, a)
    BY <1>8, <1>9
  <1>12. n.state # "Init"
    BY <1>3
  <1> QED
    BY <1>6, <1>7, <1>10, <1>11, <1>12, ServerDoes

-----------------------------------------------------------------------------
(* The conversation holds.                                                 *)

\* No end acts after an exception or a call of a null transportManager.
LEMMA NextAlive ==
  ASSUME Next
  PROVE  ~aborted /\ ~crashed
  BY DEF Next, Start, End, HandleFDRead, ReadEnd, HandleFDWrite, SendRemoteForwardRequest,
         SendKeepAlive, Cleanup, LoseConnection, SendNotice, AnswerAuthentication,
         AnswerForwardRequest, CanStart, Call, HasData, AtEnd, Writable, Registered, Alive

\* Nothing is heard or told at the start.
LEMMA ConversationInit ==
  ASSUME Init
  PROVE  ProtocolInv /\ ~aborted
  <1> DEFINE c == session["client"]
             s == session["server"]
             none == <<>>
  <1>1. "client" \in Ends /\ "server" \in Ends
    BY DEF Ends
  <1>2. /\ c.state = "Init" /\ c.features.version = PINGGY_SESSION_VERSION_1_02
        /\ s.state = "Init" /\ s.requests = {}
    BY <1>1, InitialSessions
  <1>3. accepted = [e \in Ends |-> none] /\ delivered = [e \in Ends |-> none] /\ ~aborted
    BY DEF Init
  <1>4. \A e \in Ends : accepted[e] = none /\ delivered[e] = none /\ session[e].state = "Init"
    BY <1>3, InitialSessions
  <1>5. ToSet(none) = {}
    BY DEF ToSet
  <1>6. \A e \in Ends : Told(e) = {} /\ Heard(e) = {}
    BY <1>4, <1>5 DEF Told, Heard
  <1>7. \A e \in Ends : GreetInv(e)
    BY <1>4 DEF GreetInv, Once
  <1> HIDE DEF c, s
  <1>8. ClientInv
    BY <1>1, <1>2, <1>6 DEF ClientInv, Outset, Has, c
  <1>9. ServerInv
    BY <1>1, <1>2, <1>6 DEF ServerInv, Has, s
  <1> QED
    BY <1>3, <1>7, <1>8, <1>9 DEF ProtocolInv

\* A step that leaves sessions and messages alone.
LEMMA NothingSaid ==
  ASSUME ProtocolInv, session' = session, accepted' = accepted, delivered' = delivered,
         crashed' = crashed
  PROVE  ProtocolInv'
  <1>1. \A e : Told(e)' = Told(e) /\ Heard(e)' = Heard(e)
    BY DEF Told, Heard
  <1>2. ClientInv' /\ ServerInv'
    BY <1>1 DEF ProtocolInv, ClientInv, ServerInv
  <1>3. \A e \in Ends : GreetInv(e)'
    BY DEF ProtocolInv, GreetInv
  <1> QED
    BY <1>2, <1>3 DEF ProtocolInv

\* SendKeepAlive.
LEMMA KeepAliveConversation ==
  ASSUME FlowInv, ProtocolInv, ~crashed, SendKeepAlive
  PROVE  ProtocolInv'
  <1> DEFINE e == "client"
             n == session[e]
             k == KeepingAlive
             tick == n.tick + 1
             calls == n.calls + 1
             m == Msg("KeepAlive", n.tick)
  <1>1. e \in Ends
    BY DEF Ends
  <1>2. n \in SessionRecords(e) /\ n.state # "Init"
    BY <1>1, HeardIsTold DEF SendKeepAlive, MayCall, InUse
  <1>3. PICK y : Does(e, k, {m}, y)
    BY KeepAliveStep
  <1>4. /\ n.state \in States /\ n.lastReqId \in Nat /\ n.requests \in SUBSET Nat
        /\ tick \in Nat /\ calls \in Nat
    BY <1>2 DEF SessionRecords
  <1>5. /\ k.state = n.state /\ k.features = n.features /\ k.requests = n.requests
        /\ k.lastReqId = n.lastReqId
    <2> DEFINE s == n.state
               last == n.lastReqId
               requests == n.requests
    <2>1. k = With(n, s, last, requests, tick, calls)
      BY DEF KeepingAlive
    <2>2. s \in States /\ last \in Nat /\ requests \in SUBSET Nat
      BY <1>4
    <2> HIDE DEF n, s, last, requests, tick, calls, k
    <2>3. k.state = s /\ k.features = n.features /\ k.requests = requests /\ k.lastReqId = last
      BY <1>1, <1>2, <1>4, <2>1, <2>2, SessionWith
    <2> QED
      BY <2>3 DEF s, last, requests
  <1>6. \A a \in {m} : a.type \in {"Disconnect", "KeepAlive", "Error", "Usages"}
    BY DEF Msg
  <1> HIDE DEF k, m, e
  <1> QED
    BY <1>1, <1>2, <1>3, <1>5, <1>6, QuietConversation

\* SendError and SendUsages.
LEMMA NoticeConversation ==
  ASSUME FlowInv, ProtocolInv, ~crashed, NEW type \in Notices, SendNotice(type)
  PROVE  ProtocolInv'
  <1> DEFINE e == "server"
             n == session[e]
             k == Noticing
             calls == n.calls + 1
             m == Msg(type, 0)
  <1>1. e \in Ends
    BY DEF Ends
  <1>2. n \in SessionRecords(e) /\ n.state # "Init"
    BY <1>1, HeardIsTold DEF SendNotice, MayCall, InUse
  <1>3. PICK y : Does(e, k, {m}, y)
    BY NoticeStep
  <1>4. /\ n.state \in States /\ n.lastReqId \in Nat /\ n.requests \in SUBSET Nat
        /\ n.tick \in Nat /\ calls \in Nat
    BY <1>2 DEF SessionRecords
  <1>5. /\ k.state = n.state /\ k.features = n.features /\ k.requests = n.requests
        /\ k.lastReqId = n.lastReqId
    <2> DEFINE s == n.state
               last == n.lastReqId
               requests == n.requests
               tick == n.tick
    <2>1. k = With(n, s, last, requests, tick, calls)
      BY DEF Noticing
    <2>2. s \in States /\ last \in Nat /\ requests \in SUBSET Nat /\ tick \in Nat
      BY <1>4
    <2> HIDE DEF n, s, last, requests, tick, calls, k
    <2>3. k.state = s /\ k.features = n.features /\ k.requests = requests /\ k.lastReqId = last
      BY <1>1, <1>2, <1>4, <2>1, <2>2, SessionWith
    <2> QED
      BY <2>3 DEF s, last, requests
  <1>6. \A a \in {m} : a.type \in {"Disconnect", "KeepAlive", "Error", "Usages"}
    BY SessionAssumption DEF Msg
  <1> HIDE DEF k, m, e
  <1> QED
    BY <1>1, <1>2, <1>3, <1>5, <1>6, QuietConversation

\* HandleFDRead.
LEMMA ReadConversation ==
  ASSUME FlowInv, ProtocolInv, ~crashed, NEW e \in Ends, HandleFDRead(e)
  PROVE  ProtocolInv' /\ ~aborted'
  <1>1. /\ session[e].state # "Init" /\ crashed' = crashed
        /\ NoMessage(e) \/ \E m, x, y : Handles(e, m, x, y)
    BY ReadStep
  <1>2. CASE NoMessage(e)
    BY <1>1, <1>2, NothingSaid DEF NoMessage
  <1>3. ASSUME NEW m, NEW x, NEW y, Handles(e, m, x, y) PROVE ProtocolInv' /\ ~aborted'
    BY <1>1, <1>3, HandlesConversation
  <1> QED
    BY <1>1, <1>2, <1>3

\* The invariant of the conversation is inductive.
LEMMA ConversationNext ==
  ASSUME FlowInv, ProtocolInv, ~aborted, [Next]_vars
  PROVE  ProtocolInv' /\ ~aborted'
  <1>1. CASE Next
    <2>1. ~crashed /\ "client" \in Ends /\ "server" \in Ends
      BY <1>1, NextAlive DEF Ends
    <2> DEFINE Goal == ProtocolInv' /\ ~aborted'
    <2>2. ASSUME NEW e \in Ends, NEW k, NEW messages, NEW y, Does(e, k, messages, y)
          PROVE  ~aborted'
      BY <2>2, DoesFacts
    <2>3. ASSUME NEW e \in Ends, NEW messages, NEW y, Does(e, session[e], messages, y),
                 session[e].state # "Init", messages \subseteq {Msg("Disconnect", 0)}
          PROVE  Goal
      <3>1. \A m \in messages : m.type \in {"Disconnect", "KeepAlive", "Error", "Usages"}
        BY <2>3 DEF Msg
      <3> QED
        BY <2>1, <2>2, <2>3, <3>1, QuietConversation
    <2>4. ASSUME NEW e \in Ends, Start(e) PROVE Goal
      BY <2>2, <2>4, StartStep, StartConversation
    <2>5. ASSUME NEW e \in Ends, End(e) PROVE Goal
      BY <2>3, <2>5, EndStep
    <2>6. ASSUME NEW e \in Ends, HandleFDRead(e) PROVE Goal
      BY <2>1, <2>6, ReadConversation
    <2>7. ASSUME NEW e \in Ends, Registered(e) PROVE session[e].state # "Init"
      BY <2>7, AtWork DEF Registered, Fresh
    <2>8. ASSUME NEW e \in Ends, ReadEnd(e) PROVE Goal
      <3>1. session[e].state # "Init"
        BY <2>7, <2>8 DEF ReadEnd, AtEnd
      <3> QED
        BY <2>3, <2>8, <3>1, ReadEndStep
    <2>9. ASSUME NEW e \in Ends, HandleFDWrite(e) PROVE Goal
      <3>1. session[e].state # "Init"
        BY <2>7, <2>9 DEF HandleFDWrite, Writable
      <3> QED
        BY <2>3, <2>9, <3>1, WriteStep
    <2>10. CASE SendRemoteForwardRequest
      BY <2>1, <2>2, <2>10, RequestStep, RequestConversation
    <2>11. CASE SendKeepAlive
      BY <2>1, <2>2, <2>11, KeepAliveStep, KeepAliveConversation
    <2>12. CASE Cleanup
      <3>1. session["client"].state # "Init"
        BY <2>12 DEF Cleanup, InUse
      <3> QED
        BY <2>1, <2>3, <2>12, <3>1, CleanupStep
    <2>13. CASE LoseConnection
      BY <2>13, NothingSaid DEF LoseConnection
    <2>14. ASSUME NEW type \in Notices, SendNotice(type) PROVE Goal
      BY <2>1, <2>2, <2>14, NoticeStep, NoticeConversation
    <2>15. ASSUME NEW success \in BOOLEAN, AnswerAuthentication(success) PROVE Goal
      BY <2>1, <2>2, <2>15, AnswerStep, AnswerConversation
    <2>16. ASSUME NEW id \in session["server"].requests, AnswerForwardRequest(id) PROVE Goal
      BY <2>1, <2>2, <2>16, ReplyStep, ReplyConversation
    <2>17. CASE \E e \in Ends :
                  Start(e) \/ End(e) \/ HandleFDRead(e) \/ ReadEnd(e) \/ HandleFDWrite(e)
      BY <2>4, <2>5, <2>6, <2>8, <2>9, <2>17
    <2>18. CASE \/ \E type \in Notices : SendNotice(type)
                \/ \E success \in BOOLEAN : AnswerAuthentication(success)
                \/ \E id \in session["server"].requests : AnswerForwardRequest(id)
      BY <2>14, <2>15, <2>16, <2>18
    <2> QED
      BY <1>1, <2>10, <2>11, <2>12, <2>13, <2>17, <2>18 DEF Next
  <1>2. CASE UNCHANGED vars
    BY <1>2, NothingSaid DEF vars
  <1> QED
    BY <1>1, <1>2

\* What an end's state says of the messages it has accepted and handled, and that it has
\* met nothing unexpected so far.
THEOREM Conversation == Spec => [](FlowInv /\ ProtocolInv /\ NeverUnexpected)
  <1>1. Init => FlowInv /\ ProtocolInv /\ NeverUnexpected
    BY FlowInit, ConversationInit DEF NeverUnexpected
  <1>2. FlowInv /\ ProtocolInv /\ NeverUnexpected /\ [Next]_vars
          => FlowInv' /\ ProtocolInv' /\ NeverUnexpected'
    BY FlowNext, ConversationNext DEF NeverUnexpected
  <1> QED
    BY <1>1, <1>2, PTL DEF Spec

\* Nothing unexpected arrives, whatever the capacity of the sockets, the versions, the
\* number of calls and the way the stream is cut: handleDeserializedMsg never meets a
\* message in the wrong state, an answer to no request or a hello of the wrong kind, and
\* the reader never meets a path that it does not know.
THEOREM NothingUnexpected == Spec => []NeverUnexpected
  <1>1. FlowInv /\ ProtocolInv /\ NeverUnexpected => NeverUnexpected
    OBVIOUS
  <1> QED
    BY <1>1, Conversation, PTL

\* Two ends that have negotiated run the same version with the same features, whatever
\* the server offers, and the client goes on with its own version only.
THEOREM VersionsAgree == Spec => []FeaturesAgree
  <1>1. ASSUME FlowInv, ProtocolInv PROVE FeaturesAgree
    <2> DEFINE c == session["client"]
               s == session["server"]
               own == PINGGY_SESSION_VERSION_1_02
    <2>1. SUFFICES ASSUME c.state \notin Outset, s.state \notin {"Init", "ServerHelloSent"}
                   PROVE  c.features = s.features /\ c.features.version = own
      BY DEF FeaturesAgree, Outset
    <2>2. /\ Has(Heard("client"), "ServerHello") /\ c.features = ConfigureFeatures(own)
          /\ \A m \in Heard("client") : m.type = "ServerHello" => m.arg >= own
      BY <1>1, <2>1 DEF ProtocolInv, ClientInv
    <2>3. PICK m \in Heard("client") : m.type = "ServerHello"
      BY <2>2 DEF Has
    <2>4. m \in Told("server") /\ m \in Sendable("server") /\ "server" \in Ends
      BY <1>1, <2>3, HeardIsTold DEF Ends, Peer
    <2>5. m.arg \in Nat /\ m.arg >= own
      BY <2>2, <2>3, <2>4, SendableFacts
    <2>6. Heard("server") # {}
      BY <1>1, <2>1 DEF ProtocolInv, ServerInv, Has
    <2>7. s.features = NegotiateVersion(m.arg, own)
      BY <1>1, <2>3, <2>4, <2>6 DEF ProtocolInv, ServerInv
    <2>8. s.features = ConfigureFeatures(own) /\ ConfigureFeatures(own).version = own
      BY <2>5, <2>7, VersionsMeet
    <2> QED
      BY <2>2, <2>8
  <1>2. FlowInv /\ ProtocolInv /\ NeverUnexpected => FeaturesAgree
    BY <1>1
  <1> QED
    BY <1>2, Conversation, PTL
=============================================================================
