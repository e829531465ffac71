---------------------------- MODULE VisitorProofs -----------------------------
(***************************************************************************)
(* Proofs about module Visitor, for every window, chunk, socket buffer and *)
(* number of addresses.  A visitor uses its channel as module Channel      *)
(* allows, so that all that is proved of the channel holds here; between   *)
(* the channel and the poll controller no wake-up is lost; what one        *)
(* application writes before it shuts down is what the other one gets; and *)
(* the answer to a request fits what the addresses did.                    *)
(*                                                                         *)
(* The invariant is a conjunction for each end, of what that end alone     *)
(* changes, and of one part (Delivered) that relates the two ends.         *)
(***************************************************************************)
EXTENDS Visitor, ChannelStreamProofs

Socket ==
  [kernel : {"none", "connecting", "up", "failed"}, address : Nat, cached : BOOLEAN,
   left : Seq([address : Nat, cached : BOOLEAN]), timer : BOOLEAN, inbox : Nat,
   fin : BOOLEAN, outbox : Nat]
Forwarder ==
  [phase : {"idle", "connecting", "connected", "running", "done"}, sock : Socket,
   poll : FdMetaData, forChannel : 0 .. Chunk, forNetConn : Nat,
   recvEnabled : BOOLEAN, sendEnabled : BOOLEAN, written : Nat, given : Nat,
   closedBy : {"nobody", "application", "channel", "error", "rejected", "unreachable", "unknown"},
   dropped : BOOLEAN, early : BOOLEAN, missed : SUBSET Nat]
Batch == [session : Turns, events : SUBSET PollEvents, dummy : BOOLEAN]

Calls == {"nothing", "accept", "reject", "close"}
EndsTyped ==
  fwd \in [Ends -> Forwarder] /\ batch \in [Ends -> Batch] /\ todo \in [Ends -> Calls]

\* Not started yet: nothing has been polled, read or written.
Fresh(f) == f.phase \in {"idle", "connecting", "connected"}

\* How the phase of a forwarder goes with its channel and its handlers.
PhaseInv(e) ==
  LET f == fwd[e]
  IN  /\ state[e] = "Init" => f.phase = "idle" /\ recvQueue[e] = <<>>
      /\ todo[e] = "accept" => f.phase = "connected"
      /\ todo[e] \in {"reject", "close"} => f.phase = "done"
      /\ f.phase = "running" =>
           /\ state[e] \in {"Connecting", "Connected", "CloseResponding"}
           /\ state[e] # "Connecting" => allowWrite[e]
      /\ f.phase \in {"idle", "done"} => f.sock = NoSocket
      /\ f.closedBy # "nobody" => f.phase = "done"
      /\ f.phase = "connecting" => ~f.poll.in
      /\ f.phase \in {"idle", "connected", "done"} => f.poll = NoHandler
      /\ Fresh(f) =>
           /\ f.forChannel = 0 /\ f.forNetConn = 0 /\ ~f.sendEnabled /\ ~f.poll.dummy
           /\ ~batch[e].dummy /\ "in" \notin batch[e].events

\* The wake-ups of a forwarder that runs.  The first four are the property;
\* the others say what the poll controller still has in hand: a dummy read is
\* raised only when no event or dummy read of the batch looks at the chunk.
WakeInv(e) ==
  LET f == fwd[e]
      b == batch[e]
  IN  f.phase = "running" =>
        /\ recvQueue[e] # <<>> \/ state[e] = "CloseResponding" => f.poll.out
        /\ f.forNetConn > 0 => f.poll.out
        /\ ~f.poll.in =>
             Holds(f) /\ (state[e] = "Connecting" \/ f.forChannel > remoteWindow[e])
        /\ Holds(f) /\ f.poll.in =>
             f.poll.dummy \/ b.dummy \/ f.dropped \/ b.events \cap {"in", "hup"} # {}
        /\ f.poll.registered /\ f.recvEnabled = f.poll.in /\ f.sendEnabled = f.poll.out
        /\ f.poll.dummy => f.poll.in /\ "in" \notin b.events /\ ~b.dummy
        /\ "in" \in b.events \/ b.dummy => f.poll.in
        /\ b.dummy => b.events = {}
        /\ state[e] = "Connecting" /\ Holds(f) => ~f.poll.in

\* The addresses that are still to answer.
LeftOver(sock) == {sock.left[i].address : i \in 1 .. Len(sock.left)}
ConnectInv(e) ==
  LET f == fwd[e]
  IN  /\ f.phase = "connecting" =>
           Addresses \subseteq f.missed \cup {f.sock.address} \cup LeftOver(f.sock)
      /\ f.sock.timer => f.phase = "connecting"
      /\ f.closedBy = "unreachable" => Addresses \subseteq f.missed
      /\ f.sock.kernel = "connecting" /\ f.phase # "connecting" => f.early

\* Where the bytes are that an application has written, as long as nothing is
\* thrown away, and those that it is to be given.
BytesInv(e) ==
  LET f == fwd[e]
  IN  /\ Fresh(f) =>
           /\ f.written = 0 /\ f.given = 0 /\ f.sock.inbox = 0 /\ ~f.sock.fin
           /\ sent[e] = 0 /\ read[e] = 0
      /\ f.phase = "running" =>
           /\ f.sock.fin => f.sock.kernel = "up"
           /\ f.sock.kernel \in {"up", "connecting"} =>
                f.written = sent[e] + f.forChannel + f.sock.inbox
           /\ f.given + f.forNetConn = read[e]
      /\ f.closedBy = "application" => f.written = sent[e]

\* An end that has closed because the stream ended has written all of it, and
\* its peer sends no more.
Delivered(e) ==
  fwd[e].closedBy = "channel" =>
    fwd[e].given = sent[Peer(e)] /\ state[Peer(e)] \in Leaving

EndInv(e) == PhaseInv(e) /\ WakeInv(e) /\ ConnectInv(e) /\ BytesInv(e)
VisitorInv == EndsTyped /\ \A e \in Ends : EndInv(e) /\ Delivered(e)
-----------------------------------------------------------------------------
(* The records of the forwarder, its socket and its poll entry.            *)

LEMMA NewForwarder ==
  /\ NoSocket \in Socket /\ AcceptedSocket \in Socket
  /\ NoHandler \in FdMetaData /\ IdleForwarder \in Forwarder /\ NoBatch \in Batch
  <1>1. NoSocket \in Socket
    <2>1. <<>> \in Seq([address : Nat, cached : BOOLEAN])
      OBVIOUS
    <2> QED
      BY <2>1 DEF NoSocket, Socket, NoAddress
  <1>2. NoHandler \in FdMetaData
    BY DEF NoHandler, FdMetaData
  <1>3. AcceptedSocket \in Socket
    BY <1>1 DEF AcceptedSocket, Socket
  <1>4. NoBatch \in Batch
    BY DEF NoBatch, Batch, Turns
  <1>5. IdleForwarder \in Forwarder
    <2>1. 0 \in 0 .. Chunk /\ {} \in SUBSET Nat
      BY ForwarderAssumption
    <2> QED
      BY <1>1, <1>2, <2>1 DEF IdleForwarder, Forwarder
  <1> QED
    BY <1>1, <1>2, <1>3, <1>4, <1>5

\* The calls on the poll controller that a forwarder makes.
LEMMA PollCalls ==
  ASSUME NEW m \in FdMetaData
  PROVE  /\ RegisterHandler(m) \in FdMetaData
         /\ RegisterHandler(m).registered /\ RegisterHandler(m).in /\ ~RegisterHandler(m).out
         /\ RegisterHandler(m).dummy = m.dummy
         /\ RegisterConnectHandler(m) \in FdMetaData
         /\ ~RegisterConnectHandler(m).in /\ RegisterConnectHandler(m).dummy = m.dummy
         /\ DeregisterHandler(m) = NoHandler
  <1>1. /\ RegisterHandler(m) \in FdMetaData
        /\ RegisterHandler(m).registered = TRUE /\ RegisterHandler(m).in = TRUE
        /\ RegisterHandler(m).out = FALSE /\ RegisterHandler(m).dummy = m.dummy
    BY DEF FdMetaData, RegisterHandler
  <1>2. ASSUME NEW n \in FdMetaData
        PROVE  /\ DisableReader(n) \in FdMetaData /\ EnableWriter(n) \in FdMetaData
               /\ DisableReader(n).in = FALSE /\ DisableReader(n).dummy = n.dummy
               /\ EnableWriter(n).in = n.in /\ EnableWriter(n).dummy = n.dummy
    BY DEF FdMetaData, DisableReader, EnableWriter
  <1> QED
    BY <1>1, <1>2 DEF RegisterConnectHandler, DeregisterHandler

\* A closed connection has no socket and is not polled.
LEMMA CloseConnFacts ==
  ASSUME NEW f \in Forwarder,
         NEW why \in {"application", "channel", "error", "rejected", "unreachable", "unknown"}
  PROVE  /\ CloseConn(f, why) \in Forwarder
         /\ CloseConn(f, why).phase = "done"
         /\ CloseConn(f, why).sock = NoSocket
         /\ CloseConn(f, why).poll = NoHandler
         /\ CloseConn(f, why).closedBy = why
         /\ CloseConn(f, why).written = f.written
         /\ CloseConn(f, why).given = f.given
         /\ CloseConn(f, why).missed = f.missed
  BY NewForwarder DEF CloseConn, Forwarder, DeregisterHandler

\* What is left of the addresses after the i-th.
LEMMA AttemptFacts ==
  ASSUME NEW sock \in Socket, NEW i \in DOMAIN sock.left, NEW kernel \in {"connecting", "up"}
  PROVE  LET next == Attempt(sock, i, kernel)
         IN  /\ next \in Socket
             /\ next.kernel = kernel /\ next.timer = (kernel = "connecting")
             /\ next.inbox = sock.inbox /\ next.fin = sock.fin
             /\ LeftOver(sock) \subseteq PassedOver(sock, next) \cup {next.address} \cup LeftOver(next)
             /\ PassedOver(sock, next) \subseteq Nat
  <1> DEFINE next == Attempt(sock, i, kernel)
             q == sock.left
             A == [address : Nat, cached : BOOLEAN]
  <1>1. q \in Seq(A) /\ Len(q) \in Nat /\ i \in 1 .. Len(q) /\ DOMAIN q = 1 .. Len(q)
    BY LenProperties DEF Socket
  <1>2. \A j \in 1 .. Len(q) : q[j] \in A
    BY <1>1, ElementOfSeq
  <1> HIDE DEF A
  <1>3. /\ SubSeq(q, i + 1, Len(q)) \in Seq(A)
        /\ Len(SubSeq(q, i + 1, Len(q))) = Len(q) - i
        /\ \A k \in 1 .. Len(q) - i : SubSeq(q, i + 1, Len(q))[k] = q[i + k]
    BY <1>1
  <1>4. /\ next.kernel = kernel /\ next.address = q[i].address /\ next.cached = q[i].cached
        /\ next.left = SubSeq(q, i + 1, Len(q)) /\ next.timer = (kernel = "connecting")
        /\ next.inbox = sock.inbox /\ next.fin = sock.fin
        /\ next = [sock EXCEPT !.kernel = kernel, !.address = q[i].address, !.cached = q[i].cached,
                               !.left = SubSeq(q, i + 1, Len(q)), !.timer = kernel = "connecting"]
    BY DEF Attempt, Socket
  <1>5. next \in Socket
    BY <1>1, <1>2, <1>3, <1>4 DEF Socket, A
  <1>6. PassedOver(sock, next) = {q[j].address : j \in 1 .. i - 1}
    <2>1. Len(sock.left) - Len(next.left) - 1 = i - 1 /\ next.kernel # "failed"
      BY <1>1, <1>3, <1>4
    <2> HIDE DEF next
    <2> QED
      BY <2>1 DEF PassedOver
  <1>7. ASSUME NEW j \in 1 .. Len(q)
        PROVE  q[j].address \in PassedOver(sock, next) \cup {next.address} \cup LeftOver(next)
    <2>1. CASE j < i
      BY <1>1, <1>6, <2>1
    <2>2. CASE j = i
      BY <1>4, <2>2
    <2>3. CASE j > i
      <3> HIDE DEF next, q
      <3>1. Len(next.left) = Len(q) - i /\ j - i \in 1 .. Len(q) - i /\ i + (j - i) = j
        BY <1>1, <1>3, <1>4, <2>3
      <3>2. j - i \in 1 .. Len(next.left) /\ next.left[j - i] = q[j]
        BY <1>3, <1>4, <3>1
      <3> QED
        BY <3>2 DEF LeftOver
    <2> QED
      BY <1>1, <2>1, <2>2, <2>3
  <1>8. PassedOver(sock, next) \subseteq Nat
    BY <1>1, <1>2, <1>6 DEF A
  <1>9. LeftOver(sock) \subseteq PassedOver(sock, next) \cup {next.address} \cup LeftOver(next)
    BY <1>7 DEF LeftOver
  <1> QED
    BY <1>4, <1>5, <1>8, <1>9

\* An attempt to connect is under way, has succeeded or was the last.
LEMMA NextAttemptFacts ==
  ASSUME EndsTyped, NEW e \in Ends, NEW f \in Forwarder,
         NextAttempt(e, f), Addresses \subseteq f.missed \cup LeftOver(f.sock)
  PROVE  LET g == fwd'[e]
         IN  /\ fwd' = [fwd EXCEPT ![e] = g]
             /\ todo' = [todo EXCEPT ![e] = todo'[e]]
             /\ g \in Forwarder
             /\ g.forChannel = f.forChannel /\ g.forNetConn = f.forNetConn
             /\ g.sendEnabled = f.sendEnabled /\ g.written = f.written /\ g.given = f.given
             /\ \/ /\ g.phase = "connecting" /\ g.sock.kernel = "connecting"
                   /\ g.poll = RegisterConnectHandler(f.poll) /\ g.closedBy = f.closedBy
                   /\ g.sock.inbox = f.sock.inbox /\ g.sock.fin = f.sock.fin
                   /\ Addresses \subseteq g.missed \cup {g.sock.address} \cup LeftOver(g.sock)
                   /\ todo' = todo
                \/ /\ g.phase = "connected" /\ g.sock.kernel = "up" /\ ~g.sock.timer
                   /\ g.poll = f.poll /\ g.closedBy = f.closedBy
                   /\ g.sock.inbox = f.sock.inbox /\ g.sock.fin = f.sock.fin
                   /\ todo'[e] = "accept"
                \/ /\ g.phase = "done" /\ g.sock = NoSocket /\ g.poll = NoHandler
                   /\ g.closedBy = "unreachable" /\ Addresses \subseteq g.missed
                   /\ todo'[e] = "reject"
  <1> PICK sock \in TryNonBlockingConnect(f.sock) :
        LET tried == [f EXCEPT !.sock = sock, !.missed = @ \cup PassedOver(f.sock, sock)]
        IN  \/ /\ sock.kernel = "connecting"
               /\ Become(e, [tried EXCEPT !.phase = "connecting",
                                          !.poll = RegisterConnectHandler(@)])
               /\ UNCHANGED todo
            \/ /\ sock.kernel = "up"
               /\ Become(e, [tried EXCEPT !.phase = "connected"])
               /\ CallNext(e, "accept")
            \/ /\ sock.kernel = "failed"
               /\ Become(e, CloseConn(tried, "unreachable"))
               /\ CallNext(e, "reject")
    BY DEF NextAttempt
  <1> DEFINE tried == [f EXCEPT !.sock = sock, !.missed = @ \cup PassedOver(f.sock, sock)]
  <1>1. /\ f.sock \in Socket /\ f.poll \in FdMetaData /\ f.missed \in SUBSET Nat
        /\ fwd \in [Ends -> Forwarder] /\ todo \in [Ends -> Calls]
    BY DEF Forwarder, EndsTyped
  <1>2. /\ sock \in Socket /\ PassedOver(f.sock, sock) \subseteq Nat
        /\ \/ /\ sock.kernel \in {"connecting", "up"} /\ sock.timer = (sock.kernel = "connecting")
              /\ sock.inbox = f.sock.inbox /\ sock.fin = f.sock.fin
              /\ LeftOver(f.sock) \subseteq
                   PassedOver(f.sock, sock) \cup {sock.address} \cup LeftOver(sock)
           \/ /\ sock.kernel = "failed"
              /\ LeftOver(f.sock) \subseteq PassedOver(f.sock, sock)
    <2>1. CASE \E i \in DOMAIN f.sock.left : \E kernel \in {"connecting", "up"} :
                 sock = Attempt(f.sock, i, kernel)
      BY <1>1, <2>1, AttemptFacts
    <2>2. CASE sock = [NoSocket EXCEPT !.kernel = "failed"]
      <3> DEFINE q == f.sock.left
      <3>1. sock \in Socket /\ sock.kernel = "failed" /\ Len(sock.left) = 0
        <4>1. sock \in Socket /\ sock.kernel = "failed" /\ sock.left = NoSocket.left
          BY <2>2, NewForwarder DEF Socket
        <4>2. NoSocket.left = <<>>
          BY DEF NoSocket
        <4> QED
          BY <4>1, <4>2
      <3>2. /\ q \in Seq([address : Nat, cached : BOOLEAN]) /\ Len(q) \in Nat
            /\ \A j \in 1 .. Len(q) : q[j] \in [address : Nat, cached : BOOLEAN]
        BY <1>1, LenProperties, ElementOfSeq DEF Socket
      <3>3. PassedOver(f.sock, sock) = {q[j].address : j \in 1 .. Len(q)}
        BY <3>1, <3>2 DEF PassedOver
      <3> QED
        BY <3>1, <3>2, <3>3 DEF LeftOver
    <2> QED
      BY <2>1, <2>2 DEF TryNonBlockingConnect
  <1>3. /\ tried \in Forwarder /\ tried.sock = sock /\ tried.poll = f.poll
        /\ tried.missed = f.missed \cup PassedOver(f.sock, sock)
        /\ tried.closedBy = f.closedBy
        /\ tried.forChannel = f.forChannel /\ tried.forNetConn = f.forNetConn
        /\ tried.sendEnabled = f.sendEnabled /\ tried.written = f.written
        /\ tried.given = f.given
    BY <1>1, <1>2 DEF Forwarder
  <1> HIDE DEF tried
  <1>4. ASSUME sock.kernel = "connecting",
               Become(e, [tried EXCEPT !.phase = "connecting", !.poll = RegisterConnectHandler(@)])
        PROVE  LET g == fwd'[e]
               IN  /\ fwd' = [fwd EXCEPT ![e] = g] /\ g \in Forwarder
                   /\ g.forChannel = f.forChannel /\ g.forNetConn = f.forNetConn
                   /\ g.sendEnabled = f.sendEnabled /\ g.written = f.written /\ g.given = f.given
                   /\ g.phase = "connecting" /\ g.sock = sock
                   /\ g.poll = RegisterConnectHandler(f.poll) /\ g.closedBy = f.closedBy
                   /\ g.missed = tried.missed
    <2> DEFINE h == [tried EXCEPT !.phase = "connecting", !.poll = RegisterConnectHandler(@)]
    <2>1. fwd'[e] = h /\ fwd' = [fwd EXCEPT ![e] = h]
      BY <1>1, <1>4 DEF Become
    <2>2. RegisterConnectHandler(f.poll) \in FdMetaData
      BY <1>1, PollCalls
    <2>3. /\ h \in Forwarder /\ h.forChannel = f.forChannel /\ h.forNetConn = f.forNetConn
          /\ h.sendEnabled = f.sendEnabled /\ h.written = f.written /\ h.given = f.given
          /\ h.phase = "connecting" /\ h.sock = sock
          /\ h.poll = RegisterConnectHandler(f.poll) /\ h.closedBy = f.closedBy
          /\ h.missed = tried.missed
      BY <1>3, <2>2 DEF Forwarder
    <2> QED
      BY <2>1, <2>3
  <1>5. ASSUME sock.kernel = "up", Become(e, [tried EXCEPT !.phase = "connected"])
        PROVE  LET g == fwd'[e]
               IN  /\ fwd' = [fwd EXCEPT ![e] = g] /\ g \in Forwarder
                   /\ g.forChannel = f.forChannel /\ g.forNetConn = f.forNetConn
                   /\ g.sendEnabled = f.sendEnabled /\ g.written = f.written /\ g.given = f.given
                   /\ g.phase = "connected" /\ g.sock = sock
                   /\ g.poll = f.poll /\ g.closedBy = f.closedBy
    <2> DEFINE h == [tried EXCEPT !.phase = "connected"]
    <2>1. fwd'[e] = h /\ fwd' = [fwd EXCEPT ![e] = h]
      BY <1>1, <1>5 DEF Become
    <2>2. /\ h \in Forwarder /\ h.forChannel = f.forChannel /\ h.forNetConn = f.forNetConn
          /\ h.sendEnabled = f.sendEnabled /\ h.written = f.written /\ h.given = f.given
          /\ h.phase = "connected" /\ h.sock = sock
          /\ h.poll = f.poll /\ h.closedBy = f.closedBy
      BY <1>3 DEF Forwarder
    <2> QED
      BY <2>1, <2>2
  <1>6. ASSUME sock.kernel = "failed", Become(e, CloseConn(tried, "unreachable"))
        PROVE  LET g == fwd'[e]
               IN  /\ fwd' = [fwd EXCEPT ![e] = g] /\ g \in Forwarder
                   /\ g.forChannel = f.forChannel /\ g.forNetConn = f.forNetConn
                   /\ g.sendEnabled = f.sendEnabled /\ g.written = f.written /\ g.given = f.given
                   /\ g.phase = "done" /\ g.sock = NoSocket /\ g.poll = NoHandler
                   /\ g.closedBy = "unreachable" /\ g.missed = tried.missed
    <2>1. fwd'[e] = CloseConn(tried, "unreachable")
          /\ fwd' = [fwd EXCEPT ![e] = CloseConn(tried, "unreachable")]
      BY <1>1, <1>6 DEF Become
    <2>2. /\ CloseConn(tried, "unreachable").forChannel = f.forChannel
          /\ CloseConn(tried, "unreachable").forNetConn = f.forNetConn
          /\ CloseConn(tried, "unreachable").sendEnabled = f.sendEnabled
      BY <1>3 DEF CloseConn, Forwarder
    <2> QED
      BY <1>3, <2>1, <2>2, CloseConnFacts
  <1>7. CASE /\ sock.kernel = "connecting"
             /\ Become(e, [tried EXCEPT !.phase = "connecting", !.poll = RegisterConnectHandler(@)])
             /\ UNCHANGED todo
    BY <1>1, <1>2, <1>3, <1>4, <1>7
  <1>8. CASE /\ sock.kernel = "up"
             /\ Become(e, [tried EXCEPT !.phase = "connected"])
             /\ CallNext(e, "accept")
    BY <1>1, <1>2, <1>3, <1>5, <1>8 DEF CallNext
  <1>9. CASE /\ sock.kernel = "failed"
             /\ Become(e, CloseConn(tried, "unreachable"))
             /\ CallNext(e, "reject")
    BY <1>1, <1>2, <1>3, <1>6, <1>9 DEF CallNext
  <1> QED
    BY <1>7, <1>8, <1>9 DEF tried

\* A handler that only changes what is polled.
OnlyPolls(f, g) ==
  /\ g \in Forwarder
  /\ g.phase = f.phase /\ g.sock = f.sock /\ g.forChannel = f.forChannel
  /\ g.forNetConn = f.forNetConn /\ g.written = f.written /\ g.given = f.given
  /\ g.closedBy = f.closedBy /\ g.dropped = f.dropped /\ g.early = f.early
  /\ g.missed = f.missed

LEMMA ReadPolls ==
  ASSUME NEW f \in Forwarder
  PROVE  /\ OnlyPolls(f, EnableReadPoll(f)) /\ OnlyPolls(f, DisableReadPoll(f))
         /\ EnableReadPoll(f).recvEnabled = TRUE /\ DisableReadPoll(f).recvEnabled = FALSE
         /\ EnableReadPoll(f).poll.in = f.poll.registered /\ DisableReadPoll(f).poll.in = FALSE
         /\ \A g \in {EnableReadPoll(f), DisableReadPoll(f)} :
              /\ g.sendEnabled = f.sendEnabled /\ g.poll.registered = f.poll.registered
              /\ g.poll.out = f.poll.out /\ g.poll.dummy = f.poll.dummy
  <1>1. f.poll \in FdMetaData
    BY DEF Forwarder
  <1>2. /\ EnableReader(f.poll) \in FdMetaData
        /\ EnableReader(f.poll).in = f.poll.registered
        /\ EnableReader(f.poll).registered = f.poll.registered
        /\ EnableReader(f.poll).out = f.poll.out /\ EnableReader(f.poll).dummy = f.poll.dummy
    BY <1>1 DEF FdMetaData, EnableReader
  <1>3. /\ DisableReader(f.poll) \in FdMetaData
        /\ DisableReader(f.poll).in = FALSE
        /\ DisableReader(f.poll).registered = f.poll.registered
        /\ DisableReader(f.poll).out = f.poll.out /\ DisableReader(f.poll).dummy = f.poll.dummy
    BY <1>1 DEF FdMetaData, DisableReader
  <1>4. /\ OnlyPolls(f, EnableReadPoll(f)) /\ EnableReadPoll(f).recvEnabled = TRUE
        /\ EnableReadPoll(f).poll = EnableReader(f.poll)
        /\ EnableReadPoll(f).sendEnabled = f.sendEnabled
    BY <1>2 DEF EnableReadPoll, OnlyPolls, Forwarder
  <1>5. /\ OnlyPolls(f, DisableReadPoll(f)) /\ DisableReadPoll(f).recvEnabled = FALSE
        /\ DisableReadPoll(f).poll = DisableReader(f.poll)
        /\ DisableReadPoll(f).sendEnabled = f.sendEnabled
    BY <1>3 DEF DisableReadPoll, OnlyPolls, Forwarder
  <1> QED
    BY <1>2, <1>3, <1>4, <1>5

LEMMA WritePolls ==
  ASSUME NEW f \in Forwarder
  PROVE  /\ OnlyPolls(f, EnableWritePoll(f)) /\ OnlyPolls(f, DisableWritePoll(f))
         /\ EnableWritePoll(f).sendEnabled = TRUE /\ DisableWritePoll(f).sendEnabled = FALSE
         /\ EnableWritePoll(f).poll.out = f.poll.registered /\ DisableWritePoll(f).poll.out = FALSE
         /\ \A g \in {EnableWritePoll(f), DisableWritePoll(f)} :
              /\ g.recvEnabled = f.recvEnabled /\ g.poll.registered = f.poll.registered
              /\ g.poll.in = f.poll.in /\ g.poll.dummy = f.poll.dummy
  <1>1. f.poll \in FdMetaData
    BY DEF Forwarder
  <1>2. /\ EnableWriter(f.poll) \in FdMetaData
        /\ EnableWriter(f.poll).out = f.poll.registered
        /\ EnableWriter(f.poll).registered = f.poll.registered
        /\ EnableWriter(f.poll).in = f.poll.in /\ EnableWriter(f.poll).dummy = f.poll.dummy
    BY <1>1 DEF FdMetaData, EnableWriter
  <1>3. /\ DisableWriter(f.poll) \in FdMetaData
        /\ DisableWriter(f.poll).out = FALSE
        /\ DisableWriter(f.poll).registered = f.poll.registered
        /\ DisableWriter(f.poll).in = f.poll.in /\ DisableWriter(f.poll).dummy = f.poll.dummy
    BY <1>1 DEF FdMetaData, DisableWriter
  <1>4. /\ OnlyPolls(f, EnableWritePoll(f)) /\ EnableWritePoll(f).sendEnabled = TRUE
        /\ EnableWritePoll(f).poll = EnableWriter(f.poll)
        /\ EnableWritePoll(f).recvEnabled = f.recvEnabled
    BY <1>2 DEF EnableWritePoll, OnlyPolls, Forwarder
  <1>5. /\ OnlyPolls(f, DisableWritePoll(f)) /\ DisableWritePoll(f).sendEnabled = FALSE
        /\ DisableWritePoll(f).poll = DisableWriter(f.poll)
        /\ DisableWritePoll(f).recvEnabled = f.recvEnabled
    BY <1>3 DEF DisableWritePoll, OnlyPolls, Forwarder
  <1> QED
    BY <1>2, <1>3, <1>4, <1>5

\* A dummy read is raised for a chunk that waits.
LEMMA DummyPolls ==
  ASSUME NEW f \in Forwarder
  PROVE  LET g == RaiseDummyRead(f)
         IN  /\ OnlyPolls(f, g)
             /\ g.recvEnabled = f.recvEnabled /\ g.sendEnabled = f.sendEnabled
             /\ g.poll.registered = f.poll.registered /\ g.poll.in = f.poll.in
             /\ g.poll.out = f.poll.out
             /\ g.poll.dummy = (f.poll.dummy \/ Holds(f))
  <1>1. f.poll \in FdMetaData
    BY DEF Forwarder
  <1>2. /\ RaiseReadPoll(f.poll) \in FdMetaData /\ RaiseReadPoll(f.poll).dummy = TRUE
        /\ RaiseReadPoll(f.poll).registered = f.poll.registered
        /\ RaiseReadPoll(f.poll).in = f.poll.in /\ RaiseReadPoll(f.poll).out = f.poll.out
    BY <1>1 DEF FdMetaData, RaiseReadPoll
  <1>3. CASE Holds(f)
    <2>1. RaiseDummyRead(f) = [f EXCEPT !.poll = RaiseReadPoll(f.poll)]
      BY <1>3 DEF RaiseDummyRead, Forwarder
    <2>2. /\ OnlyPolls(f, RaiseDummyRead(f)) /\ RaiseDummyRead(f).poll = RaiseReadPoll(f.poll)
          /\ RaiseDummyRead(f).recvEnabled = f.recvEnabled
          /\ RaiseDummyRead(f).sendEnabled = f.sendEnabled
      BY <1>2, <2>1 DEF OnlyPolls, Forwarder
    <2> QED
      BY <1>2, <1>3, <2>2
  <1>4. CASE ~Holds(f)
    <2>1. RaiseDummyRead(f) = f /\ f.poll.dummy \in BOOLEAN
      BY <1>1, <1>4 DEF RaiseDummyRead, FdMetaData
    <2> QED
      BY <1>4, <2>1 DEF OnlyPolls
  <1> QED
    BY <1>3, <1>4

\* The callbacks of the channel only change what is polled.
LEMMA DataReceivedFacts ==
  ASSUME NEW f \in Forwarder, f.sendEnabled = f.poll.out, f.poll.registered
  PROVE  LET g == ChannelDataReceived(f)
         IN  /\ OnlyPolls(f, g)
             /\ g.recvEnabled = f.recvEnabled /\ g.sendEnabled = TRUE
             /\ g.poll.registered = TRUE /\ g.poll.in = f.poll.in
             /\ g.poll.out = TRUE /\ g.poll.dummy = f.poll.dummy
  <1>1. f.poll \in FdMetaData /\ f.sendEnabled \in BOOLEAN
    BY DEF Forwarder
  <1>2. f.poll.registered = TRUE /\ f.poll.out \in BOOLEAN
    BY <1>1 DEF FdMetaData
  <1>3. CASE f.sendEnabled
    BY <1>1, <1>2, <1>3 DEF ChannelDataReceived, OnlyPolls
  <1>4. CASE ~f.sendEnabled
    BY <1>2, <1>4, WritePolls DEF ChannelDataReceived
  <1> QED
    BY <1>3, <1>4

LEMMA AcceptedFacts ==
  ASSUME NEW f \in Forwarder, f.poll.registered
  PROVE  LET g == ChannelAccepted(f)
         IN  /\ OnlyPolls(f, g)
             /\ g.recvEnabled = TRUE /\ g.sendEnabled = f.sendEnabled
             /\ g.poll.registered = TRUE /\ g.poll.in = TRUE
             /\ g.poll.out = f.poll.out /\ g.poll.dummy = (f.poll.dummy \/ Holds(f))
  <1> DEFINE r == EnableReadPoll(f)
  <1>1. f.poll.registered = TRUE
    BY DEF Forwarder, FdMetaData
  <1>2. /\ OnlyPolls(f, r) /\ r.recvEnabled = TRUE /\ r.poll.in = f.poll.registered
        /\ r.sendEnabled = f.sendEnabled /\ r.poll.registered = f.poll.registered
        /\ r.poll.out = f.poll.out /\ r.poll.dummy = f.poll.dummy
    BY ReadPolls
  <1> HIDE DEF r
  <1>3. r \in Forwarder /\ Holds(r) = Holds(f)
    BY <1>2 DEF OnlyPolls, Holds
  <1>4. LET g == RaiseDummyRead(r)
        IN  /\ OnlyPolls(r, g)
            /\ g.recvEnabled = r.recvEnabled /\ g.sendEnabled = r.sendEnabled
            /\ g.poll.registered = r.poll.registered /\ g.poll.in = r.poll.in
            /\ g.poll.out = r.poll.out
            /\ g.poll.dummy = (r.poll.dummy \/ Holds(r))
    BY <1>3, DummyPolls
  <1>5. OnlyPolls(f, RaiseDummyRead(r))
    BY <1>2, <1>4 DEF OnlyPolls
  <1>6. ChannelAccepted(f) = RaiseDummyRead(r)
    BY DEF ChannelAccepted, r
  <1> QED
    BY <1>1, <1>2, <1>3, <1>4, <1>5, <1>6

LEMMA ReadyFacts ==
  ASSUME NEW f \in Forwarder, NEW available, f.poll.registered,
         ~(f.recvEnabled \/ ~Holds(f) \/ f.forChannel > available)
  PROVE  ChannelReadyToSend(f, available) = ChannelAccepted(f)
  BY DEF ChannelReadyToSend, ChannelAccepted

\* Start().
LEMMA StartFacts ==
  ASSUME NEW f \in Forwarder, NEW haveData \in BOOLEAN, ~f.sendEnabled
  PROVE  LET g == StartForwarder(f, haveData)
         IN  /\ g \in Forwarder /\ g.phase = "running" /\ g.sock = f.sock
             /\ g.forChannel = f.forChannel /\ g.forNetConn = f.forNetConn
             /\ g.written = f.written /\ g.given = f.given /\ g.closedBy = f.closedBy
             /\ g.early = f.early /\ g.missed = f.missed
             /\ g.recvEnabled = TRUE /\ g.poll.in = TRUE /\ g.poll.registered = TRUE
             /\ g.sendEnabled = haveData /\ g.poll.out = haveData
             /\ g.poll.dummy = f.poll.dummy
  <1> DEFINE s == [f EXCEPT !.phase = "running", !.poll = RegisterHandler(@), !.recvEnabled = TRUE]
  <1>1. /\ f.poll \in FdMetaData
        /\ RegisterHandler(f.poll) \in FdMetaData
        /\ RegisterHandler(f.poll).registered = TRUE /\ RegisterHandler(f.poll).in = TRUE
        /\ RegisterHandler(f.poll).out = FALSE /\ RegisterHandler(f.poll).dummy = f.poll.dummy
    <2>1. f.poll \in FdMetaData
      BY DEF Forwarder
    <2> QED
      BY <2>1 DEF FdMetaData, RegisterHandler
  <1>2. /\ s \in Forwarder /\ s.phase = "running" /\ s.sock = f.sock
        /\ s.forChannel = f.forChannel /\ s.forNetConn = f.forNetConn
        /\ s.written = f.written /\ s.given = f.given /\ s.closedBy = f.closedBy
        /\ s.early = f.early /\ s.missed = f.missed
        /\ s.recvEnabled = TRUE /\ s.sendEnabled = FALSE /\ s.poll = RegisterHandler(f.poll)
    BY <1>1 DEF Forwarder
  <1>3. StartForwarder(f, haveData) = IF haveData THEN EnableWritePoll(s) ELSE s
    BY DEF StartForwarder
  <1> HIDE DEF s
  <1>4. CASE haveData = TRUE
    <2>1. /\ OnlyPolls(s, EnableWritePoll(s)) /\ EnableWritePoll(s).sendEnabled = TRUE
          /\ EnableWritePoll(s).poll.out = s.poll.registered
          /\ EnableWritePoll(s).recvEnabled = s.recvEnabled
          /\ EnableWritePoll(s).poll.registered = s.poll.registered
          /\ EnableWritePoll(s).poll.in = s.poll.in
          /\ EnableWritePoll(s).poll.dummy = s.poll.dummy
      BY <1>2, WritePolls
    <2>2. StartForwarder(f, haveData) = EnableWritePoll(s)
      BY <1>3, <1>4
    <2> QED
      BY <1>1, <1>2, <1>4, <2>1, <2>2 DEF OnlyPolls
  <1>5. CASE haveData = FALSE
    <2>1. StartForwarder(f, haveData) = s
      BY <1>3, <1>5
    <2> QED
      BY <1>1, <1>2, <1>5, <2>1
  <1> QED
    BY <1>4, <1>5
-----------------------------------------------------------------------------
(* Steps of one end.                                                       *)

LEMMA ForwarderFields ==
  ASSUME NEW f \in Forwarder
  PROVE  /\ f.sock \in Socket /\ f.sock.inbox \in Nat /\ f.sock.fin \in BOOLEAN
         /\ f.sock.outbox \in Nat /\ f.sock.timer \in BOOLEAN /\ f.sock.address \in Nat
         /\ f.poll \in FdMetaData /\ f.poll.registered \in BOOLEAN
         /\ f.poll.in \in BOOLEAN /\ f.poll.out \in BOOLEAN /\ f.poll.dummy \in BOOLEAN
         /\ f.forChannel \in Nat /\ f.forChannel <= Chunk /\ f.forNetConn \in Nat
         /\ f.recvEnabled \in BOOLEAN /\ f.sendEnabled \in BOOLEAN
         /\ f.written \in Nat /\ f.given \in Nat /\ f.missed \in SUBSET Nat
         /\ f.dropped \in BOOLEAN /\ f.early \in BOOLEAN
         /\ f.phase \in {"idle", "connecting", "connected", "running", "done"}
  <1>1. f.sock \in Socket /\ f.poll \in FdMetaData /\ f.forChannel \in 0 .. Chunk
    BY DEF Forwarder
  <1>2. f.forChannel \in Nat /\ f.forChannel <= Chunk
    BY <1>1, ForwarderAssumption
  <1> QED
    BY <1>1, <1>2 DEF Forwarder, Socket, FdMetaData

LEMMA EndFields ==
  ASSUME EndsTyped, NEW e \in Ends
  PROVE  /\ fwd[e] \in Forwarder /\ batch[e] \in Batch /\ todo[e] \in Calls
         /\ batch[e].events \in SUBSET PollEvents /\ batch[e].dummy \in BOOLEAN
         /\ batch[e].session \in Turns
  <1>1. fwd[e] \in Forwarder /\ batch[e] \in Batch /\ todo[e] \in Calls
    BY DEF EndsTyped
  <1> QED
    BY <1>1 DEF Batch

\* What the channel shows to end x.
View(x) == <<state[x], allowWrite[x], remoteWindow[x], recvQueue[x], sent[x], read[x]>>

\* What a step does to its own end.
OwnStep(e) ==
  /\ fwd' = [fwd EXCEPT ![e] = fwd'[e]] /\ fwd'[e] \in Forwarder
  /\ batch' = [batch EXCEPT ![e] = batch'[e]] /\ batch'[e] \in Batch
  /\ todo' = [todo EXCEPT ![e] = todo'[e]] /\ todo'[e] \in Calls
  /\ EndInv(e)'
  /\ fwd'[e].closedBy = "channel" =>
       \/ fwd[e].closedBy = "channel" /\ fwd'[e].given = fwd[e].given
       \/ fwd'[e].given = sent[Peer(e)] /\ state[Peer(e)] \in Leaving

\* A call or a message changes the view of its own end only, and an end that
\* has closed sends no more.
LEMMA OwnView ==
  ASSUME ChannelInv, NEW e \in Ends, Call(e) \/ Receive(e)
  PROVE  /\ View(Peer(e))' = View(Peer(e))
         /\ state[e] \in Leaving => state'[e] \in Leaving /\ sent'[e] = sent[e]
  <1> USE ChannelAssumption
  <1>1. /\ state \in [Ends -> States] /\ allowWrite \in [Ends -> BOOLEAN]
        /\ remoteWindow \in [Ends -> Nat] /\ recvQueue \in [Ends -> Seq(Segment)]
        /\ sent \in [Ends -> Nat] /\ read \in [Ends -> Nat]
        /\ Peer(e) \in Ends /\ Peer(e) # e
    BY PeerFacts DEF ChannelInv, FlowInv, TypeInv
  <1>2. ASSUME Connect(e) \/ Accept(e) \/ Close(e)
        PROVE  /\ View(Peer(e))' = View(Peer(e))
               /\ state[e] \in Leaving => state'[e] \in Leaving /\ sent'[e] = sent[e]
    <2>1. UNCHANGED <<remoteWindow, recvQueue, sent, read>> /\ state[e] \notin Leaving
      BY <1>2 DEF Connect, Accept, Close, Reject, windows, streams, Leaving
    <2>2. /\ \E to \in States : state' = [state EXCEPT ![e] = to]
          /\ \E b \in BOOLEAN : allowWrite' = [allowWrite EXCEPT ![e] = b]
      BY <1>2 DEF Connect, Accept, Close, Reject, Goto, SetAllowWrite, States
    <2> QED
      BY <1>1, <2>1, <2>2 DEF View
  <1>3. ASSUME NEW n, Send(e, n)
        PROVE  View(Peer(e))' = View(Peer(e)) /\ state[e] \notin Leaving
    <2>1. state[e] \notin Leaving
      BY <1>3 DEF Send, ChannelInv, WriteInv, Leaving
    <2> QED
      BY <1>1, <1>3, <2>1 DEF Send, View
  <1>4. ASSUME NEW n, Recv(e, n)
        PROVE  View(Peer(e))' = View(Peer(e)) /\ state[e] \notin Leaving
    BY <1>1, <1>4 DEF Recv, View, Readable, Leaving
  <1>5. ASSUME RecvEof(e)
        PROVE  View(Peer(e))' = View(Peer(e)) /\ state[e] \notin Leaving
    BY <1>5 DEF RecvEof, View, windows, Leaving
  <1>6. ASSUME HandleNewChannel(e)
        PROVE  View(Peer(e))' = View(Peer(e)) /\ state[e] \notin Leaving
    BY <1>1, <1>6 DEF HandleNewChannel, View, Goto, streams, Leaving
  <1>7. ASSUME DropUnregistered(e)
        PROVE  View(Peer(e))' = View(Peer(e)) /\ state'[e] = state[e] /\ sent'[e] = sent[e]
    BY <1>7 DEF DropUnregistered, View, windows, streams
  <1>8. ASSUME HandleNewChannelResponse(e)
        PROVE  /\ View(Peer(e))' = View(Peer(e))
               /\ state[e] \in Leaving => state'[e] = state[e] /\ sent'[e] = sent[e]
    <2>1. CASE state[e] = "Connecting"
      BY <1>1, <1>8, <2>1
         DEF HandleNewChannelResponse, HandleAccepted, HandleRejected, View, Goto,
             SetAllowWrite, windows, streams, Leaving
    <2>2. CASE state[e] # "Connecting"
      BY <1>8, <2>2
         DEF HandleNewChannelResponse, View, windows, streams
    <2> QED
      BY <2>1, <2>2
  <1>9. ASSUME HandleChannelData(e)
        PROVE  View(Peer(e))' = View(Peer(e)) /\ state'[e] = state[e] /\ sent'[e] = sent[e]
    BY <1>1, <1>9 DEF HandleChannelData, View
  <1>10. ASSUME HandleWindowAdjust(e)
         PROVE  View(Peer(e))' = View(Peer(e)) /\ state'[e] = state[e] /\ sent'[e] = sent[e]
    BY <1>1, <1>10 DEF HandleWindowAdjust, View, streams
  <1>11. ASSUME HandleChannelClose(e)
         PROVE  /\ View(Peer(e))' = View(Peer(e))
                /\ state[e] \in Leaving => state'[e] \in Leaving /\ sent'[e] = sent[e]
    BY <1>1, <1>11 DEF HandleChannelClose, View, Goto, windows, streams, Leaving
  <1> QED
    BY <1>2, <1>3, <1>4, <1>5, <1>6, <1>7, <1>8, <1>9, <1>10, <1>11 DEF Call, Receive

\* The invariant of an end depends on nothing else.
LEMMA EndKept ==
  ASSUME NEW x \in Ends, EndInv(x), View(x)' = View(x),
         fwd'[x] = fwd[x], batch'[x] = batch[x], todo'[x] = todo[x]
  PROVE  EndInv(x)'
  BY DEF EndInv, PhaseInv, WakeInv, ConnectInv, BytesInv, View

LEMMA StepOfEnd ==
  ASSUME ChannelInv, VisitorInv, NEW e \in Ends,
         UNCHANGED vars \/ Call(e) \/ Receive(e), OwnStep(e)
  PROVE  VisitorInv'
  <1> DEFINE p == Peer(e)
  <1>1. p \in Ends /\ p # e /\ Peer(p) = e /\ \A x \in Ends : x = e \/ x = p
    BY PeerFacts
  <1>2. /\ View(p)' = View(p)
        /\ state[e] \in Leaving => state'[e] \in Leaving /\ sent'[e] = sent[e]
    <2>1. CASE UNCHANGED vars
      BY <2>1 DEF vars, windows, streams, View
    <2>2. CASE Call(e) \/ Receive(e)
      BY <2>2, OwnView
    <2> QED
      BY <2>1, <2>2
  <1>3. EndsTyped'
    BY DEF VisitorInv, EndsTyped, OwnStep
  <1>4. /\ fwd'[p] = fwd[p] /\ batch'[p] = batch[p] /\ todo'[p] = todo[p]
    BY <1>1 DEF OwnStep, VisitorInv, EndsTyped
  <1>5. EndInv(p)'
    BY <1>1, <1>2, <1>4, EndKept DEF VisitorInv
  <1>6. Delivered(p)'
    BY <1>1, <1>2, <1>4 DEF VisitorInv, Delivered
  <1>7. Delivered(e)'
    <2>1. sent'[p] = sent[p] /\ state'[p] = state[p]
      BY <1>2 DEF View
    <2> QED
      BY <2>1 DEF VisitorInv, Delivered, OwnStep
  <1> QED
    BY <1>1, <1>3, <1>5, <1>6, <1>7 DEF VisitorInv, OwnStep

\* The assignments of an action, one end at a time.
LEMMA Updates ==
  ASSUME EndsTyped, NEW e \in Ends
  PROVE  /\ \A h : Become(e, h) => fwd'[e] = h /\ fwd' = [fwd EXCEPT ![e] = fwd'[e]]
         /\ UNCHANGED fwd => fwd'[e] = fwd[e] /\ fwd' = [fwd EXCEPT ![e] = fwd'[e]]
         /\ \A c : CallNext(e, c) => todo'[e] = c /\ todo' = [todo EXCEPT ![e] = todo'[e]]
         /\ UNCHANGED todo => todo'[e] = todo[e] /\ todo' = [todo EXCEPT ![e] = todo'[e]]
         /\ \A b : batch' = [batch EXCEPT ![e] = b] =>
              batch'[e] = b /\ batch' = [batch EXCEPT ![e] = batch'[e]]
         /\ UNCHANGED batch => batch'[e] = batch[e] /\ batch' = [batch EXCEPT ![e] = batch'[e]]
  BY DEF EndsTyped, Become, CallNext

\* An end whose connection is closed.
LEMMA DoneInv ==
  ASSUME NEW e \in Ends, fwd'[e].phase = "done", fwd'[e].sock = NoSocket,
         fwd'[e].poll = NoHandler, todo'[e] # "accept", state'[e] # "Init",
         fwd'[e].closedBy = "application" => fwd'[e].written = sent'[e],
         fwd'[e].closedBy = "unreachable" => Addresses \subseteq fwd'[e].missed
  PROVE  EndInv(e)'
  <1>1. NoSocket.timer = FALSE /\ NoSocket.kernel = "none" /\ NoHandler.in = FALSE
    BY DEF NoSocket, NoHandler
  <1>2. PhaseInv(e)'
    BY <1>1 DEF PhaseInv, Fresh
  <1>3. WakeInv(e)' /\ ConnectInv(e)' /\ BytesInv(e)'
    BY <1>1 DEF WakeInv, ConnectInv, BytesInv, Fresh
  <1> QED
    BY <1>2, <1>3 DEF EndInv

\* An end that does not run yet, or no more, takes no notice of its channel.
LEMMA NotRunningKept ==
  ASSUME NEW e \in Ends, EndInv(e), fwd[e].phase # "running", fwd'[e] = fwd[e],
         todo'[e] = todo[e] \/ todo'[e] = "nothing", state[e] # "Init" => state'[e] # "Init",
         state'[e] = "Init" => recvQueue'[e] = <<>>,
         batch'[e].dummy => batch[e].dummy, batch'[e].events \subseteq batch[e].events,
         sent'[e] = sent[e], read'[e] = read[e]
  PROVE  EndInv(e)'
  <1>1. PhaseInv(e)'
    BY DEF EndInv, PhaseInv, Fresh
  <1>2. WakeInv(e)' /\ ConnectInv(e)'
    BY DEF EndInv, WakeInv, ConnectInv
  <1>3. BytesInv(e)'
    BY DEF EndInv, BytesInv, Fresh
  <1> QED
    BY <1>1, <1>2, <1>3 DEF EndInv
-----------------------------------------------------------------------------
(* The applications and the kernel. *)

LEMMA SocketFacts ==
  /\ NoSocket.kernel = "none" /\ NoSocket.outbox = 0 /\ NoSocket.timer = FALSE
  /\ NoSocket.inbox = 0 /\ NoSocket.fin = FALSE
  /\ AcceptedSocket.kernel = "up" /\ AcceptedSocket.timer = FALSE
  /\ AcceptedSocket.inbox = 0 /\ AcceptedSocket.fin = FALSE
  BY DEF NoSocket, AcceptedSocket

LEMMA AppStep ==
  ASSUME ChannelInv, VisitorInv, NEW e \in Ends,
         AppWrite(e) \/ AppShutdown(e) \/ AppRead(e) \/ AppReset(e) \/ KernelConnect(e)
  PROVE  OwnStep(e)
  <1> DEFINE f == fwd[e]
             g == fwd'[e]
  <1>1. EndsTyped /\ EndInv(e)
    BY DEF VisitorInv
  <1>2. f \in Forwarder /\ batch[e] \in Batch /\ todo[e] \in Calls
    BY <1>1, EndFields
  <1>3. UNCHANGED <<vars, batch, todo>>
    BY DEF AppWrite, AppShutdown, AppRead, AppReset, KernelConnect
  <1>4. /\ f.sock \in Socket /\ f.written \in Nat /\ f.sock.inbox \in Nat
        /\ f.sock.outbox \in Nat /\ sent[e] \in Nat /\ f.forChannel \in Nat
    BY <1>2, ForwarderFields DEF ChannelInv, FlowInv, TypeInv
  <1>5. /\ fwd' = [fwd EXCEPT ![e] = g] /\ g \in Forwarder
        /\ g.phase = f.phase /\ g.poll = f.poll /\ g.forChannel = f.forChannel
        /\ g.forNetConn = f.forNetConn /\ g.recvEnabled = f.recvEnabled
        /\ g.sendEnabled = f.sendEnabled /\ g.given = f.given
        /\ g.closedBy = f.closedBy /\ g.dropped = f.dropped /\ g.early = f.early
        /\ g.missed = f.missed /\ g.sock.timer = f.sock.timer
        /\ g.sock.address = f.sock.address /\ g.sock.left = f.sock.left
        /\ \/ /\ f.phase = "running" /\ f.sock.kernel = "up" /\ g.sock.kernel = "up"
              /\ g.written = f.written + 1 /\ g.sock.inbox = f.sock.inbox + 1
              /\ g.sock.fin = f.sock.fin
           \/ /\ f.phase = "running" /\ f.sock.kernel = "up" /\ g.sock.kernel = "up"
              /\ g.written = f.written /\ g.sock.inbox = f.sock.inbox
           \/ /\ f.sock.outbox > 0 /\ g.sock.kernel = f.sock.kernel
              /\ g.written = f.written /\ g.sock.inbox = f.sock.inbox
              /\ g.sock.fin = f.sock.fin
           \/ /\ f.phase = "running" /\ g.sock.kernel = "failed"
              /\ g.written = f.written /\ g.sock.fin = FALSE
           \/ /\ f.sock.kernel = "connecting" /\ g.sock.kernel \in {"up", "failed"}
              /\ g.written = f.written /\ g.sock.inbox = f.sock.inbox
              /\ g.sock.fin = f.sock.fin
    <2>0. fwd' = [fwd EXCEPT ![e] = g]
      BY <1>1, Updates DEF AppWrite, AppShutdown, AppRead, AppReset, KernelConnect
    <2>1. CASE AppWrite(e)
      <3> DEFINE n == f.sock.inbox + 1
                 s == [f.sock EXCEPT !.inbox = n]
      <3>0. n \in Nat
        BY <1>4
      <3>1. g = [f EXCEPT !.written = @ + 1, !.sock = s] /\ AtWork(e)
        BY <1>1, <2>1, Updates DEF AppWrite
      <3>2. /\ s \in Socket /\ s.kernel = f.sock.kernel /\ s.inbox = f.sock.inbox + 1
            /\ s.fin = f.sock.fin
            /\ s.timer = f.sock.timer /\ s.address = f.sock.address /\ s.left = f.sock.left
        <4> HIDE DEF n
        <4>1. /\ s \in Socket /\ s.kernel = f.sock.kernel /\ s.inbox = n
              /\ s.fin = f.sock.fin
              /\ s.timer = f.sock.timer /\ s.address = f.sock.address /\ s.left = f.sock.left
          BY <1>4, <3>0 DEF Socket
        <4> QED
          BY <4>1 DEF n
      <3> HIDE DEF s
      <3>3. f.written + 1 \in Nat
        BY <1>4
      <3> QED
        BY <1>2, <2>0, <3>1, <3>2, <3>3 DEF Forwarder, AtWork
    <2>2. CASE AppShutdown(e)
      <3> DEFINE s == [f.sock EXCEPT !.fin = TRUE]
      <3>1. g = [f EXCEPT !.sock = s] /\ AtWork(e)
        BY <1>1, <2>2, Updates DEF AppShutdown
      <3>2. /\ s \in Socket /\ s.kernel = f.sock.kernel /\ s.inbox = f.sock.inbox
            /\ s.timer = f.sock.timer /\ s.address = f.sock.address /\ s.left = f.sock.left
        BY <1>4 DEF Socket
      <3> HIDE DEF s
      <3> QED
        BY <1>2, <2>0, <3>1, <3>2 DEF Forwarder, AtWork
    <2>3. CASE AppRead(e)
      <3> DEFINE s == [f.sock EXCEPT !.outbox = @ - 1]
      <3>1. g = [f EXCEPT !.sock = s] /\ f.sock.outbox > 0
        BY <1>1, <2>3, Updates DEF AppRead
      <3>2. /\ s \in Socket /\ s.kernel = f.sock.kernel /\ s.inbox = f.sock.inbox
            /\ s.fin = f.sock.fin
            /\ s.timer = f.sock.timer /\ s.address = f.sock.address /\ s.left = f.sock.left
        BY <1>4, <3>1, SMTT(30) DEF Socket
      <3> HIDE DEF s
      <3> QED
        BY <1>2, <2>0, <3>1, <3>2 DEF Forwarder
    <2>4. CASE AppReset(e)
      <3> DEFINE s == [f.sock EXCEPT !.kernel = "failed", !.inbox = 0, !.fin = FALSE, !.outbox = 0]
                 h == [f EXCEPT !.sock = s]
      <3>1. g = h /\ fwd' = [fwd EXCEPT ![e] = g] /\ AtWork(e)
        BY <1>1, <2>4, Updates DEF AppReset
      <3>2. /\ s \in Socket /\ s.kernel = "failed" /\ s.fin = FALSE
            /\ s.timer = f.sock.timer /\ s.address = f.sock.address /\ s.left = f.sock.left
        BY <1>4 DEF Socket
      <3> QED
        BY <1>2, <1>4, <3>1, <3>2 DEF Forwarder, AtWork
    <2>5. CASE KernelConnect(e)
      <3>1. PICK kernel \in {"up", "failed"} : Become(e, [f EXCEPT !.sock.kernel = kernel])
        BY <2>5 DEF KernelConnect
      <3> DEFINE s == [f.sock EXCEPT !.kernel = kernel]
      <3>2. g = [f EXCEPT !.sock = s] /\ f.sock.kernel = "connecting"
        BY <1>1, <2>5, <3>1, Updates DEF KernelConnect
      <3>3. /\ s \in Socket /\ s.kernel \in {"up", "failed"} /\ s.inbox = f.sock.inbox
            /\ s.fin = f.sock.fin
            /\ s.timer = f.sock.timer /\ s.address = f.sock.address /\ s.left = f.sock.left
        BY <1>4 DEF Socket
      <3> HIDE DEF s
      <3> QED
        BY <1>2, <2>0, <3>2, <3>3 DEF Forwarder
    <2> QED
      BY <2>1, <2>2, <2>3, <2>4, <2>5
  <1>6. f.phase \notin {"idle", "done"}
    BY <1>1, <1>4, <1>5, SocketFacts DEF EndInv, PhaseInv
  <1>7. /\ batch' = [batch EXCEPT ![e] = batch'[e]] /\ batch'[e] = batch[e]
        /\ todo' = [todo EXCEPT ![e] = todo'[e]] /\ todo'[e] = todo[e]
        /\ state'[e] = state[e] /\ allowWrite'[e] = allowWrite[e]
        /\ remoteWindow'[e] = remoteWindow[e] /\ recvQueue'[e] = recvQueue[e]
        /\ sent'[e] = sent[e] /\ read'[e] = read[e]
    BY <1>1, <1>3, Updates DEF vars, windows, streams
  <1> HIDE DEF f, g
  <1>8. PhaseInv(e)'
    BY <1>1, <1>5, <1>6, <1>7 DEF EndInv, PhaseInv, Fresh, f, g
  <1>9. WakeInv(e)'
    BY <1>1, <1>5, <1>7 DEF EndInv, WakeInv, Holds, f, g
  <1>10. ConnectInv(e)'
    BY <1>1, <1>5, <1>7 DEF EndInv, ConnectInv, LeftOver, f, g
  <1>11. BytesInv(e)'
    <2>1. CASE f.phase # "running"
      <3>1. /\ g.phase = f.phase /\ g.written = f.written /\ g.given = f.given
            /\ g.sock.inbox = f.sock.inbox /\ g.sock.fin = f.sock.fin /\ g.closedBy = f.closedBy
        BY <1>5, <2>1
      <3> QED
        BY <1>1, <1>7, <2>1, <3>1 DEF EndInv, BytesInv, Fresh, f, g
    <2>2. CASE f.phase = "running"
      <3>1. /\ f.sock.fin => f.sock.kernel = "up"
            /\ f.sock.kernel \in {"up", "connecting"} =>
                 f.written = sent[e] + f.forChannel + f.sock.inbox
            /\ f.given + f.forNetConn = read[e] /\ f.closedBy # "application"
        BY <1>1, <2>2 DEF EndInv, BytesInv, PhaseInv, f
      <3>2. /\ g.sock.fin => g.sock.kernel = "up"
            /\ g.sock.kernel \in {"up", "connecting"} =>
                 g.written = sent[e] + g.forChannel + g.sock.inbox
        BY <1>4, <1>5, <3>1
      <3> QED
        BY <1>5, <1>7, <2>2, <3>1, <3>2 DEF BytesInv, Fresh, f, g
    <2> QED
      BY <2>1, <2>2
  <1> QED
    BY <1>1, <1>2, <1>5, <1>6, <1>7, <1>8, <1>9, <1>10, <1>11 DEF OwnStep, EndInv, PhaseInv, f, g
-----------------------------------------------------------------------------
(* Starting to run. *)

LEMMA StartStep ==
  ASSUME EndsTyped, NEW e \in Ends, EndInv(e), Fresh(fwd[e]), NEW h \in Forwarder,
         h.forChannel = fwd[e].forChannel, h.forNetConn = fwd[e].forNetConn,
         h.sendEnabled = fwd[e].sendEnabled, h.written = fwd[e].written,
         h.given = fwd[e].given, h.poll = fwd[e].poll, h.closedBy = fwd[e].closedBy,
         h.sock.inbox = 0, ~h.sock.fin, ~h.sock.timer, h.sock.kernel = "connecting" => h.early,
         Become(e, StartForwarder(h, recvQueue'[e] # <<>>)),
         todo'[e] = "nothing", batch'[e] = batch[e], sent'[e] = sent[e], read'[e] = read[e],
         state'[e] \in {"Connecting", "Connected"}, state'[e] = "Connected" => allowWrite'[e]
  PROVE  /\ EndInv(e)' /\ fwd' = [fwd EXCEPT ![e] = fwd'[e]] /\ fwd'[e] \in Forwarder
         /\ fwd'[e].closedBy = "nobody"
  <1> DEFINE f == fwd[e]
             g == fwd'[e]
             haveData == recvQueue'[e] # <<>>
  <1>1. /\ f.forChannel = 0 /\ f.forNetConn = 0 /\ ~f.sendEnabled /\ ~f.poll.dummy
        /\ ~batch[e].dummy /\ "in" \notin batch[e].events
        /\ f.written = 0 /\ f.given = 0 /\ sent[e] = 0 /\ read[e] = 0
        /\ f.phase # "done"
    BY DEF EndInv, PhaseInv, BytesInv, Fresh
  <1>2. f.closedBy = "nobody"
    BY <1>1 DEF EndInv, PhaseInv
  <1>3. haveData \in BOOLEAN /\ ~h.sendEnabled
    BY <1>1
  <1>4. g = StartForwarder(h, haveData) /\ fwd' = [fwd EXCEPT ![e] = g]
    BY Updates
  <1> HIDE DEF haveData
  <1>5. /\ g \in Forwarder /\ g.phase = "running" /\ g.sock = h.sock
        /\ g.forChannel = h.forChannel /\ g.forNetConn = h.forNetConn
        /\ g.written = h.written /\ g.given = h.given /\ g.closedBy = h.closedBy
        /\ g.early = h.early
        /\ g.recvEnabled = TRUE /\ g.poll.in = TRUE /\ g.poll.registered = TRUE
        /\ g.sendEnabled = haveData /\ g.poll.out = haveData
        /\ g.poll.dummy = h.poll.dummy
    <2> HIDE DEF f, g
    <2>1. CASE haveData = TRUE
      <3>1. g = StartForwarder(h, TRUE)
        BY <1>4, <2>1
      <3> QED
        BY <1>3, <2>1, <3>1, StartFacts
    <2>2. CASE haveData = FALSE
      <3>1. g = StartForwarder(h, FALSE)
        BY <1>4, <2>2
      <3> QED
        BY <1>3, <2>2, <3>1, StartFacts
    <2> QED
      BY <1>3, <2>1, <2>2
  <1>6. /\ g \in Forwarder /\ g.phase = "running" /\ g.sock = h.sock
        /\ g.forChannel = 0 /\ g.forNetConn = 0 /\ g.written = 0 /\ g.given = 0
        /\ g.closedBy = "nobody" /\ g.early = h.early
        /\ g.recvEnabled = TRUE /\ g.poll.in = TRUE /\ g.poll.registered = TRUE
        /\ g.sendEnabled = haveData /\ g.poll.out = haveData /\ g.poll.dummy = f.poll.dummy
    BY <1>1, <1>2, <1>4, <1>5
  <1> HIDE DEF f, g
  <1>7. PhaseInv(e)'
    BY <1>6 DEF PhaseInv, Fresh, g
  <1>8. WakeInv(e)'
    <2>1. recvQueue'[e] # <<>> => g.poll.out
      BY <1>6 DEF haveData
    <2>2. g.recvEnabled = g.poll.in /\ g.sendEnabled = g.poll.out
      BY <1>6
    <2> QED
      BY <1>1, <1>6, <2>1, <2>2 DEF WakeInv, Holds, f, g
  <1>9. ConnectInv(e)'
    BY <1>6 DEF ConnectInv, g
  <1>10. BytesInv(e)'
    BY <1>1, <1>6 DEF BytesInv, Fresh, g
  <1> QED
    BY <1>4, <1>6, <1>7, <1>8, <1>9, <1>10 DEF EndInv, g

LEMMA NewVisitorStep ==
  ASSUME ChannelInv, VisitorInv, NEW e \in Ends, NewVisitor(e)
  PROVE  OwnStep(e)
  <1> DEFINE h == [fwd[e] EXCEPT !.sock = AcceptedSocket]
  <1>1. EndsTyped /\ EndInv(e) /\ fwd[e] \in Forwarder /\ batch[e] \in Batch /\ todo[e] \in Calls
    BY EndFields DEF VisitorInv
  <1>2. /\ fwd[e].phase = "idle" /\ todo[e] = "nothing" /\ Connect(e)
        /\ Become(e, StartForwarder(h, FALSE)) /\ UNCHANGED <<batch, todo>>
    BY DEF NewVisitor, Idle
  <1>3. /\ h \in Forwarder /\ h.sock = AcceptedSocket
        /\ h.forChannel = fwd[e].forChannel /\ h.forNetConn = fwd[e].forNetConn
        /\ h.sendEnabled = fwd[e].sendEnabled /\ h.written = fwd[e].written
        /\ h.given = fwd[e].given /\ h.poll = fwd[e].poll /\ h.closedBy = fwd[e].closedBy
    BY <1>1, NewForwarder DEF Forwarder
  <1>4. /\ state'[e] = "Connecting" /\ recvQueue' = recvQueue /\ sent' = sent /\ read' = read
        /\ recvQueue[e] = <<>>
    BY <1>1, <1>2 DEF Connect, Goto, streams, ChannelInv, FlowInv, TypeInv, EndInv, PhaseInv
  <1> HIDE DEF h
  <1>5. (recvQueue'[e] # <<>>) = FALSE
    BY <1>4
  <1>6. Become(e, StartForwarder(h, recvQueue'[e] # <<>>))
    BY <1>2, <1>5
  <1>7. /\ batch'[e] = batch[e] /\ batch' = [batch EXCEPT ![e] = batch'[e]]
        /\ todo'[e] = todo[e] /\ todo' = [todo EXCEPT ![e] = todo'[e]]
    BY <1>1, <1>2, Updates
  <1>8. Fresh(fwd[e])
    BY <1>2 DEF Fresh
  <1>9. /\ EndInv(e)' /\ fwd' = [fwd EXCEPT ![e] = fwd'[e]] /\ fwd'[e] \in Forwarder
        /\ fwd'[e].closedBy = "nobody"
    BY <1>1, <1>2, <1>3, <1>4, <1>6, <1>7, <1>8, SocketFacts, StartStep
  <1> QED
    BY <1>1, <1>7, <1>9 DEF OwnStep

LEMMA HandleConnectedStep ==
  ASSUME ChannelInv, VisitorInv, NEW e \in Ends, HandleConnected(e)
  PROVE  OwnStep(e)
  <1> DEFINE s == Settled(fwd[e].sock)
             h == [fwd[e] EXCEPT !.sock = s, !.missed = {}]
  <1>1. EndsTyped /\ EndInv(e) /\ fwd[e] \in Forwarder /\ batch[e] \in Batch
    BY EndFields DEF VisitorInv
  <1>2. /\ todo[e] = "accept" /\ Accept(e)
        /\ Become(e, StartForwarder(h, recvQueue[e] # <<>>))
        /\ CallNext(e, "nothing") /\ UNCHANGED batch
    BY DEF HandleConnected
  <1>3. /\ s \in Socket /\ s.kernel = fwd[e].sock.kernel /\ s.timer = fwd[e].sock.timer
        /\ s.inbox = fwd[e].sock.inbox /\ s.fin = fwd[e].sock.fin
    <2>1. fwd[e].sock \in Socket /\ <<>> \in Seq([address : Nat, cached : BOOLEAN])
      BY <1>1, ForwarderFields
    <2> QED
      BY <2>1 DEF Settled, Socket, NoAddress
  <1> HIDE DEF s
  <1>4. /\ h \in Forwarder /\ h.sock = s /\ h.early = fwd[e].early
        /\ h.forChannel = fwd[e].forChannel /\ h.forNetConn = fwd[e].forNetConn
        /\ h.sendEnabled = fwd[e].sendEnabled /\ h.written = fwd[e].written
        /\ h.given = fwd[e].given /\ h.poll = fwd[e].poll /\ h.closedBy = fwd[e].closedBy
    BY <1>1, <1>3 DEF Forwarder
  <1> HIDE DEF h
  <1>5. fwd[e].phase = "connected" /\ Fresh(fwd[e])
    BY <1>1, <1>2 DEF EndInv, PhaseInv, Fresh
  <1>6. /\ fwd[e].sock.inbox = 0 /\ ~fwd[e].sock.fin /\ ~fwd[e].sock.timer
        /\ fwd[e].sock.kernel = "connecting" => fwd[e].early
    BY <1>1, <1>5 DEF EndInv, BytesInv, ConnectInv
  <1>7. /\ state'[e] = "Connected" /\ allowWrite'[e]
        /\ recvQueue' = recvQueue /\ sent' = sent /\ read' = read
    BY <1>2 DEF Accept, Goto, SetAllowWrite, streams, ChannelInv, FlowInv, TypeInv
  <1>8. /\ batch'[e] = batch[e] /\ batch' = [batch EXCEPT ![e] = batch'[e]]
        /\ todo'[e] = "nothing" /\ todo' = [todo EXCEPT ![e] = todo'[e]]
    BY <1>1, <1>2, Updates
  <1>9. /\ EndInv(e)' /\ fwd' = [fwd EXCEPT ![e] = fwd'[e]] /\ fwd'[e] \in Forwarder
        /\ fwd'[e].closedBy = "nobody"
    BY <1>1, <1>2, <1>3, <1>4, <1>5, <1>6, <1>7, <1>8, StartStep
  <1> QED
    BY <1>1, <1>8, <1>9 DEF OwnStep, Calls

\* The connection is gone already.
LEMMA LastCallStep ==
  ASSUME ChannelInv, VisitorInv, NEW e \in Ends, HandleConnectionFailed(e) \/ CloseChannel(e)
  PROVE  OwnStep(e)
  <1>1. EndsTyped /\ EndInv(e) /\ fwd[e] \in Forwarder /\ batch[e] \in Batch
    BY EndFields DEF VisitorInv
  <1>2. /\ todo[e] \in {"reject", "close"} /\ Close(e)
        /\ CallNext(e, "nothing") /\ UNCHANGED <<fwd, batch>>
    BY DEF HandleConnectionFailed, CloseChannel, Close
  <1>3. fwd[e].phase = "done"
    BY <1>1, <1>2 DEF EndInv, PhaseInv
  <1>4. state'[e] # "Init" /\ sent'[e] = sent[e] /\ read'[e] = read[e]
    BY <1>2 DEF Close, Reject, Goto, streams, ChannelInv, FlowInv, TypeInv
  <1>5. /\ batch'[e] = batch[e] /\ batch' = [batch EXCEPT ![e] = batch'[e]]
        /\ fwd'[e] = fwd[e] /\ fwd' = [fwd EXCEPT ![e] = fwd'[e]]
        /\ todo'[e] = "nothing" /\ todo' = [todo EXCEPT ![e] = todo'[e]]
    BY <1>1, <1>2, Updates
  <1>6. EndInv(e)'
    BY <1>1, <1>3, <1>4, <1>5, NotRunningKept
  <1> QED
    BY <1>1, <1>5, <1>6 DEF OwnStep, Calls
-----------------------------------------------------------------------------
(* PollOnce. *)

\* What is found for an end: an event only if it is polled for, a dummy read
\* only if there is no event, and a dummy read that gives way to an event that
\* reads nothing is counted as dropped.
LEMMA FoundFacts ==
  ASSUME EndsTyped, NEW e \in Ends, NEW turn \in Turns
  PROVE  LET b == Found(e, turn)
             g == DummiesTaken(e)
             f == fwd[e]
         IN  /\ b \in Batch
             /\ "in" \in b.events => f.poll.in
             /\ b.dummy <=> f.poll.dummy /\ b.events = {}
             /\ g \in Forwarder /\ g.phase = f.phase /\ g.sock = f.sock
             /\ g.forChannel = f.forChannel /\ g.forNetConn = f.forNetConn
             /\ g.recvEnabled = f.recvEnabled /\ g.sendEnabled = f.sendEnabled
             /\ g.written = f.written /\ g.given = f.given /\ g.closedBy = f.closedBy
             /\ g.early = f.early /\ g.missed = f.missed
             /\ g.poll.registered = f.poll.registered /\ g.poll.in = f.poll.in
             /\ g.poll.out = f.poll.out /\ g.poll.dummy = FALSE
             /\ f.poll = NoHandler => g.poll = NoHandler
             /\ f.dropped => g.dropped
             /\ f.poll.dummy => b.events = {} \/ g.dropped \/ b.events \cap {"in", "hup"} # {}
  <1> DEFINE b == Found(e, turn)
             g == DummiesTaken(e)
             f == fwd[e]
             r == Reported(f.poll, Readiness(f.sock))
             lost == f.poll.dummy /\ r = {"out"}
             m == [f.poll EXCEPT !.dummy = FALSE]
  <1>1. f \in Forwarder /\ f.poll \in FdMetaData /\ f.dropped \in BOOLEAN
        /\ f.poll.dummy \in BOOLEAN
    BY EndFields, ForwarderFields
  <1>2. r \subseteq PollEvents /\ ("in" \in r => f.poll.in)
    <2>1. Readiness(f.sock) \subseteq PollEvents
      BY DEF Readiness, PollEvents
    <2> QED
      BY <2>1 DEF Reported
  <1> HIDE DEF r
  <1>3. b = [session |-> turn, events |-> r, dummy |-> f.poll.dummy /\ r = {}]
    BY DEF Found, DummyLeft, r
  <1>4. b \in Batch /\ b.events = r /\ (b.dummy <=> f.poll.dummy /\ r = {})
    <2>1. (f.poll.dummy /\ r = {}) \in BOOLEAN
      OBVIOUS
    <2> HIDE DEF b
    <2> QED
      BY <1>2, <1>3, <2>1 DEF Batch
  <1>5. Found(e, "none").events = r
    BY DEF Found, r
  <1>6. /\ m \in FdMetaData /\ m.registered = f.poll.registered /\ m.in = f.poll.in
        /\ m.out = f.poll.out /\ m.dummy = FALSE
        /\ f.poll = NoHandler => m = NoHandler
    <2>1. \A a \in FdMetaData :
            a = [registered |-> a.registered, in |-> a.in, out |-> a.out, dummy |-> a.dummy]
      BY DEF FdMetaData
    <2>2. /\ m \in FdMetaData /\ m.registered = f.poll.registered /\ m.in = f.poll.in
          /\ m.out = f.poll.out /\ m.dummy = FALSE
      BY <1>1 DEF FdMetaData
    <2> HIDE DEF m
    <2>3. ASSUME f.poll = NoHandler PROVE m = NoHandler
      <3>1. m.registered = FALSE /\ m.in = FALSE /\ m.out = FALSE
        BY <2>2, <2>3 DEF NoHandler
      <3>2. m = [registered |-> FALSE, in |-> FALSE, out |-> FALSE, dummy |-> FALSE]
        BY <2>1, <2>2, <3>1
      <3> QED
        BY <3>2 DEF NoHandler
    <2> QED
      BY <2>2, <2>3
  <1>7. g = [f EXCEPT !.poll = m, !.dropped = f.dropped \/ lost]
    BY <1>1, <1>5 DEF DummiesTaken, Forwarder
  <1>8. (f.dropped \/ lost) \in BOOLEAN
    BY <1>1
  <1> HIDE DEF b, m, lost
  <1>9. /\ g \in Forwarder /\ g.phase = f.phase /\ g.sock = f.sock
        /\ g.forChannel = f.forChannel /\ g.forNetConn = f.forNetConn
        /\ g.recvEnabled = f.recvEnabled /\ g.sendEnabled = f.sendEnabled
        /\ g.written = f.written /\ g.given = f.given /\ g.closedBy = f.closedBy
        /\ g.early = f.early /\ g.missed = f.missed /\ g.poll = m
        /\ g.dropped = (f.dropped \/ lost)
    <2> DEFINE d == f.dropped \/ lost
    <2>1. d \in BOOLEAN /\ g = [f EXCEPT !.poll = m, !.dropped = d]
      BY <1>7, <1>8
    <2> HIDE DEF d, g
    <2>2. /\ g \in Forwarder /\ g.phase = f.phase /\ g.sock = f.sock
          /\ g.forChannel = f.forChannel /\ g.forNetConn = f.forNetConn
          /\ g.recvEnabled = f.recvEnabled /\ g.sendEnabled = f.sendEnabled
          /\ g.written = f.written /\ g.given = f.given /\ g.closedBy = f.closedBy
          /\ g.early = f.early /\ g.missed = f.missed /\ g.poll = m /\ g.dropped = d
      BY <1>1, <1>6, <2>1 DEF Forwarder
    <2> QED
      BY <2>2 DEF d
  <1> HIDE DEF g
  <1>10. f.dropped => g.dropped
    BY <1>9
  <1>11. f.poll.dummy => r = {} \/ g.dropped \/ r \cap {"in", "hup"} # {}
    <2>1. r # {} /\ r \cap {"in", "hup"} = {} => r = {"out"}
      BY <1>2 DEF PollEvents
    <2>2. f.poll.dummy /\ r = {"out"} => g.dropped
      BY <1>9 DEF lost
    <2> QED
      BY <2>1, <2>2
  <1> QED
    BY <1>2, <1>4, <1>6, <1>9, <1>10, <1>11 DEF b, g

LEMMA PollOnceStep ==
  ASSUME ChannelInv, VisitorInv, NEW e \in Ends, PollOnce(e)
  PROVE  OwnStep(e)
  <1> DEFINE f == fwd[e]
             g == fwd'[e]
             b == batch'[e]
  <1>1. EndsTyped /\ EndInv(e) /\ f \in Forwarder /\ todo[e] \in Calls
    BY EndFields DEF VisitorInv
  <1>2. PICK turn \in Turns :
          /\ Idle(e) /\ batch' = [batch EXCEPT ![e] = Found(e, turn)]
          /\ Become(e, DummiesTaken(e)) /\ UNCHANGED <<vars, todo>>
    BY DEF PollOnce, CanFind
  <1>3. /\ b = Found(e, turn) /\ batch' = [batch EXCEPT ![e] = b]
        /\ g = DummiesTaken(e) /\ fwd' = [fwd EXCEPT ![e] = g]
        /\ todo'[e] = todo[e] /\ todo' = [todo EXCEPT ![e] = todo'[e]]
    BY <1>1, <1>2, Updates
  <1> HIDE DEF f, g, b
  <1>4. /\ b \in Batch
        /\ "in" \in b.events => f.poll.in
        /\ b.dummy <=> f.poll.dummy /\ b.events = {}
        /\ g \in Forwarder /\ g.phase = f.phase /\ g.sock = f.sock
        /\ g.forChannel = f.forChannel /\ g.forNetConn = f.forNetConn
        /\ g.recvEnabled = f.recvEnabled /\ g.sendEnabled = f.sendEnabled
        /\ g.written = f.written /\ g.given = f.given /\ g.closedBy = f.closedBy
        /\ g.early = f.early /\ g.missed = f.missed
        /\ g.poll.registered = f.poll.registered /\ g.poll.in = f.poll.in
        /\ g.poll.out = f.poll.out /\ g.poll.dummy = FALSE
        /\ f.poll = NoHandler => g.poll = NoHandler
        /\ f.dropped => g.dropped
        /\ f.poll.dummy => b.events = {} \/ g.dropped \/ b.events \cap {"in", "hup"} # {}
    BY <1>1, <1>3, FoundFacts DEF f
  <1>5. /\ state'[e] = state[e] /\ allowWrite'[e] = allowWrite[e]
        /\ remoteWindow'[e] = remoteWindow[e] /\ recvQueue'[e] = recvQueue[e]
        /\ sent'[e] = sent[e] /\ read'[e] = read[e]
    BY <1>2 DEF vars, windows, streams
  <1>6. batch[e].dummy = FALSE /\ batch[e].events = {} /\ todo[e] = "nothing"
    BY <1>2 DEF Idle, NoBatch
  <1>7. NoHandler.in = FALSE
    BY DEF NoHandler
  <1>8. PhaseInv(e)'
    BY <1>1, <1>3, <1>4, <1>5, <1>6, <1>7 DEF EndInv, PhaseInv, Fresh, f, g, b
  <1>9. WakeInv(e)'
    <2>1. ASSUME g.phase = "running", Holds(g), g.poll.in
          PROVE  b.dummy \/ g.dropped \/ b.events \cap {"in", "hup"} # {}
      <3>1. f.poll.dummy \/ f.dropped
        BY <1>1, <1>4, <1>6, <2>1 DEF EndInv, WakeInv, Holds, f
      <3> QED
        BY <1>4, <3>1
    <2> QED
      BY <1>1, <1>3, <1>4, <1>5, <1>6, <2>1 DEF EndInv, WakeInv, Holds, f, g, b
  <1>10. ConnectInv(e)'
    BY <1>1, <1>4, <1>5 DEF EndInv, ConnectInv, f, g
  <1>11. BytesInv(e)'
    BY <1>1, <1>4, <1>5 DEF EndInv, BytesInv, Fresh, f, g
  <1> QED
    BY <1>1, <1>3, <1>4, <1>8, <1>9, <1>10, <1>11 DEF OwnStep, EndInv, f, g, b
-----------------------------------------------------------------------------
(* Attempts to connect. *)

\* The attempt after this one, of an end that has not started yet.
LEMMA AttemptStep ==
  ASSUME EndsTyped, NEW e \in Ends, EndInv(e), NEW f \in Forwarder, NextAttempt(e, f),
         Addresses \subseteq f.missed \cup LeftOver(f.sock),
         Fresh(fwd[e]), todo[e] = "nothing", f.poll = NoHandler,
         f.forChannel = fwd[e].forChannel, f.forNetConn = fwd[e].forNetConn,
         f.sendEnabled = fwd[e].sendEnabled, f.written = fwd[e].written,
         f.given = fwd[e].given, f.closedBy = fwd[e].closedBy,
         f.sock.inbox = fwd[e].sock.inbox, f.sock.fin = fwd[e].sock.fin,
         ~batch'[e].dummy, "in" \notin batch'[e].events,
         state'[e] # "Init", sent'[e] = sent[e], read'[e] = read[e]
  PROVE  /\ fwd' = [fwd EXCEPT ![e] = fwd'[e]] /\ fwd'[e] \in Forwarder
         /\ todo' = [todo EXCEPT ![e] = todo'[e]] /\ todo'[e] \in Calls
         /\ EndInv(e)' /\ fwd'[e].closedBy # "channel"
  <1> DEFINE g == fwd'[e]
  <1>1. /\ fwd' = [fwd EXCEPT ![e] = g]
        /\ todo' = [todo EXCEPT ![e] = todo'[e]]
        /\ g \in Forwarder
        /\ g.forChannel = f.forChannel /\ g.forNetConn = f.forNetConn
        /\ g.sendEnabled = f.sendEnabled /\ g.written = f.written /\ g.given = f.given
        /\ \/ /\ g.phase = "connecting" /\ g.sock.kernel = "connecting"
              /\ g.poll = RegisterConnectHandler(f.poll) /\ g.closedBy = f.closedBy
              /\ g.sock.inbox = f.sock.inbox /\ g.sock.fin = f.sock.fin
              /\ Addresses \subseteq g.missed \cup {g.sock.address} \cup LeftOver(g.sock)
              /\ todo' = todo
           \/ /\ g.phase = "connected" /\ g.sock.kernel = "up" /\ ~g.sock.timer
              /\ g.poll = f.poll /\ g.closedBy = f.closedBy
              /\ g.sock.inbox = f.sock.inbox /\ g.sock.fin = f.sock.fin
              /\ todo'[e] = "accept"
           \/ /\ g.phase = "done" /\ g.sock = NoSocket /\ g.poll = NoHandler
              /\ g.closedBy = "unreachable" /\ Addresses \subseteq g.missed
              /\ todo'[e] = "reject"
    BY NextAttemptFacts
  <1> HIDE DEF g
  <1>2. /\ RegisterConnectHandler(f.poll).in = FALSE
        /\ RegisterConnectHandler(f.poll).dummy = FALSE
        /\ NoHandler.in = FALSE /\ NoHandler.dummy = FALSE
    <2>1. f.poll \in FdMetaData /\ f.poll.dummy = FALSE
      BY NewForwarder DEF NoHandler
    <2> QED
      BY <2>1, PollCalls DEF NoHandler, RegisterConnectHandler, EnableWriter, DisableReader, RegisterHandler
  <1>3. fwd[e].phase # "done" /\ fwd[e].phase # "running" /\ fwd[e].closedBy = "nobody"
    BY DEF EndInv, PhaseInv, Fresh
  <1>4. /\ f.forChannel = 0 /\ f.forNetConn = 0 /\ ~f.sendEnabled
        /\ f.written = 0 /\ f.given = 0 /\ f.sock.inbox = 0 /\ ~f.sock.fin
        /\ sent[e] = 0 /\ read[e] = 0
    BY DEF EndInv, PhaseInv, BytesInv
  <1>5. CASE g.phase = "done"
    <2>1. EndInv(e)'
      BY <1>1, <1>5, DoneInv DEF g
    <2> QED
      BY <1>1, <1>5, <2>1 DEF g, Calls
  <1>6. CASE g.phase # "done"
    <2>1. PhaseInv(e)'
      BY <1>1, <1>2, <1>3, <1>4, <1>6 DEF PhaseInv, Fresh, g
    <2>2. WakeInv(e)' /\ ConnectInv(e)'
      BY <1>1, <1>3, <1>6 DEF WakeInv, ConnectInv, g
    <2>3. BytesInv(e)'
      BY <1>1, <1>3, <1>4, <1>6 DEF BytesInv, Fresh, g
    <2>4. todo'[e] \in Calls
      BY <1>1, <1>6 DEF Calls
    <2> QED
      BY <1>1, <1>3, <1>6, <2>1, <2>2, <2>3, <2>4 DEF EndInv, g
  <1> QED
    BY <1>5, <1>6

LEMMA MissedFacts ==
  ASSUME NEW f \in Forwarder
  PROVE  LET g == Missed(f)
         IN  /\ g \in Forwarder /\ g.poll = NoHandler /\ g.sock = f.sock
             /\ g.missed = f.missed \cup {f.sock.address}
             /\ g.forChannel = f.forChannel /\ g.forNetConn = f.forNetConn
             /\ g.sendEnabled = f.sendEnabled /\ g.written = f.written
             /\ g.given = f.given /\ g.closedBy = f.closedBy
  <1>1. f.sock.address \in Nat /\ f.missed \in SUBSET Nat
    BY ForwarderFields
  <1>2. f.missed \cup {f.sock.address} \in SUBSET Nat
    BY <1>1
  <1> QED
    BY <1>2, NewForwarder DEF Missed, Forwarder, DeregisterHandler

LEMMA ConnectTimeoutStep ==
  ASSUME ChannelInv, VisitorInv, NEW e \in Ends, ConnectTimeout(e)
  PROVE  OwnStep(e)
  <1> DEFINE f == fwd[e]
             d == DummiesTaken(e)
             s == [d.sock EXCEPT !.timer = FALSE]
             h == [d EXCEPT !.sock = s]
             b == batch'[e]
  <1>1. EndsTyped /\ EndInv(e) /\ f \in Forwarder /\ todo[e] \in Calls
    BY EndFields DEF VisitorInv
  <1>2. PICK turn \in Turns :
          /\ Idle(e) /\ f.sock.timer
          /\ NextAttempt(e, Missed([d EXCEPT !.sock.timer = FALSE]))
          /\ \E events \in {Found(e, turn).events, {}} :
               batch' = [batch EXCEPT ![e] = [Found(e, turn) EXCEPT !.events = events]]
          /\ UNCHANGED vars
    BY DEF ConnectTimeout, CanFind
  <1>3. /\ Found(e, turn) \in Batch
        /\ "in" \in Found(e, turn).events => f.poll.in
        /\ Found(e, turn).dummy => f.poll.dummy
        /\ d \in Forwarder /\ d.sock = f.sock /\ d.missed = f.missed
        /\ d.forChannel = f.forChannel /\ d.forNetConn = f.forNetConn
        /\ d.sendEnabled = f.sendEnabled
        /\ d.written = f.written /\ d.given = f.given /\ d.closedBy = f.closedBy
    BY <1>1, FoundFacts
  <1>4. f.phase = "connecting"
    BY <1>1, <1>2 DEF EndInv, ConnectInv
  <1>5. ~f.poll.in /\ ~f.poll.dummy
    BY <1>1, <1>4 DEF EndInv, PhaseInv, Fresh
  <1>6. b \in Batch /\ batch' = [batch EXCEPT ![e] = b] /\ ~b.dummy /\ "in" \notin b.events
    <2>1. PICK events \in {Found(e, turn).events, {}} :
            batch' = [batch EXCEPT ![e] = [Found(e, turn) EXCEPT !.events = events]]
      BY <1>2
    <2> DEFINE c == [Found(e, turn) EXCEPT !.events = events]
    <2>2. c \in Batch /\ c.dummy = Found(e, turn).dummy /\ c.events = events
      BY <1>3 DEF Batch
    <2>3. b = c /\ batch' = [batch EXCEPT ![e] = b]
      BY <1>1, <2>1, Updates
    <2> QED
      BY <1>3, <1>5, <2>1, <2>2, <2>3
  <1> HIDE DEF d
  <1>7. /\ s \in Socket /\ s.address = f.sock.address /\ s.left = f.sock.left
        /\ s.inbox = f.sock.inbox /\ s.fin = f.sock.fin
    <2>1. f.sock \in Socket
      BY <1>1, ForwarderFields
    <2> QED
      BY <1>3, <2>1 DEF Socket
  <1>8. h = [d EXCEPT !.sock.timer = FALSE]
    BY <1>3 DEF Forwarder
  <1> HIDE DEF s
  <1>9. /\ h \in Forwarder /\ h.sock = s /\ h.missed = f.missed
        /\ h.forChannel = f.forChannel /\ h.forNetConn = f.forNetConn
        /\ h.sendEnabled = f.sendEnabled
        /\ h.written = f.written /\ h.given = f.given /\ h.closedBy = f.closedBy
    BY <1>3, <1>7 DEF Forwarder
  <1> HIDE DEF h
  <1>10. /\ Missed(h) \in Forwarder /\ Missed(h).poll = NoHandler /\ Missed(h).sock = s
         /\ Missed(h).missed = f.missed \cup {s.address}
         /\ Missed(h).forChannel = f.forChannel /\ Missed(h).forNetConn = f.forNetConn
         /\ Missed(h).sendEnabled = f.sendEnabled /\ Missed(h).written = f.written
         /\ Missed(h).given = f.given /\ Missed(h).closedBy = f.closedBy
    BY <1>9, MissedFacts
  <1>11. NextAttempt(e, Missed(h))
    BY <1>2, <1>8
  <1>12. Addresses \subseteq Missed(h).missed \cup LeftOver(Missed(h).sock)
    BY <1>1, <1>4, <1>7, <1>10 DEF EndInv, ConnectInv, LeftOver
  <1>13. state'[e] # "Init" /\ sent'[e] = sent[e] /\ read'[e] = read[e] /\ todo[e] = "nothing"
    BY <1>1, <1>2, <1>4 DEF vars, streams, EndInv, PhaseInv, Idle
  <1>14. Fresh(fwd[e])
    BY <1>4 DEF Fresh
  <1>15. /\ fwd' = [fwd EXCEPT ![e] = fwd'[e]] /\ fwd'[e] \in Forwarder
         /\ todo' = [todo EXCEPT ![e] = todo'[e]] /\ todo'[e] \in Calls
         /\ EndInv(e)' /\ fwd'[e].closedBy # "channel"
    BY <1>1, <1>6, <1>7, <1>10, <1>11, <1>12, <1>13, <1>14, AttemptStep
  <1> QED
    BY <1>6, <1>15 DEF OwnStep

\* The second half of a step that handles one event.
LEMMA EventTaken ==
  ASSUME EndsTyped, NEW e \in Ends, HandleEvent(e)
  PROVE  LET b == batch'[e]
         IN  /\ batch' = [batch EXCEPT ![e] = b] /\ b \in Batch
             /\ b.dummy = batch[e].dummy /\ b.events \subseteq batch[e].events
             /\ fwd'[e].phase # "done" => b.events = batch[e].events \ {FirstEvent(batch[e].events)}
  <1> DEFINE E == IF fwd'[e].phase = "done" THEN {}
                  ELSE batch[e].events \ {FirstEvent(batch[e].events)}
             c == [batch[e] EXCEPT !.events = E]
  <1>1. batch[e] \in Batch /\ batch[e].events \in SUBSET PollEvents
    BY EndFields
  <1>2. batch' = [batch EXCEPT ![e] = c]
    BY DEF HandleEvent, EndsTyped
  <1>3. batch'[e] = c /\ batch' = [batch EXCEPT ![e] = batch'[e]]
    <2> HIDE DEF c
    <2> QED
      BY <1>2 DEF EndsTyped
  <1>4. E \subseteq batch[e].events
    OBVIOUS
  <1>5. fwd'[e].phase # "done" => E = batch[e].events \ {FirstEvent(batch[e].events)}
    OBVIOUS
  <1> HIDE DEF E
  <1>6. c \in Batch /\ c.dummy = batch[e].dummy /\ c.events = E
    BY <1>1, <1>4 DEF Batch
  <1> QED
    BY <1>3, <1>4, <1>5, <1>6

LEMMA HandleConnectStep ==
  ASSUME ChannelInv, VisitorInv, NEW e \in Ends, HandleEvent(e),
         fwd[e].phase = "connecting", HandleConnect(e), UNCHANGED vars
  PROVE  OwnStep(e)
  <1> DEFINE f == fwd[e]
             g == fwd'[e]
             b == batch'[e]
  <1>1. EndsTyped /\ EndInv(e) /\ f \in Forwarder /\ todo[e] \in Calls
    BY EndFields DEF VisitorInv
  <1>2. batch' = [batch EXCEPT ![e] = b] /\ b \in Batch /\ ~b.dummy /\ "in" \notin b.events
    BY <1>1, EventTaken DEF EndInv, PhaseInv, Fresh
  <1>3. /\ state'[e] = state[e] /\ sent'[e] = sent[e] /\ read'[e] = read[e]
        /\ state[e] # "Init" /\ todo[e] = "nothing"
    BY <1>1 DEF vars, streams, EndInv, PhaseInv, HandleEvent
  <1>4. CASE f.sock.kernel = "failed" /\ NextAttempt(e, Missed(f))
    <2> DEFINE h == Missed(f)
    <2>1. /\ h \in Forwarder /\ h.poll = NoHandler /\ h.sock = f.sock
          /\ h.missed = f.missed \cup {f.sock.address}
          /\ h.forChannel = f.forChannel /\ h.forNetConn = f.forNetConn
          /\ h.sendEnabled = f.sendEnabled /\ h.written = f.written
          /\ h.given = f.given /\ h.closedBy = f.closedBy
      BY <1>1, MissedFacts
    <2>2. Addresses \subseteq h.missed \cup LeftOver(h.sock)
      BY <1>1, <2>1 DEF EndInv, ConnectInv
    <2>3. NextAttempt(e, h) /\ Fresh(fwd[e])
      BY <1>4 DEF Fresh
    <2> HIDE DEF h
    <2>4. /\ fwd' = [fwd EXCEPT ![e] = fwd'[e]] /\ fwd'[e] \in Forwarder
          /\ todo' = [todo EXCEPT ![e] = todo'[e]] /\ todo'[e] \in Calls
          /\ EndInv(e)' /\ fwd'[e].closedBy # "channel"
      BY <1>1, <1>2, <1>3, <2>1, <2>2, <2>3, AttemptStep
    <2> QED
      BY <1>2, <2>4 DEF OwnStep
  <1>5. CASE /\ Become(e, [f EXCEPT !.phase = "connected", !.poll = DeregisterHandler(@),
                                    !.sock.timer = FALSE, !.early = f.sock.kernel = "connecting"])
             /\ CallNext(e, "accept")
    <2> DEFINE s == [f.sock EXCEPT !.timer = FALSE]
               early == f.sock.kernel = "connecting"
    <2>1. /\ g = [f EXCEPT !.phase = "connected", !.poll = NoHandler, !.sock = s, !.early = early]
          /\ fwd' = [fwd EXCEPT ![e] = g]
          /\ todo'[e] = "accept" /\ todo' = [todo EXCEPT ![e] = todo'[e]]
      BY <1>1, <1>5, Updates DEF DeregisterHandler
    <2>2. /\ s \in Socket /\ s.kernel = f.sock.kernel /\ s.timer = FALSE
          /\ s.inbox = f.sock.inbox /\ s.fin = f.sock.fin
      <3>1. f.sock \in Socket
        BY <1>1, ForwarderFields
      <3> QED
        BY <3>1 DEF Socket
    <2>3. early \in BOOLEAN
      OBVIOUS
    <2> HIDE DEF s, early, g, f
    <2>4. /\ g \in Forwarder /\ g.phase = "connected" /\ g.poll = NoHandler /\ g.sock = s
          /\ g.early = early /\ g.forChannel = f.forChannel /\ g.forNetConn = f.forNetConn
          /\ g.sendEnabled = f.sendEnabled /\ g.written = f.written
          /\ g.given = f.given /\ g.closedBy = f.closedBy
      BY <1>1, <2>1, <2>2, <2>3, NewForwarder DEF Forwarder
    <2>5. NoHandler.in = FALSE /\ NoHandler.dummy = FALSE
      BY DEF NoHandler
    <2>6. /\ f.closedBy = "nobody" /\ f.forChannel = 0 /\ f.forNetConn = 0 /\ ~f.sendEnabled
          /\ f.written = 0 /\ f.given = 0 /\ f.sock.inbox = 0 /\ ~f.sock.fin
          /\ sent[e] = 0 /\ read[e] = 0
      BY <1>1 DEF EndInv, PhaseInv, BytesInv, Fresh, f
    <2>7. PhaseInv(e)'
      BY <1>2, <1>3, <2>1, <2>4, <2>5, <2>6 DEF PhaseInv, Fresh, g
    <2>8. WakeInv(e)'
      BY <2>4 DEF WakeInv, g
    <2>9. ConnectInv(e)'
      BY <2>2, <2>4, <2>6 DEF ConnectInv, g, early
    <2>10. BytesInv(e)'
      BY <1>3, <2>2, <2>4, <2>6 DEF BytesInv, Fresh, g
    <2> QED
      BY <1>2, <2>1, <2>4, <2>6, <2>7, <2>8, <2>9, <2>10 DEF OwnStep, EndInv, Calls, g
  <1> QED
    BY <1>4, <1>5 DEF HandleConnect
-----------------------------------------------------------------------------
(* The socket is closed, read or written. *)

LEMMA ShutStep ==
  ASSUME EndsTyped, NEW e \in Ends, NEW f \in Forwarder,
         NEW why \in {"application", "channel", "error"}, CloseByNetConn(e, f, why),
         state'[e] # "Init", why = "application" => f.written = sent'[e]
  PROVE  /\ fwd' = [fwd EXCEPT ![e] = fwd'[e]] /\ fwd'[e] \in Forwarder
         /\ todo' = [todo EXCEPT ![e] = todo'[e]] /\ todo'[e] \in Calls
         /\ EndInv(e)' /\ fwd'[e].closedBy = why /\ fwd'[e].given = f.given
         /\ fwd'[e].phase = "done"
  <1>1. /\ fwd'[e] = CloseConn(f, why) /\ fwd' = [fwd EXCEPT ![e] = fwd'[e]]
        /\ todo'[e] = "close" /\ todo' = [todo EXCEPT ![e] = todo'[e]]
    BY Updates DEF CloseByNetConn
  <1>2. /\ fwd'[e] \in Forwarder /\ fwd'[e].phase = "done" /\ fwd'[e].sock = NoSocket
        /\ fwd'[e].poll = NoHandler /\ fwd'[e].closedBy = why
        /\ fwd'[e].written = f.written /\ fwd'[e].given = f.given
    BY <1>1, CloseConnFacts
  <1>3. EndInv(e)'
    BY <1>1, <1>2, DoneInv
  <1> QED
    BY <1>1, <1>2, <1>3 DEF Calls

\* A read moves bytes from the socket to the chunk.
LEMMA ReadFacts ==
  ASSUME NEW f \in Forwarder
  PROVE  LET g == ReadUnlessHeld(f)
         IN  /\ g \in Forwarder /\ g.phase = f.phase /\ g.poll = f.poll
             /\ g.forNetConn = f.forNetConn /\ g.recvEnabled = f.recvEnabled
             /\ g.sendEnabled = f.sendEnabled /\ g.written = f.written /\ g.given = f.given
             /\ g.closedBy = f.closedBy /\ g.dropped = f.dropped /\ g.early = f.early
             /\ g.missed = f.missed /\ g.sock.kernel = f.sock.kernel
             /\ g.sock.timer = f.sock.timer /\ g.sock.fin = f.sock.fin
             /\ g.forChannel + g.sock.inbox = f.forChannel + f.sock.inbox
             /\ Holds(f) => Holds(g)
  <1> DEFINE n == IF f.sock.inbox < Chunk THEN f.sock.inbox ELSE Chunk
             rest == f.sock.inbox - n
             s == [f.sock EXCEPT !.inbox = rest]
  <1>1. f.sock \in Socket /\ f.sock.inbox \in Nat /\ f.forChannel \in Nat
    BY ForwarderFields
  <1>2. CASE Holds(f)
    BY <1>2 DEF ReadUnlessHeld
  <1>3. CASE ~Holds(f)
    <2>1. f.forChannel = 0
      BY <1>1, <1>3 DEF Holds
    <2>2. n \in 0 .. Chunk /\ n \in Nat /\ rest \in Nat /\ n + rest = 0 + f.sock.inbox
      BY <1>1, ForwarderAssumption
    <2>3. ReadUnlessHeld(f) = [f EXCEPT !.forChannel = n, !.sock = s]
      BY <1>3 DEF ReadUnlessHeld
    <2> HIDE DEF n, rest
    <2>4. /\ s \in Socket /\ s.inbox = rest /\ s.kernel = f.sock.kernel
          /\ s.timer = f.sock.timer /\ s.fin = f.sock.fin
      BY <1>1, <2>2 DEF Socket
    <2> HIDE DEF s
    <2>5. LET g == [f EXCEPT !.forChannel = n, !.sock = s]
          IN  /\ g \in Forwarder /\ g.phase = f.phase /\ g.poll = f.poll
              /\ g.forNetConn = f.forNetConn /\ g.recvEnabled = f.recvEnabled
              /\ g.sendEnabled = f.sendEnabled /\ g.written = f.written /\ g.given = f.given
              /\ g.closedBy = f.closedBy /\ g.dropped = f.dropped /\ g.early = f.early
              /\ g.missed = f.missed /\ g.sock = s /\ g.forChannel = n
      BY <2>2, <2>4 DEF Forwarder
    <2> QED
      BY <1>3, <2>1, <2>2, <2>3, <2>4, <2>5
  <1> QED
    BY <1>2, <1>3

LEMMA CopiedFacts ==
  ASSUME NEW f \in Forwarder
  PROVE  LET g == Copied(f)
         IN  /\ g \in Forwarder /\ g.phase = f.phase /\ g.poll = f.poll /\ g.sock = f.sock
             /\ g.forNetConn = f.forNetConn /\ g.recvEnabled = f.recvEnabled
             /\ g.sendEnabled = f.sendEnabled /\ g.written = f.written /\ g.given = f.given
             /\ g.closedBy = f.closedBy /\ g.dropped = f.dropped /\ g.early = f.early
             /\ g.missed = f.missed /\ g.forChannel = 0
  <1>1. 0 \in 0 .. Chunk
    BY ForwarderAssumption
  <1> QED
    BY <1>1 DEF Copied, Forwarder

\* HandleFDRead, for an event or for a dummy read: afterwards the chunk is
\* sent, or there is none, or the socket is not polled until it can be sent.
LEMMA ReadStep ==
  ASSUME ChannelInv, VisitorInv, NEW e \in Ends, HandleFDRead(e),
         fwd[e].phase = "running", fwd[e].poll.in, ~fwd[e].poll.dummy, todo[e] = "nothing",
         batch' = [batch EXCEPT ![e] = batch'[e]], batch'[e] \in Batch,
         fwd'[e].phase # "done" => "in" \notin batch'[e].events /\ ~batch'[e].dummy
  PROVE  OwnStep(e)
  <1> DEFINE f == fwd[e]
             r == ReadUnlessHeld(f)
             g == fwd'[e]
  <1>1. /\ EndsTyped /\ EndInv(e) /\ f \in Forwarder /\ todo[e] \in Calls
        /\ sent \in [Ends -> Nat] /\ sent[e] \in Nat
    BY EndFields DEF VisitorInv, ChannelInv, FlowInv, TypeInv
  <1>2. /\ f.forChannel \in Nat /\ f.sock.inbox \in Nat /\ f.sock.fin \in BOOLEAN
        /\ f.poll.out \in BOOLEAN
    BY <1>1, ForwarderFields
  <1>3. /\ state[e] \in {"Connecting", "Connected", "CloseResponding"}
        /\ state[e] # "Connecting" => allowWrite[e]
        /\ f.closedBy = "nobody"
    BY <1>1 DEF EndInv, PhaseInv
  <1>4. /\ recvQueue[e] # <<>> \/ state[e] = "CloseResponding" => f.poll.out
        /\ f.forNetConn > 0 => f.poll.out
        /\ f.poll.registered /\ f.recvEnabled = f.poll.in /\ f.sendEnabled = f.poll.out
    BY <1>1 DEF EndInv, WakeInv
  <1>5. /\ ~f.sock.timer
        /\ f.sock.kernel = "connecting" => f.early
    BY <1>1 DEF EndInv, ConnectInv
  <1>6. /\ f.sock.fin => f.sock.kernel = "up"
        /\ f.sock.kernel \in {"up", "connecting"} =>
             f.written = sent[e] + f.forChannel + f.sock.inbox
        /\ f.given + f.forNetConn = read[e]
    BY <1>1 DEF EndInv, BytesInv
  <1>7. CASE /\ ReadFails(f)
             /\ CloseByNetConn(e, f, IF f.sock.fin THEN "application" ELSE "error")
             /\ UNCHANGED vars
    <2> DEFINE why == IF f.sock.fin THEN "application" ELSE "error"
    <2>1. why \in {"application", "channel", "error"} /\ (why = "application" => f.sock.fin)
      OBVIOUS
    <2>2. f.forChannel = 0 /\ f.sock.inbox = 0
      BY <1>2, <1>7 DEF ReadFails, Holds
    <2>3. why = "application" => f.written = sent'[e]
      BY <1>1, <1>6, <1>7, <2>1, <2>2 DEF vars, streams
    <2>4. state'[e] # "Init" /\ CloseByNetConn(e, f, why)
      BY <1>3, <1>7 DEF vars
    <2> HIDE DEF why, f
    <2>5. /\ fwd' = [fwd EXCEPT ![e] = fwd'[e]] /\ fwd'[e] \in Forwarder
          /\ todo' = [todo EXCEPT ![e] = todo'[e]] /\ todo'[e] \in Calls
          /\ EndInv(e)' /\ fwd'[e].closedBy = why
      BY <1>1, <2>1, <2>3, <2>4, ShutStep
    <2>6. fwd'[e].closedBy # "channel"
      BY <2>5 DEF why
    <2> QED
      BY <2>5, <2>6 DEF OwnStep
  <1>8. CASE ~ReadFails(f) /\ ~Holds(r) /\ UNCHANGED <<vars, fwd, todo>>
    <2>1. /\ g = f /\ fwd' = [fwd EXCEPT ![e] = g]
          /\ todo'[e] = "nothing" /\ todo' = [todo EXCEPT ![e] = todo'[e]]
          /\ state'[e] = state[e] /\ allowWrite'[e] = allowWrite[e]
          /\ remoteWindow'[e] = remoteWindow[e] /\ recvQueue'[e] = recvQueue[e]
          /\ sent'[e] = sent[e] /\ read'[e] = read[e]
      BY <1>1, <1>8, Updates DEF vars, windows, streams
    <2>2. ~Holds(f)
      BY <1>1, <1>8, ReadFacts
    <2>3. "in" \notin batch'[e].events /\ ~batch'[e].dummy
      BY <2>1
    <2> HIDE DEF f, g
    <2>4. PhaseInv(e)'
      BY <1>1, <1>3, <2>1 DEF PhaseInv, Fresh, f, g
    <2>5. WakeInv(e)'
      BY <1>4, <2>1, <2>2, <2>3 DEF WakeInv, f, g
    <2>6. ConnectInv(e)' /\ BytesInv(e)'
      BY <1>1, <2>1 DEF EndInv, ConnectInv, BytesInv, f, g
    <2> QED
      BY <1>1, <1>3, <2>1, <2>4, <2>5, <2>6 DEF OwnStep, EndInv, f, g
  <1>9. /\ r \in Forwarder /\ r.phase = "running" /\ r.poll = f.poll
        /\ r.forNetConn = f.forNetConn /\ r.recvEnabled = f.recvEnabled
        /\ r.sendEnabled = f.sendEnabled /\ r.written = f.written /\ r.given = f.given
        /\ r.closedBy = "nobody" /\ r.dropped = f.dropped /\ r.early = f.early
        /\ r.missed = f.missed /\ r.sock.kernel = f.sock.kernel
        /\ r.sock.timer = f.sock.timer /\ r.sock.fin = f.sock.fin
        /\ r.forChannel + r.sock.inbox = f.forChannel + f.sock.inbox
        /\ r.forChannel \in Nat /\ r.sock.inbox \in Nat
    BY <1>1, <1>3, ReadFacts, ForwarderFields
  <1>10. r.sock.kernel \in {"up", "connecting"} =>
           r.written = sent[e] + r.forChannel + r.sock.inbox
    BY <1>1, <1>2, <1>6, <1>9
  <1>11. CASE /\ Holds(r) /\ (r.forChannel > remoteWindow[e] \/ ~allowWrite[e])
              /\ Become(e, DisableReadPoll(r)) /\ UNCHANGED <<vars, todo>>
    <2> HIDE DEF r
    <2>1. /\ g = DisableReadPoll(r) /\ fwd' = [fwd EXCEPT ![e] = g]
          /\ todo'[e] = "nothing" /\ todo' = [todo EXCEPT ![e] = todo'[e]]
          /\ state'[e] = state[e] /\ allowWrite'[e] = allowWrite[e]
          /\ remoteWindow'[e] = remoteWindow[e] /\ recvQueue'[e] = recvQueue[e]
          /\ sent'[e] = sent[e] /\ read'[e] = read[e]
      BY <1>1, <1>11, Updates DEF vars, windows, streams
    <2> HIDE DEF f, g
    <2>2. /\ OnlyPolls(r, g) /\ g.recvEnabled = FALSE /\ g.poll.in = FALSE
          /\ g.sendEnabled = r.sendEnabled /\ g.poll.registered = r.poll.registered
          /\ g.poll.out = r.poll.out /\ g.poll.dummy = r.poll.dummy
      BY <1>9, <2>1, ReadPolls
    <2>3. /\ g \in Forwarder /\ g.phase = "running" /\ g.sock = r.sock
          /\ g.forChannel = r.forChannel /\ g.forNetConn = f.forNetConn
          /\ g.written = f.written /\ g.given = f.given /\ g.closedBy = "nobody"
          /\ g.early = f.early /\ g.missed = f.missed
      BY <1>9, <2>2 DEF OnlyPolls
    <2>4. "in" \notin batch'[e].events /\ ~batch'[e].dummy
      BY <2>3 DEF g
    <2>5. PhaseInv(e)'
      BY <1>1, <1>3, <2>1, <2>3 DEF PhaseInv, Fresh, g
    <2>6. WakeInv(e)'
      <3>1. Holds(g) /\ (state'[e] = "Connecting" \/ g.forChannel > remoteWindow'[e])
        BY <1>3, <1>11, <2>1, <2>3 DEF Holds
      <3>2. ~g.poll.dummy
        BY <1>9, <2>2 DEF f
      <3>3. /\ g.poll.registered /\ g.recvEnabled = g.poll.in /\ g.sendEnabled = g.poll.out
            /\ g.poll.out = f.poll.out
        BY <1>4, <1>9, <2>2, ZenonT(30)
      <3> HIDE DEF Holds
      <3> QED
        BY <1>4, <2>1, <2>2, <2>3, <2>4, <3>1, <3>2, <3>3 DEF WakeInv, g
    <2>7. ConnectInv(e)'
      BY <1>5, <1>9, <2>3 DEF ConnectInv, g
    <2>8. BytesInv(e)'
      BY <1>6, <1>9, <1>10, <2>1, <2>3 DEF BytesInv, Fresh, g
    <2> QED
      BY <1>1, <2>1, <2>3, <2>5, <2>6, <2>7, <2>8 DEF OwnStep, EndInv, g
  <1>12. CASE /\ Holds(r) /\ Send(e, r.forChannel) /\ Become(e, Copied(r)) /\ UNCHANGED todo
    <2> HIDE DEF r
    <2>1. /\ g = Copied(r) /\ fwd' = [fwd EXCEPT ![e] = g]
          /\ todo'[e] = "nothing" /\ todo' = [todo EXCEPT ![e] = todo'[e]]
      BY <1>1, <1>12, Updates
    <2>2. /\ state'[e] = state[e] /\ allowWrite'[e] = allowWrite[e]
          /\ recvQueue'[e] = recvQueue[e] /\ sent'[e] = sent[e] + r.forChannel
          /\ read'[e] = read[e]
      BY <1>1, <1>12 DEF Send
    <2> HIDE DEF f, g
    <2>3. /\ g \in Forwarder /\ g.phase = "running" /\ g.poll = f.poll /\ g.sock = r.sock
          /\ g.forNetConn = f.forNetConn /\ g.recvEnabled = f.recvEnabled
          /\ g.sendEnabled = f.sendEnabled /\ g.written = f.written /\ g.given = f.given
          /\ g.closedBy = "nobody" /\ g.early = f.early
          /\ g.missed = f.missed /\ g.forChannel = 0
      BY <1>9, <2>1, CopiedFacts
    <2>4. "in" \notin batch'[e].events /\ ~batch'[e].dummy
      BY <2>3 DEF g
    <2>5. PhaseInv(e)'
      BY <1>1, <1>3, <2>1, <2>2, <2>3 DEF PhaseInv, Fresh, g
    <2>6. WakeInv(e)'
      <3>1. ~Holds(g) /\ g.poll.in /\ ~g.poll.dummy
        BY <2>3 DEF Holds, f
      <3> QED
        BY <1>4, <2>2, <2>3, <2>4, <3>1 DEF WakeInv, g
    <2>7. ConnectInv(e)'
      BY <1>5, <1>9, <2>3 DEF ConnectInv, g
    <2>8. BytesInv(e)'
      <3>1. g.sock.kernel \in {"up", "connecting"} =>
              g.written = sent'[e] + g.forChannel + g.sock.inbox
        BY <1>1, <1>9, <1>10, <2>2, <2>3
      <3> QED
        BY <1>6, <1>9, <2>2, <2>3, <3>1 DEF BytesInv, Fresh, g
    <2> QED
      BY <1>1, <2>1, <2>3, <2>5, <2>6, <2>7, <2>8 DEF OwnStep, EndInv, g
  <1> QED
    BY <1>7, <1>8, <1>11, <1>12 DEF HandleFDRead

LEMMA WriteFacts ==
  ASSUME NEW f \in Forwarder, NEW n \in 0 .. Fitting(f)
  PROVE  LET g == WriteSome(f, n)
         IN  /\ g \in Forwarder /\ g.phase = f.phase /\ g.poll = f.poll
             /\ g.forChannel = f.forChannel /\ g.recvEnabled = f.recvEnabled
             /\ g.sendEnabled = f.sendEnabled /\ g.written = f.written
             /\ g.closedBy = f.closedBy /\ g.dropped = f.dropped /\ g.early = f.early
             /\ g.missed = f.missed /\ g.sock.kernel = f.sock.kernel
             /\ g.sock.timer = f.sock.timer /\ g.sock.fin = f.sock.fin
             /\ g.sock.inbox = f.sock.inbox
             /\ g.given + g.forNetConn = f.given + f.forNetConn
  <1> DEFINE held == f.forNetConn - n
             given == f.given + n
             out == f.sock.outbox + n
             s == [f.sock EXCEPT !.outbox = out]
  <1>1. /\ f.sock \in Socket /\ f.sock.outbox \in Nat /\ f.forNetConn \in Nat
        /\ f.given \in Nat /\ OutCapacity \in Nat
    BY ForwarderFields, NetworkConnectionAssumption
  <1>2. n \in Nat /\ n <= f.forNetConn
    BY <1>1 DEF Fitting, Writable
  <1>3. held \in Nat /\ given \in Nat /\ out \in Nat /\ given + held = f.given + f.forNetConn
    BY <1>1, <1>2
  <1>4. WriteSome(f, n) = [f EXCEPT !.forNetConn = held, !.given = given, !.sock = s]
    BY DEF WriteSome
  <1> HIDE DEF held, given, out
  <1>5. /\ s \in Socket /\ s.kernel = f.sock.kernel /\ s.timer = f.sock.timer
        /\ s.fin = f.sock.fin /\ s.inbox = f.sock.inbox
    BY <1>1, <1>3 DEF Socket
  <1> HIDE DEF s
  <1>6. LET g == [f EXCEPT !.forNetConn = held, !.given = given, !.sock = s]
        IN  /\ g \in Forwarder /\ g.phase = f.phase /\ g.poll = f.poll
            /\ g.forChannel = f.forChannel /\ g.recvEnabled = f.recvEnabled
            /\ g.sendEnabled = f.sendEnabled /\ g.written = f.written
            /\ g.closedBy = f.closedBy /\ g.dropped = f.dropped /\ g.early = f.early
            /\ g.missed = f.missed /\ g.sock = s /\ g.given = given /\ g.forNetConn = held
    BY <1>3, <1>5 DEF Forwarder
  <1> QED
    BY <1>3, <1>4, <1>5, <1>6

\* h is the forwarder of e but for the bytes that it holds for its connection.
LEMMA WriteOrCloseStep ==
  ASSUME EndsTyped, NEW e \in Ends, EndInv(e), fwd[e].phase = "running", todo[e] = "nothing",
         NEW h \in Forwarder, h = [fwd[e] EXCEPT !.forNetConn = h.forNetConn],
         WriteOrClose(e, h), fwd[e].poll.out, h.given + h.forNetConn = read'[e],
         state'[e] = state[e], allowWrite'[e] = allowWrite[e],
         remoteWindow'[e] = remoteWindow[e], sent'[e] = sent[e],
         fwd'[e].phase # "done" =>
           /\ "in" \notin batch'[e].events /\ ~batch'[e].dummy
           /\ "in" \notin batch[e].events /\ ~batch[e].dummy
           /\ "hup" \in batch[e].events => "hup" \in batch'[e].events
  PROVE  /\ fwd' = [fwd EXCEPT ![e] = fwd'[e]] /\ fwd'[e] \in Forwarder
         /\ todo' = [todo EXCEPT ![e] = todo'[e]] /\ todo'[e] \in Calls
         /\ EndInv(e)' /\ fwd'[e].closedBy # "channel"
  <1> DEFINE f == fwd[e]
             g == fwd'[e]
  <1>1. /\ f \in Forwarder /\ h.phase = "running" /\ h.poll = f.poll /\ h.sock = f.sock
        /\ h.forChannel = f.forChannel /\ h.recvEnabled = f.recvEnabled
        /\ h.sendEnabled = f.sendEnabled /\ h.written = f.written
        /\ h.closedBy = f.closedBy /\ h.dropped = f.dropped /\ h.early = f.early
        /\ h.missed = f.missed
    <2>1. f \in Forwarder
      BY EndFields
    <2> QED
      BY <2>1 DEF Forwarder
  <1>2. /\ state[e] \in {"Connecting", "Connected", "CloseResponding"}
        /\ state[e] # "Connecting" => allowWrite[e]
        /\ f.closedBy = "nobody"
    BY DEF EndInv, PhaseInv
  <1>3. CASE h.sock.kernel = "failed" /\ CloseByNetConn(e, h, "error")
    BY <1>2, <1>3, ShutStep
  <1>4. CASE \E n \in 0 .. Fitting(h) : Become(e, WriteSome(h, n)) /\ UNCHANGED todo
    <2>1. PICK n \in 0 .. Fitting(h) : Become(e, WriteSome(h, n))
      BY <1>4
    <2>2. /\ g = WriteSome(h, n) /\ fwd' = [fwd EXCEPT ![e] = g]
          /\ todo'[e] = "nothing" /\ todo' = [todo EXCEPT ![e] = todo'[e]]
      BY <1>4, <2>1, Updates
    <2> HIDE DEF f, g
    <2>3. /\ g \in Forwarder /\ g.phase = h.phase /\ g.poll = h.poll
          /\ g.forChannel = h.forChannel /\ g.recvEnabled = h.recvEnabled
          /\ g.sendEnabled = h.sendEnabled /\ g.written = h.written
          /\ g.closedBy = h.closedBy /\ g.dropped = h.dropped /\ g.early = h.early
          /\ g.missed = h.missed /\ g.sock.kernel = h.sock.kernel
          /\ g.sock.timer = h.sock.timer /\ g.sock.fin = h.sock.fin
          /\ g.sock.inbox = h.sock.inbox
          /\ g.given + g.forNetConn = h.given + h.forNetConn
      BY <2>2, WriteFacts
    <2>4. /\ g.phase = "running" /\ g.poll = f.poll
          /\ g.forChannel = f.forChannel /\ g.recvEnabled = f.recvEnabled
          /\ g.sendEnabled = f.sendEnabled /\ g.written = f.written
          /\ g.closedBy = "nobody" /\ g.dropped = f.dropped /\ g.early = f.early
          /\ g.sock.kernel = f.sock.kernel
          /\ g.sock.timer = f.sock.timer /\ g.sock.fin = f.sock.fin
          /\ g.sock.inbox = f.sock.inbox
          /\ g.given + g.forNetConn = read'[e]
      BY <1>1, <1>2, <2>3
    <2>5. /\ "in" \notin batch'[e].events /\ ~batch'[e].dummy
          /\ "in" \notin batch[e].events /\ ~batch[e].dummy
          /\ "hup" \in batch[e].events => "hup" \in batch'[e].events
      BY <2>4 DEF g
    <2>6. PhaseInv(e)'
      BY <1>2, <2>2, <2>4 DEF PhaseInv, Fresh, g
    <2>7. WakeInv(e)'
      <3>1. /\ ~f.poll.in =>
                 Holds(f) /\ (state[e] = "Connecting" \/ f.forChannel > remoteWindow[e])
            /\ Holds(f) /\ f.poll.in =>
                 f.poll.dummy \/ f.dropped \/ batch[e].events \cap {"in", "hup"} # {}
            /\ f.poll.registered /\ f.recvEnabled = f.poll.in /\ f.sendEnabled = f.poll.out
            /\ f.poll.dummy => f.poll.in /\ f.poll.out
            /\ state[e] = "Connecting" /\ Holds(f) => ~f.poll.in
        BY <1>1, <2>5 DEF EndInv, WakeInv, f
      <3>2. batch[e].events \cap {"in", "hup"} # {} => batch'[e].events \cap {"in", "hup"} # {}
        BY <2>5
      <3>3. Holds(g) <=> Holds(f)
        BY <2>4 DEF Holds
      <3>4. f.poll.out
        BY DEF f
      <3> HIDE DEF Holds
      <3> QED
        BY <2>4, <2>5, <3>1, <3>2, <3>3, <3>4 DEF WakeInv, g
    <2>8. ConnectInv(e)'
      BY <2>4 DEF EndInv, ConnectInv, f, g
    <2>9. BytesInv(e)'
      <3>1. /\ f.sock.fin => f.sock.kernel = "up"
            /\ f.sock.kernel \in {"up", "connecting"} =>
                 f.written = sent[e] + f.forChannel + f.sock.inbox
        BY DEF EndInv, BytesInv, f
      <3> QED
        BY <2>4, <3>1 DEF BytesInv, Fresh, g
    <2> QED
      BY <2>2, <2>3, <2>4, <2>6, <2>7, <2>8, <2>9 DEF EndInv, Calls, g
  <1> QED
    BY <1>3, <1>4 DEF WriteOrClose

LEMMA WriteStep ==
  ASSUME ChannelInv, VisitorInv, NEW e \in Ends, HandleFDWrite(e),
         fwd[e].phase = "running", todo[e] = "nothing",
         batch' = [batch EXCEPT ![e] = batch'[e]], batch'[e] \in Batch,
         fwd'[e].phase # "done" =>
           /\ "in" \notin batch'[e].events /\ ~batch'[e].dummy
           /\ "in" \notin batch[e].events /\ ~batch[e].dummy
           /\ "hup" \in batch[e].events => "hup" \in batch'[e].events
  PROVE  OwnStep(e)
  <1> DEFINE f == fwd[e]
             g == fwd'[e]
  <1>1. EndsTyped /\ EndInv(e) /\ f \in Forwarder
    BY EndFields DEF VisitorInv
  <1>2. /\ f.forNetConn \in Nat /\ f.given \in Nat /\ f.poll.out \in BOOLEAN
        /\ read \in [Ends -> Nat] /\ sent \in [Ends -> Nat] /\ read[e] \in Nat
    BY <1>1, ForwarderFields DEF ChannelInv, FlowInv, TypeInv
  <1>3. /\ state[e] \in {"Connecting", "Connected", "CloseResponding"}
        /\ state[e] # "Connecting" => allowWrite[e]
        /\ f.closedBy = "nobody"
        /\ recvQueue[e] # <<>> \/ f.forNetConn > 0 => f.poll.out
        /\ f.given + f.forNetConn = read[e]
    BY <1>1 DEF EndInv, PhaseInv, WakeInv, BytesInv
  <1>4. CASE f.forNetConn > 0 /\ WriteOrClose(e, f) /\ UNCHANGED vars
    <2>1. f = [f EXCEPT !.forNetConn = f.forNetConn]
      BY <1>1 DEF Forwarder
    <2>2. /\ state'[e] = state[e] /\ allowWrite'[e] = allowWrite[e] /\ read'[e] = read[e]
          /\ remoteWindow'[e] = remoteWindow[e] /\ sent'[e] = sent[e]
      BY <1>4 DEF vars, windows, streams
    <2>3. f.poll.out /\ f.given + f.forNetConn = read'[e] /\ WriteOrClose(e, f)
      BY <1>3, <1>4, <2>2
    <2> HIDE DEF WriteOrClose, EndInv
    <2>4. /\ fwd' = [fwd EXCEPT ![e] = fwd'[e]] /\ fwd'[e] \in Forwarder
          /\ todo' = [todo EXCEPT ![e] = todo'[e]] /\ todo'[e] \in Calls
          /\ EndInv(e)' /\ fwd'[e].closedBy # "channel"
      BY <1>1, <2>1, <2>2, <2>3, WriteOrCloseStep
    <2> QED
      BY <2>4 DEF OwnStep
  <1>5. CASE /\ f.forNetConn = 0 /\ Recv(e, Chunk)
             /\ WriteOrClose(e, [f EXCEPT !.forNetConn = read'[e] - read[e]])
    <2> DEFINE n == read'[e] - read[e]
               h == [f EXCEPT !.forNetConn = n]
    <2>1. Chunk \in Nat \ {0} /\ Context
      BY ForwarderAssumption DEF ChannelInv, Context, CloseOK
    <2>2. /\ recvQueue[e] # <<>> /\ state' = state /\ sent' = sent
          /\ \E taken \in Nat \ {0} : read' = [read EXCEPT ![e] = @ + taken]
      BY <1>5, <2>1, RecvFacts
    <2>3. n \in Nat /\ read'[e] = read[e] + n
      BY <1>2, <2>2
    <2>4. allowWrite' = allowWrite /\ remoteWindow' = remoteWindow
      BY <1>5 DEF Recv
    <2> HIDE DEF n
    <2>5. /\ h \in Forwarder /\ h.forNetConn = n /\ h.given = f.given
          /\ h = [f EXCEPT !.forNetConn = h.forNetConn]
      BY <1>1, <2>3 DEF Forwarder
    <2>6. h.given + h.forNetConn = read'[e]
      BY <1>2, <1>3, <1>5, <2>3, <2>5
    <2>7. WriteOrClose(e, h)
      BY <1>5 DEF n
    <2>8. f.poll.out
      BY <1>3, <2>2
    <2> HIDE DEF h, WriteOrClose, EndInv
    <2>9. /\ fwd' = [fwd EXCEPT ![e] = fwd'[e]] /\ fwd'[e] \in Forwarder
          /\ todo' = [todo EXCEPT ![e] = todo'[e]] /\ todo'[e] \in Calls
          /\ EndInv(e)' /\ fwd'[e].closedBy # "channel"
      BY <1>1, <2>2, <2>4, <2>5, <2>6, <2>7, <2>8, WriteOrCloseStep
    <2> QED
      BY <2>9 DEF OwnStep
  <1>6. CASE f.forNetConn = 0 /\ RecvEof(e) /\ CloseByNetConn(e, f, "channel")
    <2>1. state[e] = "CloseResponding" /\ recvQueue[e] = <<>> /\ state' = state
      BY <1>6 DEF RecvEof
    <2>2. arrived[e] = sent[Peer(e)] /\ read[e] = arrived[e] /\ state[Peer(e)] \in Leaving
      BY <2>1 DEF ChannelInv, StreamInv, StreamInOrder, CloseInv
    <2>3. f.given = sent[Peer(e)]
      BY <1>2, <1>3, <1>6, <2>2
    <2>4. /\ fwd' = [fwd EXCEPT ![e] = fwd'[e]] /\ fwd'[e] \in Forwarder
          /\ todo' = [todo EXCEPT ![e] = todo'[e]] /\ todo'[e] \in Calls
          /\ EndInv(e)' /\ fwd'[e].given = f.given
      BY <1>1, <1>6, <2>1, ShutStep
    <2> QED
      BY <2>2, <2>3, <2>4 DEF OwnStep
  <1>7. CASE /\ f.forNetConn = 0 /\ recvQueue[e] = <<>> /\ state[e] # "CloseResponding"
             /\ Become(e, DisableWritePoll(f)) /\ UNCHANGED <<vars, todo>>
    <2>1. /\ g = DisableWritePoll(f) /\ fwd' = [fwd EXCEPT ![e] = g]
          /\ todo'[e] = "nothing" /\ todo' = [todo EXCEPT ![e] = todo'[e]]
          /\ state'[e] = state[e] /\ allowWrite'[e] = allowWrite[e]
          /\ remoteWindow'[e] = remoteWindow[e] /\ recvQueue'[e] = recvQueue[e]
          /\ sent'[e] = sent[e] /\ read'[e] = read[e]
      BY <1>1, <1>7, Updates DEF vars, windows, streams
    <2> HIDE DEF f, g
    <2>2. /\ OnlyPolls(f, g) /\ g.sendEnabled = FALSE /\ g.poll.out = FALSE
          /\ g.recvEnabled = f.recvEnabled /\ g.poll.registered = f.poll.registered
          /\ g.poll.in = f.poll.in /\ g.poll.dummy = f.poll.dummy
      BY <1>1, <2>1, WritePolls
    <2>3. /\ g \in Forwarder /\ g.phase = f.phase /\ g.sock = f.sock
          /\ g.forChannel = f.forChannel /\ g.forNetConn = f.forNetConn
          /\ g.written = f.written /\ g.given = f.given /\ g.closedBy = f.closedBy
          /\ g.dropped = f.dropped /\ g.early = f.early /\ g.missed = f.missed
      BY <2>2 DEF OnlyPolls
    <2>4. f.phase = "running"
      BY DEF f
    <2>5. /\ "in" \notin batch'[e].events /\ ~batch'[e].dummy
          /\ "in" \notin batch[e].events /\ ~batch[e].dummy
          /\ "hup" \in batch[e].events => "hup" \in batch'[e].events
      BY <2>3, <2>4 DEF g
    <2>6. PhaseInv(e)'
      BY <1>3, <2>1, <2>3, <2>4 DEF PhaseInv, Fresh, g
    <2>7. WakeInv(e)'
      <3>1. /\ ~f.poll.in =>
                 Holds(f) /\ (state[e] = "Connecting" \/ f.forChannel > remoteWindow[e])
            /\ Holds(f) /\ f.poll.in =>
                 f.poll.dummy \/ f.dropped \/ batch[e].events \cap {"in", "hup"} # {}
            /\ f.poll.registered /\ f.recvEnabled = f.poll.in
            /\ f.poll.dummy => f.poll.in
            /\ state[e] = "Connecting" /\ Holds(f) => ~f.poll.in
        BY <1>1, <2>4, <2>5 DEF EndInv, WakeInv, f
      <3>2. batch[e].events \cap {"in", "hup"} # {} => batch'[e].events \cap {"in", "hup"} # {}
        BY <2>5
      <3>3. Holds(g) <=> Holds(f)
        BY <2>3 DEF Holds
      <3>4. ~(g.forNetConn > 0)
        BY <1>7, <2>3
      <3> HIDE DEF Holds
      <3> QED
        BY <1>7, <2>1, <2>2, <2>3, <2>5, <3>1, <3>2, <3>3, <3>4 DEF WakeInv, g
    <2>8. ConnectInv(e)' /\ BytesInv(e)'
      BY <1>1, <2>1, <2>3, <2>4 DEF EndInv, ConnectInv, BytesInv, Fresh, f, g
    <2> QED
      BY <1>3, <2>1, <2>3, <2>6, <2>7, <2>8 DEF OwnStep, EndInv, Calls, f, g
  <1> QED
    BY <1>4, <1>5, <1>6, <1>7 DEF HandleFDWrite
-----------------------------------------------------------------------------
(* The events of a batch. *)

LEMMA HandleEventStep ==
  ASSUME ChannelInv, VisitorInv, NEW e \in Ends, HandleEvent(e)
  PROVE  OwnStep(e)
  <1> DEFINE event == FirstEvent(batch[e].events)
  <1>1. /\ EndsTyped /\ EndInv(e) /\ fwd[e] \in Forwarder /\ batch[e] \in Batch
        /\ batch[e].events \in SUBSET PollEvents
    BY EndFields DEF VisitorInv
  <1>2. /\ batch' = [batch EXCEPT ![e] = batch'[e]] /\ batch'[e] \in Batch
        /\ batch'[e].dummy = batch[e].dummy /\ batch'[e].events \subseteq batch[e].events
        /\ fwd'[e].phase # "done" => batch'[e].events = batch[e].events \ {event}
    BY <1>1, EventTaken
  <1>3. todo[e] = "nothing" /\ batch[e].events # {}
    BY DEF HandleEvent
  <1>4. ASSUME fwd[e].phase # "running", UNCHANGED <<vars, fwd, todo>>
        PROVE  OwnStep(e)
    <2>1. /\ fwd'[e] = fwd[e] /\ fwd' = [fwd EXCEPT ![e] = fwd'[e]]
          /\ todo'[e] = todo[e] /\ todo' = [todo EXCEPT ![e] = todo'[e]]
          /\ state'[e] = state[e] /\ recvQueue'[e] = recvQueue[e]
          /\ sent'[e] = sent[e] /\ read'[e] = read[e]
      BY <1>1, <1>4, Updates DEF vars, streams
    <2>2. state'[e] = "Init" => recvQueue'[e] = <<>>
      BY <1>1, <2>1 DEF EndInv, PhaseInv
    <2>3. EndInv(e)'
      BY <1>1, <1>2, <1>4, <2>1, <2>2, NotRunningKept
    <2> QED
      BY <1>1, <1>2, <1>3, <2>1, <2>3 DEF OwnStep, Calls
  <1>5. CASE fwd[e].phase = "connecting" /\ HandleConnect(e) /\ UNCHANGED vars
    BY <1>5, HandleConnectStep
  <1>6. CASE fwd[e].phase = "running" /\ event = "in" /\ HandleFDRead(e)
    <2>1. "in" \in batch[e].events
      BY <1>1, <1>3, <1>6 DEF FirstEvent
    <2>2. fwd[e].poll.in /\ ~fwd[e].poll.dummy /\ ~batch[e].dummy
      BY <1>1, <1>3, <1>6, <2>1 DEF EndInv, WakeInv
    <2>3. fwd'[e].phase # "done" => "in" \notin batch'[e].events /\ ~batch'[e].dummy
      BY <1>2, <1>6, <2>2
    <2> QED
      BY <1>2, <1>3, <1>6, <2>2, <2>3, ReadStep
  <1>7. CASE fwd[e].phase = "running" /\ event = "out" /\ HandleFDWrite(e)
    <2>1. "in" \notin batch[e].events
      BY <1>7 DEF FirstEvent
    <2>2. ~batch[e].dummy
      BY <1>1, <1>3, <1>7 DEF EndInv, WakeInv
    <2>3. fwd'[e].phase # "done" =>
            /\ "in" \notin batch'[e].events /\ ~batch'[e].dummy
            /\ "in" \notin batch[e].events /\ ~batch[e].dummy
            /\ "hup" \in batch[e].events => "hup" \in batch'[e].events
      BY <1>2, <1>7, <2>1, <2>2
    <2> QED
      BY <1>2, <1>3, <1>7, <2>3, WriteStep
  <1>8. CASE /\ fwd[e].phase = "running"
             /\ CloseByNetConn(e, fwd[e], "error") /\ UNCHANGED vars
    <2>1. state'[e] # "Init"
      BY <1>1, <1>8 DEF EndInv, PhaseInv, vars
    <2>2. /\ fwd' = [fwd EXCEPT ![e] = fwd'[e]] /\ fwd'[e] \in Forwarder
          /\ todo' = [todo EXCEPT ![e] = todo'[e]] /\ todo'[e] \in Calls
          /\ EndInv(e)' /\ fwd'[e].closedBy = "error"
      BY <1>1, <1>8, <2>1, ShutStep
    <2> QED
      BY <1>2, <2>2 DEF OwnStep
  <1> QED
    BY <1>4, <1>5, <1>6, <1>7, <1>8 DEF HandleEvent

LEMMA HandleDummyStep ==
  ASSUME ChannelInv, VisitorInv, NEW e \in Ends, HandleDummy(e)
  PROVE  OwnStep(e)
  <1>1. /\ EndsTyped /\ EndInv(e) /\ fwd[e] \in Forwarder /\ batch[e] \in Batch
        /\ batch[e].events \in SUBSET PollEvents
    BY EndFields DEF VisitorInv
  <1>2. /\ batch[e].dummy /\ batch[e].events = {} /\ todo[e] = "nothing" /\ fwd[e].poll.in
        /\ batch' = [batch EXCEPT ![e].dummy = FALSE] /\ HandleFDRead(e)
    BY DEF HandleDummy
  <1>3. fwd[e].phase = "running"
    <2>1. NoHandler.in = FALSE
      BY DEF NoHandler
    <2> QED
      BY <1>1, <1>2, <2>1, ForwarderFields DEF EndInv, PhaseInv
  <1>4. ~fwd[e].poll.dummy
    BY <1>1, <1>2, <1>3 DEF EndInv, WakeInv
  <1> DEFINE c == [batch[e] EXCEPT !.dummy = FALSE]
  <1>5. batch'[e] = c /\ batch' = [batch EXCEPT ![e] = batch'[e]]
    BY <1>1, <1>2 DEF EndsTyped
  <1>6. c \in Batch /\ c.dummy = FALSE /\ c.events = {}
    BY <1>1, <1>2 DEF Batch
  <1>7. "in" \notin batch'[e].events /\ ~batch'[e].dummy /\ batch'[e] \in Batch
    BY <1>5, <1>6
  <1> QED
    BY <1>2, <1>3, <1>4, <1>5, <1>7, ReadStep
-----------------------------------------------------------------------------
(* The messages of the session. *)

LEMMA AddressFacts ==
  ASSUME NEW cached \in {NoAddress} \cup Addresses
  PROVE  /\ AddressesFor(cached) \in Seq([address : Nat, cached : BOOLEAN])
         /\ \A a \in Addresses : \E i \in 1 .. Len(AddressesFor(cached)) :
              AddressesFor(cached)[i].address = a
  <1> DEFINE A == [address : Nat, cached : BOOLEAN]
             p == IF cached = NoAddress THEN <<>> ELSE <<[address |-> cached, cached |-> TRUE]>>
             q == [i \in Addresses |-> [address |-> i, cached |-> FALSE]]
             n == NumAddresses
  <1>1. n \in Nat /\ Addresses = 1 .. n /\ cached \in Nat
    BY NetworkConnectionAssumption DEF Addresses, NoAddress
  <1>2. [address |-> cached, cached |-> TRUE] \in A /\ \A i \in 1 .. n : [address |-> i, cached |-> FALSE] \in A
    BY <1>1
  <1> HIDE DEF A
  <1>3. p \in Seq(A)
    BY <1>2
  <1>4. q \in Seq(A) /\ Len(q) = n /\ \A i \in 1 .. n : q[i].address = i
    <2>1. q \in [1 .. n -> A]
      BY <1>1, <1>2
    <2>2. q \in Seq(A) /\ Len(q) = n
      BY <1>1, <2>1, SeqDef, LenProperties
    <2> QED
      BY <1>1, <2>2
  <1>5. AddressesFor(cached) = p \o q
    BY DEF AddressesFor
  <1> HIDE DEF p, q
  <1>6. /\ p \o q \in Seq(A) /\ Len(p \o q) = Len(p) + n /\ Len(p) \in Nat
        /\ \A i \in 1 .. Len(p) + n : (p \o q)[i] = IF i <= Len(p) THEN p[i] ELSE q[i - Len(p)]
    <2>1. /\ p \o q \in Seq(A) /\ Len(p \o q) = Len(p) + Len(q)
          /\ \A i \in 1 .. Len(p) + Len(q) :
               (p \o q)[i] = IF i <= Len(p) THEN p[i] ELSE q[i - Len(p)]
      BY <1>3, <1>4, ConcatProperties
    <2>2. Len(p) \in Nat
      BY <1>3, LenProperties
    <2> QED
      BY <1>4, <2>1, <2>2
  <1>7. ASSUME NEW a \in 1 .. n
        PROVE  \E i \in 1 .. Len(p \o q) : (p \o q)[i].address = a
    <2>1. Len(p) + a \in 1 .. Len(p \o q) /\ Len(p) + a > Len(p) /\ Len(p) + a - Len(p) = a
      BY <1>1, <1>6
    <2>2. (p \o q)[Len(p) + a] = q[a]
      BY <1>6, <2>1
    <2> QED
      BY <1>4, <2>1, <2>2
  <1> QED
    BY <1>1, <1>5, <1>6, <1>7 DEF A

\* A request is taken: the addresses are tried, or the host is not known.
LEMMA RequestStep ==
  ASSUME ChannelInv, VisitorInv, NEW e \in Ends, NewChannelRequest(e), todo[e] = "nothing",
         state[e] = "Init", state'[e] # "Init", sent'[e] = sent[e], read'[e] = read[e],
         batch' = [batch EXCEPT ![e] = batch'[e]], batch'[e] \in Batch,
         batch'[e].dummy = batch[e].dummy, batch'[e].events = batch[e].events
  PROVE  OwnStep(e)
  <1> DEFINE f == fwd[e]
  <1>1. /\ EndsTyped /\ EndInv(e) /\ f \in Forwarder
    BY EndFields DEF VisitorInv
  <1>2. /\ f.phase = "idle" /\ Fresh(f) /\ f.sock = NoSocket /\ f.poll = NoHandler
        /\ ~batch[e].dummy /\ "in" \notin batch[e].events
    BY <1>1 DEF EndInv, PhaseInv, Fresh
  <1>3. CASE \E cached \in {NoAddress} \cup Addresses :
               NextAttempt(e, [f EXCEPT !.sock.left = AddressesFor(cached)])
    <2>1. PICK cached \in {NoAddress} \cup Addresses :
                 NextAttempt(e, [f EXCEPT !.sock.left = AddressesFor(cached)])
      BY <1>3
    <2> DEFINE left == AddressesFor(cached)
               s == [f.sock EXCEPT !.left = left]
               h == [f EXCEPT !.sock = s]
    <2>2. /\ left \in Seq([address : Nat, cached : BOOLEAN])
          /\ \A a \in Addresses : \E i \in 1 .. Len(left) : left[i].address = a
      BY AddressFacts
    <2> HIDE DEF left
    <2>3. NextAttempt(e, h)
      <3>1. h = [f EXCEPT !.sock.left = left]
        BY <1>1 DEF Forwarder
      <3> QED
        BY <2>1, <3>1 DEF left
    <2>4. /\ s \in Socket /\ s.left = left /\ s.inbox = f.sock.inbox /\ s.fin = f.sock.fin
      <3>1. f.sock \in Socket
        BY <1>1, ForwarderFields
      <3> QED
        BY <2>2, <3>1 DEF Socket
    <2> HIDE DEF s
    <2>5. /\ h \in Forwarder /\ h.sock = s /\ h.poll = NoHandler
          /\ h.forChannel = f.forChannel /\ h.forNetConn = f.forNetConn
          /\ h.sendEnabled = f.sendEnabled /\ h.written = f.written
          /\ h.given = f.given /\ h.closedBy = f.closedBy
      BY <1>1, <1>2, <2>4 DEF Forwarder
    <2> HIDE DEF h
    <2>6. Addresses \subseteq h.missed \cup LeftOver(h.sock)
      BY <2>2, <2>4, <2>5 DEF LeftOver
    <2>7. /\ fwd' = [fwd EXCEPT ![e] = fwd'[e]] /\ fwd'[e] \in Forwarder
          /\ todo' = [todo EXCEPT ![e] = todo'[e]] /\ todo'[e] \in Calls
          /\ EndInv(e)' /\ fwd'[e].closedBy # "channel"
      BY <1>1, <1>2, <2>3, <2>4, <2>5, <2>6, AttemptStep
    <2> QED
      BY <2>7 DEF OwnStep
  <1>4. CASE Become(e, CloseConn(f, "unknown")) /\ CallNext(e, "reject")
    <2>1. /\ fwd'[e] = CloseConn(f, "unknown") /\ fwd' = [fwd EXCEPT ![e] = fwd'[e]]
          /\ todo'[e] = "reject" /\ todo' = [todo EXCEPT ![e] = todo'[e]]
      BY <1>1, <1>4, Updates
    <2>2. /\ fwd'[e] \in Forwarder /\ fwd'[e].phase = "done" /\ fwd'[e].sock = NoSocket
          /\ fwd'[e].poll = NoHandler /\ fwd'[e].closedBy = "unknown"
      BY <1>1, <2>1, CloseConnFacts
    <2>3. EndInv(e)'
      BY <2>1, <2>2, DoneInv
    <2> QED
      BY <2>1, <2>2, <2>3 DEF OwnStep, Calls
  <1> QED
    BY <1>3, <1>4 DEF NewChannelRequest

\* A callback of the channel to a forwarder that runs.
LEMMA CallbackStep ==
  ASSUME EndsTyped, NEW e \in Ends, EndInv(e), fwd[e].phase = "running", todo[e] = "nothing",
         NEW g, Become(e, g), OnlyPolls(fwd[e], g), UNCHANGED todo,
         batch' = [batch EXCEPT ![e] = batch'[e]], batch'[e] \in Batch,
         state'[e] \in {"Connecting", "Connected", "CloseResponding"},
         state'[e] # "Connecting" => allowWrite'[e],
         sent'[e] = sent[e], read'[e] = read[e],
         WakeInv(e)'
  PROVE  OwnStep(e)
  <1> DEFINE f == fwd[e]
             h == fwd'[e]
  <1>1. /\ h = g /\ fwd' = [fwd EXCEPT ![e] = h]
        /\ todo'[e] = "nothing" /\ todo' = [todo EXCEPT ![e] = todo'[e]]
    BY Updates
  <1>2. f.closedBy = "nobody"
    BY DEF EndInv, PhaseInv
  <1> HIDE DEF f, h
  <1>3. /\ h \in Forwarder /\ h.phase = "running" /\ h.sock = f.sock
        /\ h.forChannel = f.forChannel /\ h.forNetConn = f.forNetConn
        /\ h.written = f.written /\ h.given = f.given /\ h.closedBy = "nobody"
        /\ h.early = f.early /\ h.missed = f.missed
    BY <1>1, <1>2 DEF OnlyPolls, f
  <1>4. PhaseInv(e)'
    BY <1>1, <1>3 DEF PhaseInv, Fresh, h
  <1>5. ConnectInv(e)' /\ BytesInv(e)'
    BY <1>3 DEF EndInv, ConnectInv, BytesInv, Fresh, f, h
  <1> QED
    BY <1>1, <1>3, <1>4, <1>5 DEF OwnStep, EndInv, Calls, h

\* A message that is none of the forwarder's business.
LEMMA IgnoredStep ==
  ASSUME ChannelInv, VisitorInv, NEW e \in Ends, Become(e, fwd[e]), UNCHANGED todo, todo[e] = "nothing",
         batch' = [batch EXCEPT ![e] = batch'[e]], batch'[e] \in Batch,
         batch'[e].dummy = batch[e].dummy, batch'[e].events = batch[e].events,
         sent'[e] = sent[e], read'[e] = read[e],
         state[e] # "Init" => state'[e] # "Init",
         state'[e] = "Init" => recvQueue'[e] = recvQueue[e],
         fwd[e].phase = "running" =>
           /\ state'[e] = state[e] /\ allowWrite'[e] = allowWrite[e]
           /\ recvQueue'[e] = recvQueue[e] /\ remoteWindow'[e] = remoteWindow[e]
  PROVE  OwnStep(e)
  <1>1. EndsTyped /\ EndInv(e) /\ fwd[e] \in Forwarder /\ todo[e] \in Calls
    BY EndFields DEF VisitorInv
  <1>2. /\ fwd'[e] = fwd[e] /\ fwd' = [fwd EXCEPT ![e] = fwd'[e]]
        /\ todo'[e] = todo[e] /\ todo' = [todo EXCEPT ![e] = todo'[e]]
    BY <1>1, Updates
  <1>3. CASE fwd[e].phase # "running"
    <2>1. state'[e] = "Init" => recvQueue'[e] = <<>>
      BY <1>1 DEF EndInv, PhaseInv
    <2>2. EndInv(e)'
      BY <1>1, <1>2, <1>3, <2>1, NotRunningKept
    <2> QED
      BY <1>1, <1>2, <2>2 DEF OwnStep
  <1>4. CASE fwd[e].phase = "running"
    <2>1. OnlyPolls(fwd[e], fwd[e])
      BY <1>1 DEF OnlyPolls
    <2>2. WakeInv(e)'
      BY <1>1, <1>2, <1>4 DEF EndInv, WakeInv
    <2>3. /\ state'[e] \in {"Connecting", "Connected", "CloseResponding"}
          /\ state'[e] # "Connecting" => allowWrite'[e]
      BY <1>1, <1>4 DEF EndInv, PhaseInv
    <2> QED
      BY <1>1, <1>4, <2>1, <2>2, <2>3, CallbackStep
  <1> QED
    BY <1>3, <1>4

LEMMA ResponseStep ==
  ASSUME ChannelInv, VisitorInv, NEW e \in Ends, HandleNewChannelResponse(e), todo[e] = "nothing",
         Become(e, IF fwd[e].phase = "running"
                   THEN IF state[e] # "Connecting" THEN fwd[e]
                        ELSE IF Head(link[e]).accept THEN ChannelAccepted(fwd[e])
                        ELSE ChannelRejected(fwd[e])
                   ELSE fwd[e]),
         UNCHANGED todo,
         batch' = [batch EXCEPT ![e] = batch'[e]], batch'[e] \in Batch,
         batch'[e].dummy = batch[e].dummy, batch'[e].events = batch[e].events
  PROVE  OwnStep(e)
  <1> DEFINE f == fwd[e]
             g == fwd'[e]
  <1>1. /\ EndsTyped /\ EndInv(e) /\ f \in Forwarder /\ todo[e] \in Calls
        /\ state \in [Ends -> States] /\ allowWrite \in [Ends -> BOOLEAN]
        /\ remoteWindow \in [Ends -> Nat]
    BY EndFields DEF VisitorInv, ChannelInv, FlowInv, TypeInv
  <1>2. /\ sent'[e] = sent[e] /\ read'[e] = read[e] /\ recvQueue'[e] = recvQueue[e]
        /\ state[e] # "Init" => state'[e] # "Init"
        /\ state'[e] = "Init" => recvQueue'[e] = recvQueue[e]
    BY <1>1 DEF HandleNewChannelResponse, HandleAccepted, HandleRejected, Goto, streams
  <1>3. CASE state[e] # "Connecting"
    <2>1. state' = state /\ allowWrite' = allowWrite /\ remoteWindow' = remoteWindow
      BY <1>3 DEF HandleNewChannelResponse, windows
    <2> QED
      BY <1>2, <1>3, <2>1, IgnoredStep
  <1>4. CASE fwd[e].phase # "running"
    BY <1>2, <1>4, IgnoredStep
  <1>5. CASE /\ fwd[e].phase = "running" /\ state[e] = "Connecting"
             /\ Head(link[e]).accept /\ HandleAccepted(e, Head(link[e]))
    <2>1. state'[e] = "Connected" /\ allowWrite'[e]
      BY <1>1, <1>5 DEF HandleAccepted, Goto, SetAllowWrite
    <2>2. Become(e, ChannelAccepted(f))
      BY <1>5
    <2>3. g = ChannelAccepted(f)
      BY <1>1, <2>2, Updates
    <2>4. f.poll.registered
      BY <1>1, <1>5 DEF EndInv, WakeInv
    <2> HIDE DEF f, g
    <2>5. /\ OnlyPolls(f, g)
          /\ g.recvEnabled = TRUE /\ g.sendEnabled = f.sendEnabled
          /\ g.poll.registered = TRUE /\ g.poll.in = TRUE
          /\ g.poll.out = f.poll.out /\ g.poll.dummy = (f.poll.dummy \/ Holds(f))
      BY <1>1, <2>3, <2>4, AcceptedFacts
    <2>6. g.forChannel = f.forChannel /\ g.forNetConn = f.forNetConn /\ (Holds(g) <=> Holds(f))
      BY <2>5 DEF OnlyPolls, Holds
    <2>7. WakeInv(e)'
      <3>1. /\ recvQueue[e] # <<>> => f.poll.out
            /\ f.forNetConn > 0 => f.poll.out
            /\ f.sendEnabled = f.poll.out
            /\ f.poll.dummy => "in" \notin batch[e].events /\ ~batch[e].dummy
            /\ Holds(f) => "in" \notin batch[e].events /\ ~batch[e].dummy
            /\ batch[e].dummy => batch[e].events = {}
        BY <1>1, <1>5 DEF EndInv, WakeInv, f
      <3> HIDE DEF Holds
      <3>2. g.poll.dummy => "in" \notin batch[e].events /\ ~batch[e].dummy
        BY <2>5, <3>1
      <3>3. Holds(g) => g.poll.dummy
        BY <2>5, <2>6
      <3> QED
        BY <1>2, <2>1, <2>5, <2>6, <3>1, <3>2, <3>3 DEF WakeInv, g
    <2>8. OnlyPolls(fwd[e], ChannelAccepted(fwd[e])) /\ Become(e, ChannelAccepted(fwd[e]))
      BY <2>2, <2>3, <2>5 DEF f
    <2> QED
      BY <1>1, <1>2, <1>5, <2>1, <2>7, <2>8, CallbackStep
  <1>6. CASE /\ fwd[e].phase = "running" /\ state[e] = "Connecting"
             /\ ~Head(link[e]).accept /\ HandleRejected(e)
    <2>1. /\ g = CloseConn(f, "rejected") /\ fwd' = [fwd EXCEPT ![e] = g]
          /\ todo'[e] = todo[e] /\ todo' = [todo EXCEPT ![e] = todo'[e]]
      <3>1. Become(e, CloseConn(f, "rejected"))
        BY <1>6 DEF ChannelRejected
      <3> QED
        BY <1>1, <3>1, Updates
    <2>2. /\ g \in Forwarder /\ g.phase = "done" /\ g.sock = NoSocket /\ g.poll = NoHandler
          /\ g.closedBy = "rejected"
      BY <1>1, <2>1, CloseConnFacts
    <2>3. state'[e] # "Init"
      BY <1>2, <1>6
    <2>4. EndInv(e)'
      BY <2>1, <2>2, <2>3, DoneInv
    <2> QED
      BY <1>1, <2>1, <2>2, <2>4 DEF OwnStep
  <1> QED
    BY <1>3, <1>4, <1>5, <1>6 DEF HandleNewChannelResponse

\* There are data or the end of the stream for a forwarder that runs.
LEMMA DataStep ==
  ASSUME ChannelInv, VisitorInv, NEW e \in Ends, todo[e] = "nothing", fwd[e].phase = "running",
         Become(e, ChannelDataReceived(fwd[e])), UNCHANGED todo,
         batch' = [batch EXCEPT ![e] = batch'[e]], batch'[e] \in Batch,
         batch'[e].dummy = batch[e].dummy, batch'[e].events = batch[e].events,
         state[e] = "Connected", state'[e] \in {"Connected", "CloseResponding"},
         allowWrite'[e] = allowWrite[e], remoteWindow'[e] = remoteWindow[e],
         sent'[e] = sent[e], read'[e] = read[e]
  PROVE  OwnStep(e)
  <1> DEFINE f == fwd[e]
             g == fwd'[e]
  <1>1. EndsTyped /\ EndInv(e) /\ f \in Forwarder /\ allowWrite[e]
    BY EndFields DEF VisitorInv, EndInv, PhaseInv
  <1>2. g = ChannelDataReceived(f)
    BY <1>1, Updates
  <1>3. /\ f.poll.registered /\ f.recvEnabled = f.poll.in /\ f.sendEnabled = f.poll.out
        /\ ~f.poll.in => Holds(f) /\ f.forChannel > remoteWindow[e]
        /\ Holds(f) /\ f.poll.in =>
             f.poll.dummy \/ batch[e].dummy \/ f.dropped \/ batch[e].events \cap {"in", "hup"} # {}
        /\ f.poll.dummy => f.poll.in /\ "in" \notin batch[e].events /\ ~batch[e].dummy
        /\ "in" \in batch[e].events \/ batch[e].dummy => f.poll.in
        /\ batch[e].dummy => batch[e].events = {}
    BY <1>1 DEF EndInv, WakeInv
  <1> HIDE DEF f, g
  <1>4. /\ OnlyPolls(f, g)
        /\ g.recvEnabled = f.recvEnabled /\ g.sendEnabled = TRUE
        /\ g.poll.registered = TRUE /\ g.poll.in = f.poll.in
        /\ g.poll.out = TRUE /\ g.poll.dummy = f.poll.dummy
    BY <1>1, <1>2, <1>3, DataReceivedFacts
  <1>5. /\ g.forChannel = f.forChannel /\ g.forNetConn = f.forNetConn
        /\ g.dropped = f.dropped /\ (Holds(g) <=> Holds(f))
    BY <1>4 DEF OnlyPolls, Holds
  <1>6. WakeInv(e)'
    <2> HIDE DEF Holds
    <2> QED
      BY <1>3, <1>4, <1>5 DEF WakeInv, g
  <1>7. OnlyPolls(fwd[e], ChannelDataReceived(fwd[e]))
    BY <1>2, <1>4 DEF f
  <1> QED
    BY <1>1, <1>6, <1>7, CallbackStep

\* There is credit for a forwarder that runs.
LEMMA CreditStep ==
  ASSUME ChannelInv, VisitorInv, NEW e \in Ends, todo[e] = "nothing", fwd[e].phase = "running",
         Become(e, ChannelReadyToSend(fwd[e], remoteWindow'[e])), UNCHANGED todo,
         batch' = [batch EXCEPT ![e] = batch'[e]], batch'[e] \in Batch,
         batch'[e].dummy = batch[e].dummy, batch'[e].events = batch[e].events,
         state[e] \in {"Connected", "CloseResponding"}, state'[e] = state[e],
         allowWrite'[e] = allowWrite[e], recvQueue'[e] = recvQueue[e],
         sent'[e] = sent[e], read'[e] = read[e]
  PROVE  OwnStep(e)
  <1> DEFINE f == fwd[e]
             g == fwd'[e]
  <1>1. EndsTyped /\ EndInv(e) /\ f \in Forwarder /\ allowWrite[e]
    BY EndFields DEF VisitorInv, EndInv, PhaseInv
  <1>2. g = ChannelReadyToSend(f, remoteWindow'[e])
    BY <1>1, Updates
  <1>3. /\ recvQueue[e] # <<>> \/ state[e] = "CloseResponding" => f.poll.out
        /\ f.forNetConn > 0 => f.poll.out
        /\ f.poll.registered /\ f.recvEnabled = f.poll.in /\ f.sendEnabled = f.poll.out
        /\ ~f.poll.in => Holds(f)
        /\ Holds(f) /\ f.poll.in =>
             f.poll.dummy \/ batch[e].dummy \/ f.dropped \/ batch[e].events \cap {"in", "hup"} # {}
        /\ f.poll.dummy => f.poll.in /\ "in" \notin batch[e].events /\ ~batch[e].dummy
        /\ "in" \in batch[e].events \/ batch[e].dummy => f.poll.in
        /\ batch[e].dummy => batch[e].events = {}
    BY <1>1 DEF EndInv, WakeInv
  <1> HIDE DEF f, g
  <1>4. CASE f.recvEnabled \/ ~Holds(f) \/ f.forChannel > remoteWindow'[e]
    <2>1. g = f
      BY <1>2, <1>4 DEF ChannelReadyToSend
    <2>2. WakeInv(e)'
      <3>1. ~f.poll.in => f.forChannel > remoteWindow'[e]
        BY <1>3, <1>4
      <3> HIDE DEF Holds
      <3> QED
        BY <1>3, <2>1, <3>1 DEF WakeInv, g
    <2>3. OnlyPolls(f, f)
      BY <1>1 DEF OnlyPolls
    <2>4. OnlyPolls(fwd[e], ChannelReadyToSend(fwd[e], remoteWindow'[e]))
      BY <1>2, <2>1, <2>3 DEF f
    <2> QED
      BY <1>1, <2>2, <2>4, CallbackStep
  <1>5. CASE ~(f.recvEnabled \/ ~Holds(f) \/ f.forChannel > remoteWindow'[e])
    <2>1. g = ChannelAccepted(f)
      BY <1>1, <1>2, <1>3, <1>5, ReadyFacts
    <2>2. /\ OnlyPolls(f, g)
          /\ g.recvEnabled = TRUE /\ g.sendEnabled = f.sendEnabled
          /\ g.poll.registered = TRUE /\ g.poll.in = TRUE
          /\ g.poll.out = f.poll.out /\ g.poll.dummy = (f.poll.dummy \/ Holds(f))
      BY <1>1, <1>3, <2>1, AcceptedFacts
    <2>3. g.forNetConn = f.forNetConn /\ Holds(f) /\ g.poll.dummy
      BY <1>5, <2>2 DEF OnlyPolls
    <2>4. "in" \notin batch[e].events /\ ~batch[e].dummy
      BY <1>3, <1>5
    <2>5. WakeInv(e)'
      <3> HIDE DEF Holds
      <3> QED
        BY <1>3, <2>2, <2>3, <2>4 DEF WakeInv, g
    <2>6. OnlyPolls(fwd[e], ChannelReadyToSend(fwd[e], remoteWindow'[e]))
      BY <1>2, <2>2 DEF f
    <2> QED
      BY <1>1, <2>5, <2>6, CallbackStep
  <1> QED
    BY <1>4, <1>5

LEMMA TakeMessageStep ==
  ASSUME ChannelInv, ChannelInv', VisitorInv, NEW e \in Ends, TakeMessage(e)
  PROVE  OwnStep(e)
  <1> DEFINE f == fwd[e]
             told(g) == Become(e, IF f.phase = "running" THEN g ELSE f) /\ UNCHANGED todo
  <1>1. /\ EndsTyped /\ EndInv(e) /\ f \in Forwarder /\ batch[e] \in Batch
        /\ state \in [Ends -> States] /\ remoteWindow \in [Ends -> Nat]
        /\ recvQueue \in [Ends -> Seq(Segment)]
    BY EndFields DEF VisitorInv, ChannelInv, FlowInv, TypeInv
  <1>2. /\ batch' = [batch EXCEPT ![e] = batch'[e]] /\ batch'[e] \in Batch
        /\ batch'[e].dummy = batch[e].dummy /\ batch'[e].events = batch[e].events
    <2>1. PICK more \in BOOLEAN :
            batch' = [batch EXCEPT ![e].session = IF more THEN @ ELSE "none"]
      BY DEF TakeMessage
    <2> DEFINE turn == IF more THEN batch[e].session ELSE "none"
               c == [batch[e] EXCEPT !.session = turn]
    <2>2. batch'[e] = c /\ batch' = [batch EXCEPT ![e] = batch'[e]]
      BY <1>1, <2>1 DEF EndsTyped
    <2>3. turn \in Turns
      BY <1>1 DEF Batch, Turns
    <2> HIDE DEF turn
    <2>4. c \in Batch /\ c.dummy = batch[e].dummy /\ c.events = batch[e].events
      BY <1>1, <2>3 DEF Batch
    <2> QED
      BY <2>2, <2>4
  <1>3. todo[e] = "nothing"
    BY DEF TakeMessage
  <1>4. f.phase = "running" => state[e] \in {"Connecting", "Connected", "CloseResponding"}
    BY <1>1 DEF EndInv, PhaseInv
  <1>5. CASE HandleNewChannel(e) /\ NewChannelRequest(e)
    <2>1. state[e] = "Init" /\ state'[e] # "Init" /\ sent'[e] = sent[e] /\ read'[e] = read[e]
      BY <1>1, <1>5 DEF HandleNewChannel, Goto, streams
    <2> QED
      BY <1>2, <1>3, <1>5, <2>1, RequestStep
  <1>6. CASE DropUnregistered(e) /\ told(f)
    <2>1. /\ state' = state /\ allowWrite' = allowWrite /\ recvQueue' = recvQueue
          /\ remoteWindow' = remoteWindow /\ sent' = sent /\ read' = read
      BY <1>6 DEF DropUnregistered, windows, streams
    <2> QED
      BY <1>2, <1>3, <1>6, <2>1, IgnoredStep
  <1>7. CASE /\ HandleNewChannelResponse(e)
             /\ told(IF state[e] # "Connecting" THEN f
                     ELSE IF Head(link[e]).accept THEN ChannelAccepted(f)
                     ELSE ChannelRejected(f))
    BY <1>2, <1>3, <1>7, ResponseStep
  <1>8. CASE HandleChannelData(e) /\ told(IF TakesData(e) THEN ChannelDataReceived(f) ELSE f)
    <2>1. /\ state' = state /\ allowWrite' = allowWrite /\ remoteWindow' = remoteWindow
          /\ sent' = sent /\ read' = read
          /\ ~TakesData(e) => recvQueue' = recvQueue
      BY <1>8 DEF HandleChannelData
    <2>2. TakesData(e) => state[e] \in {"Connected", "Closing", "ConnectResponding"}
      BY DEF TakesData
    <2>3. CASE f.phase = "running" /\ TakesData(e)
      <3>1. state[e] = "Connected"
        BY <1>4, <2>2, <2>3
      <3>2. Become(e, ChannelDataReceived(f))
        BY <1>8, <2>3
      <3> QED
        BY <1>2, <1>3, <1>8, <2>1, <2>3, <3>1, <3>2, DataStep
    <2>4. CASE ~(f.phase = "running" /\ TakesData(e))
      <3>1. Become(e, f)
        BY <1>8, <2>4
      <3>2. state'[e] = "Init" => recvQueue'[e] = recvQueue[e]
        BY <2>1, <2>2
      <3> QED
        BY <1>2, <1>3, <1>8, <2>1, <2>4, <3>1, <3>2, IgnoredStep
    <2> QED
      BY <2>3, <2>4
  <1>9. CASE /\ HandleWindowAdjust(e)
             /\ told(IF Readable(e) THEN ChannelReadyToSend(f, remoteWindow'[e]) ELSE f)
    <2>1. /\ state' = state /\ allowWrite' = allowWrite /\ recvQueue' = recvQueue
          /\ sent' = sent /\ read' = read
          /\ ~Readable(e) => remoteWindow' = remoteWindow
      BY <1>9 DEF HandleWindowAdjust, streams
    <2>2. CASE f.phase = "running" /\ Readable(e)
      <3>1. Become(e, ChannelReadyToSend(f, remoteWindow'[e]))
        BY <1>9, <2>2
      <3>2. state[e] \in {"Connected", "CloseResponding"}
        BY <2>2 DEF Readable
      <3> QED
        BY <1>2, <1>3, <1>9, <2>1, <2>2, <3>1, <3>2, CreditStep
    <2>3. CASE ~(f.phase = "running" /\ Readable(e))
      <3>1. Become(e, f)
        BY <1>9, <2>3
      <3> QED
        BY <1>2, <1>3, <1>9, <2>1, <2>3, <3>1, IgnoredStep
    <2> QED
      BY <2>2, <2>3
  <1>10. CASE /\ HandleChannelClose(e)
              /\ told(IF state[e] = "Connected" THEN ChannelDataReceived(f) ELSE f)
    <2>1. /\ allowWrite' = allowWrite /\ recvQueue' = recvQueue /\ remoteWindow' = remoteWindow
          /\ sent' = sent /\ read' = read
          /\ state[e] = "Connected" => state'[e] = "CloseResponding"
          /\ state[e] \notin {"Connected", "Closing"} => state'[e] = state[e]
          /\ state[e] # "Init" => state'[e] # "Init"
      BY <1>1, <1>10 DEF HandleChannelClose, Goto, windows, streams
    <2>2. CASE f.phase = "running" /\ state[e] = "Connected"
      <3>1. Become(e, ChannelDataReceived(f))
        BY <1>10, <2>2
      <3> QED
        BY <1>2, <1>3, <1>10, <2>1, <2>2, <3>1, DataStep
    <2>3. CASE ~(f.phase = "running" /\ state[e] = "Connected")
      <3>1. Become(e, f)
        BY <1>10, <2>3
      <3>2. f.phase = "running" => state'[e] = state[e]
        BY <1>4, <2>1, <2>3
      <3> QED
        BY <1>2, <1>3, <1>10, <2>1, <3>1, <3>2, IgnoredStep
    <2> QED
      BY <2>2, <2>3
  <1> QED
    BY <1>5, <1>6, <1>7, <1>8, <1>9, <1>10 DEF TakeMessage
-----------------------------------------------------------------------------
(* The theorems.                                                           *)

\* A visitor only makes calls that module Channel has, one at a time.
LEMMA VisitorCalls ==
  ASSUME VisitorInv, NEW e \in Ends,
         Application(e) \/ PollOnce(e) \/ ConnectTimeout(e) \/ Dispatch(e)
  PROVE  UNCHANGED vars \/ Call(e) \/ Receive(e)
  <1>1. EndsTyped /\ EndInv(e) /\ fwd[e] \in Forwarder
    BY EndFields DEF VisitorInv
  <1>2. ASSUME HandleFDRead(e) PROVE UNCHANGED vars \/ Call(e)
    <2> DEFINE r == ReadUnlessHeld(fwd[e])
    <2>1. r \in Forwarder
      BY <1>1, ReadFacts
    <2>2. r.forChannel \in Nat /\ r.forChannel <= Chunk
      BY <2>1, ForwarderFields
    <2>3. ASSUME Holds(r), Send(e, r.forChannel) PROVE Call(e)
      <3>1. r.forChannel \in ChunkSizes
        BY <2>2, <2>3, ForwarderAssumption, VisitorAssumption DEF Holds
      <3> HIDE DEF r
      <3> QED
        BY <2>3, <3>1 DEF Call
    <2> QED
      BY <1>2, <2>3 DEF HandleFDRead
  <1>3. ASSUME HandleFDWrite(e) PROVE UNCHANGED vars \/ Call(e)
    BY <1>3, VisitorAssumption DEF HandleFDWrite, Call
  <1>4. ASSUME TakeMessage(e) PROVE Receive(e)
    BY <1>4 DEF TakeMessage, Receive
  <1>5. ASSUME HandleEvent(e) PROVE UNCHANGED vars \/ Call(e)
    BY <1>2, <1>3, <1>5 DEF HandleEvent
  <1>6. ASSUME HandleDummy(e) PROVE UNCHANGED vars \/ Call(e)
    BY <1>2, <1>6 DEF HandleDummy
  <1>7. ASSUME HandleConnected(e) \/ HandleConnectionFailed(e) \/ CloseChannel(e) PROVE Call(e)
    BY <1>7 DEF HandleConnected, HandleConnectionFailed, CloseChannel, Call, Close
  <1>8. ASSUME Application(e) PROVE UNCHANGED vars \/ Call(e)
    BY <1>8 DEF Application, NewVisitor, AppWrite, AppShutdown, AppRead, AppReset, KernelConnect, Call
  <1>9. ASSUME PollOnce(e) \/ ConnectTimeout(e) PROVE UNCHANGED vars
    BY <1>9 DEF PollOnce, ConnectTimeout
  <1> QED
    BY <1>4, <1>5, <1>6, <1>7, <1>8, <1>9 DEF Dispatch

LEMMA VisitorStart == VisitorInit => ChannelInv /\ VisitorInv
  <1> SUFFICES ASSUME VisitorInit PROVE ChannelInv /\ VisitorInv
    OBVIOUS
  <1>1. ChannelInv
    BY ChannelInit DEF VisitorInit
  <1>2. EndsTyped
    BY NewForwarder DEF VisitorInit, EndsTyped, Calls
  <1>3. ASSUME NEW e \in Ends
        PROVE  EndInv(e) /\ Delivered(e)
    <2>1. fwd[e] = IdleForwarder /\ batch[e] = NoBatch /\ todo[e] = "nothing"
      BY DEF VisitorInit
    <2>2. state[e] = "Init" /\ recvQueue[e] = <<>> /\ sent[e] = 0 /\ read[e] = 0
      BY DEF VisitorInit, Init
    <2>3. /\ fwd[e].phase = "idle" /\ fwd[e].sock = NoSocket /\ fwd[e].poll = NoHandler
          /\ fwd[e].closedBy = "nobody" /\ fwd[e].forChannel = 0 /\ fwd[e].forNetConn = 0
          /\ ~fwd[e].sendEnabled /\ fwd[e].written = 0 /\ fwd[e].given = 0
      BY <2>1 DEF IdleForwarder
    <2>4. ~NoHandler.dummy /\ ~NoHandler.in /\ ~batch[e].dummy /\ batch[e].events = {}
      BY <2>1 DEF NoHandler, NoBatch
    <2>5. PhaseInv(e)
      BY <2>1, <2>2, <2>3, <2>4 DEF PhaseInv, Fresh
    <2>6. WakeInv(e) /\ ConnectInv(e) /\ BytesInv(e)
      BY <2>2, <2>3, SocketFacts DEF WakeInv, ConnectInv, BytesInv, Fresh
    <2> QED
      BY <2>3, <2>5, <2>6 DEF EndInv, Delivered
  <1> QED
    BY <1>1, <1>2, <1>3 DEF VisitorInv

LEMMA VisitorStep ==
  ASSUME ChannelInv, VisitorInv, [VisitorNext]_visitorVars
  PROVE  [Next]_vars /\ ChannelInv' /\ VisitorInv'
  <1>1. CASE UNCHANGED visitorVars
    <2>1. UNCHANGED vars /\ UNCHANGED <<fwd, batch, todo>>
      BY <1>1 DEF visitorVars
    <2>2. \A x \in Ends : View(x)' = View(x)
      BY <2>1 DEF vars, windows, streams, View
    <2>3. \A x \in Ends : EndInv(x)' /\ Delivered(x)'
      <3> SUFFICES ASSUME NEW x \in Ends PROVE EndInv(x)' /\ Delivered(x)'
        OBVIOUS
      <3>1. EndInv(x)'
        BY <2>1, <2>2, EndKept DEF VisitorInv
      <3>2. Delivered(x)'
        BY <2>1 DEF VisitorInv, Delivered, vars, streams
      <3> QED
        BY <3>1, <3>2
    <2>4. EndsTyped'
      BY <2>1 DEF VisitorInv, EndsTyped
    <2>5. ChannelInv'
      BY <2>1, ChannelNext
    <2> QED
      BY <2>1, <2>3, <2>4, <2>5 DEF VisitorInv
  <1>2. CASE VisitorNext
    <2>1. PICK e \in Ends : Application(e) \/ PollOnce(e) \/ ConnectTimeout(e) \/ Dispatch(e)
      BY <1>2 DEF VisitorNext
    <2>2. UNCHANGED vars \/ Call(e) \/ Receive(e)
      BY <2>1, VisitorCalls
    <2>3. [Next]_vars
      BY <1>2, <2>2 DEF VisitorNext, Next
    <2>4. ChannelInv'
      BY <2>3, ChannelNext
    <2>5. ASSUME Application(e) PROVE OwnStep(e)
      BY <2>5, NewVisitorStep, AppStep DEF Application
    <2>6. ASSUME PollOnce(e) \/ ConnectTimeout(e) PROVE OwnStep(e)
      BY <2>6, PollOnceStep, ConnectTimeoutStep
    <2>7. ASSUME Dispatch(e) PROVE OwnStep(e)
      BY <2>4, <2>7, HandleConnectedStep, LastCallStep, TakeMessageStep, HandleEventStep,
         HandleDummyStep DEF Dispatch
    <2>8. OwnStep(e)
      BY <2>1, <2>5, <2>6, <2>7
    <2> QED
      BY <2>2, <2>3, <2>4, <2>8, StepOfEnd
  <1> QED
    BY <1>1, <1>2

\* The inductive invariant of a visitor, on top of that of its channel.
THEOREM VisitorInvariant == VisitorSpec => [](ChannelInv /\ VisitorInv)
  <1>1. ChannelInv /\ VisitorInv /\ [VisitorNext]_visitorVars => (ChannelInv /\ VisitorInv)'
    BY VisitorStep
  <1> QED
    BY VisitorStart, <1>1, PTL DEF VisitorSpec

\* With a forwarder at either end the channel does nothing but what module
\* Channel lets it do, so that every theorem about Spec is one about a visitor.
THEOREM VisitorUsesChannel == VisitorSpec => Spec
  <1>1. VisitorInit => Init
    BY DEF VisitorInit
  <1>2. ChannelInv /\ VisitorInv /\ [VisitorNext]_visitorVars => [Next]_vars
    BY VisitorStep
  <1> QED
    BY <1>1, <1>2, VisitorInvariant, PTL DEF VisitorSpec, Spec

\* Whenever the channel has data, an end or room for a forwarder
\* (ChannelDataReceived and ChannelReadyToSend, ChannelConnectionForwarder.cc),
\* the poll controller is going to call it, for every window, chunk and buffer:
\* no order of messages, events and dummy reads makes it sleep.
THEOREM WakeUpsAreKept == VisitorSpec => []NoLostWakeup
  <1>1. VisitorInv => NoLostWakeup
    BY DEF VisitorInv, EndInv, WakeInv, NoLostWakeup
  <1> QED
    BY <1>1, VisitorInvariant, PTL

\* What an application has written before it shuts down is what the other one
\* is given before its connection is closed (HandleFDRead and HandleFDWrite,
\* ChannelConnectionForwarder.cc): no byte is lost or made up on the way
\* through the two forwarders, their chunks, the queue and the windows.
THEOREM CloseLosesNothing == VisitorSpec => []CloseIsComplete
  <1>1. VisitorInv => CloseIsComplete
    <2> SUFFICES ASSUME VisitorInv, NEW e \in Ends, fwd[e].closedBy = "channel",
                        fwd[Peer(e)].closedBy = "application"
                 PROVE  fwd[e].given = fwd[Peer(e)].written
      BY DEF CloseIsComplete
    <2>1. fwd[e].given = sent[Peer(e)]
      BY DEF VisitorInv, Delivered
    <2>2. fwd[Peer(e)].written = sent[Peer(e)]
      BY PeerFacts DEF VisitorInv, EndInv, BytesInv
    <2> QED
      BY <2>1, <2>2
  <1> QED
    BY <1>1, VisitorInvariant, PTL

\* A visitor is turned away only after every address has been tried, and let in
\* only when one has answered or for an event of the attempt before
\* (tryNonBlockingConnect and HandleConnect, NetworkConnection.cc).
THEOREM AnswerIsRight == VisitorSpec => []AnswerFitsConnect
  <1>1. VisitorInv => AnswerFitsConnect
    BY DEF VisitorInv, EndInv, ConnectInv, AnswerFitsConnect, Ends
  <1> QED
    BY <1>1, VisitorInvariant, PTL
=============================================================================
