------------------------------ MODULE Channel -------------------------------
(***************************************************************************)
(* One channel of a libpinggy session, seen from both of its ends: the     *)
(* Channel object at the end that called Connect() and the one the other   *)
(* end creates for the SetupChannel message, with the two FIFO directions  *)
(* of the session between them.  Source: src/src/protocol/Channel.cc and   *)
(* the routing of channel messages in Session::handleDeserializedMsg.      *)
(*                                                                         *)
(* Every public call (Connect, Accept, Reject, Close, Send, Recv) and      *)
(* every message handler is one action.  A process runs them one at a time *)
(* (one poll loop; calls from other threads take the lock of the SDK), and *)
(* a callback is the last thing a handler does, so a call the application  *)
(* makes from within a callback is the same as that call made next.        *)
(*                                                                         *)
(* Bytes are known by their position in their stream: the segment          *)
(* [from |-> 3, upto |-> 5] holds bytes 4 and 5.  The payload itself, hosts*)
(* and ports are left out, and so is SetupChannel::MaxDataSize, which both *)
(* ends set to MAX_PACKET.                                                 *)
(***************************************************************************)
EXTENDS Integers, Sequences

CONSTANTS
  WindowSize,    \* CHANNEL_WINDOW_SIZE, 64 * MAX_PACKET in the code
  MaxPacket,     \* MAX_PACKET, also INITIAL_REMOTE_WINDOW_SIZE
  FastConnect,   \* SessionFeatures::IsFastConnect, negotiated
  CloseTimeout,  \* SessionFeatures::IsCloseTimeoutChannel and a poll controller
  ChunkSizes,    \* lengths an application passes to Send
  ReadSizes,     \* lengths an application passes to Recv
  SendLimit      \* bound: how many bytes each end may send in all

Ends == {"initiator", "acceptor"}
Peer(e) == IF e = "initiator" THEN "acceptor" ELSE "initiator"

\* The code has WindowSize = 64 * MaxPacket; two packets are enough here.
ASSUME ChannelAssumption ==
  /\ MaxPacket \in Nat \ {0}
  /\ WindowSize \in Nat
  /\ WindowSize >= 2 * MaxPacket
  /\ FastConnect \in BOOLEAN
  /\ CloseTimeout \in BOOLEAN
  /\ ChunkSizes \subseteq Nat \ {0}
  /\ ReadSizes \subseteq Nat \ {0}
  /\ SendLimit \in [Ends -> Nat]

VARIABLES
  state,          \* state[e]: ChannelState of the Channel object at end e
  registered,     \* registered[e]: Session::channels of end e holds the channel
  allowWrite,     \* Channel::allowWrite
  remoteWindow,   \* Channel::remoteWindow, credit for sending
  localWindow,    \* Channel::localWindow, credit left to the other end
  localConsumed,  \* Channel::localConsumed, read but not yet given back
  recvQueue,      \* Channel::recvQueue, a sequence of segments
  closeTimer,     \* closeTimer[e]: closeTimeoutTriggered is scheduled
  link,           \* link[e]: the messages on their way to end e
  aborted,        \* an ABORT_WITH_MSG was reached
  \* History: positions in the streams, read by the properties only.
  sent,           \* sent[e]: bytes Send took from the application of e
  arrived,        \* arrived[e]: bytes end e has pushed into its recvQueue
  read,           \* read[e]: bytes Recv has given to the application of e
  granted,        \* granted[e]: bytes end e has given back by window adjusts
  credited,       \* credited[e]: bytes end e was given back by window adjusts
  eof             \* eof[e]: Recv has returned 0 at end e

session == <<registered, closeTimer>>
windows == <<remoteWindow, localWindow, localConsumed, granted, credited>>
streams == <<recvQueue, sent, arrived, read, eof>>
vars == <<state, allowWrite, link, aborted, session, windows, streams>>

States == {"Init", "Connecting", "ConnectResponding", "Connected",
           "CloseResponding", "Closing", "Closed", "Rejected"}

Segment == [from : Nat, upto : Nat]
Bytes(s) == s.upto - s.from

SetupMsg(window) == [type |-> "SetupChannel", window |-> window]
ResponseMsg(accept, window) ==
  [type |-> "SetupChannelResponse", accept |-> accept, window |-> window]
DataMsg(from, upto) == [type |-> "ChannelData", from |-> from, upto |-> upto]
AdjustMsg(from, upto) == [type |-> "ChannelWindowAdjust", from |-> from, upto |-> upto]
CloseMsg == [type |-> "ChannelClose"]

Message ==
  [type : {"SetupChannel"}, window : Nat]
    \cup [type : {"SetupChannelResponse"}, accept : BOOLEAN, window : Nat]
    \cup [type : {"ChannelData", "ChannelWindowAdjust"}, from : Nat, upto : Nat]
    \cup {CloseMsg}

Init ==
  /\ state = [e \in Ends |-> "Init"]
  /\ registered = [e \in Ends |-> FALSE]
  /\ allowWrite = [e \in Ends |-> FALSE]
  /\ remoteWindow = [e \in Ends |-> MaxPacket]
  /\ localWindow = [e \in Ends |-> WindowSize]
  /\ localConsumed = [e \in Ends |-> 0]
  /\ recvQueue = [e \in Ends |-> <<>>]
  /\ closeTimer = [e \in Ends |-> FALSE]
  /\ link = [e \in Ends |-> <<>>]
  /\ aborted = FALSE
  /\ sent = [e \in Ends |-> 0]
  /\ arrived = [e \in Ends |-> 0]
  /\ read = [e \in Ends |-> 0]
  /\ granted = [e \in Ends |-> 0]
  /\ credited = [e \in Ends |-> 0]
  /\ eof = [e \in Ends |-> FALSE]

Goto(e, s) == state' = [state EXCEPT ![e] = s]
\* Mutant: write permission is given but never taken back.
OnlyGiveWrite(e, b) == allowWrite' = [allowWrite EXCEPT ![e] = @ \/ b]
SetAllowWrite(e, b) == allowWrite' = [allowWrite EXCEPT ![e] = b]
SetRegistered(e, b) == registered' = [registered EXCEPT ![e] = b]
\* Session::sendMsg(msg, true): sent or queued, never refused while the
\* session is up, always in order.
Emit(e, msgs) == link' = [link EXCEPT ![Peer(e)] = @ \o msgs]
-----------------------------------------------------------------------------
(* Calls of the application. *)

\* Mutant: the channel is announced but not registered.
ConnectUnregistered(e) ==
  /\ e = "initiator"
  /\ state[e] = "Init"
  /\ Emit(e, <<SetupMsg(localWindow[e])>>)
  /\ Goto(e, "Connecting")
  /\ SetAllowWrite(e, FastConnect)
  /\ UNCHANGED <<session, aborted, windows, streams>>

Connect(e) ==
  /\ e = "initiator"
  /\ state[e] = "Init"
  /\ SetRegistered(e, TRUE)
  /\ Emit(e, <<SetupMsg(localWindow[e])>>)
  /\ Goto(e, "Connecting")
  /\ SetAllowWrite(e, FastConnect)
  /\ UNCHANGED <<closeTimer, aborted, windows, streams>>

\* Before version 1.0 the channel is registered only here, not when the
\* SetupChannel message is handled.
Accept(e) ==
  /\ state[e] = "ConnectResponding"
  /\ SetRegistered(e, TRUE)
  /\ Emit(e, <<ResponseMsg(TRUE, localWindow[e])>>)
  /\ Goto(e, "Connected")
  /\ SetAllowWrite(e, TRUE)
  /\ UNCHANGED <<closeTimer, aborted, windows, streams>>

Reject(e) ==
  /\ state[e] = "ConnectResponding"
  /\ SetRegistered(e, FALSE)
  /\ Emit(e, <<ResponseMsg(FALSE, 0)>>)
  /\ Goto(e, "Rejected")
  /\ SetAllowWrite(e, FALSE)
  /\ UNCHANGED <<closeTimer, aborted, windows, streams>>

\* Mutant: nothing is expected from a peer that has not answered yet.
NoCloseExpected(e) == state[e] \in {"CloseResponding", "Connecting"}
PeerHasClosed(e) == state[e] = "CloseResponding"

\* Close() of a channel that waits for an answer is Reject("No action").
Close(e) ==
  \/ Reject(e)
  \/ /\ state[e] \in {"Connected", "CloseResponding", "Connecting"}
     /\ Emit(e, <<CloseMsg>>)
     /\ SetAllowWrite(e, FALSE)
     /\ IF PeerHasClosed(e)
        THEN /\ Goto(e, "Closed")
             /\ SetRegistered(e, FALSE)
             /\ UNCHANGED closeTimer
        ELSE /\ Goto(e, "Closing")
             /\ closeTimer' = [closeTimer EXCEPT ![e] = CloseTimeout]
             /\ UNCHANGED registered
     /\ UNCHANGED <<aborted, windows, streams>>

\* Mutant: the last piece is not shortened.
FullPieces(from, n) ==
  [i \in 1 .. (n + MaxPacket - 1) \div MaxPacket |->
     DataMsg(from + (i - 1) * MaxPacket, from + i * MaxPacket)]

\* Send cuts what it is given into pieces of at most remoteMaxPacket bytes.
Pieces(from, n) ==
  LET count == (n + MaxPacket - 1) \div MaxPacket
  IN  [i \in 1 .. count |->
         DataMsg(from + (i - 1) * MaxPacket,
                 IF i = count THEN from + n ELSE from + i * MaxPacket)]

Send(e, n) ==
  /\ allowWrite[e]
  /\ n <= remoteWindow[e]
  /\ sent[e] + n <= SendLimit[e]
  /\ Emit(e, Pieces(sent[e], n))
  /\ remoteWindow' = [remoteWindow EXCEPT ![e] = @ - n]
  /\ sent' = [sent EXCEPT ![e] = @ + n]
  /\ UNCHANGED <<state, allowWrite, aborted, session, localWindow, localConsumed,
                 granted, credited, recvQueue, arrived, read, eof>>

\* Mutant: bytes are given back only once the window is used up.
WindowIsGone(e) == localWindow[e] = 0

\* The condition under which adjustWindow gives consumed bytes back.
WindowIsLow(e) ==
  \/ WindowSize - localWindow[e] > 3 * MaxPacket
  \/ localWindow[e] < WindowSize \div 2

\* Mutant: localConsumed is not reset, its bytes are given back again.
AdjustKeepsConsumed(e, n) ==
  LET consumed == localConsumed[e] + n
  IN  /\ localConsumed' = [localConsumed EXCEPT ![e] = consumed]
      /\ IF WindowIsLow(e)
         THEN /\ localWindow' = [localWindow EXCEPT ![e] = @ + consumed]
              /\ granted' = [granted EXCEPT ![e] = @ + consumed]
              /\ Emit(e, <<AdjustMsg(granted[e], granted[e] + consumed)>>)
         ELSE UNCHANGED <<localWindow, granted, link>>

\* Mutant: the peer is told of the bytes of this Recv only.
AdjustTellsLast(e, n) ==
  LET consumed == localConsumed[e] + n
  IN  IF WindowIsLow(e)
      THEN /\ localConsumed' = [localConsumed EXCEPT ![e] = 0]
           /\ localWindow' = [localWindow EXCEPT ![e] = @ + consumed]
           /\ granted' = [granted EXCEPT ![e] = @ + consumed]
           /\ Emit(e, <<AdjustMsg(granted[e], granted[e] + n)>>)
      ELSE /\ localConsumed' = [localConsumed EXCEPT ![e] = consumed]
           /\ UNCHANGED <<localWindow, granted, link>>

AdjustWindow(e, n) ==
  LET consumed == localConsumed[e] + n
  IN  IF WindowIsLow(e)
      THEN /\ localConsumed' = [localConsumed EXCEPT ![e] = 0]
           /\ localWindow' = [localWindow EXCEPT ![e] = @ + consumed]
           /\ granted' = [granted EXCEPT ![e] = @ + consumed]
           /\ Emit(e, <<AdjustMsg(granted[e], granted[e] + consumed)>>)
      ELSE /\ localConsumed' = [localConsumed EXCEPT ![e] = consumed]
           /\ UNCHANGED <<localWindow, granted, link>>

\* Mutant: nothing is read any more once the peer has closed.
ReadableWhileConnected(e) == state[e] = "Connected"
Readable(e) == state[e] \in {"Connected", "CloseResponding"}

\* A Recv of at most n bytes never goes past the first segment of the queue.
Recv(e, n) ==
  /\ Readable(e)
  /\ recvQueue[e] # <<>>
  /\ LET top == Head(recvQueue[e])
         rest == Tail(recvQueue[e])
         partial == Bytes(top) > n
         taken == IF partial THEN n ELSE Bytes(top)
     IN  /\ recvQueue' = [recvQueue EXCEPT ![e] =
              IF partial THEN <<[top EXCEPT !.from = @ + n]>> \o rest ELSE rest]
         /\ read' = [read EXCEPT ![e] = @ + taken]
         /\ AdjustWindow(e, taken)
  /\ UNCHANGED <<state, allowWrite, aborted, session, remoteWindow, credited,
                 sent, arrived, eof>>

\* Recv returns 0, end of file, when the peer has closed and all is read.
RecvEof(e) ==
  /\ state[e] = "CloseResponding"
  /\ recvQueue[e] = <<>>
  /\ eof' = [eof EXCEPT ![e] = TRUE]
  /\ UNCHANGED <<state, allowWrite, link, aborted, session, windows,
                 recvQueue, sent, arrived, read>>
-----------------------------------------------------------------------------
(* Messages: Session::handleDeserializedMsg and the handlers of Channel. *)

Incoming(e, type) == link[e] # <<>> /\ Head(link[e]).type = type
Consume(e) == link' = [link EXCEPT ![e] = Tail(@)]

\* handleNewChannel and initiateIncomingChannel; the application is asked in
\* a callback and answers with Accept or Reject, then or later.
HandleNewChannel(e) ==
  /\ Incoming(e, "SetupChannel")
  /\ state[e] = "Init"
  /\ LET msg == Head(link[e])
     IN  /\ remoteWindow' = [remoteWindow EXCEPT ![e] = msg.window]
         /\ aborted' = (msg.window < MaxPacket)
  /\ Goto(e, "ConnectResponding")
  /\ SetRegistered(e, FastConnect)
  /\ Consume(e)
  /\ UNCHANGED <<allowWrite, closeTimer, localWindow, localConsumed, granted,
                 credited, streams>>

\* A message for a channel the session does not hold is dropped.
DropUnregistered(e) ==
  /\ link[e] # <<>>
  /\ Head(link[e]).type # "SetupChannel"
  /\ ~registered[e]
  /\ Consume(e)
  /\ UNCHANGED <<state, allowWrite, aborted, session, windows, streams>>

\* Mutant: the head start is forgotten, the announced window is taken whole.
AcceptedWithoutDebit(e, msg) ==
  /\ remoteWindow' = [remoteWindow EXCEPT ![e] = msg.window]
  /\ aborted' = (msg.window < MaxPacket)
  /\ Goto(e, "Connected")
  /\ SetAllowWrite(e, TRUE)
  /\ Consume(e)
  /\ UNCHANGED <<session, localWindow, localConsumed, granted, credited, streams>>

HandleAccepted(e, msg) ==
  LET used == MaxPacket - remoteWindow[e]
  IN  /\ remoteWindow' = [remoteWindow EXCEPT ![e] =
                            IF used <= msg.window THEN msg.window - used ELSE 0]
      /\ aborted' = (msg.window < MaxPacket)
      /\ Goto(e, "Connected")
      /\ SetAllowWrite(e, TRUE)
      /\ Consume(e)
      /\ UNCHANGED <<session, localWindow, localConsumed, granted, credited, streams>>

\* allowWrite keeps its value: the code does not clear it here.
HandleRejected(e) ==
  /\ Goto(e, "Rejected")
  /\ SetRegistered(e, FALSE)
  /\ link' = [link EXCEPT ![e] = Tail(@),
                          ![Peer(e)] = @ \o (IF FastConnect THEN <<CloseMsg>> ELSE <<>>)]
  /\ UNCHANGED <<allowWrite, aborted, closeTimer, windows, streams>>

HandleNewChannelResponse(e) ==
  /\ registered[e]
  /\ Incoming(e, "SetupChannelResponse")
  /\ LET msg == Head(link[e])
     IN  \/ state[e] = "Connecting" /\ msg.accept /\ HandleAccepted(e, msg)
         \/ state[e] = "Connecting" /\ ~msg.accept /\ HandleRejected(e)
         \/ /\ state[e] # "Connecting"
            /\ Consume(e)
            /\ UNCHANGED <<state, allowWrite, aborted, session, windows, streams>>

\* Mutant: data that come before Accept() are not taken.
TakesDataOnceConnected(e) == state[e] \in {"Connected", "Closing"}

\* handleChannelData: data are still taken after Close().
TakesData(e) ==
  \/ state[e] \in {"Connected", "Closing"}
  \/ FastConnect /\ state[e] = "ConnectResponding"

HandleChannelData(e) ==
  /\ registered[e]
  /\ Incoming(e, "ChannelData")
  /\ Consume(e)
  /\ LET msg == Head(link[e])
     IN  \/ /\ TakesData(e)
            /\ Bytes(msg) <= localWindow[e]
            /\ recvQueue' = [recvQueue EXCEPT ![e] =
                               Append(@, [from |-> msg.from, upto |-> msg.upto])]
            /\ localWindow' = [localWindow EXCEPT ![e] = @ - Bytes(msg)]
            /\ arrived' = [arrived EXCEPT ![e] = @ + Bytes(msg)]
            /\ UNCHANGED aborted
         \/ /\ TakesData(e)
            /\ Bytes(msg) > localWindow[e]
            /\ aborted' = TRUE
            /\ UNCHANGED <<recvQueue, localWindow, arrived>>
         \/ /\ ~TakesData(e)
            /\ UNCHANGED <<recvQueue, localWindow, arrived, aborted>>
  /\ UNCHANGED <<state, allowWrite, session, remoteWindow, localConsumed,
                 granted, credited, sent, read, eof>>

HandleWindowAdjust(e) ==
  /\ registered[e]
  /\ Incoming(e, "ChannelWindowAdjust")
  /\ Consume(e)
  /\ LET msg == Head(link[e])
     IN  \/ /\ Readable(e)
            /\ remoteWindow' = [remoteWindow EXCEPT ![e] = @ + Bytes(msg)]
            /\ credited' = [credited EXCEPT ![e] = @ + Bytes(msg)]
         \/ /\ ~Readable(e)
            /\ UNCHANGED <<remoteWindow, credited>>
  /\ UNCHANGED <<state, allowWrite, aborted, session, localWindow, localConsumed,
                 granted, streams>>

HandleChannelClose(e) ==
  /\ registered[e]
  /\ Incoming(e, "ChannelClose")
  /\ Consume(e)
  /\ \/ state[e] = "Connected" /\ Goto(e, "CloseResponding") /\ UNCHANGED registered
     \/ state[e] = "Closing" /\ Goto(e, "Closed") /\ SetRegistered(e, FALSE)
     \/ state[e] \notin {"Connected", "Closing"} /\ UNCHANGED <<state, registered>>
  /\ UNCHANGED <<allowWrite, aborted, closeTimer, windows, streams>>

\* Mutant: the timed-out channel stays in the registry.
CloseTimeoutKeepsChannel(e) ==
  /\ closeTimer[e]
  /\ closeTimer' = [closeTimer EXCEPT ![e] = FALSE]
  /\ IF state[e] = "Closing" THEN Goto(e, "Closed") ELSE UNCHANGED state
  /\ UNCHANGED <<registered, allowWrite, link, aborted, windows, streams>>

\* The timer is never disarmed; it finds out by itself that it is too late.
CloseTimeoutTriggered(e) ==
  /\ closeTimer[e]
  /\ closeTimer' = [closeTimer EXCEPT ![e] = FALSE]
  /\ IF state[e] = "Closing"
     THEN Goto(e, "Closed") /\ SetRegistered(e, FALSE)
     ELSE UNCHANGED <<state, registered>>
  /\ UNCHANGED <<allowWrite, link, aborted, windows, streams>>
-----------------------------------------------------------------------------
Receive(e) ==
  \/ HandleNewChannel(e)
  \/ DropUnregistered(e)
  \/ HandleNewChannelResponse(e)
  \/ HandleChannelData(e)
  \/ HandleWindowAdjust(e)
  \/ HandleChannelClose(e)

Call(e) ==
  \/ Connect(e)
  \/ Accept(e)
  \/ Close(e)
  \/ \E n \in ChunkSizes : Send(e, n)
  \/ \E n \in ReadSizes : Recv(e, n)
  \/ RecvEof(e)

\* An abort ends the process.
Next ==
  /\ ~aborted
  /\ \E e \in Ends : Call(e) \/ Receive(e) \/ CloseTimeoutTriggered(e)

Spec == Init /\ [][Next]_vars

\* The poll loop delivers what has arrived and fires due timers; the SDK
\* answers every request once its local connection succeeds or fails; a
\* reader drains its channel and closes it at end of file, as
\* ChannelConnectionForwarder::HandleFDWrite does.  Nobody has to send, to
\* connect or to close otherwise.
Fairness ==
  /\ WF_vars(~aborted /\ (Accept("acceptor") \/ Reject("acceptor")))
  /\ \A e \in Ends :
       /\ WF_vars(~aborted /\ Receive(e))
       /\ WF_vars(~aborted /\ CloseTimeoutTriggered(e))
       /\ WF_vars(~aborted /\ \E n \in ReadSizes : Recv(e, n))
       /\ WF_vars(~aborted /\ RecvEof(e))
       /\ WF_vars(~aborted /\ eof[e] /\ Close(e))

FairSpec == Spec /\ Fairness
-----------------------------------------------------------------------------
(* Safety. *)

TypeOK ==
  /\ state \in [Ends -> States]
  /\ registered \in [Ends -> BOOLEAN]
  /\ allowWrite \in [Ends -> BOOLEAN]
  /\ remoteWindow \in [Ends -> 0 .. WindowSize]
  /\ localWindow \in [Ends -> 0 .. WindowSize]
  /\ localConsumed \in [Ends -> 0 .. WindowSize]
  /\ recvQueue \in [Ends -> Seq(Segment)]
  /\ closeTimer \in [Ends -> BOOLEAN]
  /\ link \in [Ends -> Seq(Message)]
  /\ aborted \in BOOLEAN
  /\ sent \in [Ends -> Nat]
  /\ arrived \in [Ends -> Nat]
  /\ read \in [Ends -> Nat]
  /\ granted \in [Ends -> Nat]
  /\ credited \in [Ends -> Nat]
  /\ eof \in [Ends -> BOOLEAN]

\* Neither "Invalid size" (handleChannelData) nor "Remote window cannot even
\* keep a single packet" (both set-up handlers) is ever reached: whatever the
\* interleaving of data, window adjusts, head start and set-up answer, a
\* sender never overruns the window of its peer.
NeverAborts == ~aborted

InFlight(s) == sent[s] - arrived[Peer(s)]
GrantsInFlight(s) == granted[Peer(s)] - credited[s]

\* The receiver's books: what it has taken in and not given back is either
\* still queued or counted as consumed.
LocalLedger ==
  \A e \in Ends : localWindow[e] + localConsumed[e] + (arrived[e] - read[e]) = WindowSize

\* The sender's books: its credit, its bytes under way and the adjusts under
\* way to it are all covered by the window its peer keeps open.
CreditCovered ==
  \A s \in Ends :
    remoteWindow[s] + InFlight(s) + GrantsInFlight(s) <= localWindow[Peer(s)]

\* The bytes that the messages of one type carry on the link to end e.
OnLink(e, type) ==
  LET upTo[i \in 0 .. Len(link[e])] ==
        IF i = 0 THEN 0
        ELSE upTo[i - 1] + IF link[e][i].type = type THEN Bytes(link[e][i]) ELSE 0
  IN  upTo[Len(link[e])]

\* ... and nothing of that window gets lost, save for the head start of a
\* fast connect: its bytes are charged twice, once in the InitialWindowSize
\* of the answer and once more by handleNewChannelResponse.
NoCreditLeak ==
  \A s \in Ends :
    state[s] = "Connected" /\ state[Peer(s)] = "Connected" =>
      localWindow[Peer(s)]
        - (remoteWindow[s] + OnLink(Peer(s), "ChannelData") + OnLink(s, "ChannelWindowAdjust"))
        <= IF FastConnect /\ s = "initiator" THEN MaxPacket ELSE 0

\* The queue of a receiver is the unread part of the stream, without gap,
\* overlap or reordering.
StreamInOrder ==
  \A e \in Ends :
    LET queue == recvQueue[e]
    IN  IF queue = <<>>
        THEN read[e] = arrived[e]
        ELSE /\ Head(queue).from = read[e]
             /\ queue[Len(queue)].upto = arrived[e]
             /\ \A i \in 1 .. Len(queue) - 1 : queue[i].upto = queue[i + 1].from

\* End of file means everything: when Recv can only return 0, the reader has
\* been given all that the peer ever sent, including a head start sent
\* before the channel was accepted.
EofIsComplete ==
  \A e \in Ends :
    state[e] = "CloseResponding" /\ recvQueue[e] = <<>> => read[e] = sent[Peer(e)]

\* The R, D, r and d marks of the state diagram (Channel.cc:23): the session
\* holds a channel exactly in these states, so deregisterChannel always
\* finds it and no message reaches a finished channel.
RegistryMatchesState ==
  \A e \in Ends :
    registered[e] <=>
      \/ state[e] \in {"Connecting", "Connected", "CloseResponding", "Closing"}
      \/ FastConnect /\ state[e] = "ConnectResponding"

\* Without the timeout a channel is Closed only when its peer has sent a
\* Close of its own: nobody is left holding a channel the other one forgot.
NoHalfOpen ==
  \A e \in Ends :
    state[e] = "Closed" /\ ~CloseTimeout => state[Peer(e)] \in {"Closing", "Closed"}

\* Both ends see a pair of reliable bounded byte pipes (module BytePipe).
Pipe == INSTANCE BytePipe WITH
  Pipes <- Ends,
  Capacity <- WindowSize,
  written <- sent,
  read <- [e \in Ends |-> read[Peer(e)]],
  shut <- [e \in Ends |-> state[e] \in {"Closing", "Closed"}],
  ended <- [e \in Ends |-> eof[Peer(e)]]

ImplementsPipe == Pipe!Spec
-----------------------------------------------------------------------------
(* Liveness, under FairSpec. *)

Open(e) == state[e] = "Connected" /\ state[Peer(e)] = "Connected"
CloseUnderway(e) == \E i \in DOMAIN link[e] : link[e][i].type = "ChannelClose"

\* A request to connect is answered.
ConnectIsAnswered ==
  state["initiator"] = "Connecting" ~> state["initiator"] # "Connecting"

\* As long as the channel stays open, a sender whose window has run dry gets
\* room for a full packet again: the adjust threshold cannot deadlock.
SenderNeverStarves ==
  \A s \in Ends :
    (Open(s) /\ remoteWindow[s] < MaxPacket) ~> (~Open(s) \/ remoteWindow[s] >= MaxPacket)

\* As long as the channel stays open, every byte sent is read.
DataIsDelivered ==
  \A s \in Ends : \A k \in 1 .. SendLimit[s] :
    (Open(s) /\ sent[s] >= k) ~> (~Open(s) \/ read[Peer(s)] >= k)

\* A Close on its way to a connected peer is answered, which ends the channel
\* without the help of the timeout.
CloseIsAnswered ==
  \A e \in Ends :
    (state[e] = "Closing" /\ state[Peer(e)] = "Connected" /\ CloseUnderway(Peer(e)))
      ~> state[e] = "Closed"

\* When one end is done with a channel, the other one does not stay
\* connected to nobody: Channel.cc:464 expects a Close only "when it is
\* connected or closing".
NoLastingHalfOpen ==
  \A e \in Ends : state[e] = "Closed" ~> state[Peer(e)] # "Connected"
=============================================================================
