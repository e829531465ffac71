-------------------------------- MODULE Visitor --------------------------------
(***************************************************************************)
(* One visitor of a tunnel, from application to application: the channel   *)
(* of module Channel with a forwarder at either end.  The end that opens   *)
(* the channel got its connection from a listener (Sdk::NewVisitor); the   *)
(* other end asks the forwarding for an address and connects to it         *)
(* (Sdk::HandleSessionNewChannelRequest), which may take several attempts. *)
(*                                                                         *)
(* Each end runs its own poll loop.  A PollOnce fixes the events of a      *)
(* batch before any of them is handled: those of the session (messages),   *)
(* those of the local socket and the dummy reads; a timer that is due      *)
(* fires in between.  A handler that makes two calls on the channel takes  *)
(* two steps, with the second one in todo: nothing else happens at that    *)
(* end between the two.                                                    *)
(***************************************************************************)
EXTENDS Channel, ChannelConnectionForwarder

\* A forwarder is gone when its channel is closing, so the close timer of the
\* channel has nothing to do with it.  A read fits into a message, and what a
\* forwarder passes to Send and Recv is among the lengths of module Channel.
ASSUME VisitorAssumption ==
  /\ ~CloseTimeout
  /\ Chunk <= MaxPacket
  /\ 1 .. Chunk \subseteq ChunkSizes
  /\ Chunk \in ReadSizes

VARIABLES
  fwd,     \* fwd[e]: the forwarder of end e with its socket
  batch,   \* batch[e]: what the current PollOnce of end e has still to handle
  todo     \* todo[e]: the second call of the handler that runs at end e

visitorVars == <<vars, fwd, batch, todo>>

\* The messages of the session come before or after the events of the socket.
Turns == {"none", "first", "last"}
NoBatch == [session |-> "none", events |-> {}, dummy |-> FALSE]

VisitorInit ==
  /\ Init
  /\ fwd = [e \in Ends |-> IdleForwarder]
  /\ batch = [e \in Ends |-> NoBatch]
  /\ todo = [e \in Ends |-> "nothing"]

Become(e, f) == fwd' = [fwd EXCEPT ![e] = f]
CallNext(e, call) == todo' = [todo EXCEPT ![e] = call]
Idle(e) == batch[e] = NoBatch /\ todo[e] = "nothing"
-----------------------------------------------------------------------------
(* The local applications and the kernel.  What an application does on a    *)
(* connection that the forwarder does not poll yet is seen like the same    *)
(* thing done once it does.                                                 *)

AtWork(e) == fwd[e].phase = "running" /\ fwd[e].sock.kernel = "up"

AppWrite(e) ==
  /\ AtWork(e)
  /\ ~fwd[e].sock.fin
  /\ fwd[e].written < SendLimit[e]
  /\ Become(e, [fwd[e] EXCEPT !.written = @ + 1, !.sock.inbox = @ + 1])
  /\ UNCHANGED <<vars, batch, todo>>

AppShutdown(e) ==
  /\ AtWork(e)
  /\ ~fwd[e].sock.fin
  /\ Become(e, [fwd[e] EXCEPT !.sock.fin = TRUE])
  /\ UNCHANGED <<vars, batch, todo>>

AppRead(e) ==
  /\ fwd[e].sock.outbox > 0
  /\ Become(e, [fwd[e] EXCEPT !.sock.outbox = @ - 1])
  /\ UNCHANGED <<vars, batch, todo>>

\* The application is gone: unread bytes are thrown away in both directions.
AppReset(e) ==
  /\ AtWork(e)
  /\ Become(e, [fwd[e] EXCEPT !.sock = [@ EXCEPT
       !.kernel = "failed", !.inbox = 0, !.fin = FALSE, !.outbox = 0]])
  /\ UNCHANGED <<vars, batch, todo>>

KernelConnect(e) ==
  /\ fwd[e].sock.kernel = "connecting"
  /\ \E kernel \in {"up", "failed"} : Become(e, [fwd[e] EXCEPT !.sock.kernel = kernel])
  /\ UNCHANGED <<vars, batch, todo>>
-----------------------------------------------------------------------------
(* Connecting. *)

\* The next attempt of a forwarder: under way, connected or given up.  What
\* follows on the channel is the second call of the handler.
NextAttempt(e, f) ==
  \E sock \in TryNonBlockingConnect(f.sock) :
    LET tried == [f EXCEPT !.sock = sock, !.missed = @ \cup PassedOver(f.sock, sock)]
    IN  \/ /\ sock.kernel = "connecting"
           /\ Become(e, [tried EXCEPT !.phase = "connecting",
                                      !.poll = RegisterConnectHandler(@)])
           /\ UNCHANGED todo
        \/ /\ sock.kernel = "up"
           /\ Become(e, [tried EXCEPT !.phase = "connected"])
           /\ CallNext(e, "accept")
        \/ /\ sock.kernel = "failed"
           /\ Become(e, CloseConn(tried, "unreachable"))
           /\ CallNext(e, "reject")

\* The attempt is over; its socket is deregistered and closed.
Missed(f) ==
  [f EXCEPT !.poll = DeregisterHandler(@), !.missed = @ \cup {f.sock.address}]

\* HandleConnect() asks the socket for its error.  An attempt that is still
\* under way has none: the event was one of the attempt before.
HandleConnect(e) ==
  LET f == fwd[e]
  IN  \/ /\ f.sock.kernel = "failed"
         /\ NextAttempt(e, Missed(f))
      \/ /\ f.sock.kernel # "failed"
         /\ Become(e, [f EXCEPT !.phase = "connected",
                                !.poll = DeregisterHandler(@),
                                !.sock.timer = FALSE,
                                !.early = f.sock.kernel = "connecting"])
         /\ CallNext(e, "accept")

\* Sdk::HandleSessionNewChannelRequest, called by handleNewChannel; earlier
\* visitors may have left an address in the cache.
NewChannelRequest(e) ==
  \/ \E cached \in {NoAddress} \cup Addresses :
       NextAttempt(e, [fwd[e] EXCEPT !.sock.left = AddressesFor(cached)])
  \/ /\ Become(e, CloseConn(fwd[e], "unknown"))
     /\ CallNext(e, "reject")

\* Sdk::NewVisitor: a listener has accepted a connection.
NewVisitor(e) ==
  /\ fwd[e].phase = "idle"
  /\ Idle(e)
  /\ Connect(e)
  /\ Become(e, StartForwarder([fwd[e] EXCEPT !.sock = AcceptedSocket], FALSE))
  /\ UNCHANGED <<batch, todo>>
-----------------------------------------------------------------------------
(* The second call of a handler. *)

\* Sdk::HandleConnected
HandleConnected(e) ==
  /\ todo[e] = "accept"
  /\ Accept(e)
  /\ Become(e, StartForwarder([fwd[e] EXCEPT !.sock = Settled(@), !.missed = {}],
                              recvQueue[e] # <<>>))
  /\ CallNext(e, "nothing")
  /\ UNCHANGED batch

\* Sdk::HandleConnectionFailed, and the refusals of a request.
HandleConnectionFailed(e) ==
  /\ todo[e] = "reject"
  /\ Reject(e)
  /\ CallNext(e, "nothing")
  /\ UNCHANGED <<fwd, batch>>

\* The channel of closeByNetConn().
CloseChannel(e) ==
  /\ todo[e] = "close"
  /\ Close(e)
  /\ CallNext(e, "nothing")
  /\ UNCHANGED <<fwd, batch>>
-----------------------------------------------------------------------------
(* PollOnce. *)

\* epoll_wait: the events of the batch.
Found(e, turn) ==
  LET reported == Reported(fwd[e].poll, Readiness(fwd[e].sock))
  IN  [session |-> turn, events |-> reported, dummy |-> DummyLeft(fwd[e].poll, reported)]

\* The dummy reads are copied and cleared.
DummiesTaken(e) ==
  LET lost == fwd[e].poll.dummy /\ Found(e, "none").events = {"out"}
  IN  [fwd[e] EXCEPT !.poll.dummy = FALSE, !.dropped = @ \/ lost]

CanFind(e, turn) ==
  /\ Idle(e)
  /\ turn # "none" => link[e] # <<>>
  /\ turn = "first" => Found(e, turn).events # {}

CanFindAny(e) == link[e] # <<>> \/ Found(e, "none") # NoBatch

PollOnce(e) ==
  \E turn \in Turns :
    /\ CanFind(e, turn)
    /\ Found(e, turn) # NoBatch
    /\ batch' = [batch EXCEPT ![e] = Found(e, turn)]
    /\ Become(e, DummiesTaken(e))
    /\ UNCHANGED <<vars, todo>>

\* The same with connectTimer due: after the events are fixed, the socket is
\* closed and the next address tried.  The number of the old socket is free
\* and likely to be the one of the new socket, to which its event then goes.
ConnectTimeout(e) ==
  \E turn \in Turns :
    /\ CanFind(e, turn)
    /\ fwd[e].sock.timer
    /\ NextAttempt(e, Missed([DummiesTaken(e) EXCEPT !.sock.timer = FALSE]))
    /\ \E events \in {Found(e, turn).events, {}} :
         batch' = [batch EXCEPT ![e] = [Found(e, turn) EXCEPT !.events = events]]
    /\ UNCHANGED vars

\* The session handles one message more, the last of this batch or not.
TakeMessage(e) ==
  /\ \/ batch[e].session = "first"
     \/ batch[e].session = "last" /\ batch[e].events = {}
  /\ todo[e] = "nothing"
  /\ \E more \in BOOLEAN :
       /\ more => Len(link[e]) > 1
       /\ batch' = [batch EXCEPT ![e].session = IF more THEN @ ELSE "none"]
  /\ LET f == fwd[e]
         told(g) == Become(e, IF f.phase = "running" THEN g ELSE f) /\ UNCHANGED todo
     IN  \/ HandleNewChannel(e) /\ NewChannelRequest(e)
         \/ DropUnregistered(e) /\ told(f)
         \/ /\ HandleNewChannelResponse(e)
            /\ told(IF state[e] # "Connecting" THEN f
                    ELSE IF Head(link[e]).accept THEN ChannelAccepted(f)
                    ELSE ChannelRejected(f))
         \/ /\ HandleChannelData(e)
            /\ told(IF TakesData(e) THEN ChannelDataReceived(f) ELSE f)
         \/ /\ HandleWindowAdjust(e)
            /\ told(IF Readable(e) THEN ChannelReadyToSend(f, remoteWindow'[e]) ELSE f)
         \/ /\ HandleChannelClose(e)
            /\ told(IF state[e] = "Connected" THEN ChannelDataReceived(f) ELSE f)

\* The connection is closed, the channel next.
CloseByNetConn(e, f, why) == Become(e, CloseConn(f, why)) /\ CallNext(e, "close")

HandleFDRead(e) ==
  LET f == fwd[e]
      g == ReadUnlessHeld(f)
      refused == g.forChannel > remoteWindow[e] \/ ~allowWrite[e]
  IN  \/ /\ ReadFails(f)
         /\ CloseByNetConn(e, f, IF f.sock.fin THEN "application" ELSE "error")
         /\ UNCHANGED vars
      \/ /\ ~ReadFails(f) /\ ~Holds(g)
         /\ UNCHANGED <<vars, fwd, todo>>
      \/ /\ Holds(g) /\ refused
         /\ Become(e, DisableReadPoll(g))
         /\ UNCHANGED <<vars, todo>>
      \/ /\ Holds(g) /\ ~refused
         /\ Send(e, g.forChannel)
         /\ Become(e, Copied(g))
         /\ UNCHANGED todo

\* Write() of f: a failed socket closes the connection; another one takes some
\* of the bytes, or none although it seemed writable (TryAgain).
WriteOrClose(e, f) ==
  \/ /\ f.sock.kernel = "failed"
     /\ CloseByNetConn(e, f, "error")
  \/ /\ f.sock.kernel # "failed"
     /\ \E n \in 0 .. Fitting(f) : Become(e, WriteSome(f, n))
     /\ UNCHANGED todo

HandleFDWrite(e) ==
  LET f == fwd[e]
  IN  \/ /\ f.forNetConn > 0
         /\ WriteOrClose(e, f)
         /\ UNCHANGED vars
      \/ /\ f.forNetConn = 0
         /\ Recv(e, Chunk)
         /\ WriteOrClose(e, [f EXCEPT !.forNetConn = read'[e] - read[e]])
      \/ /\ f.forNetConn = 0
         /\ RecvEof(e)
         /\ CloseByNetConn(e, f, "channel")
      \/ /\ f.forNetConn = 0
         /\ recvQueue[e] = <<>> /\ state[e] # "CloseResponding"
         /\ Become(e, DisableWritePoll(f))
         /\ UNCHANGED <<vars, todo>>

\* One event of the local socket, in the order of PollOnce.  A socket that
\* its handler has closed gets no more of them.
HandleEvent(e) ==
  LET event == FirstEvent(batch[e].events)
      f == fwd[e]
  IN  /\ batch[e].session # "first"
      /\ batch[e].events # {}
      /\ todo[e] = "nothing"
      /\ \/ /\ f.phase = "done"
            /\ UNCHANGED <<vars, fwd, todo>>
         \/ /\ f.phase = "connecting" /\ event = "out"
            /\ HandleConnect(e)
            /\ UNCHANGED vars
         \/ /\ f.phase # "running" /\ event # "out"
            /\ UNCHANGED <<vars, fwd, todo>>
         \/ /\ f.phase = "running" /\ event = "in"
            /\ HandleFDRead(e)
         \/ /\ f.phase = "running" /\ event = "out"
            /\ HandleFDWrite(e)
         \/ /\ f.phase = "running" /\ event = "hup"
            /\ CloseByNetConn(e, f, "error")
            /\ UNCHANGED vars
      /\ batch' = [batch EXCEPT ![e].events =
                     IF fwd'[e].phase = "done" THEN {} ELSE @ \ {event}]

\* The dummy reads come last.  (One that may not read yet would be raised
\* again; NoLostWakeup shows that there is none.)
HandleDummy(e) ==
  /\ batch[e].dummy /\ batch[e].session = "none" /\ batch[e].events = {}
  /\ todo[e] = "nothing"
  /\ fwd[e].poll.in
  /\ batch' = [batch EXCEPT ![e].dummy = FALSE]
  /\ HandleFDRead(e)
-----------------------------------------------------------------------------
Dispatch(e) ==
  \/ HandleConnected(e)
  \/ HandleConnectionFailed(e)
  \/ CloseChannel(e)
  \/ TakeMessage(e)
  \/ HandleEvent(e)
  \/ HandleDummy(e)

Application(e) ==
  \/ NewVisitor(e)
  \/ AppWrite(e)
  \/ AppShutdown(e)
  \/ AppRead(e)
  \/ AppReset(e)
  \/ KernelConnect(e)

VisitorNext ==
  /\ ~aborted
  /\ \E e \in Ends : \/ Application(e)
                   \/ PollOnce(e)
                   \/ ConnectTimeout(e)
                   \/ Dispatch(e)

\* The poll loop of the end that connects goes on: it polls, its timers fire in
\* the end, and it handles what it has found.  The other end owes nothing.
\* (Weak fairness, with the conditions that enable the actions spelt out.)
VisitorFairness ==
  LET e == "acceptor"
  IN  /\ []<>~(Idle(e) /\ CanFindAny(e)) \/ []<><<PollOnce(e)>>_visitorVars
      /\ []<>~(Idle(e) /\ fwd[e].sock.timer) \/ []<><<ConnectTimeout(e)>>_visitorVars
      /\ []<>Idle(e) \/ []<><<Dispatch(e)>>_visitorVars

VisitorSpec == VisitorInit /\ [][VisitorNext]_visitorVars /\ VisitorFairness
-----------------------------------------------------------------------------
(* Properties. *)

\* No wake-up is lost between the channel and the poll controller: a forwarder
\* polls for writing as long as its channel has data or the end of the stream
\* for it; it stops polling for reading only for a chunk that has no room; and
\* a chunk that has room again is waited for by a dummy read, unless PollOnce
\* has dropped that.
NoLostWakeup ==
  \A e \in Ends :
    LET f == fwd[e]
    IN  f.phase = "running" /\ todo[e] = "nothing" =>
          /\ recvQueue[e] # <<>> \/ state[e] = "CloseResponding" => f.poll.out
          /\ f.forNetConn > 0 => f.poll.out
          /\ ~f.poll.in => /\ Holds(f)
                           /\ state[e] = "Connecting" \/ f.forChannel > remoteWindow[e]
          /\ Holds(f) /\ f.poll.in =>
               \/ f.poll.dummy \/ batch[e].dummy \/ f.dropped
               \/ batch[e].events \cap {"in", "hup"} # {}
          /\ batch[e].dummy => f.poll.in

\* When an application has shut down its side and the other end closes because
\* the channel has ended, every byte of the first has been written to the other:
\* a chunk held back, a queue or a closing socket loses nothing.
CloseIsComplete ==
  \A e \in Ends :
    fwd[e].closedBy = "channel" /\ fwd[Peer(e)].closedBy = "application" =>
      fwd[e].given = fwd[Peer(e)].written

\* A visitor is turned away as unreachable only when every address has failed
\* or timed out, and let in only when one has answered, save for an event that
\* belongs to the attempt before.
AnswerFitsConnect ==
  /\ fwd["acceptor"].closedBy = "unreachable" => Addresses \subseteq fwd["acceptor"].missed
  /\ fwd["acceptor"].sock.kernel = "connecting" /\ fwd["acceptor"].phase # "connecting"
       => fwd["acceptor"].early

\* Whatever the addresses of the forwarding do, a visitor is let in or turned
\* away in the end.
VisitorIsAnswered ==
  state["acceptor"] = "ConnectResponding" ~> state["acceptor"] # "ConnectResponding"
=============================================================================
