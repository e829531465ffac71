---------------------- MODULE ChannelConnectionForwarder -----------------------
(***************************************************************************)
(* The forwarder between one end of a channel and the connection of a      *)
(* local application: what each of its handlers makes of its own state.    *)
(* Source: src/src/protocol/ChannelConnectionForwarder.cc.  The calls a    *)
(* handler makes on its channel are actions of module Channel; module      *)
(* Visitor puts the two together.                                          *)
(*                                                                         *)
(* A forwarder record holds                                                *)
(*   phase       "idle", "connecting", "running" or "done"                 *)
(*   sock, poll  its socket and the entry of that in the poll controller   *)
(*   forChannel  bytes read and not sent (dataForChannel)                  *)
(*   forNetConn  bytes received and not written (dataForNetConn)           *)
(*   recvEnabled, sendEnabled  fdRecvEnabled and fdSendEnabled             *)
(* and, for the properties only,                                           *)
(*   written     bytes the application wrote, given: bytes written to it   *)
(*   closedBy    why the connection was closed                             *)
(*   dropped     a dummy read gave way to an event that reads nothing      *)
(*   early       an event of an earlier attempt was taken for this one     *)
(*   missed      the addresses that failed or timed out                    *)
(* Both copy directions are allowed from Start() on: nothing in the        *)
(* repository calls EnableCopy... or DisableCopy....                       *)
(***************************************************************************)
EXTENDS PollController, NetworkConnection

CONSTANT Chunk    \* 16 KB, the size of one read

ASSUME ForwarderAssumption == Chunk \in Nat \ {0}

IdleForwarder ==
  [phase |-> "idle", sock |-> NoSocket, poll |-> NoHandler,
   forChannel |-> 0, forNetConn |-> 0, recvEnabled |-> FALSE, sendEnabled |-> FALSE,
   written |-> 0, given |-> 0, closedBy |-> "nobody", dropped |-> FALSE,
   early |-> FALSE, missed |-> {}]

Holds(f) == f.forChannel > 0

EnableReadPoll(f) == [f EXCEPT !.poll = EnableReader(@), !.recvEnabled = TRUE]
DisableReadPoll(f) == [f EXCEPT !.poll = DisableReader(@), !.recvEnabled = FALSE]
EnableWritePoll(f) == [f EXCEPT !.poll = EnableWriter(@), !.sendEnabled = TRUE]
DisableWritePoll(f) == [f EXCEPT !.poll = DisableWriter(@), !.sendEnabled = FALSE]
RaiseDummyRead(f) == IF Holds(f) THEN [f EXCEPT !.poll = RaiseReadPoll(@)] ELSE f

\* Start(), with a channel that connects now or is accepted and may already
\* hold data.
StartForwarder(f, haveData) ==
  LET started == [f EXCEPT !.phase = "running", !.poll = RegisterHandler(@),
                           !.recvEnabled = TRUE]
  IN  IF haveData THEN EnableWritePoll(started) ELSE started

\* The connection is deregistered and closed; what it still held is gone.
CloseConn(f, why) ==
  [f EXCEPT !.phase = "done", !.sock = NoSocket, !.poll = DeregisterHandler(@),
            !.closedBy = why]
-----------------------------------------------------------------------------
(* HandleFDRead *)

\* Mutant: a new chunk is read although the last one has not been sent.
ReadAlways(f) ==
  LET n == IF f.sock.inbox < Chunk THEN f.sock.inbox ELSE Chunk
  IN  IF n > 0 THEN [f EXCEPT !.forChannel = n, !.sock.inbox = @ - n] ELSE f

\* Nothing is read as long as a chunk waits to be sent.
ReadUnlessHeld(f) ==
  LET n == IF f.sock.inbox < Chunk THEN f.sock.inbox ELSE Chunk
  IN  IF Holds(f) THEN f ELSE [f EXCEPT !.forChannel = n, !.sock.inbox = @ - n]

\* A read that returns nothing and not for the time being: end of stream or
\* an error.
ReadFails(f) == ~Holds(f) /\ f.sock.inbox = 0 /\ ~WouldBlock(f.sock)

\* The chunk has gone into the channel.
Copied(f) == [f EXCEPT !.forChannel = 0]
-----------------------------------------------------------------------------
(* HandleFDWrite *)

\* n of the bytes held are written.
WriteSome(f, n) ==
  [f EXCEPT !.forNetConn = @ - n, !.given = @ + n, !.sock.outbox = @ + n]

Fitting(f) ==
  LET room == Writable(f.sock) IN IF f.forNetConn < room THEN f.forNetConn ELSE room
-----------------------------------------------------------------------------
(* Callbacks of the channel. *)

ChannelDataReceived(f) == IF f.sendEnabled THEN f ELSE EnableWritePoll(f)

\* Mutant: reading goes on, but nobody looks at the chunk that waits.
ReadyWithoutDummy(f, available) ==
  IF f.recvEnabled \/ ~Holds(f) \/ f.forChannel > available
  THEN f ELSE EnableReadPoll(f)

ChannelReadyToSend(f, available) ==
  IF f.recvEnabled \/ ~Holds(f) \/ f.forChannel > available
  THEN f ELSE RaiseDummyRead(EnableReadPoll(f))

\* handleNewChannelResponse calls ChannelReadyToSend next, which then finds
\* reading enabled.
ChannelAccepted(f) == RaiseDummyRead(EnableReadPoll(f))

ChannelRejected(f) == CloseConn(f, "rejected")
=============================================================================
