---------------------------- MODULE PollController -----------------------------
(***************************************************************************)
(* What the poll controller keeps for one file descriptor, and what one    *)
(* PollOnce finds for it.  Source: src/src/common/poll/PinggyPollLinux.cc  *)
(* and PinggyPollCommon.hh; the other two controllers agree with it here.  *)
(*                                                                         *)
(* An entry is [registered, in, out, dummy]: the descriptor is in fds, it  *)
(* is polled for reading, for writing, and it is in dummyReadPoll.  The    *)
(* operators take an entry and return the one the call leaves behind.      *)
(***************************************************************************)
EXTENDS FiniteSets

PollEvents == {"in", "out", "hup"}

FdMetaData == [registered : BOOLEAN, in : BOOLEAN, out : BOOLEAN, dummy : BOOLEAN]

NoHandler == [registered |-> FALSE, in |-> FALSE, out |-> FALSE, dummy |-> FALSE]

\* A new handler is polled for reading.
RegisterHandler(meta) == [meta EXCEPT !.registered = TRUE, !.in = TRUE, !.out = FALSE]

DeregisterHandler(meta) == NoHandler

EnableReader(meta) == [meta EXCEPT !.in = meta.registered]
DisableReader(meta) == [meta EXCEPT !.in = FALSE]
EnableWriter(meta) == [meta EXCEPT !.out = meta.registered]
DisableWriter(meta) == [meta EXCEPT !.out = FALSE]

\* RegisterConnectHandler: a socket that connects is polled for writing only.
RegisterConnectHandler(meta) == EnableWriter(DisableReader(RegisterHandler(meta)))

\* The next PollOnce is to call the read handler although nothing arrives.
RaiseReadPoll(meta) == [meta EXCEPT !.dummy = TRUE]

\* The events epoll_wait reports, of those that are there.  A hang-up is
\* reported whatever the entry asks for, as long as it asks for something,
\* and it is not passed on together with a readable descriptor.
Reported(meta, there) ==
  LET asked == there \cap ((IF meta.in THEN {"in"} ELSE {}) \cup
                           (IF meta.out THEN {"out"} ELSE {}) \cup
                           (IF meta.in \/ meta.out THEN {"hup"} ELSE {}))
  IN  IF "in" \in asked THEN asked \ {"hup"} ELSE asked

\* newDummyPoll.erase(eventFd): any event of the descriptor, one that only
\* says it is writable too, takes the place of its dummy read.
DummyLeft(meta, reported) == meta.dummy /\ reported = {}

\* What PollOnce calls first for a descriptor, of the events reported.
FirstEvent(reported) ==
  IF "in" \in reported THEN "in" ELSE IF "out" \in reported THEN "out" ELSE "hup"
=============================================================================
