# A TLA+ model of libpinggy

libpinggy is the C++ library behind Pinggy tunnels.  A program opens a tunnel
to a Pinggy server, the server hands out public URLs, and every visitor of a
URL becomes a *channel* multiplexed over the one connection to the server.
This directory holds TLA+ modules translated from that code, the TLC
configurations that check them on small instances, and TLAPS proofs for every
instance.  Paths below are relative to the repository's `src/`.

    cd tla
    tlc -config ChannelFast.cfg MCChannel     # any run of the table below
    tlapm ChannelProofs.tla                   # any proof module

Contents: [1 The system](#1-the-system) ·
[2 What is modelled](#2-what-is-modelled) · [3 Runs](#3-runs) ·
[4 Proofs](#4-proofs) · [5 Disagreements found](#5-disagreements-found) ·
[6 Limits](#6-limits) · [7 Plan](#7-plan)

## 1 The system

### Parts

| part | source | state it keeps | operations |
|---|---|---|---|
| channel | `protocol/Channel.cc` | `ChannelState`, `allowWrite`, two windows, `recvQueue` | Connect, Accept, Reject, Close, Send, Recv; five message handlers; close timeout |
| session | `protocol/Session.cc`, `SessionFeatures.cc` | `SessionState`, registry of channels, `sendQueue`, request ids, keepalive ticks | hello and version negotiation, authentication, forwarding requests, routing, End, Cleanup |
| transport | `protocol/transport/` | send buffers, path registry, serializer | framing, partial writes, EndTransport |
| forwarder | `protocol/ChannelConnectionForwarder.cc` | `dataForChannel`, `dataForNetConn`, which polls are enabled | copies between a channel and a socket with back pressure in both directions |
| poll controller | `common/poll/PinggyPoll*.cc`, `PollableFD.cc` | descriptors, timers, "dummy" readiness | PollOnce, SetTimeout, SetInterval, enable and disable |
| thread pool | `common/poll/ThreadPool.cc` | job queue, workers | QueueJob, Start, Stop |
| connections | `common/net/` | sockets, TLS, an in-memory pair, non-blocking connect | Read, Write, Connect, listen |
| SDK | `sdk/Sdk.cc` | `SdkState`, lock, semaphore, pending forwardings, reconnection, keepalive | Start, ResumeTunnel, Stop, RequestAdditionalForwarding |
| reference table, C API | `sdk/RefTable.hh`, `sdk/Pinggy_c.cc` | references to objects | one C function per method |
| SDK configuration | `sdk/SdkConfig.cc` | settings, arguments, forwardings | setters and getters, parsing of arguments and forwardings, `clone`, `validate` |
| client, bindings, third party | `client/`, `bindings/`, `third-party/` | - | command line, C examples, a vendored JSON library |

### How they interact

One thread, the *runner*, calls `Sdk::Start` and then `Sdk::ResumeTunnel`
again and again.  Each `ResumeTunnel` looks at `SdkState` and, most of the
time, runs one `PollController::PollOnce`: due timers fire, then the events of
one `epoll_wait` are dispatched to handlers.  A readable base connection makes
`TransportManager` decode messages and hand them to
`Session::handleDeserializedMsg`, which calls `Channel` or, through
`SessionEventHandler`, `Sdk`; those call the application back.  Callbacks are
made in the handler, on the stack, and may call the SDK again.

Other threads come in through `Sdk::LockIfDifferentThread`: a semaphore lets
one of them at a time write a byte to a notification connection; the runner
sees it in its poll, releases `lockAccess`, and waits until the caller is done.

### What is hard here

- the two ends of a channel act at the same time and their messages cross: a
  Close and an Accept, a head start and its answer, data and window adjusts;
- credit is kept in four places of two processes (`remoteWindow`,
  `localWindow`, data and adjusts under way), in unsigned integers, and one
  mistake ends the process with an abort;
- the lock of the SDK is handed over in the middle of a poll, and recognises
  the runner by a thread id that callers overwrite;
- handlers of the same `PollOnce` overwrite `SdkState` one after the other,
  and `ResumeTunnel` sees only the last value;
- state that outlives a connection (pending maps, counters, timers, ticks)
  meets a new session after a reconnection;
- writes inside handlers may fail and reset the connection re-entrantly.

What has to be right: a channel delivers its stream in order and completely,
never overruns a window, never starves, and is given up by both ends; nobody
works on a tunnel but the holder of its lock and everybody gets it; a runner
never waits for nothing; a lost tunnel comes back or ends, a stopped one ends.
`PROJECT.json` lists each hazard at its line with the properties for it.

## 2 What is modelled

### Channel, MCChannel and BytePipe: one channel, both ends

`Channel` models the two `Channel` objects of one channel and the two FIFO
directions of the session between them.

| variable | code |
|---|---|
| `state`, `allowWrite`, `remoteWindow`, `localWindow`, `localConsumed`, `recvQueue` | the fields of the same names |
| `registered` | membership in `Session::channels` |
| `closeTimer` | `Session::setupChannelCloseTimeout` is pending |
| `link[e]` | messages sent and not yet handled at end `e` |
| `aborted` | an `ABORT_WITH_MSG` of `Channel.cc` |
| `sent`, `arrived`, `read`, `granted`, `credited`, `eof` | history, for the properties; no guard but the bound on `sent` reads them |

`Connect`, `Accept`, `Close`, `Send`, `Recv` are the public calls (`Reject` is
also what `Close` does before an answer); `RecvEof` is a `Recv` that returns 0.
`HandleNewChannel` … `HandleChannelClose` are the message handlers, with the
routing by `Session::handleDeserializedMsg` and `DropUnregistered` for a
channel that is not in the registry.  `CloseTimeoutTriggered` is the timer.

Abstractions.  A byte is its position in its stream, so a payload is an
interval.  A window adjust carries an interval of the bytes given back, of
which the code sends the length.  Both ends announce `MAX_PACKET` as
`MaxDataSize`, so `remoteMaxPacket` is a constant.  A callback is the last
thing a handler of a channel does, apart from clearing `eventHandler`; the
call the application makes there is the same call made next.  `eventHandler`
itself is left out.  The features negotiated by the two sessions are constants:
`FastConnect` (an initiator may send `MAX_PACKET` bytes before the answer, and
an acceptor registers at once) and `CloseTimeout`, which also needs the session
to have a poll controller; `Sdk::internalConnect` gives it none, so that
`CloseTimeout` is FALSE at the SDK's end.

`BytePipe` says what the application is promised, without windows, messages or
handshake: per direction a pipe of bounded capacity, read in order, whose end
is reported only when all has been read.  `Channel!Pipe` is the refinement
mapping, with `CHANNEL_WINDOW_SIZE` as the capacity.

### SdkLock: threads around one tunnel

One action is one access to what threads share: the semaphore (`permits`), the
mutex (`owner`), `running`, `runningThreadId`, `notificationConn` (`notifier`)
and the bytes in it.  The runner goes through `Start`, `Connect`, `Resume`,
`Poll`, `HandleNotification`, `AwaitHandover`, `LockAgain`, `HandoverDone`;
a caller through `Call`, `TakeTurn`, `CheckNotifier`, `WakeRunner`, `Lock`,
`PassTurn`, `Finish`.  The paths that go wrong are there too: `NotReady` (the
exception that keeps the permit), `NullNotifier` (the connection cleared after
the check), `ResumeThrows` (the runner's `try_lock` fails).  The tunnel is
reduced to what decides about the notification connection, which comes with
the first session: a tunnel whose first connect fails ends, or polls without
one until an attempt succeeds (`Retrying`, `Reconnect`).

### SdkLifecycle: one tunnel from start to end

The runner's loop (`pc`: outside, timers, events), `SdkState`, the session as
far as the client drives it, reconnection, keepalive, and the maps of pending
forwardings.  `PollOnce` is `TimersFired` after any due timers, then at most
`MaxBatch` events, then `PollReturns`; nothing looks at the state in between,
as in the code.  Each `HandleSession…` of `Sdk` is an action, with what it
calls: `Lose` is `releaseBaseConnection` and `reconnectOrStopLoop`,
`Established` the whole tail of `HandleSessionRemoteForwardingSucceeded`.
The server answers requests in any order, fails them, goes silent, disconnects.

Abstractions.  URLs, messages, the web debugger, channels and forwarding ids
are left out.  A second answer to one request is not a behaviour of the server
here.  A failing write appears as the reset event it leads to, except in
`SendKeepAlive`, which a timer makes.  A call inside a callback is the same
call made next, where the callback is the last thing the handler does to the
state.  It is not in three places.  `OnReconnecting` comes before
`internalConnect` and has an alternative of its own in `InitiateReconnection`.
A forwarding requested inside `OnTunnelEstablished` or
`OnReconnectionCompleted` (`sdk/Sdk.cc:463-478`) is asked for, and then asked
for again as an old one by the loop that follows: `AllAgain`, in `Established`.
`OnForwardingsChanged`, whose `Stop` the rest of the handler would overwrite,
is documented "Do not use this callback for now" and left out.
With `autoReconnect` the code reports the first establishment through
`OnReconnectionCompleted` (`sdk/Sdk.cc:464`); callbacks are not modelled.

### Session, over TransportManager and PathRegistry, and Serialization: both ends of a connection

`Session` has the two ends of one session with the two socket directions
between them; `TransportManager`, `PathRegistry` and `Serialization` are the
layers below, as operators on records with the members of the classes.

| variable | code |
|---|---|
| `session[e]` | the members of `Session`: state, features, `sendQueue`, requests, whether it still has a `transportManager` |
| `transport[e]` | the members of `TransportManager`: path registries, sender queue, reader, `endTransport`, whether the connection is open and polled for writing |
| `wire[e]` | units on their way to end `e` |
| `lost` | the network has failed, and reads and writes with it |
| `accepted[e]`, `delivered[e]` | history: messages that `sendMsg` took, messages that were handled |
| `aborted`, `crashed` | an `ABORT_WITH_MSG` or a `.at()` that throws; a call through the null `transportManager` |

A unit stands for a field of the stream: half of the signature, a digit of a
frame's length, the mark of a definition or a value frame, a path definition,
a path id, a literal, the head of an array.  Sockets hold `Capacity` units, so
a write is partial whenever a frame does not fit, and a read takes the bytes
the reader asks for or those that are there.  A message is a tree of named
fields (`PinggyValue`).  `TransportManager` takes its serializer as parameters:
`Serialize` and `Deserialize`, and in `Session` the `Definitions` that an end
may have registered.  `SerializerAssumption` is all that the transport needs of
them: path ids are consecutive, a frame's length can be written, and a receiver
that knows the definitions of a body reads the tree it was made from.
`MCSession` gives them the code's serializer, `Encode` and `Decode` of module
`Serialization`, which are recursive and share nothing but the path definitions
that went over the wire; TLC evaluates the assumption for these two, for every
set of paths that can have been registered and every message.
`AnnouncePaths` puts new definitions into a frame ahead of the message.

`Start`, `SendRemoteForwardRequest`, `SendKeepAlive`, `SendNotice`, `End`,
`Cleanup`, `AnswerAuthentication`, `AnswerForwardRequest` are the calls;
`HandleFDRead` reads one piece and, when a frame is complete, runs
`handleDeserializedMsg` to its end, with what the SDK does in the client's
handlers: among that, it closes the connection when a primary forwarding is
refused or an error is not recoverable; `HandleFDWrite` writes the front of the
sender queue and hands the free buffer to `HandleReadyToSendBuffer`.  A write
that fails resets the connection inside the call that made it, as in the code,
with the rest of that call still to run.

Abstractions.  The messages of channels are in `Channel`; here they would only
be more messages.  Whether an answer refuses a primary forwarding and whether
an error is recoverable are not in the messages: either may be (`fatal`).  The
server is the same class in server mode, and its owner,
which is not in the repository, may call its methods whenever their guards let
it.  Byte order and the width of literals are left out; both ends are of one
kind.  A length has two digits to the base `LengthBase` in the place of two
bytes.

`MessagePipe` is the promise: per direction a FIFO of messages that ends with
Disconnect, delivered at most once and unchanged.  `Session!Pipe` is the
refinement mapping.

### Visitor, over Channel, ChannelConnectionForwarder, PollController and NetworkConnection

`Visitor` follows one visitor from application to application: the channel of
`Channel` with a forwarder and a local socket at either end.  The initiating
end got its connection from a listener (`Sdk::NewVisitor`), the other end asks
for an address and connects (`Sdk::HandleSessionNewChannelRequest`), which may
take several attempts, each with a timer.

| variable | code |
|---|---|
| those of `Channel` | as above |
| `fwd[e]` | a `ChannelConnectionForwarder` with its `NetworkConnection` and the `FdMetaData` of its descriptor |
| `batch[e]` | what the running `PollOnce` has still to handle: messages, socket events, a dummy read |
| `todo[e]` | the second call on the channel that the running handler makes |

The poll set of a batch is fixed when `PollOnce` starts and is stale when its
later events are handled; an event handled earlier in the batch may pause a
descriptor, close it, or replace it by the next connect attempt.  A handler
that makes two calls on its channel (write, then close) takes two steps with
`todo` between them, in which nothing else of that end happens.

Abstractions.  Bytes of the sockets are counted, their order is that of the
channel.  `ResponseToSetAddrInfo` and the filling of the address cache are
reduced to "some address, or none, is cached".  Both copy directions are
allowed from the start: nothing calls `EnableCopy…` or `DisableCopy…`.  What an
application does before its connection is polled is seen once it is.  The close
timer of the channel stays with `Channel` (`VisitorAssumption`).

Two weaknesses of the poll controller are in the model and marked, and the
properties hold except for them: an event that only says a descriptor is
writable takes away its dummy read (`dropped`), so that a held chunk waits
for other traffic; and an event of a closed descriptor goes to the connection
that has its number now (`early`), which passes for connected although the
new attempt is still under way.

### CApi, over SdkConfig and RefTable

`CApi` is the C interface as one program uses it: it makes configurations and
tunnels, edits and reads configurations, starts tunnels, frees references, in
any order and with references that are stale or of the wrong kind.

| variable | code |
|---|---|
| `refs` | `RefTable`: the slots and the queue of free ones |
| `objects` | every object ever made; a tunnel with the permit of its semaphore |
| `held` | the references the program has |
| `raised`, `crashed` | the last call ended in the exception callback; a null pointer was used |

`SdkConfig` holds the settings and the text forms: `SetArguments` and
`GetArguments` with their quirks (a command without its colon is ignored,
"update" and "remove" of a header come back as "add"), and forwardings with
the ways their texts are read: as a list, and if that fails as one address.  A
text is a sequence of symbols of which `:` and `,` separate; the text of the
arguments is its commands, and whether it ends inside a quote or behind a
backslash, for which `ShlexSplitString` throws when the old arguments are gone
already (`sdk/SdkConfig.cc:329-330`).  A forwarding's URL is a small record of
what the parser tells apart; for the IPv6 addresses that it cuts in the wrong
place the record says what number is found there (`found`).  An entry of a
list without a type throws, a call of `AddForwarding` without one means http.
A `Stop` of a tunnel that was never started raises and keeps the permit, as in
`SdkLock`.

Abstractions.  `isAllowed()` is empty in the code, so a started tunnel's
configuration may still be edited; the tunnel works on its own clone.  JSON is
well formed or raises (`SetMalformed`).  The program frees each reference once
and takes `INVALID_PINGGY_REF`, which is 0, for a failure — the first object
has that reference too.  Calls are made one after the other.  References to
channels and `ApiChannelEventHandler` are left out: nothing sets
`appHandlesNewChannel` (`sdk/pinggy.h:365`: "This callback is currently
disabled").

## 3 Runs

| run | instance | checks |
|---|---|---|
| `channel_fast` | window of 4 packets of 2 bytes, stream of 10 + 1 bytes, fast connect, close timeout | `TypeOK`, `NeverAborts`, `CreditCovered`, `NoCreditLeak`, `StreamInOrder`, `EofIsComplete`, `RegistryMatchesState`, and that the channel implements `BytePipe` |
| `channel_live` | window of 6 packets of 1, stream of 7, fast connect, no close timeout | `NoHalfOpen`, `ConnectIsAnswered`, `SenderNeverStarves`, `DataIsDelivered`, `CloseIsAnswered` |
| `channel_half_open` | as before, with the close timeout | `NoLastingHalfOpen`, violated |
| `sdk_lock` | runner and three callers, one call each, a first connect that fails, a stop or loss at any time | `LockTypeOK`, `MutualExclusion` (with the mutex, `running` and `runningThreadId`), `PermitIsHeld`, `CallReturns` |
| `sdk_lock_stale` | one caller, two calls | `NeverTwoInside`, violated |
| `sdk_lock_leak` | two callers, calls before the tunnel is up | `EveryCallGetsItsTurn`, violated |
| `sdk_lifecycle` | two attempts, two primary and two additional forwardings, five keepalives, three events per poll | `LifecycleTypeOK`, `NeverStuck`, `NoProbeWithoutSession`, `KeepAliveMatchesState`, `AnswersAreExpected`, `EstablishedMeansAll`, `LostTunnelRecovers`, `StoppedTunnelEnds` |
| `sdk_lifecycle_stop` | two attempts, one forwarding | `StopIsFinal`, violated |
| `session_wire` | sockets of 12 units, lengths to the base 16, two versions of the server, one request, keepalive or notice, two endings | `SessionTypeOK`, `NeverUnexpected`, `FeaturesAgree`, `EndFlushes`, `CrashWindow`, `MessagesArrive`, and that a session implements `MessagePipe` |
| `visitor` | window of 2 packets of 1 byte, fast connect, two addresses, socket buffers of 1 byte, 3 + 1 bytes written | `NoLostWakeup`, `CloseIsComplete`, `AnswerFitsConnect`, `VisitorIsAnswered` |
| `capi` | a table that starts with 1 slot, three objects, two edits | `RefsResolve`, `ConfigSurvives`, `FailuresAreContained` |
| `capi_default` | the same, one edit | `StartSuppliesServer`, violated |

Deadlock checking is off in all of them: an application may stop calling, and
a channel that is closed or a tunnel that has ended stays so.

What the later runs show, beyond the names:

- `sdk_lifecycle` (970,000 states).  A runner that polls has the timer of the
  next attempt or a connection (`NeverStuck`), with one exception, which the
  property names (`StopUndone`): the stuck runner of section 5.
  Keepalives, their timeouts and request ids stay with their sessions, and a
  loss leads to an attempt that reaches the server or to the end.
- `session_wire` (540,000 states).  However the sockets cut frames, each end
  reads what the other wrote, with paths numbered independently in the two
  directions (`NeverUnexpected`).  Two ends that are past the hello run the
  same version with the same features: a newer server comes down to the
  client's version, and with an older one the SDK gives up (`FeaturesAgree`).  `End` loses nothing (`EndFlushes`), nothing waits for
  ever in a queue (`MessagesArrive`), and the dereference of the transport
  that a failed write has cleared can happen in exactly three places
  (`CrashWindow`): in `Start`, in sending Disconnect, and with a message left
  in the session's queue behind the one that failed.
- `visitor` (1,100,000 states).  Back pressure in either direction always
  leaves the poll, the dummy read or the message that ends it
  (`NoLostWakeup`); a stream that both sides end in good order arrives
  complete, over two sockets, two forwarders and a channel
  (`CloseIsComplete`); a visitor hears "unreachable" only when every address
  has failed (`AnswerFitsConnect`) and hears something in any case
  (`VisitorIsAnswered`).
- `capi` (820,000 states).  Slots used again and a growing table never mix up
  live references (`RefsResolve`); what the getters return can be set again
  without change, for everything that the text form can express
  (`ConfigSurvives`: that excludes header manipulations other than "add",
  values with the separator, empty bearer tokens, and IPv6 addresses of
  forwardings, which come back as something else or not at all); a call that
  raises changes one object at most, and leaves it without forwardings,
  without arguments, or without its permit (`FailuresAreContained`).

### Bounds, and why they are enough

- *Channel.*  The stream is longer than the window, so that credit runs out,
  is given back, and is used again.  Chunks of 1 and 3 with packets of 2 give
  whole, partial and several packets per `Send`; reads of 1 and 2 give partial
  and whole reads of a segment.  `WindowSize` stands for `64 * MAX_PACKET`.
  The safety proofs below need no more than two packets per window.  Liveness
  does need more: with a window of two packets the threshold of `adjustWindow`
  together with the head start that is charged twice leaves a sender without
  room for a full packet, so `channel_live` uses six.
  Channels of a version before 1.0, without the head start, have no run of
  their own: the safety properties are proved for both values of `FastConnect`.
- *SdkLock.*  Three callers put one thread at the semaphore, one at the mutex
  and one inside.  `MaxCalls` is 1 where exclusion holds, and the run with two
  calls shows where it stops holding.
- *SdkLifecycle.*  Two attempts reach a reconnection, a loss after it and the
  end; two primary forwardings tell "some" from "all"; two additional ones are
  requested before and after a loss; five ticks are what the comparison with
  `lastKeepAliveTickReceived + 2` needs to fail; three events per poll put two
  handlers between a `Stop` and the next look at the state.
- *Session.*  Twelve units are less than two messages with their definitions,
  so frames are cut by the socket, also inside a length and inside a
  definition frame.  Base 16 makes some frames need their second digit.  One
  server version is newer than the client knows and one is older, so both
  directions of the negotiation and its failure are there.  Two endings cross:
  both ends call `End`, or the network fails while a Disconnect is queued.
- *Visitor.*  Three bytes against a window of two and a socket buffer of one
  fill every buffer on the way at once and make each of them drain; two
  addresses and an optional cached one give attempts that are followed by
  another and a last one.
- *CApi.*  A table of one slot grows with the second object and again with
  the third while freed slots are queued; two edits set and set again.  The
  texts include an open quote, the lists one without a type, one that is read
  as an address after all, and an empty bearer token.

The proofs cover all values of the constants for the properties they state.

### Fairness

`Channel`: the poll loop handles what has arrived and fires due timers; the
acceptor answers (the SDK accepts or rejects when its local connection succeeds
or fails); a reader reads what there is and closes at end of file, as
`ChannelConnectionForwarder` does.  Nobody has to connect, send or close
otherwise.  `SdkLock`: every thread runs on; no network event and no call has to come,
so a caller's turn depends on the byte it writes.
`SdkLifecycle`: the application resumes the tunnel, a poll returns, and the
reconnection timer fires when due — strong fairness, because it can fire only
in the timer phase of a poll, which comes again and again.  Nothing is assumed
of the server.  `Session`: each end's poll loop calls the handler of a
connection that is readable or writable and polled for it; nobody has to call
anything.  `Visitor`: the loop of the accepting end polls, goes through its
batch, and its timers fire; applications, the kernel's answer to a connect and
the other end owe nothing.  In these two the weak fairness is written with the
guards of the actions in the place of ENABLED, which says the same because each
action changes something whenever its guard holds.  `CApi` has safety
properties only.

## 4 Proofs

All are checked by TLAPS, from the assumptions named in the modules
(`ChannelAssumption`: packets are not empty and a window holds at least two;
`LockAssumption`: the runner is not among the callers; `LifecycleAssumption`:
the constants have their types and there is a primary forwarding;
`RefTableAssumption`: a new table has a slot; `TransportAssumption`: sockets
hold something and a digit has two values; `SessionAssumption`: versions and
bounds are numbers; `SerializerAssumption`, see section 2).

**ChannelProofs**, for all window and packet sizes, features, chunk and read
sizes and stream lengths:

| theorem | shows |
|---|---|
| `FlowInvariant` | the inductive invariant of flow control |
| `TypeCorrect` | `TypeOK`; every window stays within `0 .. WindowSize`, so no unsigned subtraction wraps |
| `NoAbort` | `NeverAborts` |
| `CreditIsCovered` | `CreditCovered` |
| `LedgerHolds` | `LocalLedger`: a receiver accounts for its whole window (not checked by a run) |
| `RegistryHolds` | `RegistryMatchesState` |

`CreditCovered` is not inductive: what is lost when a data message reaches a
closed channel, and what a message on the link carries, has to be known.
`FlowInv` therefore says (a) that each window is a function of positions in the
streams, (b) that the segments on a link are increasing, disjoint parts of the
stream between what has arrived and what was sent, likewise for adjusts between
what was credited and what was granted, and (c) which control messages can be
on a link in which state, so that a set-up answer is handled at most once.
Lemmas about ascending message sequences carry most of the weight; one lemma
per action then shows that the action keeps `FlowInv`.

Also there: `NoHalfOpenChannel`, which is `NoHalfOpen` without the
close timeout, for all values.  Its invariant follows the messages of set-up
and close: whoever has a Close under way is Closing or Closed, or was rejected
by a peer that knows it; a rejection under way means that the acceptor has
rejected; an end in CloseResponding has a peer that is leaving.  One lemma
(`EndStep`) reduces every action to the rules by which an end changes its
state and sends.  Flow control enters only through the types of `FlowInv`.

**SdkLockProofs**: `ExclusionOfFirstCalls`, mutual exclusion for any number of
threads that each call once, with the bookkeeping of the lock.  A thread owns
the mutex exactly at the places of `Holding`, and an id in `runningThreadId`
belongs to a thread that has called.  The run `sdk_lock_stale` shows why "once"
cannot be dropped.  `PermitOfCallers`: if nobody calls before the tunnel is up,
the one permit is free or in the hands of one thread, however often threads
call; `sdk_lock_leak` shows why that condition cannot be dropped.
`LockTypes` has no condition.

**SdkLifecycleProofs**: `LifecycleInvariant` and, from it, `LifecycleTypes`,
`RunnerNeverStuck`, `ProbesFindTheirSession`, `KeepAlivesFollowState`,
`AnswersRecognised`, `EstablishedHasAll`.  Handlers overwrite the state without
looking at it; what saves keepalives is that they exist only with an
authenticated session (`ProbesHaveSession`), and what saves request ids, which
start anew with each session, is that a session under authentication has asked
for nothing (`AsksWhenAuthenticated`).  It follows too that an additional
forwarding is only ever requested of an authenticated session, where
`SendRemoteForwardRequest` would abort otherwise.  `RunnerNeverStuck` has the
exception of a `Stop` that was undone (`StopUndone`): without it the formula is
false of the code, section 5.

**ChannelStreamProofs**: `StreamIsInOrder`, `EofComesLast` and `ChannelIsPipe`,
the step refinement of `BytePipe`.  `StreamInOrder` speaks of the queue of a
reader, and what is put there depends on the link: the data on a link must
*cover* every byte from what has arrived to what was sent (`Covers`), with
nothing behind a Close (`NoDataBehindClose`); since the segments ascend, each
then begins where the one before it ends.  That data are not dropped on the way needs more than
flow control: `WriteInv` says who may still send in which state, and
`HandshakeInv` that the request is the first message to the acceptor and the
answer the first one to the initiator.  `ChannelInv` is
the conjunction of all parts with those of `ChannelProofs`.  In the
refinement `Send` and `Recv` are the two steps of a pipe, a Close or its timer
ends a direction, and every other action leaves the pipes alone.

Also there: `NoCreditIsLost`.  The bytes on a link (`OnLink`) are a
sum over a link of any length, a recursive function of its positions.  What it
computes is proved from its definition alone: TLA+ takes some function that
fits the recursive definition, so it has to be shown that one exists
(`SumsExist`, from short sums to longer ones) and that all that fit agree; the
sum is then followed as a message is appended and as the first is taken away.

**SessionStreamProofs** and **SessionProofs**, for every capacity of the
sockets, base of the lengths, versions of the server, number of calls and
endings, and serializer as assumed: all that `session_wire` checks but
`MessagesArrive`.

| theorem | shows |
|---|---|
| `StreamsInStep` | `FlowInv`, the inductive invariant of the two streams |
| `SessionTypes` | `SessionTypeOK` |
| `SessionIsPipe` | the steps of a session are steps of `MessagePipe` |
| `EndTransportFlushes` | `EndFlushes` |
| `CrashOnlyInWindow` | `CrashWindow` |
| `Conversation` | `ProtocolInv`, the invariant of the conversation, with `FlowInv` |
| `NothingUnexpected` | `NeverUnexpected` |
| `VersionsAgree` | `FeaturesAgree` |

What is between two ends is a sequence of *pieces*: the signature, the length of
a frame, a definition frame, a value frame (`Piece`).  A `Position` is where a
stream is: which piece comes next, which definitions have been announced, which
messages are through.  What has been announced is always a first part of what
the sender has registered (`RegistryOK`).  `Leads(from, s, to)` says that the units `s` take a
stream from one position to another in whole pieces, and `FlowInv` that what the
reader has in `recvRaw`, what is on the wire and what waits in the sender's queue
together lead from the reader's position to the writer's (`LinkInv`), while the
messages accepted are those at the writer's position and those in the session's
queue (`OutOK`).  A partial write moves units from one part to the next and
changes nothing; a read that completes a piece moves the reader's position by
that piece, since a piece at the front of such a stream is determined by the
position (`LeadsFirst`).  `SessionStreamProofs` has the algebra of pieces and what
`SendTree`, `WriteFront` and `ReadUnits` do to them; `SessionProofs` shows that
each handler and method has an `Effect` on its end that keeps `FlowInv`, failing
writes and resets inside the call included.

`NeverUnexpected` then is about the order of the conversation, which only the
states of both ends together keep.  `ProtocolInv` says what the state of an end
tells about what it has heard and told: a client beyond `ClientHelloSent` has
heard a ServerHello whose version is not older than its own; a client that has
asked for a forwarding has been authenticated and waits for the answer or has
heard it; a server has told of success only when it is authenticated; and so on.
An end sends one hello, and it sends that first; each once-only message is in its
stream once (`GreetInv`).  With what `FlowInv` says, that heard is a prefix of
told, every message finds its receiver in the state the handler expects
(`AllExpected`).  The server's application answers one authentication once: that
guard of `AnswerAuthentication`, which is not of this repository, is needed.

**VisitorProofs**: `VisitorUsesChannel` says that a visitor only does what
`Channel` allows, so that every theorem about the channel holds with a
forwarder at either end.  `WakeUpsAreKept`, `CloseLosesNothing` and
`AnswerIsRight` are the three invariants that the run checks.  `VisitorInv` has
a conjunct for each end, which only the steps of that end can disturb, and
`Delivered`, which relates the two ends:

- `PhaseInv`: how far the forwarder is, its channel and its handlers go
  together; nothing is polled before both sides are connected;
- `WakeInv`: the property, and what the poll controller has still in hand.  A
  chunk that does not fit is held without a poll for reading; what calls the
  forwarder again may be a dummy read of this batch, a dummy read for the next
  one, or a message.  The property alone is not inductive, because an event of
  the batch may take the dummy read with it, unless the invariant says which
  events can still follow;
- `ConnectInv`: each address is still to be tried, is being tried, or is among
  those that failed;
- `BytesInv`: what was written into a socket is in its buffer, in the chunk
  held, or in the channel; likewise on the other side;
- `Delivered`: an end closed by its channel has seen the end of the stream, and
  with `EofComesLast` that is everything.

**CApiProofs**: `ReferencesResolve`, for every size of the table, any number of
objects and any settings.  The invariant says that the slots of the free queue
are different, inside the table and empty, and that the references the program
holds fill all the others, but for slot 0; growing a table then only adds
slots that are in neither.  `ObjectsAreTyped` adds `ClassInv`: an object is a
configuration whose arguments the setters can make (`Args`) and whose
forwardings come out of `Parse`, or a tunnel that points to such a
configuration.  From it follow `FailuresContained`, which looks at one call
that raises, and `SettingsComeBack`, which looks at all texts: the commands `GetArguments` writes are taken in by
`SetArguments` one after the other, and after each group of them the settings
are those of the original restricted to the groups so far (`Said`).  Under it
lie what the folds of the community modules compute for every sequence
(`FoldLeft`, `FlattenSeq`), that `SplitAll` undoes `JoinString` on texts without
separator, and that `SetToSeq` lists a set once.

The library's induction theorems cannot be used here, since they take an
operator as a parameter.  In their place an induction goes to the least
element of a set of natural numbers for which the claim fails, where such a set
is named for each claim.

From which assumptions: for a visitor also `ForwarderAssumption` (a chunk is
not empty), `NetworkConnectionAssumption` (socket buffers and addresses are
counted) and `VisitorAssumption` (a chunk is no larger than a packet, as the
two constants of the code are, the lengths of `Channel` contain those that a
forwarder uses, and there is no close timer, as in the SDK); for the C
interface `CApiAssumption` (JSON and the caller give texts, records of texts
and ports that are numbers), which only says what types the inputs have.

Model-checked only, and why:

- that the code's serializer is one that `SerializerAssumption` describes:
  `Encode` and `Decode` are recursive operators over trees, which the prover
  cannot use; TLC evaluates the assumption on the instance of `session_wire`;
- all liveness properties, which need fairness and ENABLED;
- the five properties that runs refute.

## 5 Disagreements found

- **A Close before the Accept is ignored** (`channel_half_open`).
  `protocol/Channel.cc:464` expects a Close "when it is connected or closing",
  but `Close()` also sends it from Connecting.  Handled in Connect_Responding
  it is dropped; the acceptor then accepts and stays connected to a channel its
  peer closes by timeout.
- **A second call of a thread may skip the lock** (`sdk_lock_stale`).
  `sdk/Sdk.cc:251` says of the thread id "it will never be same unless they are
  really same".  `releaseAccessLock` leaves the caller's id in
  `runningThreadId` until the runner writes its own; a second call of that
  thread in between takes itself for the runner.
- **A call before the tunnel is up keeps the semaphore** (`sdk_lock_leak`).
  `sdk/pinggy.h:1206` allows a call "from a different thread"; when there is no
  notification connection the exception leaves without `Notify()`, and every
  later caller waits for ever.
- **Stop is undone by an event of the same poll** (`sdk_lifecycle_stop`).
  `sdk/pinggy.h:1204` says "Stops the running tunnel." and the life-cycle diagram
  (`sdk_life_cycle.excalidraw.png`) leads from Stopped to Ended only;
  `reconnectOrStopLoop` and `HandleSessionAuthenticatedAsClient` set the state
  whatever it was, and the tunnel reconnects.
- **The default server address is never supplied** (`capi_default`).  `sdk/pinggy.h:446` says "By default, the server
  address is set to "a.pinggy.io:443"".  `Sdk::Start` clones the configuration
  (`sdk/Sdk.cc:136`) before `validate()` would set that default, and `clone()`
  calls a method of the address, which is null (`sdk/SdkConfig.cc:266`).

A `Stop` that is undone can also leave a runner that neither serves nor
returns, although `sdk/pinggy.h:1162` says of `pinggy_tunnel_start` "Starts and
serves the tunnel, blocking indefinitely until stopped."  Stop is called while
Authenticating and its Disconnect is still queued; the answer to the
authentication, in the same poll, sets ForwardingInitiated
(`sdk/Sdk.cc:396-410`); when Disconnect is written the transport closes the
connection without a word to the session
(`protocol/transport/TransportManager.cc:368-371`).  The runner then polls with
neither a connection to the server nor a timer until somebody calls again.
This is the state `StopUndone` that `NeverStuck` excepts.  It has no run of its
own, as `sdk_lifecycle_stop` shows its cause; put `NeverStuck` without
`\/ StopUndone` into that run to see it.

The model also reaches, without a promise in the repository to hold against it:
an abort ("Received multiple primary forwarding") when a forwarding is answered
after `Stop` in the same poll, a count of attempts that goes on over separate losses
(`reconnectCounter` is never reset), a `SetArguments` that raises and leaves
the other arguments wiped, a notification connection cleared between a
caller's check and its write, a `ResumeTunnel` that throws "Unable to grab
mutex." when the runner's id is still in place and a caller holds the lock,
the null transport of `CrashWindow`, and the two weaknesses of the poll
controller described in section 2.

## 6 Limits

Not modelled, and why:

- `Channel::cleanup` (the whole session is gone, both ends with it) and
  `handleChannelError` (a callback only; no code sends the message);
- several channels of one session and the reuse of channel ids: channels share
  nothing but the registry; ids wrap at 0x3fff (`protocol/Session.cc:325`), so
  that one is used again after about 8,000 channels;
- the product of `SdkLock` and `SdkLifecycle` (a caller that meets a tunnel
  stopped while it waited): beyond the bounds of one run;
- calls of the C interface from several threads, among them `RefTable::GetObj`,
  which reads the table without its lock: what a racing read returns is
  undefined, so that a model of it would allow everything;
- a failing `PollOnce`, which stops the tunnel like a `Stop` does;
- the queue of timers and immediate tasks of the poll controller, and
  descriptors that cannot be polled;
- the blocking connect, the filling of the address cache;
- byte order and widths in the serializer, the older `Deserializer::Parse`;
- the thread pool, which only the TLS listener uses, and the SDK opens none;
- the settings that are only stored and handed on, with their setters and
  getters, the registration of callbacks, and the copying of a string into the
  caller's buffer, in the C interface: a large part of its lines, without a
  state that another part depends on;
- the generic poller and the one for macOS, which agree with the one
  for Linux in what is modelled;
- the in-memory connection and the web debugger it carries, TLS, UDP, platform
  wrappers, logging: I/O and data without a protocol of their own;
- the channel wrapper (no code hands a channel to it), the command line client;
- vendored and generated code.

## 7 Plan

Done: `Channel` with `BytePipe`, `SdkLock`, `SdkLifecycle`, `Session` over the
transport with `MessagePipe`, `Visitor` over forwarder, poll controller and
connection, `CApi` over configuration and reference table, and their proofs.

Left, in order of use:

1. several channels with their ids, and `Session::Cleanup` reaching them;
2. the timer queue of the poll controller (a task disarmed while it fires);
3. the life cycle together with the lock, in a smaller instance.
