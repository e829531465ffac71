---------------------------- MODULE SdkLifecycle -----------------------------
(***************************************************************************)
(* The life of one tunnel: connecting, hello, authentication, primary and  *)
(* additional forwardings, keepalives, losing the connection, reconnecting *)
(* and stopping.  Source: src/src/sdk/Sdk.cc, with what it uses of         *)
(* Session.cc and of one pass of PollController::PollOnce.                 *)
(*                                                                         *)
(* One thread runs the tunnel.  PollOnce first fires the timers that are   *)
(* due and then handles the events epoll_wait returned, at most MaxBatch of*)
(* them; only then ResumeTunnel looks at the state again.  A call from     *)
(* another thread is such an event too (module SdkLock), or comes between  *)
(* two polls.  The server answers what it was asked, in any order, may go  *)
(* silent, and may end the tunnel at any time.                             *)
(*                                                                         *)
(* Left out: URLs and messages, the web debugger, channels, the ids of     *)
(* forwardings, and a write that fails, which shows as the reset event,    *)
(* except for keepalives, whose write is made by a timer.                  *)
(***************************************************************************)
EXTENDS Integers, Sequences

CONSTANTS
  AutoReconnect,   \* SDKConfig::autoReconnect
  MaxAttempts,     \* SDKConfig::maxReconnectAttempts, 0 for no limit
  Forwardings,     \* how many primary forwardings the configuration lists
  MaxAdditional,   \* bound: additional forwardings the application requests
  MaxTicks,        \* bound: keepalives sent in one session
  MaxBatch         \* bound: events of one PollOnce

ASSUME LifecycleAssumption ==
  /\ AutoReconnect \in BOOLEAN
  /\ MaxAttempts \in Nat
  /\ Forwardings \in Nat \ {0}
  /\ MaxAdditional \in Nat
  /\ MaxTicks \in Nat
  /\ MaxBatch \in Nat

VARIABLES
  state,             \* Sdk::state
  reconnectMode,     \* Sdk::reconnectMode
  reconnectCounter,  \* Sdk::reconnectCounter
  reconnectTimer,    \* initiateReconnection is scheduled
  wired,             \* the base connection is open and polled
  session,           \* Session::state, "None" without a session
  endSent,           \* Session::endSent
  lastReq,           \* requests for forwarding made in this session
  asked,             \* those the server has to answer yet
  pending,           \* keys of pendingRemoteForwardingRequestMap
  awaiting,          \* pendingAdditionalRemoteForwardingMap
  requests,          \* additionalForwardings: is the forwarding new?
  notifier,          \* notificationConn is there
  keepAlive,         \* keepAliveTask is armed
  tick,              \* Session::keepAliveSentTick
  checked,           \* ticks whose keepAliveTimeout has fired
  lastTick,          \* Sdk::lastKeepAliveTickReceived
  active,            \* Session::incomingActivities
  pc,                \* where the runner is
  budget,            \* events left in this PollOnce
  aborted            \* an ABORT_WITH_MSG was reached

reconnection == <<reconnectMode, reconnectCounter, reconnectTimer>>
server == <<session, endSent, lastReq, asked>>
forwardings == <<pending, awaiting, requests>>
probing == <<tick, checked, lastTick, active>>
loop == <<pc, budget>>
vars == <<state, reconnection, wired, server, forwardings, notifier, keepAlive,
          probing, loop, aborted>>

Primary == 1 .. Forwardings
WithServer == {"SessionInitiating", "SessionInitiated", "Authenticating", "Authenticated",
               "ForwardingInitiated", "ForwardingSucceeded"}
SdkStates == {"Initial", "Started", "ReconnectInitiated", "Reconnecting", "Connecting",
              "Connected", "Stopped", "Ended"} \cup WithServer
SessionStates == {"None", "ClientHelloSent", "AuthenticationRequestSent",
                  "AuthenticatedAsClient", "AuthenticationFailed"}

Init ==
  /\ state = "Initial"
  /\ reconnectMode = FALSE
  /\ reconnectCounter = 0
  /\ reconnectTimer = FALSE
  /\ wired = FALSE
  /\ session = "None"
  /\ endSent = FALSE
  /\ lastReq = 0
  /\ asked = {}
  /\ pending = {}
  /\ awaiting = <<>>
  /\ requests = <<>>
  /\ notifier = FALSE
  /\ keepAlive = FALSE
  /\ tick = 0
  /\ checked = 0
  /\ lastTick = 0
  /\ active = FALSE
  /\ pc = "start"
  /\ budget = 0
  /\ aborted = FALSE
-----------------------------------------------------------------------------
(* Pieces of handlers. *)

AfterLoss(reconnects) == IF reconnects THEN "ReconnectInitiated" ELSE "Stopped"

\* Mutant: the keepalive task is not disarmed.
LoseKeepsTask ==
  /\ wired' = FALSE
  /\ state' = AfterLoss(reconnectMode)
  /\ UNCHANGED keepAlive

\* releaseBaseConnection and reconnectOrStopLoop.
Lose ==
  /\ wired' = FALSE
  /\ keepAlive' = FALSE
  /\ state' = AfterLoss(reconnectMode)

\* internalConnect.  The notification connection outlives the session.
InternalConnect(reconnects) ==
  \/ /\ state' = "SessionInitiating"
     /\ wired' = TRUE
     /\ session' = "ClientHelloSent"
     /\ endSent' = FALSE
     /\ lastReq' = 0
     /\ asked' = {}
     /\ notifier' = TRUE
  \/ /\ state' = AfterLoss(reconnects)
     /\ UNCHANGED <<wired, server, notifier>>

\* The ids of the next n requests of this session.
NextIds(n) == lastReq + 1 .. lastReq + n

\* SendRemoteForwardRequest for n more forwardings, with these ones answered: once
\* Disconnect is sent, the session takes no message any more.
Request(answered, n) ==
  /\ lastReq' = lastReq + n
  /\ asked' = (asked \ answered) \cup IF endSent THEN {} ELSE NextIds(n)

\* Mutant: the entry of the next forwarding.
AwaitedNext(list) ==
  [r \in NextIds(Len(list)) \cup DOMAIN awaiting |->
     IF r \in NextIds(Len(list)) THEN list[r - lastReq] + 1 ELSE awaiting[r]]

\* The additional forwardings of this list are requested now, one after the
\* other.  Entries of an earlier session stay in the map.
Awaited(list) ==
  [r \in NextIds(Len(list)) \cup DOMAIN awaiting |->
     IF r \in NextIds(Len(list)) THEN list[r - lastReq] ELSE awaiting[r]]
-----------------------------------------------------------------------------
(* The runner: Start, then ResumeTunnel again and again. *)

Start ==
  /\ pc = "start"
  /\ pc' = "out"
  /\ reconnectMode' = AutoReconnect
  /\ InternalConnect(AutoReconnect)
  /\ UNCHANGED <<reconnectCounter, reconnectTimer, forwardings, keepAlive, probing, budget, aborted>>

\* Mutant: the cleaned-up tunnel stays stopped.
EndForgotten == UNCHANGED state
End == state' = "Ended"

Cleanup ==
  /\ pc = "out"
  /\ state = "Stopped"
  /\ End
  /\ keepAlive' = FALSE
  /\ session' = "None"
  /\ notifier' = FALSE
  /\ wired' = FALSE
  /\ checked' = tick
  /\ UNCHANGED <<reconnection, endSent, lastReq, asked, forwardings, tick, lastTick, active,
                 loop, aborted>>

GiveUp ==
  /\ pc = "out"
  /\ state = "ReconnectInitiated"
  /\ MaxAttempts # 0
  /\ reconnectCounter >= MaxAttempts
  /\ state' = "Stopped"
  /\ reconnectMode' = FALSE
  /\ UNCHANGED <<reconnectCounter, reconnectTimer, wired, server, forwardings, notifier,
                 keepAlive, probing, loop, aborted>>

\* Mutant: the timers of the old poll controller live on.
TimersStay == session' = "None" /\ wired' = FALSE /\ UNCHANGED <<tick, checked, active>>

\* The old session and, with the old poll controller, all timers go.
OldSessionGoes ==
  /\ session' = "None"
  /\ wired' = FALSE
  /\ tick' = 0
  /\ checked' = 0
  /\ active' = FALSE

\* Mutants: attempts are not counted; the timer is not set.
UncountedAttempt == reconnectTimer' = TRUE /\ UNCHANGED reconnectCounter
UnscheduledAttempt == reconnectCounter' = reconnectCounter + 1 /\ UNCHANGED reconnectTimer

NextAttempt == reconnectCounter' = reconnectCounter + 1 /\ reconnectTimer' = TRUE

CleanupForReconnection ==
  /\ pc = "out"
  /\ state = "ReconnectInitiated"
  /\ MaxAttempts = 0 \/ reconnectCounter < MaxAttempts
  /\ state' = "Reconnecting"
  /\ OldSessionGoes
  /\ NextAttempt
  /\ UNCHANGED <<reconnectMode, endSent, lastReq, asked, forwardings, notifier, keepAlive,
                 lastTick, loop, aborted>>

Poll ==
  /\ pc = "out"
  /\ state \notin {"ReconnectInitiated", "Stopped", "Ended"}
  /\ pc' = "timers"
  /\ UNCHANGED <<state, reconnection, wired, server, forwardings, notifier, keepAlive,
                 probing, budget, aborted>>

TimersFired ==
  /\ pc = "timers"
  /\ pc' = "events"
  /\ budget' = MaxBatch
  /\ UNCHANGED <<state, reconnection, wired, server, forwardings, notifier, keepAlive, probing, aborted>>

PollReturns ==
  /\ pc = "events"
  /\ pc' = "out"
  /\ budget' = 0
  /\ UNCHANGED <<state, reconnection, wired, server, forwardings, notifier, keepAlive, probing, aborted>>
-----------------------------------------------------------------------------
(* Timers. *)

\* The application may stop the tunnel in OnReconnecting, and internalConnect
\* then returns at once.
InitiateReconnection ==
  /\ pc = "timers"
  /\ reconnectTimer
  /\ reconnectTimer' = FALSE
  /\ \/ state = "Reconnecting" /\ InternalConnect(reconnectMode)
     \/ state' = "Stopped" /\ UNCHANGED <<wired, server, notifier>>
  /\ UNCHANGED <<reconnectMode, reconnectCounter, forwardings, keepAlive, probing, loop, aborted>>

\* A keepalive, and a look four seconds later at what came back.
SendKeepAlive ==
  /\ pc = "timers"
  /\ keepAlive
  /\ tick < MaxTicks
  /\ tick' = tick + 1
  /\ \/ UNCHANGED <<state, wired, keepAlive>>
     \/ wired /\ ~endSent /\ Lose
  /\ UNCHANGED <<reconnection, server, forwardings, notifier, checked, lastTick, active, loop, aborted>>

KeepAliveTimeout ==
  /\ pc = "timers"
  /\ checked < tick
  /\ checked' = checked + 1
  /\ IF checked > lastTick + 2 /\ ~active
     THEN Lose /\ UNCHANGED active
     ELSE active' = FALSE /\ UNCHANGED <<state, wired, keepAlive>>
  /\ UNCHANGED <<reconnection, server, forwardings, notifier, tick, lastTick, loop, aborted>>
-----------------------------------------------------------------------------
(* Events of a poll: messages of the server, the end of the connection. *)

Event == pc = "events" /\ budget > 0 /\ budget' = budget - 1 /\ UNCHANGED pc
Message == Event /\ wired /\ active' = TRUE /\ UNCHANGED <<tick, checked, lastTick>>

\* The server is too old for this SDK, or authentication starts.
HandleSessionInitiated ==
  /\ Message
  /\ session = "ClientHelloSent"
  /\ \/ /\ state # "SessionInitiating"
        /\ UNCHANGED <<state, session, wired, keepAlive>>
     \/ /\ state = "SessionInitiating"
        /\ state' = "Authenticating"
        /\ session' = "AuthenticationRequestSent"
        /\ UNCHANGED <<wired, keepAlive>>
     \/ /\ state = "SessionInitiating"
        /\ Lose
        /\ UNCHANGED session
  /\ UNCHANGED <<reconnection, endSent, lastReq, asked, forwardings, notifier, aborted>>

\* Whatever the state was: the code does not look at it.
HandleAuthenticatedAsClient ==
  /\ Message
  /\ session = "AuthenticationRequestSent"
  /\ session' = "AuthenticatedAsClient"
  /\ state' = "ForwardingInitiated"
  /\ Request({}, Forwardings)
  /\ pending' = Primary
  /\ UNCHANGED <<reconnection, wired, endSent, awaiting, requests, notifier, keepAlive, aborted>>

HandleAuthenticationFailed ==
  /\ Message
  /\ session = "AuthenticationRequestSent"
  /\ session' = "AuthenticationFailed"
  /\ Lose
  /\ UNCHANGED <<reconnection, endSent, lastReq, asked, forwardings, notifier, aborted>>

\* What is requested when the tunnel is up: the new forwardings for which the
\* application asks in OnTunnelEstablished or OnReconnectionCompleted, then
\* every additional forwarding, the new ones once more.
AllAgain(old, new) ==
  [i \in 1 .. old + 2 * new |-> IF i <= new THEN old + i ELSE i - new]

\* Mutant: the forwardings of before are requested, but not waited for.
EstablishedUnawaited(r) ==
  /\ state' = "ForwardingSucceeded"
  /\ keepAlive' = TRUE
  /\ \E new \in 0 .. MaxAdditional - Len(requests) :
       /\ Request({r}, Len(requests) + 2 * new)
       /\ requests' = [i \in 1 .. Len(requests) + new |-> FALSE]
  /\ UNCHANGED awaiting

Established(r) ==
  /\ state' = "ForwardingSucceeded"
  /\ keepAlive' = TRUE
  /\ \E new \in 0 .. MaxAdditional - Len(requests) :
       /\ Request({r}, Len(requests) + 2 * new)
       /\ requests' = [i \in 1 .. Len(requests) + new |-> FALSE]
       /\ awaiting' = Awaited(AllAgain(Len(requests), new))

\* Mutant: the first answer counts for all of them.
FirstSucceeded(r) == pending' = pending \ {r} /\ Established(r)

\* Once all primary forwardings are up, keepalives start and the additional
\* forwardings of before are requested again, as old ones.
PrimarySucceeded(r) ==
  /\ pending' = pending \ {r}
  /\ \/ pending' = {} /\ Established(r)
     \/ /\ pending' # {}
        /\ Request({r}, 0)
        /\ UNCHANGED <<state, keepAlive, requests, awaiting>>

AdditionalAnswered(r) ==
  /\ awaiting' = [q \in DOMAIN awaiting \ {r} |-> awaiting[q]]
  /\ Request({r}, 0)
  /\ UNCHANGED <<state, wired, keepAlive, pending, requests>>

PrimaryAgain(r) ==
  /\ r \in pending
  /\ state \in {"ForwardingSucceeded", "Stopped"}
  /\ aborted' = TRUE
  /\ UNCHANGED <<state, wired, keepAlive, lastReq, asked, forwardings>>

HandleRemoteForwardingSucceeded ==
  /\ Message
  /\ \E r \in asked :
       \/ PrimaryAgain(r)
       \/ /\ r \in pending
          /\ state \notin {"ForwardingSucceeded", "Stopped"}
          /\ PrimarySucceeded(r)
          /\ UNCHANGED <<wired, aborted>>
       \/ r \in DOMAIN awaiting \ pending /\ AdditionalAnswered(r) /\ UNCHANGED aborted
  /\ UNCHANGED <<reconnection, session, endSent, notifier>>

\* pending keeps the request that failed.
HandleRemoteForwardingFailed ==
  /\ Message
  /\ \E r \in asked :
       \/ PrimaryAgain(r)
       \/ /\ r \in pending
          /\ state \notin {"ForwardingSucceeded", "Stopped"}
          /\ Lose
          /\ Request({r}, 0)
          /\ UNCHANGED <<forwardings, aborted>>
       \/ r \in DOMAIN awaiting \ pending /\ AdditionalAnswered(r) /\ UNCHANGED aborted
  /\ UNCHANGED <<reconnection, session, endSent, notifier>>

HandleKeepAliveResponse ==
  /\ Event
  /\ wired
  /\ \E t \in 0 .. tick - 1 : lastTick' = t
  /\ active' = TRUE
  /\ UNCHANGED <<state, reconnection, wired, server, forwardings, notifier, keepAlive, tick,
                 checked, aborted>>

\* A keepalive of the server, a new channel, data, usages, a warning.
HandleOtherMessage ==
  /\ Message
  /\ UNCHANGED <<state, reconnection, wired, server, forwardings, notifier, keepAlive, aborted>>

\* HandleSessionDisconnection, HandleSessionConnectionReset, HandleSessionError
\* of an error that is not recoverable.
ConnectionLost ==
  /\ Event
  /\ wired
  /\ Lose
  /\ UNCHANGED <<reconnection, server, forwardings, notifier, probing, aborted>>

\* TransportManager::HandleFDWrite: the last byte after Disconnect is out and
\* the connection is closed, without a word to the session.
EndDrained ==
  /\ Event
  /\ wired
  /\ endSent
  /\ wired' = FALSE
  /\ UNCHANGED <<state, reconnection, server, forwardings, notifier, keepAlive, probing, aborted>>
-----------------------------------------------------------------------------
(* Calls of the application, from a callback, from another thread to which *)
(* the polling runner hands over, or between two polls.  One from inside a *)
(* callback acts like the same call made right after the handler, but for  *)
(* forwardings requested while the tunnel is being established (AllAgain). *)

\* Between two polls the thread of the runner needs no notification connection.
CallPossible ==
  \/ notifier /\ Event
  \/ pc = "out" /\ UNCHANGED loop

\* Session::End sends Disconnect; the connection is closed at once unless
\* something is still queued for it.
Stop ==
  /\ CallPossible
  /\ state \notin {"Stopped", "Ended"}
  /\ state' = "Stopped"
  /\ \/ /\ state \in WithServer \ {"SessionInitiating"}
        /\ ~endSent
        /\ endSent' = TRUE
        /\ wired' \in {FALSE, wired}
     \/ /\ state \notin WithServer \ {"SessionInitiating"} \/ endSent
        /\ UNCHANGED <<endSent, wired>>
  /\ UNCHANGED <<reconnection, session, lastReq, asked, forwardings, notifier, keepAlive,
                 probing, aborted>>

RequestAdditionalForwarding ==
  /\ CallPossible
  /\ state = "ForwardingSucceeded"
  /\ Len(requests) < MaxAdditional
  /\ requests' = Append(requests, TRUE)
  /\ awaiting' = Awaited(<<Len(requests) + 1>>)
  /\ Request({}, 1)
  /\ UNCHANGED <<state, reconnection, wired, session, endSent, pending, notifier, keepAlive,
                 probing, aborted>>
-----------------------------------------------------------------------------
Runner ==
  \/ Start \/ Cleanup \/ GiveUp \/ CleanupForReconnection
  \/ Poll \/ TimersFired \/ PollReturns

Timers == InitiateReconnection \/ SendKeepAlive \/ KeepAliveTimeout

Events ==
  \/ HandleSessionInitiated \/ HandleAuthenticatedAsClient \/ HandleAuthenticationFailed
  \/ HandleRemoteForwardingSucceeded \/ HandleRemoteForwardingFailed
  \/ HandleKeepAliveResponse \/ HandleOtherMessage \/ ConnectionLost \/ EndDrained

\* An abort ends the process.
Next == ~aborted /\ (Runner \/ Timers \/ Events \/ Stop \/ RequestAdditionalForwarding)

Spec == Init /\ [][Next]_vars

\* The application resumes the tunnel as long as it may; a poll returns; the
\* reconnection timer is due some time, and due timers fire before the events
\* of a poll.  Nothing is assumed of the server or of the callers.
FairSpec ==
  /\ Spec
  /\ WF_vars(~aborted /\ Runner)
  /\ SF_vars(~aborted /\ InitiateReconnection)
-----------------------------------------------------------------------------
LifecycleTypeOK ==
  /\ state \in SdkStates
  /\ reconnectMode \in BOOLEAN
  /\ reconnectCounter \in Nat
  /\ reconnectTimer \in BOOLEAN
  /\ wired \in BOOLEAN
  /\ session \in SessionStates
  /\ endSent \in BOOLEAN
  /\ lastReq \in Nat
  /\ asked \subseteq 1 .. lastReq
  /\ pending \subseteq Primary
  /\ awaiting \in [DOMAIN awaiting -> DOMAIN requests]
  /\ requests \in Seq(BOOLEAN)
  /\ notifier \in BOOLEAN
  /\ keepAlive \in BOOLEAN
  /\ tick \in 0 .. MaxTicks
  /\ checked \in 0 .. tick
  /\ lastTick \in 0 .. MaxTicks
  /\ active \in BOOLEAN
  /\ pc \in {"start", "out", "timers", "events"}
  /\ budget \in 0 .. MaxBatch
  /\ aborted \in BOOLEAN

\* A Stop that is undone: Disconnect was sent, and an event of the same poll,
\* the answer to the authentication, overwrote the state (Sdk.cc:396-410).
StopUndone == endSent /\ state = "ForwardingInitiated" /\ asked = {}

\* When the runner waits it waits for something: for the timer of the next
\* attempt, or for the server on a connection that is polled.  A tunnel that
\* misses its wake-up would sit in PollOnce for ever.  There is one exception:
\* after a Stop that was undone the connection is closed as soon as Disconnect
\* is written (TransportManager.cc:368-371), and only another call ends the wait.
NeverStuck ==
  pc = "out" =>
    /\ state = "Reconnecting" => reconnectTimer
    /\ state \in WithServer => wired \/ StopUndone

\* keepAliveTimeout uses the session without asking whether there is one: no
\* such timer survives its session, although the timers fire long after a
\* connection was lost and another one made.
NoProbeWithoutSession == keepAlive \/ checked < tick => session # "None"

\* Keepalives are sent exactly while the tunnel is up; only Stop leaves them
\* to the cleanup.
KeepAliveMatchesState ==
  /\ state = "ForwardingSucceeded" => keepAlive
  /\ keepAlive => state \in {"ForwardingSucceeded", "Stopped"}

\* Whatever the server still has to answer, the answer will be recognised,
\* over all reconnections, which reuse the request ids.
AnswersAreExpected == asked \subseteq pending \cup DOMAIN awaiting

\* The tunnel counts as established when every primary forwarding is up.
EstablishedMeansAll == state = "ForwardingSucceeded" => pending = {}

\* A lost connection leads to another attempt that reaches the server, or to
\* the end of the tunnel.
LostTunnelRecovers ==
  state = "ReconnectInitiated" ~> state \in {"SessionInitiating", "Ended"}

\* A tunnel that is stopped when a poll is over comes to its end.
StoppedTunnelEnds == pc = "out" /\ state = "Stopped" ~> state = "Ended"

\* pinggy.h:1204, Stop "Stops the running tunnel": what is stopped is not
\* started again.
StopIsFinal == [][state = "Stopped" => state' \in {"Stopped", "Ended"}]_vars
=============================================================================
