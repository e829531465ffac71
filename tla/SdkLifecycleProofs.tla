------------------------- MODULE SdkLifecycleProofs -------------------------
(***************************************************************************)
(* The safety properties of the life of a tunnel, for every configuration: *)
(* with and without reconnection, any number of attempts, forwardings,     *)
(* keepalives and events per poll.                                         *)
(*                                                                         *)
(* The properties hold each other up.  That a handler may overwrite the    *)
(* state at any time is harmless for keepalives because they exist only    *)
(* with an authenticated session, whose server sends no second answer to   *)
(* the authentication; and that request ids start anew is harmless because *)
(* a session that is not authenticated yet has asked for nothing.          *)
(***************************************************************************)
EXTENDS SdkLifecycle, TLAPS

\* A session under authentication has asked for no forwarding.
AsksWhenAuthenticated ==
  /\ asked # {} /\ session # "None" => session = "AuthenticatedAsClient"
  /\ session \in {"ClientHelloSent", "AuthenticationRequestSent"} => lastReq = 0

\* Keepalives and the timers behind them need the session they belong to.
ProbesHaveSession ==
  /\ wired => session # "None"
  /\ keepAlive => session = "AuthenticatedAsClient"
  /\ checked < tick => session # "None"

\* NeverStuck at every place of the loop, and the start of it.
AlwaysAwaited ==
  /\ pc = "start" => state = "Initial"
  /\ state = "Reconnecting" => reconnectTimer
  /\ state \in WithServer => wired \/ StopUndone

\* A connection is polled for a tunnel that uses it or is stopped; and the one
\* way to use it after Disconnect is the Stop that was undone.
ConnectionMatchesState ==
  /\ wired => state \in WithServer \cup {"Stopped"}
  /\ endSent /\ state \in WithServer => StopUndone

\* The type invariant in two parts.
ControlTypes ==
  /\ state \in SdkStates
  /\ reconnectMode \in BOOLEAN
  /\ reconnectTimer \in BOOLEAN
  /\ wired \in BOOLEAN
  /\ session \in SessionStates
  /\ endSent \in BOOLEAN
  /\ notifier \in BOOLEAN
  /\ keepAlive \in BOOLEAN
  /\ active \in BOOLEAN
  /\ pc \in {"start", "out", "timers", "events"}
  /\ aborted \in BOOLEAN

DataTypes ==
  /\ reconnectCounter \in Nat
  /\ lastReq \in Nat
  /\ asked \subseteq 1 .. lastReq
  /\ pending \subseteq Primary
  /\ awaiting \in [DOMAIN awaiting -> DOMAIN requests]
  /\ requests \in Seq(BOOLEAN)
  /\ tick \in 0 .. MaxTicks
  /\ checked \in 0 .. tick
  /\ lastTick \in 0 .. MaxTicks
  /\ budget \in 0 .. MaxBatch

LifecycleInv ==
  /\ ControlTypes
  /\ DataTypes
  /\ AsksWhenAuthenticated
  /\ ProbesHaveSession
  /\ AlwaysAwaited
  /\ ConnectionMatchesState
  /\ KeepAliveMatchesState
  /\ AnswersAreExpected
  /\ EstablishedMeansAll

\* What requesting a list of additional forwardings adds to the map: entries
\* for the next request ids, each of a forwarding of the list.
LEMMA AwaitedEntries ==
  ASSUME DataTypes, NEW n \in Nat, NEW list, list \in Seq(1 .. n), Len(requests) <= n
  PROVE  /\ Awaited(list) \in [DOMAIN Awaited(list) -> 1 .. n]
         /\ DOMAIN Awaited(list) = NextIds(Len(list)) \cup DOMAIN awaiting
  <1>1. \A r \in NextIds(Len(list)) : list[r - lastReq] \in 1 .. n
    BY SMTT(30) DEF DataTypes, NextIds
  <1>2. \A r \in DOMAIN awaiting : awaiting[r] \in 1 .. n
    BY DEF DataTypes
  <1> QED
    BY <1>1, <1>2 DEF Awaited

\* The list of an established tunnel has the old and the new forwardings.
LEMMA AllAgainList ==
  ASSUME NEW old \in Nat, NEW new \in Nat
  PROVE  /\ AllAgain(old, new) \in Seq(1 .. old + new)
         /\ Len(AllAgain(old, new)) = old + 2 * new
  BY DEF AllAgain

\* InternalConnect of a tunnel without keepalives.
LEMMA ConnectKeepsInv ==
  ASSUME LifecycleInv, ~keepAlive, ~wired, NEW reconnects \in BOOLEAN, InternalConnect(reconnects),
         UNCHANGED <<forwardings, keepAlive, probing, budget, aborted>>,
         reconnectMode' \in BOOLEAN, reconnectCounter' \in Nat, reconnectTimer' \in BOOLEAN,
         pc' \in {"out", "timers"}
  PROVE  LifecycleInv'
  <1> USE DEF LifecycleInv, ControlTypes, DataTypes, forwardings, probing, server, AfterLoss, SdkStates,
              WithServer, SessionStates
  <1>1. CASE state' = "SessionInitiating" /\ wired' = TRUE /\ session' = "ClientHelloSent"
             /\ endSent' = FALSE /\ lastReq' = 0 /\ asked' = {} /\ notifier' = TRUE
    <2>1. ControlTypes' /\ DataTypes'
      BY <1>1
    <2> QED
      BY <1>1, <2>1 DEF AsksWhenAuthenticated, ProbesHaveSession, AlwaysAwaited,
         ConnectionMatchesState, StopUndone, KeepAliveMatchesState, AnswersAreExpected, EstablishedMeansAll
  <1>2. CASE state' = AfterLoss(reconnects) /\ UNCHANGED <<wired, server, notifier>>
    <2>1. ControlTypes' /\ DataTypes'
      BY <1>2
    <2> QED
      BY <1>2, <2>1 DEF AsksWhenAuthenticated, ProbesHaveSession, AlwaysAwaited,
         ConnectionMatchesState, StopUndone, KeepAliveMatchesState, AnswersAreExpected, EstablishedMeansAll
  <1> QED
    BY <1>1, <1>2 DEF InternalConnect

\* The steps of ResumeTunnel keep the invariant.
LEMMA RunnerKeepsInv == LifecycleInv /\ Runner => LifecycleInv'
  <1> SUFFICES ASSUME LifecycleInv, Runner PROVE LifecycleInv'
    OBVIOUS
  <1>1. CASE Start
    <2>1. ~keepAlive /\ ~wired
      BY <1>1 DEF Start, LifecycleInv, AlwaysAwaited, ConnectionMatchesState,
         KeepAliveMatchesState, WithServer
    <2> QED
      BY <1>1, <2>1, LifecycleAssumption, ConnectKeepsInv
         DEF Start, LifecycleInv, ControlTypes, DataTypes
  <1> USE LifecycleAssumption
      DEF LifecycleInv, AsksWhenAuthenticated, ProbesHaveSession, AlwaysAwaited,
          ConnectionMatchesState, StopUndone, KeepAliveMatchesState, AnswersAreExpected, EstablishedMeansAll,
          reconnection, server, forwardings, probing, loop
  <1>2. CASE Cleanup
    <2>1. ControlTypes'
      BY <1>2 DEF ControlTypes, SdkStates, WithServer, SessionStates, Cleanup, End
    <2>2. DataTypes'
      BY <1>2 DEF DataTypes, Cleanup, End
    <2>3. AsksWhenAuthenticated' /\ ProbesHaveSession'
      BY <1>2 DEF DataTypes, Cleanup, End
    <2>4. AlwaysAwaited' /\ ConnectionMatchesState'
      BY <1>2 DEF WithServer, Cleanup, End
    <2>5. KeepAliveMatchesState' /\ AnswersAreExpected' /\ EstablishedMeansAll'
      BY <1>2 DEF WithServer, Cleanup, End
    <2> QED
      BY <2>1, <2>2, <2>3, <2>4, <2>5
  <1>3. CASE GiveUp
    <2>1. ControlTypes'
      BY <1>3 DEF ControlTypes, SdkStates, WithServer, SessionStates, GiveUp
    <2>2. DataTypes'
      BY <1>3 DEF DataTypes, GiveUp
    <2>3. AsksWhenAuthenticated' /\ ProbesHaveSession'
      BY <1>3 DEF DataTypes, GiveUp
    <2>4. AlwaysAwaited' /\ ConnectionMatchesState'
      BY <1>3 DEF WithServer, GiveUp
    <2>5. KeepAliveMatchesState' /\ AnswersAreExpected' /\ EstablishedMeansAll'
      BY <1>3 DEF WithServer, GiveUp
    <2> QED
      BY <2>1, <2>2, <2>3, <2>4, <2>5
  <1>4. CASE CleanupForReconnection
    <2>1. ControlTypes'
      BY <1>4 DEF ControlTypes, SdkStates, WithServer, SessionStates, CleanupForReconnection,
                  OldSessionGoes, NextAttempt
    <2>2. DataTypes'
      BY <1>4 DEF DataTypes, CleanupForReconnection, OldSessionGoes, NextAttempt
    <2>3. AsksWhenAuthenticated' /\ ProbesHaveSession'
      BY <1>4 DEF DataTypes, CleanupForReconnection, OldSessionGoes, NextAttempt
    <2>4. AlwaysAwaited' /\ ConnectionMatchesState'
      BY <1>4 DEF WithServer, CleanupForReconnection, OldSessionGoes, NextAttempt
    <2>5. KeepAliveMatchesState' /\ AnswersAreExpected' /\ EstablishedMeansAll'
      BY <1>4 DEF WithServer, CleanupForReconnection, OldSessionGoes, NextAttempt
    <2> QED
      BY <2>1, <2>2, <2>3, <2>4, <2>5
  <1>5. CASE Poll
    <2>1. ControlTypes'
      BY <1>5 DEF ControlTypes, SdkStates, WithServer, SessionStates, Poll
    <2>2. DataTypes'
      BY <1>5 DEF DataTypes, Poll
    <2>3. AsksWhenAuthenticated' /\ ProbesHaveSession'
      BY <1>5 DEF DataTypes, Poll
    <2>4. AlwaysAwaited' /\ ConnectionMatchesState'
      BY <1>5 DEF WithServer, Poll
    <2>5. KeepAliveMatchesState' /\ AnswersAreExpected' /\ EstablishedMeansAll'
      BY <1>5 DEF WithServer, Poll
    <2> QED
      BY <2>1, <2>2, <2>3, <2>4, <2>5
  <1>6. CASE TimersFired
    <2>1. ControlTypes'
      BY <1>6 DEF ControlTypes, SdkStates, WithServer, SessionStates, TimersFired
    <2>2. DataTypes'
      BY <1>6 DEF DataTypes, TimersFired
    <2>3. AsksWhenAuthenticated' /\ ProbesHaveSession'
      BY <1>6 DEF DataTypes, TimersFired
    <2>4. AlwaysAwaited' /\ ConnectionMatchesState'
      BY <1>6 DEF WithServer, TimersFired
    <2>5. KeepAliveMatchesState' /\ AnswersAreExpected' /\ EstablishedMeansAll'
      BY <1>6 DEF WithServer, TimersFired
    <2> QED
      BY <2>1, <2>2, <2>3, <2>4, <2>5
  <1>7. CASE PollReturns
    <2>1. ControlTypes'
      BY <1>7 DEF ControlTypes, SdkStates, WithServer, SessionStates, PollReturns
    <2>2. DataTypes'
      BY <1>7 DEF DataTypes, PollReturns
    <2>3. AsksWhenAuthenticated' /\ ProbesHaveSession'
      BY <1>7 DEF DataTypes, PollReturns
    <2>4. AlwaysAwaited' /\ ConnectionMatchesState'
      BY <1>7 DEF WithServer, PollReturns
    <2>5. KeepAliveMatchesState' /\ AnswersAreExpected' /\ EstablishedMeansAll'
      BY <1>7 DEF WithServer, PollReturns
    <2> QED
      BY <2>1, <2>2, <2>3, <2>4, <2>5
  <1> QED
    BY <1>1, <1>2, <1>3, <1>4, <1>5, <1>6, <1>7 DEF Runner

\* The timers keep the invariant.
LEMMA TimersKeepInv == LifecycleInv /\ Timers => LifecycleInv'
  <1> SUFFICES ASSUME LifecycleInv, Timers PROVE LifecycleInv'
    OBVIOUS
  <1> USE LifecycleAssumption
      DEF LifecycleInv, AsksWhenAuthenticated, ProbesHaveSession, AlwaysAwaited,
          ConnectionMatchesState, StopUndone, KeepAliveMatchesState, AnswersAreExpected, EstablishedMeansAll,
          reconnection, server, forwardings, probing, loop
  <1>1. CASE InitiateReconnection /\ state = "Reconnecting" /\ InternalConnect(reconnectMode)
    <2>1. ~keepAlive /\ ~wired
      BY <1>1 DEF WithServer
    <2> QED
      BY <1>1, <2>1, ConnectKeepsInv DEF InitiateReconnection, ControlTypes, DataTypes
  <1>2. CASE InitiateReconnection /\ state' = "Stopped" /\ UNCHANGED <<wired, server, notifier>>
    <2>1. ControlTypes'
      BY <1>2 DEF ControlTypes, SdkStates, WithServer, SessionStates, InitiateReconnection
    <2>2. DataTypes'
      BY <1>2 DEF DataTypes, InitiateReconnection
    <2>3. AsksWhenAuthenticated' /\ ProbesHaveSession'
      BY <1>2 DEF DataTypes, InitiateReconnection
    <2>4. AlwaysAwaited' /\ ConnectionMatchesState'
      BY <1>2 DEF WithServer, InitiateReconnection
    <2>5. KeepAliveMatchesState' /\ AnswersAreExpected' /\ EstablishedMeansAll'
      BY <1>2 DEF WithServer, InitiateReconnection
    <2> QED
      BY <2>1, <2>2, <2>3, <2>4, <2>5
  <1>3. CASE SendKeepAlive /\ UNCHANGED <<state, wired, keepAlive>>
    <2>1. ControlTypes'
      BY <1>3 DEF ControlTypes, SdkStates, WithServer, SessionStates, SendKeepAlive
    <2>2. DataTypes'
      BY <1>3 DEF DataTypes, SendKeepAlive
    <2>3. AsksWhenAuthenticated' /\ ProbesHaveSession'
      BY <1>3 DEF DataTypes, SendKeepAlive
    <2>4. AlwaysAwaited' /\ ConnectionMatchesState'
      BY <1>3 DEF WithServer, SendKeepAlive
    <2>5. KeepAliveMatchesState' /\ AnswersAreExpected' /\ EstablishedMeansAll'
      BY <1>3 DEF WithServer, SendKeepAlive
    <2> QED
      BY <2>1, <2>2, <2>3, <2>4, <2>5
  <1>4. CASE SendKeepAlive /\ Lose
    <2>1. ControlTypes'
      BY <1>4 DEF ControlTypes, SdkStates, WithServer, SessionStates, SendKeepAlive, Lose,
                  AfterLoss
    <2>2. DataTypes'
      BY <1>4 DEF DataTypes, SendKeepAlive, Lose, AfterLoss
    <2>3. AsksWhenAuthenticated' /\ ProbesHaveSession'
      BY <1>4 DEF DataTypes, SendKeepAlive, Lose, AfterLoss
    <2>4. AlwaysAwaited' /\ ConnectionMatchesState'
      BY <1>4 DEF WithServer, SendKeepAlive, Lose, AfterLoss
    <2>5. KeepAliveMatchesState' /\ AnswersAreExpected' /\ EstablishedMeansAll'
      BY <1>4 DEF WithServer, SendKeepAlive, Lose, AfterLoss
    <2> QED
      BY <2>1, <2>2, <2>3, <2>4, <2>5
  <1>5. CASE KeepAliveTimeout /\ checked > lastTick + 2 /\ ~active
    <2>1. ControlTypes'
      BY <1>5 DEF ControlTypes, SdkStates, WithServer, SessionStates, KeepAliveTimeout, Lose,
                  AfterLoss
    <2>2. DataTypes'
      <3>1. /\ tick' \in 0 .. MaxTicks /\ checked' \in 0 .. tick'
            /\ lastTick' \in 0 .. MaxTicks /\ budget' \in 0 .. MaxBatch
        BY <1>5 DEF DataTypes, KeepAliveTimeout, loop
      <3>2. UNCHANGED <<reconnectCounter, lastReq, asked, pending, awaiting, requests>>
        BY <1>5 DEF KeepAliveTimeout, Lose, reconnection, server, forwardings
      <3> QED
        BY <3>1, <3>2 DEF DataTypes
    <2>3. AsksWhenAuthenticated' /\ ProbesHaveSession'
      BY <1>5 DEF DataTypes, KeepAliveTimeout, Lose, AfterLoss
    <2>4. AlwaysAwaited' /\ ConnectionMatchesState'
      BY <1>5 DEF WithServer, KeepAliveTimeout, Lose, AfterLoss
    <2>5. KeepAliveMatchesState' /\ AnswersAreExpected' /\ EstablishedMeansAll'
      BY <1>5 DEF WithServer, KeepAliveTimeout, Lose, AfterLoss
    <2> QED
      BY <2>1, <2>2, <2>3, <2>4, <2>5
  <1>6. CASE KeepAliveTimeout /\ ~(checked > lastTick + 2 /\ ~active)
    <2>1. ControlTypes'
      <3>1. /\ UNCHANGED <<state, wired, keepAlive, reconnectMode, reconnectTimer>>
            /\ UNCHANGED <<session, endSent, notifier, pc, aborted>>
        BY <1>6 DEF KeepAliveTimeout, reconnection, server, loop
      <3>2. active' = FALSE
        BY <1>6 DEF KeepAliveTimeout
      <3> QED
        BY <3>1, <3>2 DEF ControlTypes
    <2>2. DataTypes'
      <3>1. /\ tick' \in 0 .. MaxTicks /\ checked' \in 0 .. tick'
            /\ lastTick' \in 0 .. MaxTicks /\ budget' \in 0 .. MaxBatch
        BY <1>6 DEF DataTypes, KeepAliveTimeout, loop
      <3>2. UNCHANGED <<reconnectCounter, lastReq, asked, pending, awaiting, requests>>
        BY <1>6 DEF KeepAliveTimeout, reconnection, server, forwardings
      <3> QED
        BY <3>1, <3>2 DEF DataTypes
    <2>3. AsksWhenAuthenticated' /\ ProbesHaveSession'
      BY <1>6 DEF DataTypes, KeepAliveTimeout
    <2>4. AlwaysAwaited' /\ ConnectionMatchesState'
      BY <1>6 DEF WithServer, KeepAliveTimeout
    <2>5. KeepAliveMatchesState' /\ AnswersAreExpected' /\ EstablishedMeansAll'
      BY <1>6 DEF WithServer, KeepAliveTimeout
    <2> QED
      BY <2>1, <2>2, <2>3, <2>4, <2>5
  <1> QED
    BY <1>1, <1>2, <1>3, <1>4, <1>5, <1>6 DEF Timers, SendKeepAlive, InitiateReconnection

\* So do the messages of hello and authentication.
LEMMA SessionEventsKeepInv == LifecycleInv /\ (HandleSessionInitiated \/ HandleAuthenticatedAsClient \/ HandleAuthenticationFailed) => LifecycleInv'
  <1> SUFFICES ASSUME LifecycleInv, HandleSessionInitiated \/ HandleAuthenticatedAsClient \/ HandleAuthenticationFailed PROVE LifecycleInv'
    OBVIOUS
  <1> USE LifecycleAssumption
      DEF LifecycleInv, AsksWhenAuthenticated, ProbesHaveSession, AlwaysAwaited,
          ConnectionMatchesState, StopUndone, KeepAliveMatchesState, AnswersAreExpected, EstablishedMeansAll,
          reconnection, server, forwardings, probing, loop
  <1>1. CASE HandleSessionInitiated /\ UNCHANGED <<state, session, wired, keepAlive>>
    <2>1. ControlTypes'
      BY <1>1 DEF ControlTypes, SdkStates, WithServer, SessionStates, HandleSessionInitiated,
                  Message, Event
    <2>2. DataTypes'
      BY <1>1 DEF DataTypes, HandleSessionInitiated, Message, Event
    <2>3. AsksWhenAuthenticated' /\ ProbesHaveSession'
      BY <1>1 DEF DataTypes, HandleSessionInitiated, Message, Event
    <2>4. AlwaysAwaited' /\ ConnectionMatchesState'
      BY <1>1 DEF WithServer, HandleSessionInitiated, Message, Event
    <2>5. KeepAliveMatchesState' /\ AnswersAreExpected' /\ EstablishedMeansAll'
      BY <1>1 DEF WithServer, HandleSessionInitiated, Message, Event
    <2> QED
      BY <2>1, <2>2, <2>3, <2>4, <2>5
  <1>2. CASE HandleSessionInitiated /\ state' = "Authenticating" /\ UNCHANGED <<wired, keepAlive>>
             /\ session' = "AuthenticationRequestSent"
    <2>1. ControlTypes'
      BY <1>2 DEF ControlTypes, SdkStates, WithServer, SessionStates, HandleSessionInitiated,
                  Message, Event
    <2>2. DataTypes'
      BY <1>2 DEF DataTypes, HandleSessionInitiated, Message, Event
    <2>3. AsksWhenAuthenticated' /\ ProbesHaveSession'
      BY <1>2 DEF DataTypes, HandleSessionInitiated, Message, Event
    <2>4. AlwaysAwaited' /\ ConnectionMatchesState'
      BY <1>2 DEF WithServer, HandleSessionInitiated, Message, Event
    <2>5. KeepAliveMatchesState' /\ AnswersAreExpected' /\ EstablishedMeansAll'
      BY <1>2 DEF WithServer, HandleSessionInitiated, Message, Event
    <2> QED
      BY <2>1, <2>2, <2>3, <2>4, <2>5
  <1>3. CASE HandleSessionInitiated /\ Lose
    <2>1. ControlTypes'
      BY <1>3 DEF ControlTypes, SdkStates, WithServer, SessionStates, HandleSessionInitiated,
                  Message, Event, Lose, AfterLoss
    <2>2. DataTypes'
      BY <1>3 DEF DataTypes, HandleSessionInitiated, Message, Event, Lose, AfterLoss
    <2>3. AsksWhenAuthenticated' /\ ProbesHaveSession'
      BY <1>3 DEF DataTypes, HandleSessionInitiated, Message, Event, Lose, AfterLoss
    <2>4. AlwaysAwaited' /\ ConnectionMatchesState'
      BY <1>3 DEF WithServer, HandleSessionInitiated, Message, Event, Lose, AfterLoss
    <2>5. KeepAliveMatchesState' /\ AnswersAreExpected' /\ EstablishedMeansAll'
      BY <1>3 DEF WithServer, HandleSessionInitiated, Message, Event, Lose, AfterLoss
    <2> QED
      BY <2>1, <2>2, <2>3, <2>4, <2>5
  <1>4. CASE HandleAuthenticatedAsClient
    <2>1. ControlTypes'
      BY <1>4 DEF ControlTypes, SdkStates, WithServer, SessionStates,
                  HandleAuthenticatedAsClient, Request, NextIds, Primary, Message, Event
    <2>2. DataTypes'
      BY <1>4 DEF DataTypes, HandleAuthenticatedAsClient, Request, NextIds, Primary, Message,
                  Event
    <2>3. AsksWhenAuthenticated' /\ ProbesHaveSession'
      BY <1>4 DEF DataTypes, HandleAuthenticatedAsClient, Request, NextIds, Primary, Message,
                  Event
    <2>4. AlwaysAwaited' /\ ConnectionMatchesState'
      BY <1>4 DEF WithServer, HandleAuthenticatedAsClient, Request, NextIds, Primary, Message,
                  Event
    <2>5. KeepAliveMatchesState' /\ AnswersAreExpected' /\ EstablishedMeansAll'
      BY <1>4 DEF WithServer, HandleAuthenticatedAsClient, Request, NextIds, Primary, Message,
                  Event
    <2> QED
      BY <2>1, <2>2, <2>3, <2>4, <2>5
  <1>5. CASE HandleAuthenticationFailed
    <2>1. ControlTypes'
      BY <1>5 DEF ControlTypes, SdkStates, WithServer, SessionStates,
                  HandleAuthenticationFailed, Message, Event, Lose, AfterLoss
    <2>2. DataTypes'
      BY <1>5 DEF DataTypes, HandleAuthenticationFailed, Message, Event, Lose, AfterLoss
    <2>3. AsksWhenAuthenticated' /\ ProbesHaveSession'
      BY <1>5 DEF DataTypes, HandleAuthenticationFailed, Message, Event, Lose, AfterLoss
    <2>4. AlwaysAwaited' /\ ConnectionMatchesState'
      BY <1>5 DEF WithServer, HandleAuthenticationFailed, Message, Event, Lose, AfterLoss
    <2>5. KeepAliveMatchesState' /\ AnswersAreExpected' /\ EstablishedMeansAll'
      BY <1>5 DEF WithServer, HandleAuthenticationFailed, Message, Event, Lose, AfterLoss
    <2> QED
      BY <2>1, <2>2, <2>3, <2>4, <2>5
  <1> QED
    BY <1>1, <1>2, <1>3, <1>4, <1>5 DEF HandleSessionInitiated

\* So do keepalives, other messages and the end of the connection.
LEMMA OtherEventsKeepInv == LifecycleInv /\ (HandleKeepAliveResponse \/ HandleOtherMessage \/ ConnectionLost \/ EndDrained) => LifecycleInv'
  <1> SUFFICES ASSUME LifecycleInv, HandleKeepAliveResponse \/ HandleOtherMessage \/ ConnectionLost \/ EndDrained PROVE LifecycleInv'
    OBVIOUS
  <1> USE LifecycleAssumption
      DEF LifecycleInv, AsksWhenAuthenticated, ProbesHaveSession, AlwaysAwaited,
          ConnectionMatchesState, StopUndone, KeepAliveMatchesState, AnswersAreExpected, EstablishedMeansAll,
          reconnection, server, forwardings, probing, loop
  <1>1. CASE HandleKeepAliveResponse
    <2>1. ControlTypes'
      BY <1>1 DEF ControlTypes, SdkStates, WithServer, SessionStates, HandleKeepAliveResponse,
                  Message, Event
    <2>2. DataTypes'
      BY SMTT(30), <1>1 DEF DataTypes, HandleKeepAliveResponse, Message, Event
    <2>3. AsksWhenAuthenticated' /\ ProbesHaveSession'
      BY <1>1 DEF DataTypes, HandleKeepAliveResponse, Message, Event
    <2>4. AlwaysAwaited' /\ ConnectionMatchesState'
      BY <1>1 DEF WithServer, HandleKeepAliveResponse, Message, Event
    <2>5. KeepAliveMatchesState' /\ AnswersAreExpected' /\ EstablishedMeansAll'
      BY <1>1 DEF WithServer, HandleKeepAliveResponse, Message, Event
    <2> QED
      BY <2>1, <2>2, <2>3, <2>4, <2>5
  <1>2. CASE HandleOtherMessage
    <2>1. ControlTypes'
      BY <1>2 DEF ControlTypes, SdkStates, WithServer, SessionStates, HandleOtherMessage,
                  Message, Event
    <2>2. DataTypes'
      BY <1>2 DEF DataTypes, HandleOtherMessage, Message, Event
    <2>3. AsksWhenAuthenticated' /\ ProbesHaveSession'
      BY <1>2 DEF DataTypes, HandleOtherMessage, Message, Event
    <2>4. AlwaysAwaited' /\ ConnectionMatchesState'
      BY <1>2 DEF WithServer, HandleOtherMessage, Message, Event
    <2>5. KeepAliveMatchesState' /\ AnswersAreExpected' /\ EstablishedMeansAll'
      BY <1>2 DEF WithServer, HandleOtherMessage, Message, Event
    <2> QED
      BY <2>1, <2>2, <2>3, <2>4, <2>5
  <1>3. CASE ConnectionLost
    <2>1. ControlTypes'
      BY <1>3 DEF ControlTypes, SdkStates, WithServer, SessionStates, ConnectionLost, Event,
                  Lose, AfterLoss
    <2>2. DataTypes'
      BY <1>3 DEF DataTypes, ConnectionLost, Event, Lose, AfterLoss
    <2>3. AsksWhenAuthenticated' /\ ProbesHaveSession'
      BY <1>3 DEF DataTypes, ConnectionLost, Event, Lose, AfterLoss
    <2>4. AlwaysAwaited' /\ ConnectionMatchesState'
      BY <1>3 DEF WithServer, ConnectionLost, Event, Lose, AfterLoss
    <2>5. KeepAliveMatchesState' /\ AnswersAreExpected' /\ EstablishedMeansAll'
      BY <1>3 DEF WithServer, ConnectionLost, Event, Lose, AfterLoss
    <2> QED
      BY <2>1, <2>2, <2>3, <2>4, <2>5
  <1>4. CASE EndDrained
    <2>1. ControlTypes'
      BY <1>4 DEF ControlTypes, SdkStates, WithServer, SessionStates, EndDrained, Event
    <2>2. DataTypes'
      BY <1>4 DEF DataTypes, EndDrained, Event
    <2>3. AsksWhenAuthenticated' /\ ProbesHaveSession'
      BY <1>4 DEF DataTypes, EndDrained, Event
    <2>4. AlwaysAwaited' /\ ConnectionMatchesState'
      BY <1>4 DEF WithServer, EndDrained, Event
    <2>5. KeepAliveMatchesState' /\ AnswersAreExpected' /\ EstablishedMeansAll'
      BY <1>4 DEF WithServer, EndDrained, Event
    <2> QED
      BY <2>1, <2>2, <2>3, <2>4, <2>5
  <1> QED
    BY <1>1, <1>2, <1>3, <1>4

\* An answer alone makes no new request.
LEMMA AnswerTaken ==
  ASSUME DataTypes, NEW r, Request({r}, 0)
  PROVE  lastReq' = lastReq /\ asked' = asked \ {r}
  BY DEF DataTypes, Request, NextIds

\* So do the answers to requests for forwardings.
LEMMA AnswersKeepInv ==
  LifecycleInv /\ (HandleRemoteForwardingSucceeded \/ HandleRemoteForwardingFailed)
    => LifecycleInv'
  <1> SUFFICES ASSUME LifecycleInv,
                      HandleRemoteForwardingSucceeded \/ HandleRemoteForwardingFailed
               PROVE  LifecycleInv'
    OBVIOUS
  <1> USE LifecycleAssumption
      DEF LifecycleInv, AsksWhenAuthenticated, ProbesHaveSession, AlwaysAwaited,
          ConnectionMatchesState, StopUndone, KeepAliveMatchesState, AnswersAreExpected, EstablishedMeansAll,
          reconnection, server, forwardings, probing, loop
  <1> DEFINE NotUp == state \notin {"ForwardingSucceeded", "Stopped"}
  <1>1. /\ Message /\ UNCHANGED <<reconnection, session, endSent, notifier>>
        /\ \E r \in asked :
             \/ PrimaryAgain(r)
             \/ /\ r \in pending /\ NotUp /\ PrimarySucceeded(r) /\ UNCHANGED <<wired, aborted>>
             \/ /\ r \in pending /\ Lose /\ Request({r}, 0) /\ UNCHANGED <<forwardings, aborted>>
             \/ r \in DOMAIN awaiting \ pending /\ AdditionalAnswered(r) /\ UNCHANGED aborted
    BY DEF HandleRemoteForwardingSucceeded, HandleRemoteForwardingFailed
  <1>2. session = "AuthenticatedAsClient"
    BY <1>1 DEF Message
  <1>3. PICK r \in asked :
          \/ PrimaryAgain(r)
          \/ /\ r \in pending /\ NotUp /\ PrimarySucceeded(r) /\ UNCHANGED <<wired, aborted>>
          \/ /\ r \in pending /\ Lose /\ Request({r}, 0) /\ UNCHANGED <<forwardings, aborted>>
          \/ r \in DOMAIN awaiting \ pending /\ AdditionalAnswered(r) /\ UNCHANGED aborted
    BY <1>1
  <1>4. CASE PrimaryAgain(r)
    <2>1. UNCHANGED <<lastReq, asked, forwardings>>
      BY <1>4 DEF PrimaryAgain
    <2>2. ControlTypes'
      BY <1>1, <1>4 DEF ControlTypes, SdkStates, WithServer, PrimaryAgain, Message, Event
    <2>3. DataTypes'
      BY SMTT(30), <1>1, <1>4, <2>1 DEF DataTypes, PrimaryAgain, Message, Event
    <2>4. AsksWhenAuthenticated' /\ ProbesHaveSession'
      BY <1>1, <1>2, <1>4, <2>1 DEF PrimaryAgain, Message, Event
    <2>5. /\ AlwaysAwaited' /\ ConnectionMatchesState'
          /\ KeepAliveMatchesState' /\ EstablishedMeansAll'
      BY <1>1, <1>4 DEF WithServer, PrimaryAgain, Message, Event
    <2>6. AnswersAreExpected'
      BY <1>4, <2>1 DEF PrimaryAgain, Message, Event
    <2> QED
      BY <2>2, <2>3, <2>4, <2>5, <2>6
  <1>5. CASE Lose /\ Request({r}, 0) /\ r \in pending /\ UNCHANGED <<forwardings, aborted>>
    <2>1. lastReq' = lastReq /\ asked' = asked \ {r}
      BY <1>5, AnswerTaken
    <2>2. ControlTypes'
      BY <1>1, <1>5 DEF ControlTypes, SdkStates, WithServer, Message, Event, Lose, AfterLoss
    <2>3. DataTypes'
      BY SMTT(30), <1>1, <1>5, <2>1 DEF DataTypes, Message, Event, Lose, AfterLoss
    <2>4. AsksWhenAuthenticated' /\ ProbesHaveSession'
      BY <1>1, <1>2, <1>5, <2>1 DEF Message, Event, Lose, AfterLoss
    <2>5. /\ AlwaysAwaited' /\ ConnectionMatchesState'
          /\ KeepAliveMatchesState' /\ EstablishedMeansAll'
      BY <1>1, <1>5 DEF WithServer, Message, Event, Lose, AfterLoss
    <2>6. AnswersAreExpected'
      BY <1>5, <2>1 DEF Message, Event, Lose, AfterLoss
    <2> QED
      BY <2>2, <2>3, <2>4, <2>5, <2>6
  <1>6. CASE /\ pending' = pending \ {r} /\ pending' # {} /\ Request({r}, 0)
             /\ UNCHANGED <<state, wired, keepAlive, requests, awaiting, aborted>>
    <2>1. lastReq' = lastReq /\ asked' = asked \ {r}
      BY <1>6, AnswerTaken
    <2>2. ControlTypes'
      BY <1>1, <1>6 DEF ControlTypes, SdkStates, WithServer, Message, Event
    <2>3. DataTypes'
      BY SMTT(30), <1>1, <1>6, <2>1 DEF DataTypes, Message, Event
    <2>4. AsksWhenAuthenticated' /\ ProbesHaveSession'
      BY <1>1, <1>2, <1>6, <2>1 DEF Message, Event
    <2>5. /\ AlwaysAwaited' /\ ConnectionMatchesState'
          /\ KeepAliveMatchesState' /\ EstablishedMeansAll'
      BY <1>1, <1>6 DEF WithServer, Message, Event
    <2>6. AnswersAreExpected'
      BY <1>6, <2>1 DEF Message, Event
    <2> QED
      BY <2>2, <2>3, <2>4, <2>5, <2>6
  <1>7. CASE r \in DOMAIN awaiting \ pending /\ AdditionalAnswered(r) /\ UNCHANGED aborted
    <2>1. lastReq' = lastReq /\ asked' = asked \ {r}
      BY <1>7, AnswerTaken DEF AdditionalAnswered
    <2>2. ControlTypes'
      BY <1>1, <1>7 DEF ControlTypes, SdkStates, WithServer, AdditionalAnswered, Message, Event
    <2>3. DataTypes'
      BY SMTT(30), <1>1, <1>7, <2>1 DEF DataTypes, AdditionalAnswered, Message, Event
    <2>4. AsksWhenAuthenticated' /\ ProbesHaveSession'
      BY <1>1, <1>2, <1>7, <2>1 DEF AdditionalAnswered, Message, Event
    <2>5. /\ AlwaysAwaited' /\ ConnectionMatchesState'
          /\ KeepAliveMatchesState' /\ EstablishedMeansAll'
      BY <1>1, <1>7 DEF WithServer, AdditionalAnswered, Message, Event
    <2>6. AnswersAreExpected'
      BY <1>7, <2>1 DEF AdditionalAnswered, Message, Event
    <2> QED
      BY <2>2, <2>3, <2>4, <2>5, <2>6
  <1>8. CASE /\ pending' = {} /\ pending = {r} /\ NotUp
             /\ Established(r) /\ UNCHANGED <<wired, aborted>>
    <2> DEFINE n == Len(requests)
    <2>1. n \in Nat
      BY DEF DataTypes
    <2>2. PICK new \in Nat :
            /\ Request({r}, n + 2 * new)
            /\ requests' = [i \in 1 .. n + new |-> FALSE]
            /\ awaiting' = Awaited(AllAgain(n, new))
      BY <1>8, <2>1 DEF Established
    <2>3. /\ requests' \in Seq(BOOLEAN)
          /\ DOMAIN requests' = 1 .. n + new
      BY <2>1, <2>2
    <2>4. /\ awaiting' \in [DOMAIN awaiting' -> DOMAIN requests']
          /\ DOMAIN awaiting' = NextIds(n + 2 * new) \cup DOMAIN awaiting
      <3>1. /\ AllAgain(n, new) \in Seq(1 .. n + new)
            /\ Len(AllAgain(n, new)) = n + 2 * new
        BY <2>1, AllAgainList
      <3>2. n + new \in Nat /\ Len(requests) <= n + new
        BY <2>1
      <3> QED
        BY <2>2, <2>3, <3>1, <3>2, AwaitedEntries
    <2>5. asked' = (asked \ {r}) \cup IF endSent THEN {} ELSE NextIds(n + 2 * new)
      BY <2>2 DEF Request
    <2>6. /\ asked' \subseteq 1 .. lastReq'
          /\ lastReq' \in Nat
      <3> DEFINE m == n + 2 * new
      <3>1. m \in Nat
        BY <2>1
      <3>2. lastReq' = lastReq + m /\ asked' \subseteq asked \cup (lastReq + 1 .. lastReq + m)
        BY <2>2, <2>5 DEF Request, NextIds
      <3> HIDE DEF m
      <3> QED
        BY SMTT(30), <3>1, <3>2 DEF DataTypes
    <2>7. ControlTypes'
      BY <1>1, <1>8 DEF ControlTypes, SdkStates, WithServer, Established, Message, Event
    <2>8. DataTypes'
      BY SMTT(30), <1>1, <1>8, <2>3, <2>4, <2>6 DEF DataTypes, Message, Event
    <2>9. AsksWhenAuthenticated' /\ ProbesHaveSession'
      BY <1>1, <1>2, <1>8 DEF Established, Message, Event
    <2>10. /\ AlwaysAwaited' /\ ConnectionMatchesState'
          /\ KeepAliveMatchesState' /\ EstablishedMeansAll'
      <3>1. ~endSent
        BY <1>1, <1>8 DEF Message, Event
      <3>2. endSent' = endSent /\ wired' = wired
        BY <1>1, <1>8
      <3> QED
        BY <1>1, <1>8, <3>1, <3>2 DEF Established, Message, Event, WithServer
    <2>11. AnswersAreExpected'
      BY <1>8, <2>4, <2>5
    <2> QED
      BY <2>7, <2>8, <2>9, <2>10, <2>11
  <1> QED
    BY <1>3, <1>4, <1>5, <1>6, <1>7, <1>8 DEF PrimarySucceeded

\* So do the calls of the application.
LEMMA CallsKeepInv == LifecycleInv /\ (Stop \/ RequestAdditionalForwarding) => LifecycleInv'
  <1> SUFFICES ASSUME LifecycleInv, Stop \/ RequestAdditionalForwarding PROVE LifecycleInv'
    OBVIOUS
  <1> USE LifecycleAssumption
      DEF LifecycleInv, AsksWhenAuthenticated, ProbesHaveSession, AlwaysAwaited,
          ConnectionMatchesState, StopUndone, KeepAliveMatchesState, AnswersAreExpected, EstablishedMeansAll,
          reconnection, server, forwardings, probing, loop
  <1>1. CASE Stop
    <2>1. ControlTypes'
      BY <1>1 DEF ControlTypes, SdkStates, WithServer, SessionStates, Stop, CallPossible, Event
    <2>2. DataTypes'
      BY SMTT(30), <1>1 DEF DataTypes, Stop, CallPossible, Event, WithServer
    <2>3. AsksWhenAuthenticated' /\ ProbesHaveSession'
      <3>1. wired' => wired
        BY <1>1 DEF ControlTypes, Stop
      <3>2. UNCHANGED <<session, keepAlive, tick, checked, asked, lastReq>>
        BY <1>1 DEF Stop
      <3> QED
        BY <3>1, <3>2
    <2>4. AlwaysAwaited' /\ ConnectionMatchesState'
      BY <1>1 DEF WithServer, Stop, CallPossible, Event
    <2>5. KeepAliveMatchesState' /\ AnswersAreExpected' /\ EstablishedMeansAll'
      BY <1>1 DEF WithServer, Stop, CallPossible, Event
    <2> QED
      BY <2>1, <2>2, <2>3, <2>4, <2>5
  <1>2. CASE RequestAdditionalForwarding
    <2> DEFINE n == Len(requests)
    <2>1. n \in Nat /\ DOMAIN requests = 1 .. n
      BY DEF DataTypes
    <2>2. requests' \in Seq(BOOLEAN) /\ DOMAIN requests' = 1 .. n + 1
      BY <1>2, <2>1 DEF RequestAdditionalForwarding, DataTypes
    <2>3. /\ awaiting' \in [DOMAIN awaiting' -> DOMAIN requests']
          /\ DOMAIN awaiting' = NextIds(1) \cup DOMAIN awaiting
      <3> DEFINE list == <<n + 1>>
      <3>1. list \in Seq(1 .. n + 1) /\ Len(list) = 1 /\ awaiting' = Awaited(list)
        BY <1>2, <2>1 DEF RequestAdditionalForwarding
      <3>2. n + 1 \in Nat /\ Len(requests) <= n + 1
        BY <2>1
      <3> HIDE DEF list
      <3> QED
        BY <2>2, <3>1, <3>2, AwaitedEntries
    <2>5. asked' = asked \cup IF endSent THEN {} ELSE NextIds(1)
      BY <1>2 DEF RequestAdditionalForwarding, Request
    <2>6. asked' \subseteq 1 .. lastReq' /\ lastReq' \in Nat
      BY <1>2, <2>5 DEF RequestAdditionalForwarding, Request, NextIds, DataTypes
    <2>7. ControlTypes'
      BY <1>2 DEF ControlTypes, RequestAdditionalForwarding, CallPossible, Event
    <2>8. DataTypes'
      BY SMTT(30), <1>2, <2>2, <2>3, <2>6 DEF DataTypes, RequestAdditionalForwarding, CallPossible, Event
    <2>9. AsksWhenAuthenticated' /\ ProbesHaveSession'
      BY <1>2 DEF RequestAdditionalForwarding
    <2>10. /\ AlwaysAwaited' /\ ConnectionMatchesState'
          /\ KeepAliveMatchesState' /\ EstablishedMeansAll'
      BY <1>2 DEF RequestAdditionalForwarding, CallPossible, Event
    <2>11. AnswersAreExpected'
      BY <1>2, <2>3, <2>5 DEF RequestAdditionalForwarding
    <2> QED
      BY <2>7, <2>8, <2>9, <2>10, <2>11
  <1> QED
    BY <1>1, <1>2

\* The invariant holds of a tunnel that has not been started.
LEMMA LifecycleInit == Init => LifecycleInv
  <1> SUFFICES ASSUME Init PROVE LifecycleInv
    OBVIOUS
  <1> USE LifecycleAssumption DEF Init
  <1>1. ControlTypes
    BY DEF ControlTypes, SdkStates, SessionStates
  <1>2. DataTypes
    BY DEF DataTypes
  <1>3. /\ AsksWhenAuthenticated /\ ProbesHaveSession /\ AlwaysAwaited
        /\ ConnectionMatchesState /\ KeepAliveMatchesState /\ AnswersAreExpected /\ EstablishedMeansAll
    BY DEF AsksWhenAuthenticated, ProbesHaveSession, AlwaysAwaited, WithServer,
           ConnectionMatchesState, StopUndone, KeepAliveMatchesState, AnswersAreExpected, EstablishedMeansAll
  <1> QED
    BY <1>1, <1>2, <1>3 DEF LifecycleInv

\* Every step keeps it.
LEMMA LifecycleNext == LifecycleInv /\ [Next]_vars => LifecycleInv'
  <1> SUFFICES ASSUME LifecycleInv, [Next]_vars PROVE LifecycleInv'
    OBVIOUS
  <1>1. CASE UNCHANGED vars
    <2>1. ControlTypes' /\ DataTypes'
      BY <1>1 DEF LifecycleInv, ControlTypes, DataTypes, vars, reconnection, server,
                  forwardings, probing, loop
    <2>2. AsksWhenAuthenticated' /\ ProbesHaveSession' /\ AlwaysAwaited' /\ ConnectionMatchesState'
      BY <1>1 DEF LifecycleInv, AsksWhenAuthenticated, ProbesHaveSession, AlwaysAwaited,
                  ConnectionMatchesState, StopUndone, vars,
                  reconnection, server, forwardings, probing, loop
    <2>3. KeepAliveMatchesState' /\ AnswersAreExpected' /\ EstablishedMeansAll'
      BY <1>1 DEF LifecycleInv, KeepAliveMatchesState, AnswersAreExpected, EstablishedMeansAll,
                  vars, reconnection, server, forwardings, probing, loop
    <2> QED
      BY <2>1, <2>2, <2>3 DEF LifecycleInv
  <1>2. CASE Runner \/ Timers
    BY <1>2, RunnerKeepsInv, TimersKeepInv
  <1>3. CASE Events
    BY <1>3, SessionEventsKeepInv, AnswersKeepInv, OtherEventsKeepInv DEF Events
  <1>4. CASE Stop \/ RequestAdditionalForwarding
    BY <1>4, CallsKeepInv
  <1> QED
    BY <1>1, <1>2, <1>3, <1>4 DEF Next

\* Whatever the server, the network and the application do, and however often
\* the tunnel is reconnected, the properties below hold together.
THEOREM LifecycleInvariant == Spec => []LifecycleInv
  BY LifecycleInit, LifecycleNext, PTL DEF Spec

\* The types of the SDK's fields, with the maps of pending requests.
THEOREM LifecycleTypes == Spec => []LifecycleTypeOK
  <1>1. LifecycleInv => LifecycleTypeOK
    BY DEF LifecycleInv, ControlTypes, DataTypes, LifecycleTypeOK
  <1> QED
    BY <1>1, LifecycleInvariant, PTL

\* A waiting runner has a timer or a connection to wait for, but for the one
\* case of a Stop that the answer to the authentication has undone.
THEOREM RunnerNeverStuck == Spec => []NeverStuck
  <1>1. LifecycleInv => NeverStuck
    BY DEF LifecycleInv, AlwaysAwaited, NeverStuck, StopUndone
  <1> QED
    BY <1>1, LifecycleInvariant, PTL

\* keepAliveTimeout never finds the session gone.
THEOREM ProbesFindTheirSession == Spec => []NoProbeWithoutSession
  <1>1. LifecycleInv => NoProbeWithoutSession
    BY DEF LifecycleInv, ProbesHaveSession, NoProbeWithoutSession
  <1> QED
    BY <1>1, LifecycleInvariant, PTL

\* Keepalives run exactly while the tunnel is up, or stopped and not cleaned up.
THEOREM KeepAlivesFollowState == Spec => []KeepAliveMatchesState
  <1>1. LifecycleInv => KeepAliveMatchesState
    BY DEF LifecycleInv
  <1> QED
    BY <1>1, LifecycleInvariant, PTL

\* No answer of the server is lost as unknown, over all reconnections.
THEOREM AnswersRecognised == Spec => []AnswersAreExpected
  <1>1. LifecycleInv => AnswersAreExpected
    BY DEF LifecycleInv
  <1> QED
    BY <1>1, LifecycleInvariant, PTL

\* An established tunnel has all its primary forwardings.
THEOREM EstablishedHasAll == Spec => []EstablishedMeansAll
  <1>1. LifecycleInv => EstablishedMeansAll
    BY DEF LifecycleInv
  <1> QED
    BY <1>1, LifecycleInvariant, PTL
=============================================================================
