------------------------------ MODULE SdkLock -------------------------------
(***************************************************************************)
(* How the threads of an application share one tunnel.  The runner is the  *)
(* thread that calls Start and ResumeTunnel; it holds lockAccess while it  *)
(* polls.  A call from another thread (Stop, RequestAdditionalForwarding,  *)
(* StartWebDebugging, the channel calls) takes the semaphore, writes a byte*)
(* to the notification connection to make the runner yield, takes          *)
(* lockAccess and gives the semaphore back.  Source: src/src/sdk/Sdk.cc    *)
(* and src/src/common/utils/Semaphore.cc.                                  *)
(*                                                                         *)
(* One action is one access to what the threads share: the semaphore, the  *)
(* mutex, runningThreadId, notificationConn.  The state of the tunnel is   *)
(* reduced to what decides about notificationConn.                         *)
(***************************************************************************)
EXTENDS Naturals, FiniteSets

CONSTANTS
  Callers,      \* threads other than the runner
  MaxCalls,     \* bound: calls a thread makes in its life
  EarlyCalls,   \* calls may come before the tunnel was ever up
  MayStop       \* Stop is called, or the connection is lost, at some time

Runner == "runner"
Nobody == "nobody"
Threads == Callers \cup {Runner}

ASSUME LockAssumption ==
  /\ Runner \notin Callers
  /\ Nobody \notin Callers
  /\ MaxCalls \in Nat

VARIABLES
  owner,           \* who holds lockAccess
  running,         \* Sdk::running
  runningThread,   \* Sdk::runningThreadId
  permits,         \* the count of Sdk::semaphore
  notifier,        \* notificationConn is there
  bytes,           \* bytes written to it and not yet read
  phase,           \* SdkState: "Initial", "Retrying" as long as the first connect
                   \* fails, then "Up", also while it reconnects, "Stopped", "Ended"
  pc,              \* pc[t]: where thread t is
  calls            \* calls[t]: calls made by t

lock == <<owner, running, runningThread>>
tunnel == <<notifier, bytes, phase>>
vars == <<lock, tunnel, permits, pc, calls>>

CallerSteps == {"idle", "wait", "check", "write", "lock", "claim", "notify", "body",
                "crashed"}
RunnerSteps == {"start", "claim start", "connect", "resume", "claim", "resumed",
                "select", "event", "yielded", "lock", "claim again", "notify",
                "thrown", "done"}

Init ==
  /\ owner = Nobody
  /\ running = FALSE
  /\ runningThread = Nobody
  /\ permits = 1
  /\ notifier = FALSE
  /\ bytes = 0
  /\ phase = "Initial"
  /\ pc = [t \in Threads |-> IF t = Runner THEN "start" ELSE "idle"]
  /\ calls = [t \in Callers |-> 0]

At(t, from, to) == pc[t] = from /\ pc' = [pc EXCEPT ![t] = to]
-----------------------------------------------------------------------------
(* Semaphore and lockAccess. *)

SemaphoreWait == permits > 0 /\ permits' = permits - 1
SemaphoreNotify == permits' = permits + 1

\* acquireAccessLock, up to the mutex and after it.  A thread that finds its
\* own id in runningThreadId only tries the lock, and throws if it is held.
TakeMutex(t) == owner = Nobody /\ owner' = t /\ UNCHANGED <<running, runningThread>>
Claim(t) == running' = TRUE /\ runningThread' = t /\ UNCHANGED owner
TryLockFails(t) == runningThread = t /\ owner # Nobody

ReleaseAccessLock == running' = FALSE /\ owner' = Nobody /\ UNCHANGED runningThread
-----------------------------------------------------------------------------
(* The runner: Start, then ResumeTunnel again and again. *)

Start ==
  /\ At(Runner, "start", "claim start")
  /\ TakeMutex(Runner)
  /\ UNCHANGED <<tunnel, permits, calls>>

StartClaim ==
  /\ At(Runner, "claim start", "connect")
  /\ Claim(Runner)
  /\ UNCHANGED <<tunnel, permits, calls>>

\* internalConnect: the notification connection comes with the session.
Connect ==
  /\ At(Runner, "connect", "resume")
  /\ \/ notifier' = TRUE /\ phase' = "Up"
     \/ MayStop /\ phase' = "Stopped" /\ UNCHANGED notifier
     \/ phase' = "Retrying" /\ UNCHANGED notifier
  /\ ReleaseAccessLock
  /\ UNCHANGED <<bytes, permits, calls>>

Resume ==
  /\ phase # "Ended"
  /\ At(Runner, "resume", "claim")
  /\ TakeMutex(Runner)
  /\ UNCHANGED <<tunnel, permits, calls>>

\* "Unable to grab mutex.": the exception leaves ResumeTunnel and Start.
ResumeThrows ==
  /\ phase # "Ended"
  /\ TryLockFails(Runner)
  /\ At(Runner, "resume", "thrown")
  /\ UNCHANGED <<lock, tunnel, permits, calls>>

ResumeEnds ==
  /\ phase = "Ended"
  /\ At(Runner, "resume", "done")
  /\ UNCHANGED <<lock, tunnel, permits, calls>>

ResumeClaim ==
  /\ At(Runner, "claim", "resumed")
  /\ Claim(Runner)
  /\ UNCHANGED <<tunnel, permits, calls>>

\* A stopped tunnel is cleaned up, any other one is polled.
Cleanup ==
  /\ phase = "Stopped"
  /\ At(Runner, "resumed", "resume")
  /\ notifier' = FALSE
  /\ bytes' = 0
  /\ phase' = "Ended"
  /\ ReleaseAccessLock
  /\ UNCHANGED <<permits, calls>>

Poll ==
  /\ phase # "Stopped"
  /\ At(Runner, "resumed", "select")
  /\ UNCHANGED <<lock, tunnel, permits, calls>>

\* PollOnce waits for events: traffic, a timeout, a byte of a caller.
HandleNetworkEvent ==
  /\ bytes = 0
  /\ At(Runner, "select", "event")
  /\ UNCHANGED <<lock, tunnel, permits, calls>>

\* initiateReconnection, in a poll of a tunnel that was never connected.
Reconnect ==
  /\ At(Runner, "event", "event")
  /\ phase = "Retrying"
  /\ phase' = "Up"
  /\ notifier' = TRUE
  /\ UNCHANGED <<lock, bytes, permits, calls>>

\* The tunnel is lost, given up or stopped in a callback; the same poll may have a
\* byte of a caller still to handle.
ConnectionLost ==
  /\ MayStop
  /\ At(Runner, "event", "event") \/ (bytes > 0 /\ At(Runner, "select", "select"))
  /\ phase \in {"Up", "Retrying"}
  /\ phase' = "Stopped"
  /\ UNCHANGED <<lock, notifier, bytes, permits, calls>>

PollReturns ==
  /\ At(Runner, "event", "resume")
  /\ ReleaseAccessLock
  /\ UNCHANGED <<tunnel, permits, calls>>

\* HandleFDReadWTag reads all the bytes that are there and lets go.
HandleNotification ==
  /\ bytes > 0
  /\ At(Runner, "select", "yielded")
  /\ bytes' = 0
  /\ ReleaseAccessLock
  /\ UNCHANGED <<notifier, phase, permits, calls>>

\* Mutant: the runner does not wait for the caller.
NoAwait == At(Runner, "yielded", "lock") /\ UNCHANGED <<lock, tunnel, permits, calls>>

\* It waits until the caller has the lock ...
AwaitHandover ==
  /\ At(Runner, "yielded", "lock")
  /\ SemaphoreWait
  /\ UNCHANGED <<lock, tunnel, calls>>

\* Mutant: the semaphore is taken for the lock.
NoLockAgain == At(Runner, "lock", "claim again") /\ UNCHANGED <<lock, tunnel, permits, calls>>

\* ... and then until the caller has given it back.
LockAgain ==
  /\ At(Runner, "lock", "claim again")
  /\ TakeMutex(Runner)
  /\ UNCHANGED <<tunnel, permits, calls>>

ClaimAgain ==
  /\ At(Runner, "claim again", "notify")
  /\ Claim(Runner)
  /\ UNCHANGED <<tunnel, permits, calls>>

\* Mutant: the runner keeps the semaphore.
KeepPermit == At(Runner, "notify", "event") /\ UNCHANGED <<lock, tunnel, permits, calls>>

HandoverDone ==
  /\ At(Runner, "notify", "event")
  /\ SemaphoreNotify
  /\ UNCHANGED <<lock, tunnel, calls>>

RunnerNext ==
  \/ Start \/ StartClaim \/ Connect
  \/ Resume \/ ResumeThrows \/ ResumeEnds \/ ResumeClaim \/ Cleanup \/ Poll
  \/ Reconnect \/ ConnectionLost \/ PollReturns
  \/ HandleNotification \/ AwaitHandover \/ LockAgain \/ ClaimAgain \/ HandoverDone
-----------------------------------------------------------------------------
(* A call from another thread: LockIfDifferentThread, the body, ThreadLock *)
(* going out of scope.                                                     *)

\* A thread that finds its own id in runningThreadId takes no lock at all.
Call(t) ==
  /\ calls[t] < MaxCalls
  /\ EarlyCalls \/ phase \notin {"Initial", "Retrying"}
  /\ calls' = [calls EXCEPT ![t] = @ + 1]
  /\ IF runningThread = t THEN At(t, "idle", "body") ELSE At(t, "idle", "wait")
  /\ UNCHANGED <<lock, tunnel, permits>>

TakeTurn(t) ==
  /\ At(t, "wait", "check")
  /\ SemaphoreWait
  /\ UNCHANGED <<lock, tunnel, calls>>

CheckNotifier(t) ==
  /\ notifier
  /\ At(t, "check", "write")
  /\ UNCHANGED <<lock, tunnel, permits, calls>>

\* "The tunnel is not ready now": the semaphore is not given back.
NotReady(t) ==
  /\ ~notifier
  /\ At(t, "check", "idle")
  /\ UNCHANGED <<lock, tunnel, permits, calls>>

\* Mutant: the runner is not told.
NoWake(t) ==
  /\ notifier
  /\ At(t, "write", "lock")
  /\ UNCHANGED <<lock, tunnel, permits, calls>>

WakeRunner(t) ==
  /\ notifier
  /\ At(t, "write", "lock")
  /\ bytes' = bytes + 1
  /\ UNCHANGED <<lock, notifier, phase, permits, calls>>

\* notificationConn was cleared by cleanup() after the check.
NullNotifier(t) ==
  /\ ~notifier
  /\ At(t, "write", "crashed")
  /\ UNCHANGED <<lock, tunnel, permits, calls>>

Lock(t) ==
  /\ At(t, "lock", "claim")
  /\ TakeMutex(t)
  /\ UNCHANGED <<tunnel, permits, calls>>

LockClaim(t) ==
  /\ At(t, "claim", "notify")
  /\ Claim(t)
  /\ UNCHANGED <<tunnel, permits, calls>>

PassTurn(t) ==
  /\ At(t, "notify", "body")
  /\ SemaphoreNotify
  /\ UNCHANGED <<lock, tunnel, calls>>

\* The call itself, Stop or another one, and its end.
Finish(t) ==
  /\ At(t, "body", "idle")
  /\ \/ MayStop /\ phase = "Up" /\ phase' = "Stopped"
     \/ UNCHANGED phase
  /\ IF owner = t THEN ReleaseAccessLock ELSE UNCHANGED lock
  /\ UNCHANGED <<notifier, bytes, permits, calls>>

CallerNext(t) ==
  \/ TakeTurn(t) \/ CheckNotifier(t) \/ NotReady(t) \/ WakeRunner(t) \/ NullNotifier(t)
  \/ Lock(t) \/ LockClaim(t) \/ PassTurn(t) \/ Finish(t)
-----------------------------------------------------------------------------
Next == RunnerNext \/ HandleNetworkEvent \/ \E t \in Callers : Call(t) \/ CallerNext(t)

Spec == Init /\ [][Next]_vars

\* Every thread runs on.  Nothing makes the network send, nobody has to call.
FairSpec ==
  /\ Spec
  /\ WF_vars(RunnerNext)
  /\ \A t \in Callers : WF_vars(CallerNext(t))
-----------------------------------------------------------------------------
LockTypeOK ==
  /\ owner \in Threads \cup {Nobody}
  /\ running \in BOOLEAN
  /\ runningThread \in Threads \cup {Nobody}
  /\ permits \in {0, 1}
  /\ notifier \in BOOLEAN
  /\ bytes \in Nat
  /\ phase \in {"Initial", "Retrying", "Up", "Stopped", "Ended"}
  /\ pc \in [Threads -> CallerSteps \cup RunnerSteps]
  /\ calls \in [Callers -> 0 .. MaxCalls]

\* The thread works on the session, its channels and the poll controller.
Inside(t) ==
  IF t = Runner THEN pc[t] \in {"connect", "resumed", "select", "event"} ELSE pc[t] = "body"

\* Whoever works on the tunnel holds lockAccess, so a call from another thread
\* never runs while the runner polls (Sdk.cc:75, rules 2 and 3); and it has
\* claimed the lock, so that releaseAccessLock does not throw "no one accessing
\* lockAccess" and a callback that calls back is recognised as the same thread.
\* It holds as long as every thread calls once.
MutualExclusion ==
  \A t \in Threads : Inside(t) => owner = t /\ running /\ runningThread = t

\* Two threads never work on the tunnel, in the words of the comment at
\* Sdk.cc:251 on runningThreadId, "it will never be same unless they are
\* really same".  A thread that calls again before the runner has put its own
\* id back passes for the runner and takes no lock.
NeverTwoInside == Cardinality({t \in Threads : Inside(t)}) <= 1

\* The semaphore belongs to a thread between its Wait and its Notify.
Turn(t) ==
  pc[t] \in IF t = Runner THEN {"lock", "claim again", "notify"}
            ELSE {"check", "write", "lock", "claim", "notify"}

\* As long as callers can be served at all, the one permit is free or in the
\* hands of exactly one thread.
PermitIsHeld ==
  notifier => /\ permits = 1 <=> \A t \in Threads : ~Turn(t)
              /\ permits = 0 <=> \E t \in Threads : Turn(t)
              /\ \A t, u \in Threads : Turn(t) /\ Turn(u) => t = u

\* A call from another thread gets its turn although the runner may sit in a
\* poll that nothing else would ever end, for as long as the notification
\* connection exists.
CallReturns ==
  \A t \in Callers :
    (pc[t] # "idle" /\ notifier) ~> (pc[t] = "idle" \/ ~notifier)

\* pinggy.h:1206: Stop "can be called from a different thread": such a call
\* gets its turn, be it with success or with an exception.
EveryCallGetsItsTurn == \A t \in Callers : pc[t] = "wait" ~> pc[t] # "wait"
=============================================================================
