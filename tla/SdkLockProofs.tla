--------------------------- MODULE SdkLockProofs ----------------------------
(***************************************************************************)
(* Mutual exclusion on a tunnel, for any number of threads that call once. *)
(* The argument: lockAccess is owned exactly between TakeMutex and         *)
(* ReleaseAccessLock (Holding), and a thread whose id is in runningThreadId*)
(* has made a call before, so that a first call never skips the lock.      *)
(***************************************************************************)
EXTENDS SdkLock, TLAPS

\* The places at which a thread has the mutex.
Holding(t) ==
  IF t = Runner
  THEN {"claim start", "connect", "claim", "resumed", "select", "event", "claim again",
        "notify"}
  ELSE {"claim", "notify", "body"}

Steps == CallerSteps \cup RunnerSteps

\* The places at which a thread has the mutex with its bookkeeping.
Claimed(t) ==
  IF t = Runner THEN {"connect", "resumed", "select", "event", "notify"} ELSE {"notify", "body"}

LockInv ==
  /\ pc \in [Threads -> Steps]
  /\ calls \in [Callers -> Nat]
  /\ \A t \in Threads : owner = t <=> pc[t] \in Holding(t)
  /\ \A t \in Threads : pc[t] \in Claimed(t) => running /\ runningThread = t
  /\ \A t \in Callers : pc[t] # "idle" \/ runningThread = t => calls[t] >= 1

\* The runner is not a caller, and nobody is a thread of its own.
LEMMA ThreadFacts ==
  /\ Runner \in Threads
  /\ Runner \notin Callers
  /\ \A c \in Callers : c \in Threads /\ c # Runner
  /\ Nobody \notin Threads
  BY LockAssumption DEF Threads, Runner, Nobody

\* A thread has the mutex where it has claimed it.
LEMMA ClaimedIsHeld == \A t \in Threads : Claimed(t) \subseteq Holding(t)
  BY DEF Claimed, Holding

\* A step of thread t keeps the invariant if it moves in and out of the places
\* of Holding as it takes and releases the mutex, and if t has called before.
LEMMA StepKeepsLock ==
  ASSUME LockInv, NEW t \in Threads, NEW from, NEW to \in Steps, At(t, from, to),
         \/ owner' = owner /\ (from \in Holding(t) <=> to \in Holding(t))
         \/ owner = Nobody /\ owner' = t /\ to \in Holding(t)
         \/ from \in Holding(t) /\ owner' = Nobody /\ to \notin Holding(t),
         \/ UNCHANGED <<running, runningThread>> /\ (to \in Claimed(t) => from \in Claimed(t))
         \/ from \in Holding(t) /\ running' = TRUE /\ runningThread' = t
         \/ from \in Holding(t) /\ UNCHANGED runningThread /\ to \notin Claimed(t),
         calls' \in [Callers -> Nat],
         \A c \in Callers : calls'[c] >= calls[c],
         t \in Callers => calls'[t] >= 1
  PROVE  LockInv'
  <1> USE DEF LockInv
  <1>1. /\ pc' \in [Threads -> Steps] /\ pc[t] = from /\ pc'[t] = to
        /\ \A x \in Threads : x # t => pc'[x] = pc[x]
    BY DEF At
  <1>2. \A x \in Threads : owner' = x <=> pc'[x] \in Holding(x)
    BY <1>1, ThreadFacts
  <1>3. ASSUME NEW c \in Callers, pc'[c] # "idle" \/ runningThread' = c
        PROVE  calls'[c] >= 1
    <2>1. c \in Threads /\ calls[c] \in Nat /\ calls'[c] \in Nat /\ calls'[c] >= calls[c]
      BY ThreadFacts
    <2>2. CASE c = t
      BY <2>2
    <2>3. CASE c # t
      <3>1. pc[c] # "idle" \/ runningThread = c
        BY <1>1, <1>3, <2>1, <2>3
      <3>2. calls[c] >= 1
        BY <3>1
      <3> QED
        BY <2>1, <3>2
    <2> QED
      BY <2>2, <2>3
  <1>4. ASSUME NEW x \in Threads, pc'[x] \in Claimed(x)
        PROVE  running' /\ runningThread' = x
    <2>1. CASE x = t
      BY <1>1, <1>4, <2>1
    <2>2. CASE x # t
      <3>1. pc[x] \in Claimed(x) /\ running /\ runningThread = x
        BY <1>1, <1>4, <2>2
      <3>2. from \notin Holding(t)
        BY <1>1, <2>2, <3>1, ClaimedIsHeld
      <3> QED
        BY <3>1, <3>2
    <2> QED
      BY <2>1, <2>2
  <1> QED
    BY <1>1, <1>2, <1>3, <1>4

\* The steps of the runner keep the invariant.
LEMMA RunnerKeepsLock ==
  ASSUME LockInv, RunnerNext \/ HandleNetworkEvent
  PROVE  LockInv'
  <1>1. /\ Runner \in Threads /\ Runner \notin Callers
        /\ Holding(Runner) = {"claim start", "connect", "claim", "resumed", "select",
                              "event", "claim again", "notify"}
        /\ Claimed(Runner) = {"connect", "resumed", "select", "event", "notify"}
    BY ThreadFacts DEF Holding, Claimed
  <1>2. calls' = calls
    BY DEF RunnerNext, Start, StartClaim, Connect, Resume, ResumeThrows, ResumeEnds,
           ResumeClaim, Cleanup, Poll, Reconnect, ConnectionLost, PollReturns,
           HandleNetworkEvent, HandleNotification, AwaitHandover, LockAgain, ClaimAgain, HandoverDone
  <1>3. calls' \in [Callers -> Nat] /\ \A c \in Callers : calls'[c] >= calls[c]
    BY <1>2 DEF LockInv
  \* Steps that take the mutex ...
  <1>4. ASSUME NEW from, NEW to \in {"claim start", "claim", "claim again"},
               At(Runner, from, to), TakeMutex(Runner)
        PROVE  LockInv'
    <2>1. to \in Steps /\ to \in Holding(Runner) /\ to \notin Claimed(Runner)
      BY <1>1 DEF Steps, RunnerSteps
    <2>2. /\ owner = Nobody /\ owner' = Runner
          /\ UNCHANGED <<running, runningThread>>
      BY <1>4 DEF TakeMutex
    <2> QED
      BY <1>1, <1>3, <1>4, <2>1, <2>2, StepKeepsLock
  \* ... that release it ...
  <1>5. ASSUME NEW from \in Holding(Runner), NEW to \in {"resume", "yielded"},
               At(Runner, from, to), ReleaseAccessLock
        PROVE  LockInv'
    <2>1. to \in Steps /\ to \notin Holding(Runner) /\ to \notin Claimed(Runner)
      BY <1>1 DEF Steps, RunnerSteps
    <2>2. owner' = Nobody /\ UNCHANGED runningThread
      BY <1>5 DEF ReleaseAccessLock
    <2> QED
      BY <1>1, <1>3, <1>5, <2>1, <2>2, StepKeepsLock
  \* ... that keep it, and that do without.
  <1>6. ASSUME NEW from \in Holding(Runner), NEW to \in Holding(Runner), At(Runner, from, to),
               (UNCHANGED lock /\ from \in Claimed(Runner)) \/ Claim(Runner)
        PROVE  LockInv'
    <2>1. to \in Steps
      BY <1>1 DEF Steps, RunnerSteps
    <2>2. /\ owner' = owner /\ runningThread' \in {runningThread, Runner}
          /\ \/ UNCHANGED <<running, runningThread>> /\ from \in Claimed(Runner)
             \/ running' = TRUE /\ runningThread' = Runner
      BY <1>6 DEF lock, Claim
    <2> QED
      BY <1>1, <1>3, <1>6, <2>1, <2>2, StepKeepsLock
  <1>7. ASSUME NEW from \in {"resume", "yielded"}, NEW to \in {"thrown", "done", "lock"},
               At(Runner, from, to), UNCHANGED lock
        PROVE  LockInv'
    <2>1. to \in Steps /\ to \notin Holding(Runner) /\ from \notin Holding(Runner)
      BY <1>1 DEF Steps, RunnerSteps
    <2>2. to \notin Claimed(Runner) /\ UNCHANGED <<owner, running, runningThread>>
      BY <1>1, <1>7 DEF lock
    <2> QED
      BY <1>1, <1>3, <1>7, <2>1, <2>2, StepKeepsLock
  <1> HIDE DEF Holding
  <1>8. CASE Start \/ Resume \/ LockAgain
    BY <1>1, <1>4, <1>8 DEF Start, Resume, LockAgain
  <1>9. CASE Connect \/ Cleanup \/ PollReturns \/ HandleNotification
    BY <1>1, <1>5, <1>9 DEF Connect, Cleanup, PollReturns, HandleNotification
  <1>10. CASE StartClaim \/ ResumeClaim \/ ClaimAgain
    BY <1>1, <1>6, <1>10 DEF StartClaim, ResumeClaim, ClaimAgain
  <1>11. CASE Poll \/ Reconnect \/ ConnectionLost \/ HandleNetworkEvent \/ HandoverDone
    BY <1>1, <1>6, <1>11 DEF Poll, Reconnect, ConnectionLost, HandleNetworkEvent, HandoverDone
  <1>12. CASE ResumeThrows \/ ResumeEnds \/ AwaitHandover
    BY <1>7, <1>12 DEF ResumeThrows, ResumeEnds, AwaitHandover
  <1> QED
    BY <1>8, <1>9, <1>10, <1>11, <1>12 DEF RunnerNext

\* So do the steps of a caller, when no thread calls twice.
LEMMA CallerKeepsLock ==
  ASSUME LockInv, MaxCalls = 1, NEW c \in Callers, Call(c) \/ CallerNext(c)
  PROVE  LockInv'
  <1>1. /\ c \in Threads /\ c # Runner
        /\ Holding(c) = {"claim", "notify", "body"}
        /\ Claimed(c) = {"notify", "body"}
    BY ThreadFacts DEF Holding, Claimed
  <1>2. CASE Call(c)
    <2>1. calls[c] \in Nat /\ calls[c] < 1
      BY <1>2 DEF Call, LockInv
    <2>2. runningThread # c
      BY <2>1 DEF LockInv
    <2>3. At(c, "idle", "wait") /\ UNCHANGED lock
      BY <1>2, <2>2 DEF Call
    <2>4. /\ calls' \in [Callers -> Nat] /\ calls'[c] >= 1
          /\ \A x \in Callers : calls'[x] >= calls[x]
      <3>1. calls' = [calls EXCEPT ![c] = @ + 1] /\ calls \in [Callers -> Nat]
        BY <1>2 DEF Call, LockInv
      <3> QED
        BY <2>1, <3>1
    <2>5. "wait" \in Steps /\ "wait" \notin Holding(c) /\ "idle" \notin Holding(c)
      BY <1>1 DEF Steps, CallerSteps
    <2>6. "wait" \notin Claimed(c) /\ UNCHANGED <<owner, running, runningThread>>
      BY <1>1, <2>3 DEF lock
    <2> QED
      BY <1>1, <2>3, <2>4, <2>5, <2>6, StepKeepsLock
  <1>3. CASE CallerNext(c)
    <2>1. UNCHANGED calls /\ pc[c] # "idle"
      BY <1>3 DEF CallerNext, TakeTurn, CheckNotifier, NotReady, WakeRunner, NullNotifier,
                  Lock, LockClaim, PassTurn, Finish, At
    <2>2. /\ calls' \in [Callers -> Nat] /\ calls'[c] >= 1
          /\ \A x \in Callers : calls'[x] >= calls[x]
      BY <2>1 DEF LockInv
    <2>3. ASSUME NEW from \in {"wait", "check", "write"},
                 NEW to \in {"check", "write", "idle", "lock", "crashed"},
                 At(c, from, to), UNCHANGED lock
          PROVE  LockInv'
      <3>1. to \in Steps /\ to \notin Holding(c) /\ from \notin Holding(c)
        BY <1>1 DEF Steps, CallerSteps
      <3>2. to \notin Claimed(c) /\ UNCHANGED <<owner, running, runningThread>>
        BY <1>1, <2>3 DEF lock
      <3> QED
        BY <1>1, <2>2, <2>3, <3>1, <3>2, StepKeepsLock
    <2>4. CASE TakeTurn(c) \/ CheckNotifier(c) \/ NotReady(c) \/ NullNotifier(c)
      BY <2>3, <2>4 DEF TakeTurn, CheckNotifier, NotReady, NullNotifier
    <2>5. CASE WakeRunner(c)
      BY <2>3, <2>5 DEF WakeRunner
    <2>6. CASE Lock(c)
      <3>1. "claim" \in Steps /\ "claim" \in Holding(c) /\ "claim" \notin Claimed(c)
        BY <1>1 DEF Steps, CallerSteps
      <3>2. /\ At(c, "lock", "claim") /\ owner = Nobody /\ owner' = c
            /\ UNCHANGED <<running, runningThread>>
        BY <2>6 DEF Lock, TakeMutex
      <3> QED
        BY <1>1, <2>2, <3>1, <3>2, StepKeepsLock
    <2>7. CASE LockClaim(c)
      <3>1. "notify" \in Steps /\ "notify" \in Holding(c) /\ "claim" \in Holding(c)
        BY <1>1 DEF Steps, CallerSteps
      <3> QED
        BY <1>1, <2>2, <2>7, <3>1, StepKeepsLock DEF LockClaim, Claim
    <2>8. CASE PassTurn(c)
      <3>1. /\ "body" \in Steps /\ "body" \in Holding(c) /\ "notify" \in Holding(c)
            /\ "notify" \in Claimed(c)
        BY <1>1 DEF Steps, CallerSteps
      <3>2. At(c, "notify", "body") /\ UNCHANGED <<owner, running, runningThread>>
        BY <2>8 DEF PassTurn, lock
      <3> QED
        BY <1>1, <2>2, <3>1, <3>2, StepKeepsLock
    <2>9. CASE Finish(c)
      <3>1. /\ "idle" \in Steps /\ "idle" \notin Holding(c) /\ "body" \in Holding(c)
            /\ "idle" \notin Claimed(c)
        BY <1>1 DEF Steps, CallerSteps
      <3>2. At(c, "body", "idle") /\ ReleaseAccessLock
        BY <1>1, <2>9, <3>1 DEF Finish, At, LockInv
      <3>3. owner' = Nobody /\ UNCHANGED runningThread
        BY <3>2 DEF ReleaseAccessLock
      <3> QED
        BY <1>1, <2>2, <3>1, <3>2, <3>3, StepKeepsLock
    <2> QED
      BY <1>3, <2>4, <2>5, <2>6, <2>7, <2>8, <2>9 DEF CallerNext
  <1> QED
    BY <1>2, <1>3

\* When every thread calls once, whoever works on the tunnel holds lockAccess.
THEOREM ExclusionOfFirstCalls == MaxCalls = 1 /\ Spec => []MutualExclusion
  <1>1. Init => LockInv
    <2> SUFFICES ASSUME Init PROVE LockInv
      OBVIOUS
    <2>1. pc \in [Threads -> Steps] /\ pc[Runner] = "start" /\ calls \in [Callers -> Nat]
      BY ThreadFacts DEF Init, Steps, RunnerSteps, CallerSteps
    <2>2. \A t \in Threads : pc[t] \notin Holding(t) /\ pc[t] \notin Claimed(t) /\ owner # t
      BY ThreadFacts DEF Init, Holding, Claimed
    <2>3. \A t \in Callers : pc[t] = "idle" /\ runningThread # t
      BY ThreadFacts DEF Init
    <2> QED
      BY <2>1, <2>2, <2>3 DEF LockInv
  <1>2. ASSUME MaxCalls = 1, LockInv, [Next]_vars PROVE LockInv'
    <2>1. CASE UNCHANGED vars
      BY <1>2, <2>1 DEF vars, lock, tunnel, LockInv
    <2> QED
      BY <1>2, <2>1, RunnerKeepsLock, CallerKeepsLock DEF Next
  <1>3. LockInv => MutualExclusion
    <2> SUFFICES ASSUME LockInv, NEW t \in Threads, Inside(t)
                 PROVE  owner = t /\ running /\ runningThread = t
      BY DEF MutualExclusion
    <2>1. pc[t] \in Holding(t) /\ pc[t] \in Claimed(t)
      BY ThreadFacts DEF Inside, Holding, Claimed
    <2> QED
      BY <2>1 DEF LockInv
  <1>4. ASSUME MaxCalls = 1 PROVE Spec => []MutualExclusion
    <2>1. LockInv /\ [Next]_vars => LockInv'
      BY <1>2, <1>4
    <2> QED
      BY <1>1, <1>3, <2>1, PTL DEF Spec
  <1> QED
    BY <1>4
-----------------------------------------------------------------------------
(* The types and the semaphore, for any number of threads and calls.  One  *)
(* permit: it is free, or one thread has its turn, or a call that failed   *)
(* has kept it, which needs a tunnel without a notification connection.    *)

\* The places at which a thread has the semaphore.
Turning(t) ==
  IF t = Runner THEN {"lock", "claim again", "notify"}
  ELSE {"check", "write", "lock", "claim", "notify"}

TurnInv ==
  /\ pc \in [Threads -> Steps]
  /\ permits \in {0, 1}
  /\ permits = 1 => \A t \in Threads : pc[t] \notin Turning(t)
  /\ \A t, u \in Threads : pc[t] \in Turning(t) /\ pc[u] \in Turning(u) => t = u

\* The permit is not lost ...
Kept == permits = 1 \/ \E t \in Threads : pc[t] \in Turning(t)
\* ... because nobody calls before the notification connection is there.
ServedInv ==
  /\ phase = "Initial" <=> pc[Runner] \in {"start", "claim start", "connect"}
  /\ phase = "Retrying" =>
       pc[Runner] \in {"resume", "claim", "resumed", "select", "event", "thrown"}
  /\ phase \in {"Initial", "Retrying"} =>
       permits = 1 /\ ~notifier /\ bytes = 0 /\ \A c \in Callers : pc[c] = "idle"
  /\ notifier => Kept

\* A step of thread t takes the permit, gives it back, leaves it, or loses it.
LEMMA StepKeepsTurns ==
  ASSUME TurnInv, NEW t \in Threads, NEW from, NEW to \in Steps, At(t, from, to),
         \/ permits' = permits /\ (to \in Turning(t) <=> from \in Turning(t))
         \/ permits > 0 /\ permits' = permits - 1 /\ to \in Turning(t)
         \/ from \in Turning(t) /\ permits' = permits + 1 /\ to \notin Turning(t)
         \/ permits' = permits /\ to \notin Turning(t) /\ ~notifier'
  PROVE  TurnInv' /\ (Kept => Kept' \/ ~notifier')
  <1>1. /\ pc' \in [Threads -> Steps] /\ pc[t] = from /\ pc'[t] = to
        /\ \A x \in Threads : x # t => pc'[x] = pc[x]
    BY DEF At, TurnInv
  <1>2. /\ permits \in {0, 1}
        /\ permits = 1 => \A x \in Threads : pc[x] \notin Turning(x)
        /\ \A x, y \in Threads : pc[x] \in Turning(x) /\ pc[y] \in Turning(y) => x = y
    BY DEF TurnInv
  <1>3. CASE permits' = permits /\ (to \in Turning(t) <=> from \in Turning(t))
    <2>1. \A x \in Threads : pc'[x] \in Turning(x) <=> pc[x] \in Turning(x)
      BY <1>1, <1>3
    <2> QED
      BY <1>1, <1>2, <1>3, <2>1 DEF TurnInv, Kept
  <1>4. CASE permits > 0 /\ permits' = permits - 1 /\ to \in Turning(t)
    <2>1. permits = 1 /\ permits' = 0
      BY <1>2, <1>4
    <2>2. \A x \in Threads : pc'[x] \in Turning(x) => x = t
      BY <1>1, <1>2, <2>1
    <2>3. pc'[t] \in Turning(t)
      BY <1>1, <1>4
    <2> QED
      BY <1>1, <2>1, <2>2, <2>3 DEF TurnInv, Kept
  <1>5. CASE from \in Turning(t) /\ permits' = permits + 1 /\ to \notin Turning(t)
    <2>1. permits' = 1
      BY <1>1, <1>2, <1>5
    <2>2. \A x \in Threads : pc'[x] \notin Turning(x)
      BY <1>1, <1>2, <1>5
    <2> QED
      BY <1>1, <2>1, <2>2 DEF TurnInv, Kept
  <1>6. CASE permits' = permits /\ to \notin Turning(t) /\ ~notifier'
    <2>1. \A x \in Threads : pc'[x] \in Turning(x) => pc[x] \in Turning(x)
      BY <1>1, <1>6
    <2> QED
      BY <1>1, <1>2, <1>6, <2>1 DEF TurnInv
  <1> QED
    BY <1>3, <1>4, <1>5, <1>6

\* Every step is one of these.
LEMMA NextKeepsTurns ==
  ASSUME TurnInv, RunnerNext \/ HandleNetworkEvent \/ \E t \in Callers : Call(t) \/ CallerNext(t)
  PROVE  TurnInv' /\ (Kept => Kept' \/ ~notifier')
  <1>1. /\ Runner \in Threads
        /\ Turning(Runner) = {"lock", "claim again", "notify"}
    BY ThreadFacts DEF Turning
  <1>2. RunnerSteps \subseteq Steps /\ CallerSteps \subseteq Steps
    BY DEF Steps
  <1>3. ASSUME NEW from \in RunnerSteps, NEW to \in RunnerSteps, At(Runner, from, to),
               permits' = permits, to \in Turning(Runner) <=> from \in Turning(Runner)
        PROVE  TurnInv' /\ (Kept => Kept' \/ ~notifier')
    BY <1>1, <1>2, <1>3, StepKeepsTurns
  <1> USE DEF RunnerSteps
  <1>4. CASE Start \/ StartClaim \/ Connect \/ Resume
    BY <1>1, <1>3, <1>4 DEF Start, StartClaim, Connect, Resume
  <1>5. CASE ResumeThrows \/ ResumeEnds \/ ResumeClaim \/ Cleanup
    BY <1>1, <1>3, <1>5 DEF ResumeThrows, ResumeEnds, ResumeClaim, Cleanup
  <1>6. CASE Poll \/ Reconnect \/ ConnectionLost \/ PollReturns \/ HandleNetworkEvent
    BY <1>1, <1>3, <1>6 DEF Poll, Reconnect, ConnectionLost, PollReturns, HandleNetworkEvent
  <1>7. CASE HandleNotification \/ LockAgain \/ ClaimAgain
    BY <1>1, <1>3, <1>7 DEF HandleNotification, LockAgain, ClaimAgain
  <1>8. CASE AwaitHandover
    BY <1>1, <1>2, <1>8, StepKeepsTurns DEF AwaitHandover, SemaphoreWait
  <1>9. CASE HandoverDone
    BY <1>1, <1>2, <1>9, StepKeepsTurns DEF HandoverDone, SemaphoreNotify
  <1>10. ASSUME NEW c \in Callers, Call(c) \/ CallerNext(c)
         PROVE  TurnInv' /\ (Kept => Kept' \/ ~notifier')
    <2>1. /\ c \in Threads
          /\ Turning(c) = {"check", "write", "lock", "claim", "notify"}
      BY ThreadFacts DEF Turning
    <2>2. ASSUME NEW from \in CallerSteps, NEW to \in CallerSteps, At(c, from, to),
                 permits' = permits, to \in Turning(c) <=> from \in Turning(c)
          PROVE  TurnInv' /\ (Kept => Kept' \/ ~notifier')
      BY <1>2, <2>1, <2>2, StepKeepsTurns
    <2> USE DEF CallerSteps
    <2>3. CASE Call(c)
      BY <2>1, <2>2, <2>3 DEF Call
    <2>4. CASE CheckNotifier(c) \/ WakeRunner(c) \/ Lock(c) \/ LockClaim(c) \/ Finish(c)
      BY <2>1, <2>2, <2>4 DEF CheckNotifier, WakeRunner, Lock, LockClaim, Finish
    <2>5. CASE TakeTurn(c)
      BY <1>2, <2>1, <2>5, StepKeepsTurns DEF TakeTurn, SemaphoreWait
    <2>6. CASE PassTurn(c)
      BY <1>2, <2>1, <2>6, StepKeepsTurns DEF PassTurn, SemaphoreNotify
    <2>7. CASE NotReady(c) \/ NullNotifier(c)
      <3>1. /\ ~notifier' /\ permits' = permits
            /\ At(c, "check", "idle") \/ At(c, "write", "crashed")
        BY <2>7 DEF NotReady, NullNotifier, tunnel
      <3>2. "idle" \in Steps /\ "crashed" \in Steps
        BY <1>2
      <3> QED
        BY <2>1, <3>1, <3>2, StepKeepsTurns
    <2> QED
      BY <1>10, <2>3, <2>4, <2>5, <2>6, <2>7 DEF CallerNext
  <1> QED
    BY <1>4, <1>5, <1>6, <1>7, <1>8, <1>9, <1>10 DEF RunnerNext

\* The tunnel comes up with its notification connection, and before that nobody calls.
LEMMA NextKeepsServed ==
  ASSUME ~EarlyCalls, TurnInv, ServedInv,
         RunnerNext \/ HandleNetworkEvent \/ \E t \in Callers : Call(t) \/ CallerNext(t)
  PROVE  ServedInv'
  <1>1. pc \in [Threads -> Steps] /\ Runner \in Threads
    BY ThreadFacts DEF TurnInv
  <1>2. TurnInv' /\ (Kept => Kept' \/ ~notifier')
    BY NextKeepsTurns
  <1>3. CASE Connect
    <2>1. /\ pc[Runner] = "connect" /\ pc'[Runner] = "resume"
          /\ \/ phase' \in {"Up", "Stopped"}
             \/ phase' = "Retrying" /\ notifier' = notifier
          /\ permits' = permits /\ bytes' = bytes /\ \A c \in Callers : pc'[c] = pc[c]
      BY <1>1, <1>3, ThreadFacts DEF Connect, At
    <2>2. permits = 1 /\ ~notifier /\ bytes = 0 /\ \A c \in Callers : pc[c] = "idle"
      BY <2>1 DEF ServedInv
    <2> QED
      BY <2>1, <2>2 DEF ServedInv, Kept
  <1>10. CASE Reconnect
    <2>1. /\ pc[Runner] = "event" /\ pc'[Runner] = "event"
          /\ phase = "Retrying" /\ phase' = "Up" /\ permits' = permits
      BY <1>1, <1>10 DEF Reconnect, At
    <2>2. permits = 1
      BY <2>1 DEF ServedInv
    <2> QED
      BY <2>1, <2>2 DEF ServedInv, Kept
  <1>4. CASE Start \/ StartClaim
    <2>1. /\ pc[Runner] \in {"start", "claim start"}
          /\ pc' = [pc EXCEPT ![Runner] = IF Start THEN "claim start" ELSE "connect"]
          /\ UNCHANGED <<phase, notifier, bytes, permits>>
      BY <1>4 DEF Start, StartClaim, At, tunnel
    <2>2. phase = "Initial"
      BY <2>1 DEF ServedInv
    <2>3. /\ pc'[Runner] \in {"claim start", "connect"}
          /\ \A c \in Callers : pc'[c] = pc[c]
      BY <1>1, <2>1, ThreadFacts
    <2> QED
      BY <2>1, <2>2, <2>3 DEF ServedInv
  \* Once the tunnel has started it stays so, and gets no new connection.
  <1>5. ASSUME phase # "Initial", phase' # "Initial", notifier' => notifier,
               pc'[Runner] = pc[Runner] \/ pc'[Runner] \notin {"start", "claim start", "connect"},
               phase' # "Retrying"
        PROVE  ServedInv'
    BY <1>2, <1>5 DEF ServedInv
  \* Nor does it as long as the first connect fails.
  <1>11. ASSUME phase # "Initial", phase' = phase, notifier' = notifier,
                permits' = permits, bytes' = bytes, \A c \in Callers : pc'[c] = pc[c],
                pc'[Runner] \in {"resume", "claim", "resumed", "select", "event", "thrown"}
         PROVE  ServedInv'
    BY <1>2, <1>11 DEF ServedInv
  <1>6. CASE Resume \/ ResumeThrows \/ ResumeClaim \/ Poll \/ PollReturns \/ HandleNetworkEvent
    <2>1. /\ pc[Runner] \in {"resume", "claim", "resumed", "select", "event"}
          /\ pc'[Runner] \in {"resume", "claim", "thrown", "resumed", "select", "event"}
          /\ UNCHANGED <<phase, notifier, permits, bytes>>
          /\ \A c \in Callers : pc'[c] = pc[c]
      BY <1>1, <1>6, ThreadFacts DEF Resume, ResumeThrows, ResumeClaim, Poll, PollReturns,
                                     HandleNetworkEvent, At, tunnel
    <2>2. phase # "Initial"
      BY <2>1 DEF ServedInv
    <2> QED
      BY <1>11, <2>1, <2>2
  <1>7. CASE ResumeEnds \/ Cleanup \/ ConnectionLost
    <2>1. /\ pc[Runner] \in {"resume", "resumed", "event", "select"}
          /\ pc'[Runner] \in {"done", "resume", "event", "select"}
          /\ notifier' => notifier
          /\ phase' \in {"Ended", "Stopped"}
      BY <1>1, <1>7 DEF ResumeEnds, Cleanup, ConnectionLost, At, tunnel
    <2> QED
      BY <1>5, <2>1 DEF ServedInv
  <1>8. CASE HandleNotification \/ AwaitHandover \/ LockAgain \/ ClaimAgain \/ HandoverDone
    <2>1. /\ pc[Runner] \in {"select", "yielded", "lock", "claim again", "notify"}
          /\ pc'[Runner] \in {"yielded", "lock", "claim again", "notify", "event"}
          /\ UNCHANGED <<phase, notifier>>
          /\ pc[Runner] = "select" => bytes > 0
      BY <1>1, <1>8 DEF HandleNotification, AwaitHandover, LockAgain, ClaimAgain, HandoverDone,
                        At, tunnel
    <2>2. phase # "Retrying"
      <3>1. ~(0 > 0)
        OBVIOUS
      <3> QED
        BY <2>1, <3>1 DEF ServedInv
    <2> QED
      BY <1>5, <2>1, <2>2 DEF ServedInv
  <1>9. ASSUME NEW c \in Callers, Call(c) \/ CallerNext(c)
        PROVE  ServedInv'
    <2>1. c \in Threads /\ c # Runner
      BY ThreadFacts
    <2>2. pc'[Runner] = pc[Runner]
      BY <1>1, <1>9, <2>1 DEF Call, CallerNext, TakeTurn, CheckNotifier, NotReady, WakeRunner,
                              NullNotifier, Lock, LockClaim, PassTurn, Finish, At
    <2>3. phase \notin {"Initial", "Retrying"}
      <3>1. CASE Call(c)
        BY <3>1 DEF Call
      <3>2. CASE CallerNext(c)
        BY <3>2 DEF ServedInv, CallerNext, TakeTurn, CheckNotifier, NotReady, WakeRunner,
                    NullNotifier, Lock, LockClaim, PassTurn, Finish, At
      <3> QED
        BY <1>9, <3>1, <3>2
    <2>4. notifier' = notifier /\ phase' \in {phase, "Stopped"}
      BY <1>9 DEF Call, CallerNext, TakeTurn, CheckNotifier, NotReady, WakeRunner,
                  NullNotifier, Lock, LockClaim, PassTurn, Finish, tunnel
    <2> QED
      BY <1>5, <2>2, <2>3, <2>4
  <1> QED
    BY <1>3, <1>4, <1>6, <1>7, <1>8, <1>9, <1>10 DEF RunnerNext

LEMMA InitKeeps == Init => TurnInv /\ ServedInv
  <1> SUFFICES ASSUME Init PROVE TurnInv /\ ServedInv
    OBVIOUS
  <1>1. /\ pc \in [Threads -> Steps] /\ pc[Runner] = "start"
        /\ \A c \in Callers : pc[c] = "idle"
    BY ThreadFacts DEF Init, Steps, RunnerSteps, CallerSteps
  <1>2. \A t \in Threads : pc[t] \notin Turning(t)
    BY <1>1, ThreadFacts DEF Init, Turning
  <1>3. permits = 1 /\ ~notifier /\ bytes = 0 /\ phase = "Initial"
    BY DEF Init
  <1> QED
    BY <1>1, <1>2, <1>3 DEF TurnInv, ServedInv

\* If nobody calls before the tunnel is up, the one permit is free or in the hands of
\* one thread for as long as there is a notification connection.
THEOREM PermitOfCallers == ~EarlyCalls /\ Spec => []PermitIsHeld
  <1>1. TurnInv /\ ServedInv => PermitIsHeld
    <2> SUFFICES ASSUME TurnInv, ServedInv, notifier
                 PROVE  /\ permits = 1 <=> \A t \in Threads : ~Turn(t)
                        /\ permits = 0 <=> \E t \in Threads : Turn(t)
                        /\ \A t, u \in Threads : Turn(t) /\ Turn(u) => t = u
      BY DEF PermitIsHeld
    <2>1. \A t \in Threads : Turn(t) <=> pc[t] \in Turning(t)
      BY DEF Turn, Turning
    <2>2. /\ permits \in {0, 1}
          /\ permits = 1 => \A t \in Threads : pc[t] \notin Turning(t)
          /\ \A t, u \in Threads : pc[t] \in Turning(t) /\ pc[u] \in Turning(u) => t = u
          /\ permits = 1 \/ \E t \in Threads : pc[t] \in Turning(t)
      BY DEF TurnInv, ServedInv, Kept
    <2>3. permits = 1 <=> \A t \in Threads : ~Turn(t)
      BY <2>1, <2>2
    <2>4. permits = 0 <=> permits # 1
      BY <2>2
    <2> QED
      BY <2>1, <2>2, <2>3, <2>4
  <1>2. ASSUME ~EarlyCalls, TurnInv, ServedInv, [Next]_vars PROVE TurnInv' /\ ServedInv'
    <2>1. CASE UNCHANGED vars
      BY <1>2, <2>1 DEF vars, tunnel, TurnInv, ServedInv, Kept
    <2>2. CASE Next
      BY <1>2, <2>2, NextKeepsTurns, NextKeepsServed DEF Next
    <2> QED
      BY <1>2, <2>1, <2>2
  <1>3. ASSUME ~EarlyCalls PROVE Spec => []PermitIsHeld
    <2>1. TurnInv /\ ServedInv /\ [Next]_vars => TurnInv' /\ ServedInv'
      BY <1>2, <1>3
    <2> QED
      BY <1>1, <2>1, InitKeeps, PTL DEF Spec
  <1> QED
    BY <1>3

\* The rest of the type invariant, in two parts.
FlagInv == running \in BOOLEAN /\ notifier \in BOOLEAN
TypeInv ==
  /\ owner \in Threads \cup {Nobody}
  /\ runningThread \in Threads \cup {Nobody}
  /\ bytes \in Nat
  /\ phase \in {"Initial", "Retrying", "Up", "Stopped", "Ended"}
  /\ calls \in [Callers -> 0 .. MaxCalls]

LEMMA NextKeepsFlags ==
  ASSUME FlagInv, [Next]_vars
  PROVE  FlagInv'
  <1> USE DEF FlagInv
  <1>1. CASE UNCHANGED vars
    BY <1>1 DEF vars, lock, tunnel
  <1>2. ASSUME running' \in {running, TRUE, FALSE}, notifier' \in {notifier, TRUE, FALSE}
        PROVE  FlagInv'
    BY <1>2
  <1> USE DEF lock, tunnel, TakeMutex, Claim, ReleaseAccessLock
  <1>3. CASE Start \/ StartClaim \/ Connect \/ Resume \/ ResumeThrows \/ ResumeEnds
    BY <1>2, <1>3 DEF Start, StartClaim, Connect, Resume, ResumeThrows, ResumeEnds
  <1>4. CASE ResumeClaim \/ Cleanup \/ Poll \/ Reconnect \/ ConnectionLost \/ PollReturns
             \/ HandleNetworkEvent
    BY <1>2, <1>4 DEF ResumeClaim, Cleanup, Poll, Reconnect, ConnectionLost, PollReturns,
                      HandleNetworkEvent
  <1>5. CASE HandleNotification \/ AwaitHandover \/ LockAgain \/ ClaimAgain \/ HandoverDone
    BY <1>2, <1>5 DEF HandleNotification, AwaitHandover, LockAgain, ClaimAgain, HandoverDone
  <1>6. ASSUME NEW c \in Callers, Call(c) \/ CallerNext(c)
        PROVE  FlagInv'
    BY <1>2, <1>6 DEF Call, CallerNext, TakeTurn, CheckNotifier, NotReady, WakeRunner,
                      NullNotifier, Lock, LockClaim, PassTurn, Finish
  <1> QED
    BY <1>1, <1>3, <1>4, <1>5, <1>6 DEF Next, RunnerNext

LEMMA NextKeepsTypes ==
  ASSUME TypeInv, [Next]_vars
  PROVE  TypeInv'
  <1>1. Runner \in Threads
    BY ThreadFacts
  <1>2. CASE UNCHANGED vars
    BY <1>2 DEF vars, lock, tunnel, TypeInv
  \* A step of thread t on the lock, and what it does to the rest.
  <1>3. ASSUME NEW t \in Threads, owner' \in {owner, t, Nobody},
               runningThread' \in {runningThread, t},
               bytes' \in Nat, phase' \in {phase, "Retrying", "Up", "Stopped", "Ended"}, calls' = calls
        PROVE  TypeInv'
    BY <1>3 DEF TypeInv
  <1>4. bytes \in Nat /\ bytes + 1 \in Nat /\ 0 \in Nat
    BY DEF TypeInv
  <1> USE DEF lock, tunnel, TakeMutex, Claim, ReleaseAccessLock
  <1>5. CASE Start \/ StartClaim \/ Connect \/ Resume \/ ResumeThrows \/ ResumeEnds
    BY <1>1, <1>3, <1>4, <1>5 DEF Start, StartClaim, Connect, Resume, ResumeThrows, ResumeEnds
  <1>6. CASE ResumeClaim \/ Cleanup \/ Poll \/ Reconnect \/ ConnectionLost \/ PollReturns
             \/ HandleNetworkEvent
    BY <1>1, <1>3, <1>4, <1>6 DEF ResumeClaim, Cleanup, Poll, Reconnect, ConnectionLost,
                                 PollReturns, HandleNetworkEvent
  <1>7. CASE HandleNotification \/ AwaitHandover \/ LockAgain \/ ClaimAgain \/ HandoverDone
    BY <1>1, <1>3, <1>4, <1>7 DEF HandleNotification, AwaitHandover, LockAgain, ClaimAgain,
                                 HandoverDone
  <1>8. ASSUME NEW c \in Callers, Call(c)
        PROVE  TypeInv'
    <2>1. calls[c] \in 0 .. MaxCalls /\ calls[c] < MaxCalls
      BY <1>8 DEF Call, TypeInv
    <2>2. calls[c] + 1 \in 0 .. MaxCalls
      BY <2>1, LockAssumption
    <2>3. calls' \in [Callers -> 0 .. MaxCalls]
      BY <1>8, <2>2 DEF Call, TypeInv
    <2> QED
      BY <1>8, <2>3 DEF Call, TypeInv
  <1>9. ASSUME NEW c \in Callers, CallerNext(c)
        PROVE  TypeInv'
    <2>1. c \in Threads
      BY ThreadFacts
    <2>2. CASE TakeTurn(c) \/ CheckNotifier(c) \/ NotReady(c) \/ NullNotifier(c) \/ PassTurn(c)
      BY <1>3, <1>4, <2>1, <2>2 DEF TakeTurn, CheckNotifier, NotReady, NullNotifier, PassTurn
    <2>3. CASE WakeRunner(c) \/ Lock(c) \/ LockClaim(c) \/ Finish(c)
      BY <1>3, <1>4, <2>1, <2>3 DEF WakeRunner, Lock, LockClaim, Finish
    <2> QED
      BY <1>9, <2>2, <2>3 DEF CallerNext
  <1> QED
    BY <1>2, <1>5, <1>6, <1>7, <1>8, <1>9 DEF Next, RunnerNext

\* Every variable keeps its type, and the semaphore never has more than one permit,
\* however many threads call and however often.
THEOREM LockTypes == Spec => []LockTypeOK
  <1>1. Init => TypeInv
    BY LockAssumption DEF Init, TypeInv
  <1>2. Init => FlagInv
    BY DEF Init, FlagInv
  <1>3. TypeInv /\ [Next]_vars => TypeInv'
    BY NextKeepsTypes
  <1>4. FlagInv /\ [Next]_vars => FlagInv'
    BY NextKeepsFlags
  <1>5. TurnInv /\ [Next]_vars => TurnInv'
    BY NextKeepsTurns DEF Next, vars, TurnInv
  <1>6. TypeInv /\ FlagInv /\ TurnInv => LockTypeOK
    BY DEF TypeInv, FlagInv, TurnInv, LockTypeOK, Steps
  <1> QED
    BY <1>1, <1>2, <1>3, <1>4, <1>5, <1>6, InitKeeps, PTL DEF Spec
=============================================================================
