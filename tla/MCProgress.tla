----------------------------- MODULE MCProgress -----------------------------
(***************************************************************************)
(* Five components that promise that what was begun ends: the file lock    *)
(* between processes, whose names are used as they are, the turns of one   *)
(* process at it, the queue of embeddings, the circuit breaker and the     *)
(* rounds of a research run.  Each keeps its own state and shares none     *)
(* with another; one behaviour is about one of them, its `subject'.        *)
(***************************************************************************)
EXTENDS FileLock

CONSTANTS
  a, b, d,                                            \* processes
  Flows, Inherited, ContextOf, Forced, MaxNesting,    \* of LockTurns
  Requests, MaxDepth, Hangs,                          \* of EmbedQueue
  Trials, FailureThreshold, HalfOpenMaxCalls,         \* of CircuitBreaker
  BaseRounds, MaxExtra, MaxWaits, MaxMessages         \* of ResearchRounds

ASSUME FlowSetting == "none" \notin Flows
ASSUME RequestSetting == "nobody" \notin Requests

(* The flows of a process that use the state lock: the scheduler's         *)
(* leadership check and its idle shutdown inherit the Set of the init      *)
(* callback that armed them, a research run and a background sweep do not. *)
Contexts == [f \in Flows |-> IF f \in {"monitor", "idle"} THEN "init" ELSE "fresh"]

VARIABLE subject  \* the component this behaviour is about

-----------------------------------------------------------------------------
VARIABLES
  turnsPc, turnsLine, turnsResolveTurn, turnsHandle, turnsLockCount,
  turnsHeldIn, turnsLockFile, turnsRetired, turnsCleanup
Turns == INSTANCE LockTurns WITH
  pc <- turnsPc, line <- turnsLine, resolveTurn <- turnsResolveTurn,
  handle <- turnsHandle, lockCount <- turnsLockCount, heldIn <- turnsHeldIn,
  lockFile <- turnsLockFile, retired <- turnsRetired,
  cleanup <- turnsCleanup, Flow <- Flows, NoFlow <- "none",
  Inherited <- Inherited, NoContext <- "fresh", ContextOf <- ContextOf,
  Forced <- Forced, MaxNesting <- MaxNesting
turnsVars == <<turnsPc, turnsLine, turnsResolveTurn, turnsHandle, turnsLockCount,
  turnsHeldIn, turnsLockFile, turnsRetired, turnsCleanup>>

-----------------------------------------------------------------------------
VARIABLES
  queueTasks, queueRunning, queueCurrentWork, queuePoisoned, queueInside,
  queueAnswer, queueServer
Queue == INSTANCE EmbedQueue WITH
  tasks <- queueTasks, running <- queueRunning,
  currentWork <- queueCurrentWork, poisoned <- queuePoisoned,
  inside <- queueInside, answer <- queueAnswer, server <- queueServer,
  Request <- Requests, MaxDepth <- MaxDepth, Hangs <- Hangs,
  Nobody <- "nobody"
queueVars == <<queueTasks, queueRunning, queueCurrentWork, queuePoisoned, queueInside,
  queueAnswer, queueServer>>

-----------------------------------------------------------------------------
VARIABLES
  breakerCircuit, breakerFailureCount, breakerSuccessCount,
  breakerHalfOpenInFlight, breakerCooled, breakerTrial, breakerHealthy,
  breakerStragglers
Breaker == INSTANCE CircuitBreaker WITH
  circuit <- breakerCircuit, failureCount <- breakerFailureCount,
  successCount <- breakerSuccessCount,
  halfOpenInFlight <- breakerHalfOpenInFlight, cooled <- breakerCooled,
  trial <- breakerTrial, healthy <- breakerHealthy,
  stragglers <- breakerStragglers, Trial <- Trials,
  FailureThreshold <- FailureThreshold, HalfOpenMaxCalls <- HalfOpenMaxCalls
breakerVars == <<breakerCircuit, breakerFailureCount, breakerSuccessCount,
  breakerHalfOpenInFlight, breakerCooled, breakerTrial, breakerHealthy,
  breakerStragglers>>

-----------------------------------------------------------------------------
VARIABLES
  roundsDoing, roundsCurrentRound, roundsMaxRounds, roundsWaitRetryCount,
  roundsCapacityOnlyRounds, roundsExtra, roundsLastAnnouncedRound,
  roundsRouterChoseSynthesis, roundsQueued, roundsSent, roundsHasReports,
  roundsFailures, roundsCancelled, roundsStarts, roundsLastStart,
  roundsCompletes, roundsErrors, roundsUnbuilt
Rounds == INSTANCE ResearchRounds WITH
  doing <- roundsDoing, currentRound <- roundsCurrentRound,
  maxRounds <- roundsMaxRounds, waitRetryCount <- roundsWaitRetryCount,
  capacityOnlyRounds <- roundsCapacityOnlyRounds, extra <- roundsExtra,
  lastAnnouncedRound <- roundsLastAnnouncedRound,
  routerChoseSynthesis <- roundsRouterChoseSynthesis, queued <- roundsQueued,
  sent <- roundsSent, hasReports <- roundsHasReports,
  failures <- roundsFailures, cancelled <- roundsCancelled,
  starts <- roundsStarts, lastStart <- roundsLastStart,
  completes <- roundsCompletes, errors <- roundsErrors, unbuilt <- roundsUnbuilt,
  BaseRounds <- BaseRounds, MaxExtra <- MaxExtra, MaxWaits <- MaxWaits,
  MaxMessages <- MaxMessages
roundsVars == <<roundsDoing, roundsCurrentRound, roundsMaxRounds, roundsWaitRetryCount,
  roundsCapacityOnlyRounds, roundsExtra, roundsLastAnnouncedRound,
  roundsRouterChoseSynthesis, roundsQueued, roundsSent, roundsHasReports,
  roundsFailures, roundsCancelled, roundsStarts, roundsLastStart,
  roundsCompletes, roundsErrors, roundsUnbuilt>>

-----------------------------------------------------------------------------
(* A step of one component leaves every other alone.                         *)
FileLockOnly == UNCHANGED <<subject, turnsVars, queueVars, breakerVars, roundsVars>>
TurnsOnly == UNCHANGED <<subject, vars, queueVars, breakerVars, roundsVars>>
QueueOnly == UNCHANGED <<subject, vars, turnsVars, breakerVars, roundsVars>>
BreakerOnly == UNCHANGED <<subject, vars, turnsVars, queueVars, roundsVars>>
RoundsOnly == UNCHANGED <<subject, vars, turnsVars, queueVars, breakerVars>>

all == <<subject, vars, turnsVars, queueVars, breakerVars, roundsVars>>

AllInit ==
  /\ subject \in {"file lock", "turns", "queue", "breaker", "rounds"}
  /\ Init
  /\ Turns!Init
  /\ Queue!Init
  /\ Breaker!Init
  /\ Rounds!Init
  (* Only the subject starts in more than one way.                         *)
  /\ subject # "file lock" => file = NoLock

AllNext ==
  \/ \E p \in Proc : subject = "file lock" /\ Start(p) /\ FileLockOnly
  \/ \E p \in Proc : subject = "file lock" /\ Acquire(p) /\ FileLockOnly
  \/ \E p \in Proc : subject = "file lock" /\ Contend(p) /\ FileLockOnly
  \/ \E p \in Proc : subject = "file lock" /\ Finish(p) /\ FileLockOnly
  \/ \E p \in Proc : subject = "file lock" /\ Heartbeat(p) /\ FileLockOnly
  \/ \E p \in Proc : subject = "file lock" /\ Retire(p) /\ FileLockOnly
  \/ \E p \in Proc : subject = "file lock" /\ ForceTeardown(p) /\ FileLockOnly
  \/ \E p \in Proc : subject = "file lock" /\ Crash(p) /\ FileLockOnly
  \/ subject = "file lock" /\ Age /\ FileLockOnly
  \/ \E f \in Flows : subject = "turns" /\ Turns!Call(f) /\ TurnsOnly
  \/ \E f \in Flows : subject = "turns" /\ Turns!Nest(f) /\ TurnsOnly
  \/ \E f \in Flows : subject = "turns" /\ Turns!Proceed(f) /\ TurnsOnly
  \/ subject = "turns" /\ Turns!Cleanup /\ TurnsOnly
  \/ subject = "turns" /\ Turns!RetireDrained /\ TurnsOnly
  \/ subject = "turns" /\ Turns!RetireForced /\ TurnsOnly
  \/ subject = "turns" /\ Turns!TornDown /\ TurnsOnly
  \/ subject = "turns" /\ Turns!PeerTakes /\ TurnsOnly
  \/ subject = "turns" /\ Turns!PeerReleases /\ TurnsOnly
  \/ \E r \in Requests : subject = "queue" /\ Queue!Ask(r) /\ QueueOnly
  \/ \E r \in Requests : subject = "queue" /\ Queue!Settle(r) /\ QueueOnly
  \/ \E r \in Requests : subject = "queue" /\ Queue!SoftTimeout(r) /\ QueueOnly
  \/ subject = "queue" /\ Queue!Pump /\ QueueOnly
  \/ subject = "queue" /\ Queue!HardDeadline /\ QueueOnly
  \/ subject = "queue" /\ Queue!Shutdown /\ QueueOnly
  \/ subject = "queue" /\ Queue!Closed /\ QueueOnly
  \/ subject = "queue" /\ Queue!WaitForIdle /\ QueueOnly
  \/ subject = "queue" /\ Queue!Disposed /\ QueueOnly
  \/ \E c \in Trials : subject = "breaker" /\ Breaker!Execute(c) /\ BreakerOnly
  \/ \E c \in Trials : subject = "breaker" /\ Breaker!Succeed(c) /\ BreakerOnly
  \/ \E c \in Trials : subject = "breaker" /\ Breaker!Fail(c) /\ BreakerOnly
  \/ \E c \in Trials : subject = "breaker" /\ Breaker!FailUncounted(c) /\ BreakerOnly
  \/ subject = "breaker" /\ Breaker!CoolDown /\ BreakerOnly
  \/ subject = "breaker" /\ Breaker!Reset /\ BreakerOnly
  \/ subject = "breaker" /\ Breaker!Heal /\ BreakerOnly
  \/ subject = "rounds" /\ Rounds!Enter /\ RoundsOnly
  \/ subject = "rounds" /\ Rounds!DecidedToFinish /\ RoundsOnly
  \/ subject = "rounds" /\ Rounds!DecidedToWait /\ RoundsOnly
  \/ subject = "rounds" /\ Rounds!WaitEnds /\ RoundsOnly
  \/ subject = "rounds" /\ Rounds!DecidedToDelegate /\ RoundsOnly
  \/ \E found \in BOOLEAN, failed \in {"none", "capacity", "quality"} : subject = "rounds" /\ Rounds!Researched(found, failed) /\ RoundsOnly
  \/ subject = "rounds" /\ Rounds!Conclude /\ RoundsOnly
  \/ \E empty \in BOOLEAN : subject = "rounds" /\ Rounds!Written(empty) /\ RoundsOnly
  \/ subject = "rounds" /\ Rounds!Throw /\ RoundsOnly
  \/ subject = "rounds" /\ Rounds!Caught /\ RoundsOnly
  \/ subject = "rounds" /\ Rounds!FallbackFails /\ RoundsOnly
  \/ subject = "rounds" /\ Rounds!Begin /\ RoundsOnly
  \/ subject = "rounds" /\ Rounds!Steer /\ RoundsOnly
  \/ subject = "rounds" /\ Rounds!Cancel /\ RoundsOnly

(* The fairness of each component, as its own module gives the reasons.    *)
Lock(A)  == subject = "file lock" /\ A /\ FileLockOnly
Turn(A)  == subject = "turns" /\ A /\ TurnsOnly
Embed(A) == subject = "queue" /\ A /\ QueueOnly
Break(A) == subject = "breaker" /\ A /\ BreakerOnly
Round(A) == subject = "rounds" /\ A /\ RoundsOnly
AllFair ==
  /\ \A p \in Proc : WF_all(Lock(Contend(p))) /\ WF_all(Lock(Finish(p)))
  /\ \A p \in Faulty : SF_all(Lock(Verify(p)))
  /\ WF_all(Lock(Age))
  /\ \A f \in Flows : WF_all(Turn(Turns!Proceed(f))) /\ SF_all(Turn(Turns!Release(f)))
  /\ WF_all(Turn(Turns!RetireDrained \/ Turns!RetireForced \/ Turns!TornDown))
  /\ \A r \in Requests : WF_all(Embed(Queue!Settle(r)))
  /\ WF_all(Embed(Queue!Pump)) /\ WF_all(Embed(Queue!Timers))
  /\ WF_all(Embed(Queue!Closed)) /\ WF_all(Embed(Queue!WaitForIdle))
  /\ WF_all(Embed(Queue!Disposed))
  /\ \A c \in Trials : /\ WF_all(Break(Breaker!Succeed(c) \/ Breaker!Fail(c)))
                       /\ WF_all(Break(Breaker!Execute(c)))
  /\ WF_all(Break(Breaker!CoolDown))
  /\ WF_all(Round(Rounds!Rounds))

SafetySpec == AllInit /\ [][AllNext]_all
ProgressSpec == SafetySpec /\ AllFair

-----------------------------------------------------------------------------
(* A caller parked on its turn gets on.                                    *)
NoLostTurn == Turns!NoLostTurn

(* The callers of one instance see a first-come-first-served lock.         *)
ImplementsFifoLock == Turns!ImplementsFifoLock

(* file-lock-service.ts:21-22: the calls of one instance are serialized,   *)
(* unless one is made inside another.  (Two timers that were armed in one  *)
(* callback are not.)                                                      *)
Serialized == Turns!Serialized

(* One native embedding call at a time.                                    *)
OneNativeCall == Queue!OneNativeCall

(* Every embedding request is answered, and a shutdown of the server ends  *)
(* unless an inference hangs.                                              *)
EveryoneAnswered == Queue!EveryoneAnswered

(* The breaker closes once the dependency is well again.                   *)
RecoversWhenHealthy == Breaker!RecoversWhenHealthy

(* What a research run announces adds up, and what it collected is not     *)
(* thrown away.                                                            *)
OneOutcome == Rounds!OneOutcome

(* A run that has begun ends.                                              *)
RunEnds == Rounds!RunEnds
=============================================================================
