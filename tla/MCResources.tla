----------------------------- MODULE MCResources ----------------------------
(***************************************************************************)
(* The two components that share out what is scarce: the slots for runs,   *)
(* between processes (its names are used as they are), and the pool of     *)
(* browser workers, in one process.  One behaviour is about one of them,   *)
(* its `subject'.                                                          *)
(***************************************************************************)
EXTENDS RunSemaphore, TLC

CONSTANTS
  r1, r2, r3, p1, p2,                                     \* runs and processes
  Callers, Shapes, MaxPools, MaxStops, Threshold, None    \* of WorkerPool

ASSUME PoolsSetting == MaxPools \in Nat /\ None \notin 1 .. MaxPools

\* Two of the runs share a process and hence a rotating start index.
TwoAndOne == r1 :> p1 @@ r2 :> p1 @@ r3 :> p2

\* Three runs compete for two slots while processes die, an unlink fails and
\* a caller cancels; or two runs in two processes find slots that break.
Deaths   == [calls |-> Run, cancels |-> {r1}, mortal |-> Process, breakable |-> {}, leaky |-> {r3}]
Breakage == [calls |-> {r2, r3}, cancels |-> {r2}, mortal |-> {p1}, breakable |-> Slot, leaky |-> {}]
Hard     == {Deaths, Breakage}

\* The callers are alike, and so are the two shapes: all that matters is
\* whether the three want one shape, or one of them another.
Sorted(wants) == wants["c1"] = 1 /\ wants["c2"] = 1

VARIABLE subject  \* the component this behaviour is about

-----------------------------------------------------------------------------
VARIABLES
  poolsPool, poolsShape, poolsBuilt, poolsLife, poolsInflight, poolsRacing,
  poolsOutgoing, poolsEpochOf, poolsEpoch, poolsGeneration, poolsStopping, poolsStop,
  poolsInit, poolsErrors, poolsResetting, poolsResets, poolsPc, poolsWants,
  poolsGot, poolsSince
Pools == INSTANCE WorkerPool WITH
  pool <- poolsPool, shape <- poolsShape, built <- poolsBuilt,
  life <- poolsLife, inflight <- poolsInflight, racing <- poolsRacing, outgoing <- poolsOutgoing,
  epochOf <- poolsEpochOf, epoch <- poolsEpoch,
  generation <- poolsGeneration, stopping <- poolsStopping,
  stop <- poolsStop, init <- poolsInit, errors <- poolsErrors,
  resetting <- poolsResetting, resets <- poolsResets, pc <- poolsPc,
  wants <- poolsWants, got <- poolsGot, since <- poolsSince,
  Caller <- Callers, Shape <- Shapes, MaxPools <- MaxPools,
  MaxStops <- MaxStops, Threshold <- Threshold, None <- None
poolsVars == <<poolsPool, poolsShape, poolsBuilt, poolsLife, poolsInflight, poolsRacing,
  poolsOutgoing, poolsEpochOf, poolsEpoch, poolsGeneration, poolsStopping, poolsStop,
  poolsInit, poolsErrors, poolsResetting, poolsResets, poolsPc, poolsWants,
  poolsGot, poolsSince>>

-----------------------------------------------------------------------------
(* A step of one component leaves every other alone.                         *)
SemaphoreOnly == UNCHANGED <<subject, poolsVars>>
PoolsOnly == UNCHANGED <<subject, vars>>

all == <<subject, vars, poolsVars>>

AllInit ==
  /\ subject \in {"run semaphore", "worker pool"}
  /\ Init
  /\ Pools!Init /\ Sorted(poolsWants)
  (* Only the subject starts in more than one way.                         *)
  /\ subject # "run semaphore" => scene = Deaths
  /\ subject # "worker pool" => poolsWants = [c \in Callers |-> 1]

AllNext ==
  \/ \E r \in Run : subject = "run semaphore" /\ Enter(r) /\ SemaphoreOnly
  \/ \E r \in Run : subject = "run semaphore" /\ TrySlot(r) /\ SemaphoreOnly
  \/ \E r \in Run : subject = "run semaphore" /\ Wake(r) /\ SemaphoreOnly
  \/ \E r \in Run : subject = "run semaphore" /\ Abort(r) /\ SemaphoreOnly
  \/ \E r \in Run : subject = "run semaphore" /\ DeadlinePasses(r) /\ SemaphoreOnly
  \/ \E r \in Run : subject = "run semaphore" /\ Finish(r) /\ SemaphoreOnly
  \/ \E r \in Run : subject = "run semaphore" /\ Release(r) /\ SemaphoreOnly
  \/ \E p \in Process : subject = "run semaphore" /\ Crash(p) /\ SemaphoreOnly
  \/ \E i \in Slot : subject = "run semaphore" /\ TornExpires(i) /\ SemaphoreOnly
  \/ \E i \in Slot : subject = "run semaphore" /\ (~Stopped /\ Break(i)) /\ SemaphoreOnly
  \/ \E c \in Callers : subject = "worker pool" /\ Pools!EnsurePool(c) /\ PoolsOnly
  \/ \E c \in Callers : subject = "worker pool" /\ Pools!Recheck(c) /\ PoolsOnly
  \/ \E c \in Callers : subject = "worker pool" /\ Pools!GiveUp(c) /\ PoolsOnly
  \/ subject = "worker pool" /\ Pools!Replaced /\ PoolsOnly
  \/ subject = "worker pool" /\ Pools!ReplaceFails /\ PoolsOnly
  \/ subject = "worker pool" /\ Pools!InstallFails /\ PoolsOnly
  \/ subject = "worker pool" /\ Pools!Construct /\ PoolsOnly
  \/ subject = "worker pool" /\ Pools!Undone /\ PoolsOnly
  \/ \E p \in Pools!Pool : subject = "worker pool" /\ Pools!DestroyDone(p) /\ PoolsOnly
  \/ \E p \in Pools!Pool : subject = "worker pool" /\ Pools!DestroyFails(p) /\ PoolsOnly
  \/ \E p \in Pools!Pool : subject = "worker pool" /\ Pools!WorkerFault(p) /\ PoolsOnly
  \/ \E r \in poolsResets : subject = "worker pool" /\ Pools!ResetFires(r) /\ PoolsOnly
  \/ \E r \in poolsResets : subject = "worker pool" /\ Pools!ResetDone(r) /\ PoolsOnly
  \/ subject = "worker pool" /\ Pools!Decay /\ PoolsOnly
  \/ subject = "worker pool" /\ Pools!Shutdown /\ PoolsOnly
  \/ subject = "worker pool" /\ Pools!ShutdownDestroys /\ PoolsOnly
  \/ subject = "worker pool" /\ Pools!ShutdownEnds /\ PoolsOnly

(* The fairness of each component, as its own module gives the reasons.    *)
Sem(A)    == subject = "run semaphore" /\ A /\ SemaphoreOnly
Manage(A) == subject = "worker pool" /\ A /\ PoolsOnly
AllFair ==
  /\ \A r \in Run : WF_all(Sem(Progress(r)))
  /\ \A i \in Slot : WF_all(Sem(TornExpires(i)))
  /\ \A c \in Callers : WF_all(Manage(Pools!Recheck(c) \/ Pools!GiveUp(c)))
  /\ WF_all(Manage(Pools!Replaced \/ Pools!ReplaceFails))
  /\ WF_all(Manage(Pools!Construct \/ Pools!InstallFails))
  /\ WF_all(Manage(Pools!Undone))
  /\ WF_all(Manage(\E r \in poolsResets : Pools!ResetFires(r) \/ Pools!ResetDone(r)))
  /\ WF_all(Manage(Pools!ShutdownDestroys)) /\ WF_all(Manage(Pools!ShutdownEnds))

SafetySpec == AllInit /\ [][AllNext]_all
ResourcesSpec == SafetySpec /\ AllFair

-----------------------------------------------------------------------------
(* No pool leaks, and none is destroyed twice at once.                     *)
DestroyedOnce == Pools!DestroyedOnce

(* Nobody is given a pool that is on its way out, unless for a replacement. *)
GivenALivePool == Pools!GivenALivePool

(* No event of a pool that was replaced takes down its successor.          *)
ResetsTheLivePool == Pools!ResetsTheLivePool

(* A call, a shutdown and a reset of the pool end, or a destroy() hangs.   *)
EveryWaitEnds == Pools!EveryWaitEnds
=============================================================================
