------------------------------- MODULE GpuLock -------------------------------
(***************************************************************************)
(* The GPU lock: an owner record in the shared state file with a count of  *)
(* holds, taken and released by infrastructure/gpu-resource-service.ts for *)
(* the embedding calls of knowledge/embedder.ts.  Calls of one process     *)
(* share the record.  A record of a dead process is taken over at once,    *)
(* one of a living process when it is older than gpuLockStaleThresholdMs.  *)
(***************************************************************************)
EXTENDS Integers, FiniteSets

CONSTANTS Call,      \* embedding calls
          Pid,       \* process ids, which the system reuses
          PidOf,     \* PidOf[c]: the process c runs in
          MaxBirths, \* bound: processes started
          None

VARIABLES gpuOwner,  \* the record in the state file
          stage,     \* stage[c]: "idle", "wait", "gpu" (with the lock), "done"
          birth,     \* birth[p]: start time of the process with id p, 0 for dead
          births,
          forfeited  \* history: ways in which a living holder lost its hold

gpuVars == <<gpuOwner, stage, birth, births, forfeited>>

Calls(p) == {c \in Call : PidOf[c] = p}
Record(p, n) == [pid |-> p, start |-> birth[p], holds |-> n, old |-> FALSE]
Holding(p) == {c \in Calls(p) : stage[c] = "gpu"}

Init ==
  /\ gpuOwner = None /\ stage = [c \in Call |-> "idle"]
  /\ birth = [p \in Pid |-> 1] /\ births = 1 /\ forfeited = {}

Ask(c) ==
  /\ stage[c] = "idle" /\ birth[PidOf[c]] # 0
  /\ stage' = [stage EXCEPT ![c] = "wait"]
  /\ UNCHANGED <<gpuOwner, birth, births, forfeited>>

(* Mutant: a re-entrant acquire does not count.                            *)
AcquireOnce(c) ==
  /\ stage[c] = "wait" /\ stage' = [stage EXCEPT ![c] = "gpu"]
  /\ IF gpuOwner = None THEN TRUE
     ELSE gpuOwner.pid = PidOf[c] \/ birth[gpuOwner.pid] # gpuOwner.start
  /\ gpuOwner' = Record(PidOf[c], 1)
  /\ UNCHANGED <<birth, births, forfeited>>

(* One updateState() of performAcquireGpuLock(): nobody's, ours (counted), *)
(* a dead owner's, an old one's.                                           *)
Acquire(c) ==
  /\ stage[c] = "wait" /\ stage' = [stage EXCEPT ![c] = "gpu"]
  /\ LET p == PidOf[c]
         own == gpuOwner # None /\ gpuOwner.pid = p /\ gpuOwner.start = birth[p]
         dead == gpuOwner # None /\ birth[gpuOwner.pid] # gpuOwner.start
     IN  \/ gpuOwner = None /\ gpuOwner' = Record(p, 1) /\ UNCHANGED forfeited
         \/ own /\ gpuOwner' = Record(p, gpuOwner.holds + 1) /\ UNCHANGED forfeited
         \/ dead /\ gpuOwner' = Record(p, 1) /\ UNCHANGED forfeited
         \/ /\ gpuOwner # None /\ ~own /\ ~dead /\ gpuOwner.old
            /\ gpuOwner' = Record(p, 1)
            /\ forfeited' = forfeited \cup {"stolen by age"}
  /\ UNCHANGED <<birth, births>>

(* timeoutMs: the call falls back to the CPU or goes on without the lock.  *)
TimeOut(c) ==
  /\ stage[c] = "wait" /\ gpuOwner # None
  /\ stage' = [stage EXCEPT ![c] = "done"]
  /\ UNCHANGED <<gpuOwner, birth, births, forfeited>>

(* releaseGpuLock(): the record is matched by process id alone.            *)
Decremented(p) ==
  IF gpuOwner # None /\ gpuOwner.pid = p
  THEN IF gpuOwner.holds <= 1 THEN None ELSE [gpuOwner EXCEPT !.holds = @ - 1]
  ELSE gpuOwner

Release(c) ==
  /\ stage[c] = "gpu" /\ stage' = [stage EXCEPT ![c] = "done"]
  /\ gpuOwner' = Decremented(PidOf[c])
  /\ UNCHANGED <<birth, births, forfeited>>

(* Embedder.dispose() releases once more than it acquired, "defensive".    *)
DisposeEmbedder(p) ==
  /\ birth[p] # 0 /\ gpuOwner # None /\ gpuOwner.pid = p
  /\ gpuOwner' = Decremented(p)
  /\ forfeited' = IF Holding(p) # {} THEN forfeited \cup {"disposal"} ELSE forfeited
  /\ UNCHANGED <<stage, birth, births>>

ReleaseFails(c) ==                       \* logged and forgotten: the hold stays counted
  /\ stage[c] = "gpu" /\ stage' = [stage EXCEPT ![c] = "done"]
  /\ UNCHANGED <<gpuOwner, birth, births, forfeited>>

Age ==                                   \* no acquire for longer than the threshold
  /\ gpuOwner # None /\ ~gpuOwner.old /\ gpuOwner' = [gpuOwner EXCEPT !.old = TRUE]
  /\ UNCHANGED <<stage, birth, births, forfeited>>

Die(p) ==
  /\ birth[p] # 0 /\ birth' = [birth EXCEPT ![p] = 0]
  /\ stage' = [c \in Call |-> IF PidOf[c] = p THEN "idle" ELSE stage[c]]
  /\ UNCHANGED <<gpuOwner, births, forfeited>>

Born(p) ==                               \* the process id is used again
  /\ birth[p] = 0 /\ births < MaxBirths
  /\ births' = births + 1 /\ birth' = [birth EXCEPT ![p] = births + 1]
  /\ UNCHANGED <<gpuOwner, stage, forfeited>>

Next ==
  \/ \E c \in Call : Ask(c) \/ Acquire(c) \/ TimeOut(c) \/ Release(c) \/ ReleaseFails(c)
  \/ \E p \in Pid : DisposeEmbedder(p) \/ Die(p) \/ Born(p)
  \/ Age

Spec == Init /\ [][Next]_gpuVars

-----------------------------------------------------------------------------
(* Calls of two processes are never on the GPU with the lock at once, and  *)
(* while calls of one are, its record counts at least those: whatever dies *)
(* and is reborn under the same id, times out or fails to release.  A      *)
(* holder can only lose the lock to the age limit or to the extra release  *)
(* of a disposal in its own process.                                       *)
GpuExclusive ==
  \/ \A p \in Pid : Holding(p) # {} =>
        /\ gpuOwner # None /\ gpuOwner.pid = p
        /\ gpuOwner.holds >= Cardinality(Holding(p))
  \/ forfeited # {}

-----------------------------------------------------------------------------
(* What makes it so: a call that waits or holds runs in a living process,  *)
(* and the record of one that holds also bears the start time of its life. *)
Alive == \A c \in Call : stage[c] \in {"wait", "gpu"} => birth[PidOf[c]] # 0

Recorded ==
  \/ \A p \in Pid : Holding(p) # {} =>
        /\ gpuOwner # None /\ gpuOwner.pid = p /\ gpuOwner.start = birth[p]
        /\ gpuOwner.holds >= Cardinality(Holding(p))
  \/ forfeited # {}

Owner == [pid : Pid, start : Nat, holds : Nat, old : BOOLEAN]

GpuTypeOK ==
  /\ stage \in [Call -> {"idle", "wait", "gpu", "done"}]
  /\ births \in Nat /\ birth \in [Pid -> Nat]
  /\ gpuOwner \in {None} \cup Owner

GpuInv == GpuTypeOK /\ Alive /\ Recorded

Setting == /\ IsFiniteSet(Call) /\ PidOf \in [Call -> Pid]
           /\ None \notin Owner
=============================================================================
