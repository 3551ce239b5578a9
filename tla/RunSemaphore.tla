---------------------------- MODULE RunSemaphore ----------------------------
(***************************************************************************)
(* The cross-process cap on concurrent research runs                       *)
(* (infrastructure/research-run-semaphore.ts) together with its only       *)
(* caller, runResearch() (orchestration/research-orchestration-service.ts).*)
(* A semaphore of MaxSlots slots is MaxSlots lock files; acquire() sweeps  *)
(* them from a rotating start, and a sweep that wins nothing ends in one   *)
(* of three ways: every slot errored (the caller then runs without a       *)
(* slot), the deadline has passed (ResearchRunCapacityError), or a sleep   *)
(* and another sweep.                                                      *)
(*                                                                         *)
(* One try of a slot is one step here: FileLock models what happens inside *)
(* it.  The slots of this module keep the guarantee that module shows for  *)
(* a lock nobody misfires on.                                              *)
(***************************************************************************)
EXTENDS Integers, FiniteSets

CONSTANTS Run,        \* calls of runResearch(), each made once
          Process,    \* the processes they are made in
          ProcessOf,  \* [Run -> Process]
          MaxSlots,   \* PI_RESEARCH_MAX_CONCURRENT_RUNS, floored, at least 1
          Free,       \* a slot file that does not exist
          Torn,       \* a slot file without a pid, younger than ten minutes
          Expired,    \* the same past its ceiling
          Scenarios   \* what may happen: records of
                      \*   calls      runs that are started at all
                      \*   cancels    runs whose caller may cancel them
                      \*   mortal     processes that may be killed
                      \*   breakable  slots that may become uncreatable, and mend
                      \*   leaky      runs whose release may fail to unlink

ASSUME RunsRunSomewhere == ProcessOf \in [Run -> Process]
ASSUME AtLeastOneSlot   == MaxSlots \in Nat \ {0}
ASSUME NotARun          == /\ {Free, Torn, Expired} \cap Run = {}
                           /\ Free # Torn /\ Free # Expired /\ Torn # Expired

Slot == 0 .. MaxSlots - 1

ASSUME ScenariosTyped ==
  Scenarios \subseteq [calls: SUBSET Run, cancels: SUBSET Run, mortal: SUBSET Process,
                       breakable: SUBSET Slot, leaky: SUBSET Run]

VARIABLES scene,      \* the scenario of this behaviour
          slot,       \* slot[i]: the run whose acquisition the file names
          broken,     \* slots whose file raises an errno error when tried
          alive,      \* processes not yet killed
          nextStart,  \* nextStartIndex of each process's semaphore
          pc,         \* where each run is
          sweep,      \* the sweep a run is in: [start, offset, broken]
          late,       \* runs whose acquire deadline has passed
          aborted,    \* runs whose AbortSignal has fired
          leaked,     \* history: runs whose unlink failed
          \* history of the sweep in progress, used by properties only:
          open,       \* slots free and intact ever since the sweep began
          intact,     \* slots intact ever since
          shut        \* slots broken ever since

env  == <<scene, broken, alive>>
hist == <<open, intact, shut>>
vars == <<scene, slot, broken, alive, nextStart, pc, sweep, late, aborted, leaked, hist>>

NoSweep == [start |-> 0, offset |-> 0, broken |-> 0]

Init ==
  /\ scene \in Scenarios
  /\ slot = [i \in Slot |-> Free]
  /\ broken = {}
  /\ alive = Process
  /\ nextStart = [p \in Process |-> 0]
  /\ pc = [r \in Run |-> "idle"]
  /\ sweep = [r \in Run |-> NoSweep]
  /\ late = {}
  /\ aborted = {}
  /\ leaked = {}
  /\ open = [r \in Run |-> {}]
  /\ intact = [r \in Run |-> {}]
  /\ shut = [r \in Run |-> {}]

(* Mutant of TakeableIn: the slots of the dead are never taken over.        *)
FreeOnly(file, up) == file \in {Free, Expired}

(* A slot a try-take wins: no file, an expired torn one, or one whose owner *)
(* is dead.  A live owner is never stolen from (liveOwnerStaleThreshold is  *)
(* MAX_SAFE_INTEGER).                                                       *)
TakeableIn(file, up) == \/ file \in {Free, Expired}
                        \/ file \in Run /\ ProcessOf[file] \notin up
Takeable(i) == TakeableIn(slot[i], alive)

(* History, kept while a run sweeps: a slot leaves the sets for good when   *)
(* its condition stops holding; hence the primes.                           *)
Recall(fresh) ==
  LET held(r, set) == IF r \in fresh THEN Slot ELSE IF pc'[r] = "trying" THEN set ELSE {}
  IN
  /\ open' = [r \in Run |-> {i \in held(r, open[r]) :
                                TakeableIn(slot'[i], alive') /\ i \notin broken'}]
  /\ intact' = [r \in Run |-> held(r, intact[r]) \ broken']
  /\ shut' = [r \in Run |-> held(r, shut[r]) \cap broken']

(* One lap of the for(;;): take the process's start index, advance it.      *)
BeginSweep(r) ==
  LET p == ProcessOf[r] IN
  /\ pc' = [pc EXCEPT ![r] = "trying"]
  /\ sweep' = [sweep EXCEPT ![r] = [start |-> nextStart[p], offset |-> 0, broken |-> 0]]
  /\ nextStart' = [nextStart EXCEPT ![p] = (@ + 1) % MaxSlots]
  /\ UNCHANGED <<slot, env, late, aborted, leaked>>
  /\ Recall({r})

(* acquire() entered: an abort that came before is noticed, then the first  *)
(* sweep begins in the same turn of the event loop.                         *)
Enter(r) ==
  /\ r \in scene.calls /\ pc[r] = "idle" /\ ProcessOf[r] \in alive
  /\ IF r \in aborted
     THEN /\ pc' = [pc EXCEPT ![r] = "cancelled"]
          /\ UNCHANGED <<slot, env, nextStart, sweep, late, aborted, leaked>>
          /\ Recall({})
     ELSE BeginSweep(r)

(* Where a sweep that won nothing goes, given how many slots errored.       *)
AfterSweep(r, errored) ==
  CASE errored = MaxSlots -> "uncapped"    \* rethrown, the caller fails open
    [] errored # MaxSlots /\ r \in late -> "refused"
    [] OTHER -> "asleep"

(* Mutant of Target: the sweep keeps trying the slot it started from.       *)
TargetFixed(r) == sweep[r].start

Target(r) == (sweep[r].start + sweep[r].offset) % MaxSlots

(* Mutant of TrySlot: the winner's record is not written to the slot.       *)
TryUnwritten(r) ==
  LET i == Target(r)
      errored == sweep[r].broken + (IF i \in broken THEN 1 ELSE 0)
      won == i \notin broken /\ Takeable(i)
      last == sweep[r].offset = MaxSlots - 1
  IN
  /\ pc[r] = "trying" /\ ProcessOf[r] \in alive
  /\ slot' = slot
  /\ pc' = [pc EXCEPT ![r] = IF won THEN "admitted"
                             ELSE IF last THEN AfterSweep(r, errored) ELSE "trying"]
  /\ sweep' = [sweep EXCEPT ![r] =
        IF won \/ last THEN NoSweep
        ELSE [start |-> @.start, offset |-> @.offset + 1, broken |-> errored]]
  /\ UNCHANGED <<env, nextStart, late, aborted, leaked>>
  /\ Recall({})

(* trySlot() of the slot at the sweep's offset.                             *)
TrySlot(r) ==
  LET i == Target(r)
      errored == sweep[r].broken + (IF i \in broken THEN 1 ELSE 0)
      won == i \notin broken /\ Takeable(i)
      last == sweep[r].offset = MaxSlots - 1
  IN
  /\ pc[r] = "trying" /\ ProcessOf[r] \in alive
  /\ slot' = IF won THEN [slot EXCEPT ![i] = r] ELSE slot
  /\ pc' = [pc EXCEPT ![r] = IF won THEN "admitted"
                             ELSE IF last THEN AfterSweep(r, errored) ELSE "trying"]
  /\ sweep' = [sweep EXCEPT ![r] =
        IF won \/ last THEN NoSweep
        ELSE [start |-> @.start, offset |-> @.offset + 1, broken |-> errored]]
  /\ UNCHANGED <<env, nextStart, late, aborted, leaked>>
  /\ Recall({})

(* The poll delay is over.                                                  *)
Wake(r) == pc[r] = "asleep" /\ ProcessOf[r] \in alive /\ BeginSweep(r)

(* The caller's signal fires.  sleep() listens for it only while the timer  *)
(* is armed, and the event fires once.  Inside, the orchestrator hears it,  *)
(* which is one more way to reach Finish.                                   *)
Abort(r) ==
  /\ r \in scene.cancels \ aborted /\ ProcessOf[r] \in alive
  /\ pc[r] \in {"idle", "trying", "asleep"}
  /\ aborted' = aborted \cup {r}
  /\ pc' = IF pc[r] = "asleep" THEN [pc EXCEPT ![r] = "cancelled"] ELSE pc
  /\ UNCHANGED <<slot, env, nextStart, sweep, late, leaked>>
  /\ Recall({})

(* Date.now() reaches the acquire's deadline.                               *)
DeadlinePasses(r) ==
  /\ pc[r] \in {"trying", "asleep"} /\ r \notin late
  /\ late' = late \cup {r}
  /\ UNCHANGED <<slot, env, nextStart, pc, sweep, aborted, leaked>>
  /\ Recall({})

(* Mutant of Finish: a cancelled run leaves without releasing.              *)
FinishNoRelease(r) ==
  /\ pc[r] \in {"admitted", "uncapped"} /\ ProcessOf[r] \in alive
  /\ pc' = [pc EXCEPT ![r] = IF pc[r] = "admitted" /\ r \notin aborted
                              THEN "releasing" ELSE "done"]
  /\ UNCHANGED <<slot, env, nextStart, sweep, late, aborted, leaked>>
  /\ Recall({})

(* The orchestrator returns or throws, and runResearch() reaches finally:   *)
(* a run that has a slot releases it, one that failed open has none.        *)
Finish(r) ==
  /\ pc[r] \in {"admitted", "uncapped"} /\ ProcessOf[r] \in alive
  /\ pc' = [pc EXCEPT ![r] = IF pc[r] = "admitted" THEN "releasing" ELSE "done"]
  /\ UNCHANGED <<slot, env, nextStart, sweep, late, aborted, leaked>>
  /\ Recall({})

(* runSlot.release(): the file is unlinked, or the unlink fails, which is   *)
(* only logged.                                                             *)
Release(r) ==
  /\ pc[r] = "releasing" /\ ProcessOf[r] \in alive
  /\ \E i \in Slot :
        /\ slot[i] = r
        /\ \/ slot' = [slot EXCEPT ![i] = Free] /\ leaked' = leaked
           \/ r \in scene.leaky /\ slot' = slot /\ leaked' = leaked \cup {r}
  /\ pc' = [pc EXCEPT ![r] = "done"]
  /\ UNCHANGED <<env, nextStart, sweep, late, aborted>>
  /\ Recall({})

(* SIGKILL: the process's runs stop where they are.  A run that was between *)
(* open(wx) and the write of its record leaves a file without a pid.        *)
Crash(p) ==
  /\ p \in scene.mortal \cap alive
  /\ alive' = alive \ {p}
  /\ pc' = [r \in Run |-> IF ProcessOf[r] = p THEN "dead" ELSE pc[r]]
  /\ sweep' = [r \in Run |-> IF ProcessOf[r] = p THEN NoSweep ELSE sweep[r]]
  /\ \/ slot' = slot
     \/ \E r \in Run :
          /\ ProcessOf[r] = p /\ pc[r] = "trying"
          /\ slot[Target(r)] = Free /\ Target(r) \notin broken
          /\ slot' = [slot EXCEPT ![Target(r)] = Torn]
  /\ UNCHANGED <<scene, broken, nextStart, late, aborted, leaked>>
  /\ Recall({})

(* Ten minutes pass over a torn slot file.                                  *)
TornExpires(i) ==
  /\ slot[i] = Torn
  /\ slot' = [slot EXCEPT ![i] = Expired]
  /\ UNCHANGED <<env, nextStart, pc, sweep, late, aborted, leaked>>
  /\ Recall({})

(* A slot file becomes uncreatable (ENOSPC, EACCES, a lost directory), or   *)
(* creatable again.                                                         *)
Break(i) ==
  /\ i \in scene.breakable
  /\ broken' = IF i \in broken THEN broken \ {i} ELSE broken \cup {i}
  /\ UNCHANGED <<scene, slot, alive, nextStart, pc, sweep, late, aborted, leaked>>
  /\ Recall({})

Stopped == \A r \in scene.calls : pc[r] \in {"refused", "cancelled", "done", "dead"}

Next == \/ \E r \in Run : \/ Enter(r) \/ TrySlot(r) \/ Wake(r) \/ Abort(r)
                          \/ DeadlinePasses(r) \/ Finish(r) \/ Release(r)
        \/ \E p \in Process : Crash(p)
        \/ \E i \in Slot : TornExpires(i) \/ (~Stopped /\ Break(i))

Spec == Init /\ [][Next]_vars

(* Timers fire, I/O completes, time passes and every run ends.  Nothing is  *)
(* assumed of aborts, crashes or of slots that break and mend.              *)
Progress(r) == Enter(r) \/ TrySlot(r) \/ Wake(r) \/ Finish(r) \/ Release(r)
FairSpec == /\ Spec
            /\ \A r \in Run : WF_vars(Progress(r))
            /\ \A i \in Slot : WF_vars(TornExpires(i))

-----------------------------------------------------------------------------

(* The type invariant.                                                      *)
TypeOK ==
  /\ scene \in Scenarios
  /\ slot \in [Slot -> Run \cup {Free, Torn, Expired}]
  /\ broken \subseteq Slot
  /\ alive \subseteq Process
  /\ nextStart \in [Process -> Slot]
  /\ pc \in [Run -> {"idle", "trying", "asleep", "admitted", "uncapped", "releasing",
                     "refused", "cancelled", "done", "dead"}]
  /\ sweep \in [Run -> [start: Slot, offset: Slot, broken: 0 .. MaxSlots]]
  /\ late \subseteq Run
  /\ aborted \subseteq Run
  /\ leaked \subseteq Run
  /\ open \in [Run -> SUBSET Slot]
  /\ intact \in [Run -> SUBSET Slot]
  /\ shut \in [Run -> SUBSET Slot]

Capped == {r \in Run : pc[r] \in {"admitted", "releasing"}}

(* The cap: at most MaxSlots runs are inside with a slot, counted over the  *)
(* runs and not over the files, through crashes, reclaims, torn files and   *)
(* releases that fail.                                                      *)
CapHolds == Cardinality(Capped) =< MaxSlots

(* Every admitted run's slot file still names it, so its release frees a    *)
(* slot of its own and never another run's.                                 *)
AdmittedOwnsASlot ==
  \A r \in Capped : Cardinality({i \in Slot : slot[i] = r}) = 1

(* A live process holds a slot only for a run that is inside: whatever way  *)
(* a run ends, its slot comes back, unless the unlink itself fails.         *)
NoLeakedSlot ==
  \A i \in Slot : slot[i] \in Run /\ ProcessOf[slot[i]] \in alive
                    => slot[i] \in Capped \cup leaked

(* A run is refused for capacity only after a sweep during which no slot    *)
(* was takeable from beginning to end, and never when every slot was broken *)
(* throughout: that is breakage, not capacity.                              *)
RefusedOnlyWhenFull ==
  [][\A r \in Run : pc[r] # "refused" /\ pc'[r] = "refused"
                      => open[r] = {} /\ shut[r] # Slot]_vars

(* A run goes ahead without a slot only if no slot was intact throughout    *)
(* its last sweep: contention, however long, never lifts the cap.           *)
UncappedOnlyWhenBroken ==
  [][\A r \in Run : pc[r] # "uncapped" /\ pc'[r] = "uncapped" => intact[r] = {}]_vars

Waiting(r) == pc[r] \in {"trying", "asleep"}

(* Even a run that never reaches its deadline gets in, provided the runs    *)
(* ahead of it end: nothing but a broken slot or a failed unlink may keep   *)
(* it waiting, least of all the torn or orphaned files of the dead.         *)
Impaired == broken # {} \/ leaked # {}
EveryRunGetsIn == \A r \in Run : Waiting(r) ~> (r \in late \/ ~Waiting(r) \/ Impaired)
=============================================================================
