------------------------------ MODULE SdkLifecycle ------------------------------
(***************************************************************************)
(* The library's one instance per process (sdk.ts): initialization,        *)
(* shutdown and research runs asked for by callers that do not wait for    *)
(* each other.  The module's globals are all they share: the promise of an *)
(* initialization under way, the promise of a shutdown under way, a flag   *)
(* per state, and a generation that every shutdown bumps first, so that a  *)
(* run left behind writes nothing about itself into a later lifetime.      *)
(*                                                                         *)
(* A caller that awaited a promise goes on a few microtasks after it       *)
(* settled: another caller may act in between, but no I/O ends.            *)
(***************************************************************************)
EXTENDS Integers, FiniteSets

CONSTANTS
  Opener,  \* calls of initResearchSDK()
  Closer,  \* calls of shutdownResearchSDK(), by code or by a signal
  Runner,  \* calls of runDeepResearch()
  None

VARIABLES
  initialized, container, running,  \* isInitialized, globalContainer is set, _isRunning
  initPromise, shutdownPromise,     \* the call whose promise it is, or None
  generation,                       \* _sdkGeneration
  handlers, shuttingDown,           \* signal handlers are in place; one has fired
  opener,   \* of an initialization: idle, waiting, joined, building, undoing, rejecting, done
  closer,   \* of a shutdown: idle, waiting, joined, tearing, done
  runner,   \* of a run: idle, running, capturing, done
  awaits,   \* whose promise a waiting call awaits
  started,  \* of a run: the generation it started in
  summary, outcome,  \* the last run's summary and researcher outcome: a run or None
  lifetime, bornIn,  \* history: initializations that succeeded; of a run: the one it started in
  late,     \* history: runs that started while a shutdown or another initialization was under way
  slipped,  \* history: two calls met between a promise and its awaiters
  unlocked  \* history: the end of a stale run cleared the flag of a run in progress

sdkVars == <<initialized, container, running, initPromise, shutdownPromise, generation, handlers, shuttingDown,
             opener, closer, runner, awaits, started, summary, outcome, lifetime, bornIn, late, slipped, unlocked>>
runVars == <<runner, started, bornIn, late, unlocked>>
lastVars == <<summary, outcome>>
initVars == <<initialized, container, lifetime>>
sigVars == <<handlers, shuttingDown>>

Init ==
  /\ initialized = FALSE /\ container = FALSE /\ running = FALSE /\ handlers = FALSE /\ shuttingDown = FALSE
  /\ initPromise = None /\ shutdownPromise = None /\ generation = 0
  /\ opener = [o \in Opener |-> "idle"] /\ closer = [c \in Closer |-> "idle"] /\ runner = [r \in Runner |-> "idle"]
  /\ awaits = [x \in Opener \cup Closer |-> None]
  /\ started = [r \in Runner |-> 0] /\ bornIn = [r \in Runner |-> 0] /\ lifetime = 0
  /\ summary = None /\ outcome = None /\ late = {} /\ slipped = FALSE /\ unlocked = FALSE

Builds == {o \in Opener : opener[o] = "building"}
Teardowns == {o \in Opener : opener[o] = "undoing"} \cup {c \in Closer : closer[c] = "tearing"}
InProgress == {r \in Runner : runner[r] \in {"running", "capturing"}}
Settled(x) == IF x \in Opener THEN opener[x] = "done" ELSE closer[x] = "done"
Prompt ==
  /\ \A o \in Opener : opener[o] # "rejecting" /\ (opener[o] \in {"waiting", "joined"} => ~Settled(awaits[o]))
  /\ \A c \in Closer : closer[c] \in {"waiting", "joined"} => ~Settled(awaits[c])
OpenerGoes(o, p) == opener' = [opener EXCEPT ![o] = p]
CloserGoes(c, p) == closer' = [closer EXCEPT ![c] = p]
Await(x, y) == awaits' = [awaits EXCEPT ![x] = y]

-----------------------------------------------------------------------------
(* initResearchSDK().                                                      *)

(* Ready already, somebody else's initialization, or its own.              *)
Enter(o) ==
  /\ CASE initialized -> OpenerGoes(o, "done") /\ Await(o, None) /\ UNCHANGED <<initPromise, container>>
       [] ~initialized /\ initPromise # None -> OpenerGoes(o, "joined") /\ Await(o, initPromise) /\ UNCHANGED <<initPromise, container>>
       [] OTHER -> OpenerGoes(o, "building") /\ Await(o, None) /\ initPromise' = o /\ container' = TRUE
  /\ UNCHANGED <<initialized, lifetime, running, shutdownPromise, generation, sigVars, closer, runVars, lastVars, slipped>>

(* Mutant: an initialization does not wait for a shutdown.                 *)
OpenUnderShutdown(o) == opener[o] = "idle" /\ Enter(o)

Open(o) ==
  /\ opener[o] = "idle"
  /\ IF shutdownPromise = None THEN Enter(o)
     ELSE /\ OpenerGoes(o, "waiting") /\ Await(o, shutdownPromise)
          /\ UNCHANGED <<initVars, running, initPromise, shutdownPromise, generation, sigVars, closer, runVars, lastVars, slipped>>

OpenWaited(o) == opener[o] = "waiting" /\ Settled(awaits[o]) /\ Enter(o)

OpenJoined(o) ==
  /\ opener[o] = "joined" /\ Settled(awaits[o]) /\ OpenerGoes(o, "done") /\ Await(o, None)
  /\ UNCHANGED <<initVars, running, initPromise, shutdownPromise, generation, sigVars, closer, runVars, lastVars, slipped>>

(* Every service is up: the cleanup task and the signal handlers are       *)
(* registered.                                                             *)
Built(o) ==
  /\ Prompt /\ opener[o] = "building" /\ OpenerGoes(o, "done")
  /\ initialized' = TRUE /\ handlers' = TRUE /\ initPromise' = None /\ lifetime' = lifetime + 1
  /\ UNCHANGED <<container, running, shutdownPromise, generation, shuttingDown, closer, runVars, awaits, lastVars, slipped>>

(* A failure undoes what there is with the raw teardown: the public one    *)
(* would wait for this very initialization.                                *)
BuildFails(o) ==
  /\ Prompt /\ opener[o] = "building" /\ OpenerGoes(o, "undoing") /\ generation' = generation + 1
  /\ UNCHANGED <<initVars, running, initPromise, shutdownPromise, sigVars, closer, runVars, awaits, lastVars, slipped>>

(* What every teardown ends with, whatever failed in it.                   *)
Reset ==
  /\ initialized' = FALSE /\ container' = FALSE /\ running' = FALSE /\ initPromise' = None
  /\ summary' = None /\ outcome' = None /\ handlers' = FALSE /\ shuttingDown' = FALSE

Undone(o) ==
  /\ Prompt /\ opener[o] = "undoing" /\ OpenerGoes(o, "rejecting") /\ Reset
  /\ UNCHANGED <<lifetime, shutdownPromise, generation, closer, runVars, awaits, slipped>>

(* The `finally' of the initialization clears the promise once more: by    *)
(* now it may be a newer one's.                                            *)
Reject(o) ==
  /\ opener[o] = "rejecting" /\ OpenerGoes(o, "done") /\ initPromise' = None
  /\ slipped' = (slipped \/ initPromise # None)
  /\ UNCHANGED <<initVars, running, shutdownPromise, generation, sigVars, closer, runVars, awaits, lastVars>>

-----------------------------------------------------------------------------
(* shutdownResearchSDK().                                                  *)

(* One teardown at a time; the generation is bumped before anything else.  *)
Coalesce(c) ==
  /\ IF shutdownPromise # None
     THEN CloserGoes(c, "joined") /\ Await(c, shutdownPromise) /\ UNCHANGED <<shutdownPromise, generation, slipped>>
     ELSE /\ CloserGoes(c, "tearing") /\ Await(c, None) /\ shutdownPromise' = c /\ generation' = generation + 1
          /\ slipped' = (slipped \/ Builds # {} \/ Teardowns # {})
  /\ UNCHANGED <<initVars, running, initPromise, handlers, opener, runVars, lastVars>>

Shut(c) ==
  CASE ~initialized /\ initPromise = None /\ ~container ->
         /\ CloserGoes(c, "done")
         /\ UNCHANGED <<initVars, running, initPromise, shutdownPromise, generation, handlers, opener, runVars, awaits, lastVars, slipped>>
    [] initPromise # None ->
         /\ CloserGoes(c, "waiting") /\ Await(c, initPromise)
         /\ UNCHANGED <<initVars, running, initPromise, shutdownPromise, generation, handlers, opener, runVars, lastVars, slipped>>
    [] OTHER -> Coalesce(c)

Close(c) == closer[c] = "idle" /\ Shut(c) /\ UNCHANGED shuttingDown

(* A signal shuts down once, in the background.                            *)
Signal(c) == closer[c] = "idle" /\ handlers /\ ~shuttingDown /\ shuttingDown' = TRUE /\ Shut(c)

(* The initialization it waited for is over; whether a newer one has begun *)
(* meanwhile is not asked.                                                 *)
CloseWaited(c) == closer[c] = "waiting" /\ Settled(awaits[c]) /\ Coalesce(c) /\ UNCHANGED shuttingDown

CloseJoined(c) ==
  /\ closer[c] = "joined" /\ Settled(awaits[c]) /\ CloserGoes(c, "done") /\ Await(c, None)
  /\ UNCHANGED <<initVars, running, initPromise, shutdownPromise, generation, sigVars, opener, runVars, lastVars, slipped>>

TornDown(c) ==
  /\ Prompt /\ closer[c] = "tearing" /\ CloserGoes(c, "done") /\ Reset /\ shutdownPromise' = None
  /\ UNCHANGED <<lifetime, generation, opener, runVars, awaits, slipped>>

-----------------------------------------------------------------------------
(* runDeepResearch().                                                      *)

Run(r) ==
  /\ runner[r] = "idle" /\ initialized
  /\ IF running THEN runner' = [runner EXCEPT ![r] = "done"] /\ UNCHANGED <<running, started, bornIn, late>>
     ELSE /\ runner' = [runner EXCEPT ![r] = "running"] /\ running' = TRUE
          /\ started' = [started EXCEPT ![r] = generation] /\ bornIn' = [bornIn EXCEPT ![r] = lifetime]
          /\ late' = IF Builds \cup Teardowns = {} THEN late ELSE late \cup {r}
  /\ UNCHANGED <<initVars, initPromise, shutdownPromise, generation, sigVars, opener, closer, awaits, lastVars, slipped, unlocked>>

(* Done or failed, it writes its summary only into the generation it       *)
(* started in, and then awaits the services for the outcome.               *)
RunSettles(r) ==
  /\ runner[r] = "running" /\ runner' = [runner EXCEPT ![r] = "capturing"]
  /\ summary' = IF started[r] = generation THEN r ELSE summary
  /\ UNCHANGED <<initVars, running, initPromise, shutdownPromise, generation, sigVars, opener, closer, awaits, started, bornIn, late, unlocked, outcome, slipped>>

(* The `finally' of a run, whichever run the flag is for by now.           *)
Unlock(r) ==
  /\ runner[r] = "capturing" /\ runner' = [runner EXCEPT ![r] = "done"] /\ running' = FALSE
  /\ unlocked' = (unlocked \/ \E q \in InProgress \ {r} : bornIn[q] = lifetime)
  /\ UNCHANGED <<initVars, initPromise, shutdownPromise, generation, sigVars, opener, closer, awaits, started, bornIn, late, summary, slipped>>

(* Mutant: the generation is not checked again after the await.            *)
CapturedUnchecked(r) == outcome' = (IF summary = None THEN None ELSE r) /\ Unlock(r)

Captured(r) == outcome' = (IF started[r] = generation THEN r ELSE outcome) /\ Unlock(r)

Next ==
  \/ \E o \in Opener : Open(o) \/ OpenWaited(o) \/ OpenJoined(o) \/ Built(o) \/ BuildFails(o) \/ Undone(o) \/ Reject(o)
  \/ \E c \in Closer : Close(c) \/ Signal(c) \/ CloseWaited(c) \/ CloseJoined(c) \/ TornDown(c)
  \/ \E r \in Runner : Run(r) \/ RunSettles(r) \/ Captured(r)

Spec == Init /\ [][Next]_sdkVars

-----------------------------------------------------------------------------
(* Lifetimes do not mix: a teardown never meets an initialization or       *)
(* another teardown, two initializations never build one container, and    *)
(* what the accessors report is of a run of this lifetime ("the shutdown   *)
(* wipe must win over an older-generation run settling late"); nor do two  *)
(* runs of one lifetime overlap ("a concurrent call on the same SDK        *)
(* instance throws immediately").  Not so: for calls that act between a    *)
(* promise and its awaiters, for a run that starts while a shutdown or     *)
(* another initialization is under way, and after a run that outlived a    *)
(* shutdown cleared the flag of its successor.                             *)
LifetimesAreSeparate ==
  /\ slipped \/ (Cardinality(Builds) + Cardinality(Teardowns) <= 1)
  /\ \A r \in {summary, outcome} \ {None} : r \in late \/ bornIn[r] = lifetime
  /\ unlocked \/ Cardinality({r \in InProgress \ late : bornIn[r] = lifetime}) <= 1

-----------------------------------------------------------------------------
(* What makes it so.                                                       *)
SdkSetting == Opener \cap Closer = {} /\ None \notin Opener \cup Closer \cup Runner

SdkTyped ==
  /\ opener \in [Opener -> {"idle", "waiting", "joined", "building", "undoing", "rejecting", "done"}]
  /\ closer \in [Closer -> {"idle", "waiting", "joined", "tearing", "done"}]
  /\ awaits \in [Opener \cup Closer -> Opener \cup Closer \cup {None}]
  /\ initPromise \in Opener \cup {None} /\ shutdownPromise \in Closer \cup {None}
  /\ initialized \in BOOLEAN /\ container \in BOOLEAN /\ slipped \in BOOLEAN

(* Who waits for whom; and a promise is of the call that keeps it.         *)
OpenerWaits(o) == opener[o] = "waiting" => awaits[o] \in Closer /\ closer[awaits[o]] \in {"tearing", "done"}
CloserWaits(c) ==
  closer[c] = "waiting" => awaits[c] \in Opener /\ opener[awaits[c]] \in {"building", "undoing", "rejecting", "done"}
Promised ==
  /\ \A o \in Opener : OpenerWaits(o) /\ (initPromise = o => opener[o] \in {"building", "undoing"})
  /\ \A c \in Closer : CloserWaits(c) /\ (shutdownPromise = c <=> closer[c] = "tearing")

(* Between the end of a shutdown and the openers that waited for it,       *)
(* nothing is up but what one of these has begun.                          *)
Limbo == \E o \in Opener : opener[o] = "waiting" /\ closer[awaits[o]] = "done"
LimboIsEmpty ==
  Limbo => /\ shutdownPromise = None /\ ~initialized /\ (container => initPromise # None)
           /\ \A o \in Opener : opener[o] # "rejecting"
           /\ \A c \in Closer : closer[c] = "waiting" => opener[awaits[c]] # "done"

(* One initialization or one teardown.                                     *)
OneAtWork ==
  ~slipped => \A o \in Opener : opener[o] \in {"building", "undoing"} => initPromise = o /\ shutdownPromise = None

(* A run of the current generation, begun in peace, is in peace; what is   *)
(* reported is of the lifetime that is up; and of that lifetime one run at *)
(* most is in progress, whose flag is set.                                 *)
RunsTyped ==
  /\ runner \in [Runner -> {"idle", "running", "capturing", "done"}]
  /\ started \in [Runner -> Nat] /\ bornIn \in [Runner -> Nat] /\ generation \in Nat /\ lifetime \in Nat
  /\ \A r \in Runner : started[r] <= generation /\ bornIn[r] <= lifetime
  /\ {summary, outcome} \subseteq Runner \cup {None} /\ initialized \in BOOLEAN /\ unlocked \in BOOLEAN
RunsInPeace ==
  \A r \in InProgress \ late :
    started[r] = generation => initialized /\ Builds = {} /\ Teardowns = {} /\ bornIn[r] = lifetime
Reports(r) ==
  /\ runner[r] \in {"capturing", "done"}
  /\ r \in late \/ (bornIn[r] = lifetime /\ initialized /\ Builds = {})
Ours == {r \in InProgress \ late : bornIn[r] = lifetime}
OneRun ==
  unlocked \/ (/\ \A q, r \in Ours : q = r
               /\ initialized /\ Ours # {} => running)

CallersInv == SdkTyped /\ Promised /\ LimboIsEmpty /\ OneAtWork
RunsInv == RunsTyped /\ RunsInPeace /\ (\A r \in {summary, outcome} \ {None} : Reports(r)) /\ OneRun
SdkInv == CallersInv /\ RunsInv

(* What a caller's step is to the runs: nothing; the generation's end; an  *)
(* initialization's; or a teardown's.                                      *)
NoRunMoves == UNCHANGED <<runner, started, bornIn, late, unlocked>>
NothingToRuns ==
  /\ NoRunMoves /\ UNCHANGED <<running, summary, outcome, initialized, generation, lifetime>>
  /\ initialized => Builds' \subseteq Builds
  /\ initialized => Teardowns' \subseteq Teardowns
GenerationEnds ==
  /\ NoRunMoves /\ UNCHANGED <<running, summary, outcome, initialized, lifetime>>
  /\ generation' = generation + 1 /\ Builds' \subseteq Builds
LifetimeBegins ==
  /\ NoRunMoves /\ UNCHANGED <<running, summary, outcome, generation>>
  /\ Builds # {} /\ initialized' = TRUE /\ lifetime' = lifetime + 1
LifetimeEnds ==
  /\ NoRunMoves /\ UNCHANGED <<generation, lifetime>> /\ Teardowns # {}
  /\ initialized' = FALSE /\ running' = FALSE /\ summary' = None /\ outcome' = None
=============================================================================
