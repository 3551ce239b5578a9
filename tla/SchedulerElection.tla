-------------------------- MODULE SchedulerElection --------------------------
(***************************************************************************)
(* Which process runs the browsers: getScheduler() and                     *)
(* forceSchedulerRestart() of infrastructure/browser/scheduler-factory.ts, *)
(* SchedulerService.dispose() and the leadership half of                   *)
(* BrowserTaskScheduler.  The leader is the scheduler the state file names *)
(* as browserServer.  An initialization runs under the browser-init lock,  *)
(* but restarts, shutdowns and disposals read and clear the registration   *)
(* and the process's own slots without it, and at every await.             *)
(*                                                                         *)
(* The lock is taken as exclusive and reclaimed from the dead (FileLock);  *)
(* one read or update of the state file is one step (LockTurns).  A call   *)
(* that is answered from the cached instance or joins the promise in       *)
(* flight changes nothing and is not a step.                               *)
(***************************************************************************)
EXTENDS Integers, FiniteSets, TLAPS

CONSTANTS Call,         \* calls of getScheduler() that may initialize; each
                        \* also names the scheduler it may create
          Process,
          ProcessOf,    \* [Call -> Process]
          Version,      \* scheduler versions (config fingerprints)
          Client,       \* the instance of a process that follows
          None,
          Threshold,    \* LEADERSHIP_MISS_THRESHOLD
          Scenarios     \* what may happen: records of
                        \*   calls      calls that are made at all
                        \*   versions   versions they may ask for
                        \*   restarts   bound: restarts for failing tasks
                        \*   idle       schedulers that may idle out
                        \*   disposing  processes that may be disposed of
                        \*   mortal     processes that may be killed
                        \*   flaky      processes whose state file operations
                        \*              (and server starts) may fail

ASSUME CallsAreMadeSomewhere == ProcessOf \in [Call -> Process]
ASSUME NamesSE  == None \notin Call \cup Version /\ Client \notin Call /\ Client # None
ASSUME ScenariosSE ==
  /\ Threshold \in Nat \ {0}
  /\ \A sc \in Scenarios :
        /\ sc.calls \cup sc.idle \subseteq Call /\ sc.versions \subseteq Version
        /\ sc.restarts \in Nat
        /\ sc.disposing \cup sc.mortal \cup sc.flaky \subseteq Process

VARIABLES scene,       \* the scenario of this behaviour
          registered,  \* state.browserServer: the scheduler it names
          holder,      \* the initialization in the browser-init lock
          alive,       \* processes not yet killed
          instance,    \* SchedulerService.scheduler: None, Client or its own
          promise,     \* SchedulerService.initializationPromise
          version,     \* SchedulerService.schedulerVersion
          restart,     \* the restart in progress: [at, old, saw]
          disposal,    \* "no", "joining" or "done"
          restarts,    \* restarts asked for by failing tasks so far
          pc,          \* where the call is
          wants,       \* the version of the call's config
          saw,         \* the registration the initialization read
          life,        \* life[s]: "none", "up", "draining", "cleared", "closed"
          ports,       \* schedulers whose server listens
          armed,       \* schedulers whose leadership monitor runs
          misses,      \* consecutiveLeadershipMisses
          letgo        \* history: schedulers a failing restart let go of

service == <<instance, promise, version>>
leader  == <<life, ports, armed, misses>>
vars == <<scene, registered, holder, alive, service, restart, disposal, restarts, pc, wants, saw,
          leader, letgo>>

NoRestart == [at |-> "none", old |-> None, saw |-> None]

Init ==
  /\ scene \in Scenarios
  /\ registered = None /\ holder = None
  /\ alive = Process
  /\ instance = [p \in Process |-> None]
  /\ promise = [p \in Process |-> None]
  /\ version = [p \in Process |-> None]
  /\ restart = [p \in Process |-> NoRestart]
  /\ disposal = [p \in Process |-> "no"]
  /\ restarts = 0
  /\ pc = [c \in Call |-> "idle"]
  /\ wants \in [Call -> scene.versions]
  /\ saw = [c \in Call |-> None]
  /\ life = [c \in Call |-> "none"]
  /\ ports = {} /\ armed = {}
  /\ misses = [c \in Call |-> 0]
  /\ letgo = {}

(* StateManager.isPidAlive(): the registered process lives, and the state   *)
(* file still names the scheduler asked about.                              *)
IsAlive(s) == registered = s /\ ProcessOf[s] \in alive

(* Mutant of Cleared: the entry is deleted whoever it names.                *)
ClearedAlways(expected) == IF expected = None THEN None ELSE None

(* clearBrowserServer(): a compare-and-delete, unless nothing is expected.  *)
Cleared(expected) == IF expected \in {None, registered} THEN None ELSE registered

(* Mutant of Superseded: a current initialization installs whatever comes.  *)
NeverSuperseded(c) == c = None

(* Must this initialization no longer install its product?                  *)
Superseded(c) == LET p == ProcessOf[c] IN disposal[p] # "no" \/ promise[p] # c

(* shutdown() of a scheduler up to its first state access: it drains, and   *)
(* the service forgets it unless it holds another or is being disposed of.  *)
BeginShutdown(s) ==
  LET p == ProcessOf[s]
      forget == instance[p] = s /\ disposal[p] = "no"
  IN
  /\ life' = [life EXCEPT ![s] = IF @ = "up" THEN "draining" ELSE @]
  /\ armed' = armed \ {s}
  /\ IF forget /\ life[s] = "up"
     THEN /\ instance' = [instance EXCEPT ![p] = None]
          /\ promise' = [promise EXCEPT ![p] = None]
          /\ version' = [version EXCEPT ![p] = None]
     ELSE UNCHANGED service

-----------------------------------------------------------------------------
(* The steps of forceSchedulerRestart() in process p.                       *)

(* Mutant of StartRestart: the slots are emptied before the capture.        *)
StartRestartLate(p) ==
  /\ restart' = [restart EXCEPT ![p] = [at |-> "reading", old |-> None, saw |-> None]]
  /\ instance' = [instance EXCEPT ![p] = None]
  /\ promise' = [promise EXCEPT ![p] = None]
  /\ version' = [version EXCEPT ![p] = None]

(* The latch is taken, the instance captured and the three slots emptied.   *)
StartRestart(p) ==
  /\ restart' = [restart EXCEPT ![p] =
        [at |-> "reading", old |-> IF instance[p] \in Call THEN instance[p] ELSE None, saw |-> None]]
  /\ instance' = [instance EXCEPT ![p] = None]
  /\ promise' = [promise EXCEPT ![p] = None]
  /\ version' = [version EXCEPT ![p] = None]

(* A task the process had a scheduler for failed on a transient socket      *)
(* error or a leader handover.                                              *)
TaskFails(p) ==
  /\ p \in alive /\ disposal[p] = "no" /\ restart[p].at = "none"
  /\ \E c \in Call : ProcessOf[c] = p /\ pc[c] \in {"leader", "client", "standalone"}
  /\ restarts < scene.restarts
  /\ restarts' = restarts + 1
  /\ StartRestart(p)
  /\ UNCHANGED <<scene, registered, holder, alive, disposal, pc, wants, saw, leader, letgo>>

(* The call of getScheduler() that asked for the restart, if one did, gets  *)
(* back from it.                                                            *)
GetsBack(p, at) ==
  pc' = [c \in Call |-> IF ProcessOf[c] = p /\ pc[c] = "restarting" THEN at ELSE pc[c]]

(* The registration is read; if that throws, the finally unlatches, the     *)
(* captured scheduler is never shut down and the call that asked rejects.   *)
RestartReads(p) ==
  /\ p \in alive /\ restart[p].at = "reading"
  /\ \/ /\ restart' = [restart EXCEPT ![p] =
              [at |-> IF registered = None THEN "clearing" ELSE "judging",
               old |-> restart[p].old, saw |-> registered]]
        /\ UNCHANGED <<letgo, pc>>
     \/ /\ p \in scene.flaky
        /\ restart' = [restart EXCEPT ![p] = NoRestart]
        /\ letgo' = letgo \cup ({restart[p].old} \ {None}) /\ GetsBack(p, "failed")
  /\ UNCHANGED <<scene, registered, holder, alive, service, disposal, restarts, wants, saw, leader>>

(* Is the registered leader alive, and another process?  Then it is left.   *)
RestartJudges(p) ==
  /\ p \in alive /\ restart[p].at = "judging"
  /\ restart' = [restart EXCEPT ![p].at =
        IF IsAlive(restart[p].saw) /\ ProcessOf[restart[p].saw] # p THEN "stopping" ELSE "clearing"]
  /\ UNCHANGED <<scene, registered, holder, alive, service, disposal, restarts, pc, wants, saw, leader, letgo>>

(* What was read is cleared; a failure is only logged.                      *)
RestartClears(p) ==
  /\ p \in alive /\ restart[p].at = "clearing"
  /\ \/ registered' = Cleared(restart[p].saw)
     \/ p \in scene.flaky /\ UNCHANGED registered
  /\ restart' = [restart EXCEPT ![p].at = "stopping"]
  /\ UNCHANGED <<scene, holder, alive, service, disposal, restarts, pc, wants, saw, leader, letgo>>

(* The captured scheduler is shut down, unawaited, and the latch released.  *)
RestartEnds(p) ==
  /\ p \in alive /\ restart[p].at = "stopping"
  /\ restart' = [restart EXCEPT ![p] = NoRestart] /\ GetsBack(p, "restarted")
  /\ IF restart[p].old # None THEN BeginShutdown(restart[p].old)
     ELSE UNCHANGED <<service, life, armed>>
  /\ UNCHANGED <<scene, registered, holder, alive, disposal, restarts, wants, saw, ports, misses, letgo>>

-----------------------------------------------------------------------------
(* The steps of getScheduler(), call c in process ProcessOf[c].             *)

Calls(c) == ProcessOf[c] \in alive

(* An initialization starts: it queues for the lock, its promise is cached. *)
Initialize(c) ==
  /\ pc' = [pc EXCEPT ![c] = "locking"]
  /\ promise' = [promise EXCEPT ![ProcessOf[c]] = c]
  /\ UNCHANGED <<instance, version>>

(* The call finds nothing cached; or an instance of another version, which  *)
(* it restarts first unless a restart is in progress.                       *)
GetScheduler(c) ==
  LET p == ProcessOf[c] IN
  /\ c \in scene.calls /\ pc[c] = "idle" /\ Calls(c) /\ disposal[p] = "no"
  /\ \/ /\ instance[p] = None /\ promise[p] = None
        /\ Initialize(c)
        /\ UNCHANGED restart
     \/ /\ instance[p] # None /\ version[p] # wants[c] /\ restart[p].at = "none"
        /\ StartRestart(p)
        /\ pc' = [pc EXCEPT ![c] = "restarting"]
  /\ UNCHANGED <<scene, registered, holder, alive, disposal, restarts, wants, saw, leader, letgo>>

(* That restart is over: join what another call began, or begin.            *)
AfterRestart(c) ==
  LET p == ProcessOf[c] IN
  /\ pc[c] = "restarted" /\ Calls(c)
  /\ IF promise[p] # None
     THEN /\ pc' = [pc EXCEPT ![c] = "joined"]
          /\ UNCHANGED service
     ELSE Initialize(c)
  /\ UNCHANGED <<scene, registered, holder, alive, restart, disposal, restarts, wants, saw, leader, letgo>>

(* How an initialization ends: the lock is released; a rejected promise is  *)
(* taken out of its slot, a product is installed.                           *)
Reject(c) ==
  LET p == ProcessOf[c] IN
  /\ pc' = [pc EXCEPT ![c] = "failed"]
  /\ holder' = IF holder = c THEN None ELSE holder
  /\ promise' = [promise EXCEPT ![p] = IF @ = c THEN None ELSE @]
  /\ UNCHANGED <<instance, version>>
Install(c, what, as) ==
  LET p == ProcessOf[c] IN
  /\ pc' = [pc EXCEPT ![c] = as]
  /\ holder' = None
  /\ instance' = [instance EXCEPT ![p] = what]
  /\ version' = [version EXCEPT ![p] = wants[c]]
  /\ UNCHANGED promise

(* A step of c that leaves the service alone and goes on at `at`.           *)
GoOn(c, at) == /\ pc' = [pc EXCEPT ![c] = at]
               /\ UNCHANGED <<holder, service>>

(* The lock is acquired, or its sixty seconds are over.                     *)
Acquire(c) ==
  /\ pc[c] = "locking" /\ Calls(c) /\ holder = None
  /\ IF Superseded(c) THEN Reject(c)
     ELSE /\ holder' = c
          /\ pc' = [pc EXCEPT ![c] = "reading"]
          /\ UNCHANGED service
  /\ UNCHANGED <<scene, registered, alive, restart, disposal, restarts, wants, saw, leader, letgo>>
LockTimesOut(c) ==
  /\ pc[c] = "locking" /\ Calls(c) /\ holder # None
  /\ Reject(c)
  /\ UNCHANGED <<scene, registered, alive, restart, disposal, restarts, wants, saw, leader, letgo>>

ReadServer(c) ==
  /\ pc[c] = "reading" /\ Calls(c)
  /\ \/ /\ saw' = [saw EXCEPT ![c] = registered]
        /\ GoOn(c, IF registered = None THEN "creating" ELSE "judging")
     \/ /\ ProcessOf[c] \in scene.flaky
        /\ Reject(c)
        /\ UNCHANGED saw
  /\ UNCHANGED <<scene, registered, alive, restart, disposal, restarts, wants, leader, letgo>>

(* A dead leader is ignored, one of another version is to be cleared, one   *)
(* of this version is probed.                                               *)
Judge(c) ==
  /\ pc[c] = "judging" /\ Calls(c)
  /\ GoOn(c, CASE ~IsAlive(saw[c]) -> "creating"
               [] IsAlive(saw[c]) /\ wants[saw[c]] # wants[c] -> "clearing stale"
               [] OTHER -> "probing")
  /\ UNCHANGED <<scene, registered, alive, restart, disposal, restarts, wants, saw, leader, letgo>>

(* Something accepts connections on its port: become its client.            *)
Probe(c) ==
  /\ pc[c] = "probing" /\ Calls(c)
  /\ IF saw[c] \notin ports THEN GoOn(c, "clearing deaf")
     ELSE IF Superseded(c) THEN Reject(c) ELSE Install(c, Client, "client")
  /\ UNCHANGED <<scene, registered, alive, restart, disposal, restarts, wants, saw, leader, letgo>>

(* The stale or deaf registration is cleared; a failure to do so rejects    *)
(* the initialization in the first case and is logged in the second.        *)
ClearServer(c) ==
  /\ pc[c] \in {"clearing stale", "clearing deaf"} /\ Calls(c)
  /\ \/ /\ registered' = Cleared(saw[c])
        /\ GoOn(c, "creating")
     \/ /\ ProcessOf[c] \in scene.flaky
        /\ UNCHANGED registered
        /\ IF pc[c] = "clearing stale" THEN Reject(c) ELSE GoOn(c, "creating")
  /\ UNCHANGED <<scene, alive, restart, disposal, restarts, wants, saw, leader, letgo>>

(* new BrowserTaskScheduler(), whose server starts to listen.               *)
Create(c) ==
  /\ pc[c] = "creating" /\ Calls(c)
  /\ IF Superseded(c)
     THEN /\ Reject(c)
          /\ UNCHANGED life
     ELSE /\ life' = [life EXCEPT ![c] = "up"]
          /\ GoOn(c, "starting")
  /\ UNCHANGED <<scene, registered, alive, restart, disposal, restarts, wants, saw, ports, armed, misses, letgo>>

(* A superseded initialization shuts its own scheduler down, then rejects.  *)
Undo(c) == /\ BeginShutdown(c)
           /\ pc' = [pc EXCEPT ![c] = "undoing"]
           /\ UNCHANGED holder

(* The server listens; or it could not bind, and the scheduler serves its   *)
(* own process only.                                                        *)
ServerStarts(c) ==
  /\ pc[c] = "starting" /\ Calls(c)
  /\ \/ /\ ports' = ports \cup {c}
        /\ IF Superseded(c) THEN Undo(c)
           ELSE GoOn(c, "electing") /\ UNCHANGED <<life, armed>>
     \/ /\ ProcessOf[c] \in scene.flaky
        /\ UNCHANGED ports
        /\ IF Superseded(c) THEN Undo(c)
           ELSE Install(c, c, "standalone") /\ UNCHANGED <<life, armed>>
  /\ UNCHANGED <<scene, registered, alive, restart, disposal, restarts, wants, saw, misses, letgo>>

(* The election, one update of the state file: a registered leader whose    *)
(* process lives wins, whether or not it listens.                           *)
Elect(c) ==
  /\ pc[c] = "electing" /\ Calls(c)
  /\ \/ /\ registered # None /\ IsAlive(registered)
        /\ GoOn(c, "lost")
        /\ UNCHANGED registered
     \/ /\ ~(registered # None /\ IsAlive(registered))
        /\ registered' = c
        /\ GoOn(c, "won")
     \/ /\ ProcessOf[c] \in scene.flaky
        /\ GoOn(c, "unregistered")
        /\ UNCHANGED registered
  /\ UNCHANGED <<scene, alive, restart, disposal, restarts, wants, saw, leader, letgo>>

(* The winner is installed and monitored; one that could not register is    *)
(* installed too, without a monitor.                                        *)
Settle(c) ==
  /\ pc[c] \in {"won", "unregistered"} /\ Calls(c)
  /\ IF Superseded(c) THEN Undo(c)
     ELSE /\ Install(c, c, IF pc[c] = "won" THEN "leader" ELSE "standalone")
          /\ armed' = IF pc[c] = "won" /\ life[c] = "up" THEN armed \cup {c} ELSE armed
          /\ UNCHANGED life
  /\ UNCHANGED <<scene, registered, alive, restart, disposal, restarts, wants, saw, ports, misses, letgo>>

(* Mutant of Yield: the loser waits for a shutdown nobody asked for.        *)
YieldIdly(c) ==
  /\ pc[c] = "lost" /\ Calls(c)
  /\ GoOn(c, "yielding")
  /\ UNCHANGED <<scene, registered, alive, restart, disposal, restarts, wants, saw, leader, letgo>>

(* The loser shuts its scheduler down and then becomes a client.            *)
Yield(c) ==
  /\ pc[c] = "lost" /\ Calls(c)
  /\ BeginShutdown(c)
  /\ pc' = [pc EXCEPT ![c] = "yielding"]
  /\ UNCHANGED <<scene, registered, holder, alive, restart, disposal, restarts, wants, saw, ports, misses, letgo>>
Yielded(c) ==
  /\ pc[c] \in {"yielding", "undoing"} /\ Calls(c) /\ life[c] = "closed"
  /\ IF pc[c] = "undoing" \/ Superseded(c) THEN Reject(c) ELSE Install(c, Client, "client")
  /\ UNCHANGED <<scene, registered, alive, restart, disposal, restarts, wants, saw, leader, letgo>>

-----------------------------------------------------------------------------
(* A scheduler's own steps.                                                 *)

Running(s) == life[s] = "up" /\ ProcessOf[s] \in alive

(* The idle timer, armed by the constructor.                                *)
IdleTimeout(s) ==
  /\ s \in scene.idle /\ Running(s)
  /\ BeginShutdown(s)
  /\ UNCHANGED <<scene, registered, holder, alive, restart, disposal, restarts, pc, wants, saw,
                 ports, misses, letgo>>

(* One tick of the leadership monitor that finds another leader, or none.   *)
(* (A tick that finds its own id resets the count, one that cannot read     *)
(* leaves it.)                                                              *)
LeadershipCheck(s) ==
  /\ s \in armed /\ Running(s)
  /\ IF registered = s
     THEN /\ misses[s] > 0
          /\ misses' = [misses EXCEPT ![s] = 0]
          /\ UNCHANGED <<service, life, armed>>
     ELSE /\ misses' = [misses EXCEPT ![s] = @ + 1]
          /\ IF misses[s] + 1 >= Threshold THEN BeginShutdown(s)
             ELSE UNCHANGED <<service, life, armed>>
  /\ UNCHANGED <<scene, registered, holder, alive, restart, disposal, restarts, pc, wants, saw, ports, letgo>>

(* The rest of shutdown(): its own registration is cleared, if the state    *)
(* file can be read and written; then the server is stopped.                *)
Deregister(s) ==
  /\ life[s] = "draining" /\ ProcessOf[s] \in alive
  /\ life' = [life EXCEPT ![s] = "cleared"]
  /\ \/ registered' = Cleared(s)
     \/ ProcessOf[s] \in scene.flaky /\ UNCHANGED registered
  /\ UNCHANGED <<scene, holder, alive, service, restart, disposal, restarts, pc, wants, saw,
                 ports, armed, misses, letgo>>
StopServer(s) ==
  /\ life[s] = "cleared" /\ ProcessOf[s] \in alive
  /\ life' = [life EXCEPT ![s] = "closed"]
  /\ ports' = ports \ {s}
  /\ UNCHANGED <<scene, registered, holder, alive, service, restart, disposal, restarts, pc, wants, saw,
                 armed, misses, letgo>>

-----------------------------------------------------------------------------
(* SchedulerService.dispose() and the death of a process.                   *)

(* The initialization in flight is superseded first, and waited for.        *)
Dispose(p) ==
  /\ p \in scene.disposing \cap alive /\ disposal[p] = "no"
  /\ disposal' = [disposal EXCEPT ![p] = "joining"]
  /\ promise' = [promise EXCEPT ![p] = None]
  /\ UNCHANGED <<scene, registered, holder, alive, instance, version, restart, restarts, pc, wants, saw,
                 leader, letgo>>

(* It settled, or ten seconds are over: the instance is shut down.          *)
DisposeEnds(p) ==
  /\ p \in alive /\ disposal[p] = "joining"
  /\ disposal' = [disposal EXCEPT ![p] = "done"]
  /\ instance' = [instance EXCEPT ![p] = None]
  /\ life' = [c \in Call |-> IF c = instance[p] /\ life[c] = "up" THEN "draining" ELSE life[c]]
  /\ armed' = armed \ {instance[p]}
  /\ UNCHANGED <<scene, registered, holder, alive, promise, version, restart, restarts, pc, wants, saw,
                 ports, misses, letgo>>

Crash(p) ==
  /\ p \in scene.mortal \cap alive
  /\ alive' = alive \ {p}
  /\ LET mine == {c \in Call : ProcessOf[c] = p} IN
     /\ holder' = IF holder \in mine THEN None ELSE holder
     /\ pc' = [c \in Call |-> IF c \in mine THEN "dead" ELSE pc[c]]
     /\ life' = [c \in Call |-> IF c \in mine THEN "closed" ELSE life[c]]
     /\ ports' = ports \ mine
     /\ armed' = armed \ mine
  /\ UNCHANGED <<scene, registered, service, restart, disposal, restarts, wants, saw, misses, letgo>>

InitStep(c) == \/ AfterRestart(c) \/ Acquire(c) \/ LockTimesOut(c) \/ ReadServer(c) \/ Judge(c)
               \/ Probe(c) \/ ClearServer(c) \/ Create(c) \/ ServerStarts(c) \/ Elect(c)
               \/ Settle(c) \/ Yield(c) \/ Yielded(c)
RestartStep(p) == RestartReads(p) \/ RestartJudges(p) \/ RestartClears(p) \/ RestartEnds(p)

Next == \/ \E c \in Call : GetScheduler(c) \/ InitStep(c)
        \/ \E s \in Call : IdleTimeout(s) \/ LeadershipCheck(s) \/ Deregister(s) \/ StopServer(s)
        \/ \E p \in Process : TaskFails(p) \/ RestartStep(p) \/ Dispose(p) \/ DisposeEnds(p) \/ Crash(p)

Spec == Init /\ [][Next]_vars

(* Promises settle, the lock is handed on and timers fire.  Nothing is      *)
(* assumed of calls, failing tasks, idle periods, disposals and deaths.     *)
FairSpec ==
  /\ Spec
  /\ \A c \in Call : WF_vars(InitStep(c))
  /\ \A s \in Call : WF_vars(LeadershipCheck(s)) /\ WF_vars(Deregister(s) \/ StopServer(s))
  /\ \A p \in Process : WF_vars(RestartStep(p)) /\ WF_vars(DisposeEnds(p))

-----------------------------------------------------------------------------

Healthy(s) == Running(s) /\ s \in ports

Clearing(p, s) == restart[p].at = "clearing" /\ restart[p].saw = s

(* A healthy leader loses its registration only to a call whose config it   *)
(* does not have, to a restart of its own process, or to a restart that     *)
(* read the state file when nobody was registered: never to another         *)
(* process's doubt, to a lost race, or to a clear meant for its             *)
(* predecessor.                                                             *)
OnlyJustifiedClears ==
  [][\A s \in Call : registered = s /\ registered' # s /\ Healthy(s)
        => \/ \E c \in Call : pc[c] = "clearing stale" /\ wants[c] # wants[s]
           \/ Clearing(ProcessOf[s], s)
           \/ \E p \in Process : Clearing(p, None)]_vars

(* "An unconditional clear here would wipe that brand-new, legitimate       *)
(* leader" (scheduler-factory.ts, lines 135-142): no restart takes away a   *)
(* registration it never saw.                                               *)
NoFreshLeaderWiped ==
  [][\A p \in Process, s \in Call :
        restart[p].at = "clearing" /\ restart'[p].at = "stopping" /\ registered = s /\ Healthy(s)
          => registered' = s \/ restart[p].saw = s]_vars

InFlight == {"starting", "electing", "won", "lost", "unregistered"}

(* No scheduler is left running that nothing will shut down: each is its    *)
(* process's instance, the product of an initialization in flight, or in    *)
(* the hands of a restart -- unless the restart could not read the state    *)
(* file, which lets go of it.                                               *)
NoOrphanScheduler ==
  \A s \in Call : Running(s)
     => instance[ProcessOf[s]] = s \/ pc[s] \in InFlight \/ restart[ProcessOf[s]].old = s \/ s \in letgo

(* Nobody's scheduler goes on behind everybody's back: a leader that is no  *)
(* longer registered notices and steps down, so that two pools never run    *)
(* side by side for good; and a disposed process ends up with no scheduler  *)
(* of its own running, whatever was in flight when its disposal began.      *)
LosersGoQuiet ==
  /\ \A s \in Call : (pc[s] = "leader" /\ registered # s) ~> life[s] # "up"
  /\ \A p \in Process : disposal[p] = "done" ~>
       \A s \in Call \ letgo : ProcessOf[s] = p => life[s] \in {"none", "closed"}

(* Every call of getScheduler() settles.                                    *)
Settled == {"idle", "leader", "client", "standalone", "joined", "failed", "dead"}
EveryCallSettles == \A c \in Call : pc[c] \notin Settled ~> pc[c] \in Settled

-----------------------------------------------------------------------------
(* The proofs.                                                              *)

Steps == {"idle", "restarting", "restarted", "locking", "reading", "judging", "probing", "clearing stale",
          "clearing deaf", "creating", "starting", "electing", "won", "lost", "unregistered",
          "yielding", "undoing", "leader", "client", "standalone", "joined", "failed", "dead"}
Served  == {"leader", "client", "standalone"}

(* Calls whose election, if any, is behind them.                            *)
Elected == {"won", "lost", "unregistered", "yielding", "undoing", "leader", "client", "standalone",
            "joined", "failed", "dead"}

TypeOK ==
  /\ registered \in Call \cup {None}
  /\ alive \subseteq Process
  /\ instance \in [Process -> Call \cup {None, Client}]
  /\ promise \in [Process -> Call \cup {None}]
  /\ restart \in [Process -> [at : {"none", "reading", "judging", "clearing", "stopping"},
                             old : Call \cup {None}, saw : Call \cup {None}]]
  /\ disposal \in [Process -> {"no", "joining", "done"}]
  /\ pc \in [Call -> Steps]
  /\ saw \in [Call -> Call \cup {None}]
  /\ life \in [Call -> {"none", "up", "draining", "cleared", "closed"}]
  /\ ports \subseteq Call

(* A restart that is not in progress has no scheduler in its hands.         *)
RestartsAreWhole == \A p \in Process : restart[p].at = "none" => restart[p] = NoRestart

(* An instance in its slot is there with the promise that installed it: an  *)
(* initialization still under way installs into an empty slot.              *)
SlotsAgree == \A p \in alive : disposal[p] = "no" /\ instance[p] # None
                 => promise[p] # None /\ pc[promise[p]] \in Served

(* An initialization is promised in its own process only.                   *)
PromisesStayHome == \A p \in Process : promise[p] # None => ProcessOf[promise[p]] = p

OrphanInv == TypeOK /\ RestartsAreWhole /\ PromisesStayHome /\ SlotsAgree /\ NoOrphanScheduler

(* A registration is only ever seen after the election it was won in, and   *)
(* no scheduler stands for election twice.                                  *)
SeenElected ==
  /\ registered # None => pc[registered] \in Elected
  /\ \A p \in Process : restart[p].saw # None => pc[restart[p].saw] \in Elected
  /\ \A c \in Call : saw[c] # None => pc[saw[c]] \in Elected

(* What a restart and an initialization about to clear know of the          *)
(* registration they saw.                                                   *)
JudgedGone(s) == registered # s \/ ProcessOf[s] \notin alive
Judged ==
  /\ \A p \in Process : restart[p].at = "judging" => restart[p].saw # None
  /\ \A p \in Process : restart[p].at = "clearing" /\ restart[p].saw # None
        => ProcessOf[restart[p].saw] = p \/ JudgedGone(restart[p].saw)
  /\ \A c \in Call : pc[c] \in {"judging", "probing", "clearing stale", "clearing deaf"} => saw[c] # None
  /\ \A c \in Call : pc[c] = "clearing stale" => wants[saw[c]] # wants[c]
  /\ \A c \in Call : pc[c] = "clearing deaf" => saw[c] \notin ports

ClearInv == TypeOK /\ SeenElected /\ Judged

(* What BeginShutdown does, as the proofs use it: s is no longer up, and    *)
(* either the service is left alone or s leaves its slot with its promise.  *)
LEMMA Shutdown ==
  ASSUME TypeOK, NEW s \in Call, BeginShutdown(s)
  PROVE  /\ life' \in [Call -> {"none", "up", "draining", "cleared", "closed"}]
         /\ \A t \in Call : life'[t] = "up" => life[t] = "up" /\ t # s
         /\ instance' \in [Process -> Call \cup {None, Client}]
         /\ promise' \in [Process -> Call \cup {None}]
         /\ \A p \in Process : \/ instance'[p] = instance[p] /\ promise'[p] = promise[p]
                               \/ instance[p] = s /\ instance'[p] = None /\ promise'[p] = None
<1>1. ProcessOf[s] \in Process
  BY CallsAreMadeSomewhere
<1> QED BY <1>1 DEF BeginShutdown, TypeOK, service

(* An initialization that may install finds the slot empty.                 *)
LEMMA EmptySlot ==
  ASSUME TypeOK, SlotsAgree, NEW c \in Call, Calls(c), ~Superseded(c), pc[c] \notin Served
  PROVE  instance[ProcessOf[c]] = None
BY CallsAreMadeSomewhere DEF SlotsAgree, Superseded, Calls, TypeOK

(* What a step of call c leaves alone, whatever becomes of the service and  *)
(* of its own scheduler.                                                    *)
Aside == /\ UNCHANGED <<alive, disposal, restart, letgo>>
         /\ registered' \in Call \cup {None} /\ saw' \in [Call -> Call \cup {None}] /\ ports' \subseteq Call

(* The four ways in which a step of an initialization goes on.              *)
LEMMA MovesOn ==
  ASSUME OrphanInv, NEW c \in Call, NEW at \in Steps, pc[c] \notin Served, Aside,
         UNCHANGED <<instance, promise>>, pc' = [pc EXCEPT ![c] = at],
         \/ life' = life /\ (pc[c] \in InFlight => at \in InFlight)
         \/ life' = [life EXCEPT ![c] = "up"] /\ at \in InFlight
  PROVE  OrphanInv'
<1> USE CallsAreMadeSomewhere, NamesSE DEF OrphanInv
<1>1. TypeOK'
  BY DEF TypeOK, Aside
<1>2. RestartsAreWhole'
  BY DEF RestartsAreWhole, Aside
<1>3. SlotsAgree'
  BY DEF SlotsAgree, Aside, TypeOK
<1>4. NoOrphanScheduler'
  BY DEF NoOrphanScheduler, Running, Aside, TypeOK
<1>5. PromisesStayHome'
  BY DEF PromisesStayHome
<1> QED BY <1>1, <1>2, <1>3, <1>4, <1>5

LEMMA Rejects ==
  ASSUME OrphanInv, NEW c \in Call, pc[c] \notin Served \cup InFlight, Aside, Reject(c), UNCHANGED life
  PROVE  OrphanInv'
<1> USE CallsAreMadeSomewhere, NamesSE DEF OrphanInv
<1>1. TypeOK'
  BY DEF TypeOK, Aside, Reject, Steps
<1>2. RestartsAreWhole'
  BY DEF RestartsAreWhole, Aside
<1>3. SlotsAgree'
  BY DEF SlotsAgree, Aside, TypeOK, Reject
<1>4. NoOrphanScheduler'
  BY DEF NoOrphanScheduler, Running, Aside, TypeOK, Reject
<1>5. PromisesStayHome'
  BY DEF PromisesStayHome, Reject, TypeOK
<1> QED BY <1>1, <1>2, <1>3, <1>4, <1>5

LEMMA Installs ==
  ASSUME OrphanInv, NEW c \in Call, NEW what \in {c, Client}, NEW as \in Served,
         pc[c] \notin Served, Calls(c), ~Superseded(c), Aside, UNCHANGED life,
         Install(c, what, as), pc[c] \in InFlight => what = c
  PROVE  OrphanInv'
<1> USE CallsAreMadeSomewhere, NamesSE DEF OrphanInv
<1>0. /\ ProcessOf[c] \in Process /\ instance[ProcessOf[c]] = None /\ promise[ProcessOf[c]] = c
      /\ promise' = promise /\ pc' = [pc EXCEPT ![c] = as]
      /\ instance' = [instance EXCEPT ![ProcessOf[c]] = what]
  BY EmptySlot DEF Superseded, Install
<1>1. TypeOK'
  BY <1>0 DEF TypeOK, Aside, Steps, Served
<1>2. RestartsAreWhole'
  BY DEF RestartsAreWhole, Aside
<1>3. SlotsAgree'
  <2> SUFFICES ASSUME NEW p \in alive', disposal'[p] = "no", instance'[p] # None
               PROVE  promise'[p] # None /\ pc'[promise'[p]] \in Served
    BY DEF SlotsAgree
  <2>0. p \in Process /\ p \in alive /\ disposal[p] = "no" /\ c \in Call /\ pc \in [Call -> Steps]
    BY DEF Aside, TypeOK
  <2>1. CASE p = ProcessOf[c]
    BY <1>0, <2>0, <2>1
  <2>2. CASE p # ProcessOf[c]
    <3>1. instance[p] # None
      BY <1>0, <2>0, <2>2 DEF TypeOK
    <3>2. promise[p] \in Call /\ pc[promise[p]] \in Served
      BY <2>0, <3>1 DEF SlotsAgree, TypeOK
    <3> QED BY <1>0, <2>0, <3>2
  <2> QED BY <2>1, <2>2
<1>4. NoOrphanScheduler'
  <2> SUFFICES ASSUME NEW s \in Call, Running(s)'
               PROVE  \/ instance'[ProcessOf[s]] = s \/ pc'[s] \in InFlight
                      \/ restart'[ProcessOf[s]].old = s \/ s \in letgo'
    BY DEF NoOrphanScheduler
  <2>0. pc \in [Call -> Steps] /\ instance \in [Process -> Call \cup {None, Client}] /\ ProcessOf[s] \in Process
    BY DEF TypeOK
  <2>1. \/ instance[ProcessOf[s]] = s \/ pc[s] \in InFlight
        \/ restart[ProcessOf[s]].old = s \/ s \in letgo
    BY DEF NoOrphanScheduler, Running, Aside
  <2>2. CASE s = c /\ pc[c] \in InFlight
    BY <1>0, <2>0, <2>2
  <2>3. CASE s # c /\ pc[s] \in InFlight
    BY <1>0, <2>0, <2>3
  <2>4. CASE instance[ProcessOf[s]] = s
    BY <1>0, <2>0, <2>4
  <2> QED BY <2>1, <2>2, <2>3, <2>4 DEF Aside
<1>5. PromisesStayHome'
  BY <1>0 DEF PromisesStayHome
<1> QED BY <1>1, <1>2, <1>3, <1>4, <1>5

LEMMA Begins ==
  ASSUME OrphanInv, NEW c \in Call, pc[c] \in {"idle", "restarted"}, Aside, Initialize(c), UNCHANGED life,
         promise[ProcessOf[c]] = None
  PROVE  OrphanInv'
<1> USE CallsAreMadeSomewhere, NamesSE DEF OrphanInv
<1>0. /\ instance' = instance /\ promise' = [promise EXCEPT ![ProcessOf[c]] = c]
      /\ pc' = [pc EXCEPT ![c] = "locking"]
      /\ ProcessOf[c] \in Process
  BY DEF Initialize
<1>1. TypeOK'
  BY <1>0 DEF TypeOK, Aside, Steps
<1>2. RestartsAreWhole'
  BY DEF RestartsAreWhole, Aside
<1>3. SlotsAgree'
  BY <1>0 DEF SlotsAgree, Aside, TypeOK, Served
<1>4. NoOrphanScheduler'
  BY <1>0 DEF NoOrphanScheduler, Running, Aside, TypeOK, InFlight
<1>5. PromisesStayHome'
  BY <1>0 DEF PromisesStayHome, TypeOK
<1> QED BY <1>1, <1>2, <1>3, <1>4, <1>5

LEMMA ShutsDown ==
  ASSUME OrphanInv, NEW c \in Call, NEW at \in Steps, pc[c] \notin Served, Aside,
         BeginShutdown(c), pc' = [pc EXCEPT ![c] = at]
  PROVE  OrphanInv'
<1> USE CallsAreMadeSomewhere, NamesSE DEF OrphanInv
<1>0. /\ life' \in [Call -> {"none", "up", "draining", "cleared", "closed"}]
      /\ \A t \in Call : life'[t] = "up" => life[t] = "up" /\ t # c
      /\ instance' \in [Process -> Call \cup {None, Client}]
      /\ promise' \in [Process -> Call \cup {None}]
      /\ \A p \in Process : \/ instance'[p] = instance[p] /\ promise'[p] = promise[p]
                            \/ instance[p] = c /\ instance'[p] = None /\ promise'[p] = None
  BY Shutdown
<1>1. TypeOK'
  BY <1>0 DEF TypeOK, Aside
<1>2. RestartsAreWhole'
  BY DEF RestartsAreWhole, Aside
<1>3. SlotsAgree'
  BY <1>0 DEF SlotsAgree, Aside, TypeOK
<1>4. NoOrphanScheduler'
  BY <1>0 DEF NoOrphanScheduler, Running, Aside, TypeOK
<1>5. PromisesStayHome'
  BY <1>0 DEF PromisesStayHome
<1> QED BY <1>1, <1>2, <1>3, <1>4, <1>5

LEMMA CallKeepsSlots ==
  ASSUME OrphanInv, NEW c \in Call, GetScheduler(c) \/ InitStep(c)
  PROVE  OrphanInv'
<1> USE CallsAreMadeSomewhere, NamesSE DEF OrphanInv
<1>0. TypeOK /\ ProcessOf[c] \in Process
  OBVIOUS
<1>1. CASE GetScheduler(c)
  <2>1. CASE instance[ProcessOf[c]] = None /\ promise[ProcessOf[c]] = None /\ Initialize(c) /\ UNCHANGED restart
    BY <1>0, <1>1, <2>1, Begins DEF GetScheduler, Aside, TypeOK, leader
  <2>2. CASE instance[ProcessOf[c]] # None /\ restart[ProcessOf[c]].at = "none"
             /\ StartRestart(ProcessOf[c]) /\ pc' = [pc EXCEPT ![c] = "restarting"]
    <3>1. TypeOK'
      BY <1>0, <1>1, <2>2 DEF GetScheduler, StartRestart, TypeOK, Steps, leader
    <3>2. RestartsAreWhole'
      BY <1>0, <1>1, <2>2 DEF GetScheduler, StartRestart, TypeOK, RestartsAreWhole
    <3>3. SlotsAgree'
      BY <1>0, <1>1, <2>2 DEF GetScheduler, StartRestart, TypeOK, SlotsAgree, Served
    <3>4. NoOrphanScheduler'
      BY <1>0, <1>1, <2>2 DEF GetScheduler, StartRestart, TypeOK, RestartsAreWhole, NoRestart,
         NoOrphanScheduler, Running, InFlight, leader
    <3>5. PromisesStayHome'
      BY <1>0, <1>1, <2>2 DEF GetScheduler, StartRestart, TypeOK, PromisesStayHome
    <3> QED BY <3>1, <3>2, <3>3, <3>4, <3>5
  <2> QED BY <1>1, <2>1, <2>2 DEF GetScheduler
<1>2. CASE AfterRestart(c)
  <2>1. CASE promise[ProcessOf[c]] # None
    <3>1. Aside /\ UNCHANGED <<instance, promise>> /\ life' = life /\ pc' = [pc EXCEPT ![c] = "joined"]
          /\ pc[c] \notin Served \cup InFlight /\ "joined" \in Steps
      BY <1>0, <1>2, <2>1 DEF AfterRestart, Aside, TypeOK, service, leader, Served, InFlight, Steps
    <3> QED BY <3>1, MovesOn
  <2>2. CASE promise[ProcessOf[c]] = None
    BY <1>0, <1>2, <2>2, Begins DEF AfterRestart, Aside, TypeOK, leader
  <2> QED BY <2>1, <2>2
<1>3. CASE Acquire(c)
  <2>1. CASE Superseded(c)
    BY <1>0, <1>3, <2>1, Rejects DEF Acquire, Aside, TypeOK, leader, InFlight, Served
  <2>2. CASE ~Superseded(c)
    <3>1. Aside /\ UNCHANGED <<instance, promise>> /\ life' = life /\ pc' = [pc EXCEPT ![c] = "reading"]
          /\ pc[c] \notin Served \cup InFlight /\ "reading" \in Steps
      BY <1>0, <1>3, <2>2 DEF Acquire, Aside, TypeOK, leader, service, InFlight, Served, Steps
    <3> QED BY <3>1, MovesOn
  <2> QED BY <2>1, <2>2
<1>4. CASE LockTimesOut(c)
  BY <1>0, <1>4, Rejects DEF LockTimesOut, Aside, TypeOK, leader, InFlight, Served
<1>5. CASE ReadServer(c)
  <2>1. CASE Reject(c) /\ UNCHANGED saw
    BY <1>0, <1>5, <2>1, Rejects DEF ReadServer, Aside, TypeOK, leader, InFlight, Served
  <2>2. CASE saw' = [saw EXCEPT ![c] = registered]
             /\ GoOn(c, IF registered = None THEN "creating" ELSE "judging")
    <3>1. PICK at \in {"creating", "judging"} : GoOn(c, at)
      BY <2>2
    <3>2. Aside /\ UNCHANGED <<instance, promise>> /\ life' = life /\ pc' = [pc EXCEPT ![c] = at]
          /\ pc[c] \notin Served \cup InFlight /\ at \in Steps
      BY <1>0, <1>5, <2>2, <3>1 DEF ReadServer, GoOn, Aside, TypeOK, leader, service, InFlight, Served, Steps
    <3> QED BY <3>2, MovesOn
  <2> QED BY <1>5, <2>1, <2>2 DEF ReadServer
<1>6. CASE Judge(c)
  <2>1. PICK at \in {"creating", "clearing stale", "probing"} : GoOn(c, at)
    BY <1>6 DEF Judge
  <2>2. Aside /\ UNCHANGED <<instance, promise>> /\ life' = life /\ pc' = [pc EXCEPT ![c] = at]
        /\ pc[c] \notin Served \cup InFlight /\ at \in Steps
    BY <1>0, <1>6, <2>1 DEF Judge, GoOn, Aside, TypeOK, leader, service, InFlight, Served, Steps
  <2> QED BY <2>2, MovesOn
<1>7. CASE Probe(c)
  <2>1. CASE GoOn(c, "clearing deaf")
    <3>1. Aside /\ UNCHANGED <<instance, promise>> /\ life' = life /\ pc' = [pc EXCEPT ![c] = "clearing deaf"]
          /\ pc[c] \notin Served \cup InFlight /\ "clearing deaf" \in Steps
      BY <1>0, <1>7, <2>1 DEF Probe, GoOn, Aside, TypeOK, leader, service, InFlight, Served, Steps
    <3> QED BY <3>1, MovesOn
  <2>2. CASE Reject(c)
    BY <1>0, <1>7, <2>2, Rejects DEF Probe, Aside, TypeOK, leader, InFlight, Served
  <2>3. CASE ~Superseded(c) /\ Install(c, Client, "client")
    BY <1>0, <1>7, <2>3, Installs DEF Probe, Aside, TypeOK, leader, InFlight, Served
  <2> QED BY <1>7, <2>1, <2>2, <2>3 DEF Probe
<1>8. CASE ClearServer(c)
  <2>0. Aside /\ life' = life /\ pc[c] \notin Served \cup InFlight /\ Calls(c)
    BY <1>0, <1>8 DEF ClearServer, Cleared, Aside, TypeOK, leader, service, InFlight, Served
  <2>1. CASE Reject(c)
    BY <2>0, <2>1, Rejects
  <2>2. CASE GoOn(c, "creating")
    <3>1. UNCHANGED <<instance, promise>> /\ pc' = [pc EXCEPT ![c] = "creating"] /\ "creating" \in Steps
      BY <2>2 DEF GoOn, service, Steps
    <3> QED BY <2>0, <3>1, MovesOn
  <2> QED BY <1>8, <2>1, <2>2 DEF ClearServer
<1>9. CASE Create(c)
  <2>0. Aside /\ pc[c] \notin Served \cup InFlight /\ Calls(c)
    BY <1>0, <1>9 DEF Create, Aside, TypeOK, InFlight, Served
  <2>1. CASE Superseded(c)
    BY <1>9, <2>0, <2>1, Rejects DEF Create
  <2>2. CASE ~Superseded(c)
    <3>1. /\ UNCHANGED <<instance, promise>> /\ pc' = [pc EXCEPT ![c] = "starting"]
          /\ life' = [life EXCEPT ![c] = "up"] /\ "starting" \in Steps \cap InFlight
      BY <1>9, <2>2 DEF Create, GoOn, service, Steps, InFlight
    <3> QED BY <2>0, <3>1, MovesOn
  <2> QED BY <2>1, <2>2
<1>10. CASE ServerStarts(c)
  <2>0. Aside /\ pc[c] \notin Served /\ Calls(c)
    BY <1>0, <1>10 DEF ServerStarts, Aside, TypeOK, Served
  <2>1. CASE Undo(c)
    BY <2>0, <2>1, ShutsDown DEF Undo, Steps
  <2>2. CASE ~Superseded(c) /\ GoOn(c, "electing") /\ UNCHANGED life
    <3>1. UNCHANGED <<instance, promise>> /\ pc' = [pc EXCEPT ![c] = "electing"] /\ life' = life
          /\ "electing" \in Steps \cap InFlight
      BY <2>2 DEF GoOn, service, Steps, InFlight
    <3> QED BY <2>0, <3>1, MovesOn
  <2>3. CASE ~Superseded(c) /\ Install(c, c, "standalone") /\ UNCHANGED life
    BY <2>0, <2>3, Installs DEF Served
  <2> QED BY <1>10, <2>1, <2>2, <2>3 DEF ServerStarts
<1>11. CASE Elect(c)
  <2>1. PICK at \in {"lost", "won", "unregistered"} : GoOn(c, at)
    BY <1>11 DEF Elect
  <2>2. Aside /\ UNCHANGED <<instance, promise>> /\ life' = life /\ pc' = [pc EXCEPT ![c] = at]
        /\ pc[c] \notin Served /\ at \in Steps \cap InFlight
    BY <1>0, <1>11, <2>1 DEF Elect, GoOn, Aside, TypeOK, leader, service, InFlight, Served, Steps
  <2> QED BY <2>2, MovesOn
<1>12. CASE Settle(c)
  <2>0. Aside /\ pc[c] \notin Served /\ Calls(c)
    BY <1>0, <1>12 DEF Settle, Aside, TypeOK, Served
  <2>1. CASE Undo(c)
    BY <2>0, <2>1, ShutsDown DEF Undo, Steps
  <2>2. CASE ~Superseded(c) /\ (\E as \in Served : Install(c, c, as)) /\ UNCHANGED life
    BY <2>0, <2>2, Installs
  <2> QED BY <1>12, <2>1, <2>2 DEF Settle, Served
<1>13. CASE Yield(c)
  <2>0. Aside /\ pc[c] \notin Served /\ BeginShutdown(c) /\ pc' = [pc EXCEPT ![c] = "yielding"] /\ "yielding" \in Steps
    BY <1>0, <1>13 DEF Yield, Aside, TypeOK, Served, Steps
  <2> QED BY <2>0, ShutsDown
<1>14. CASE Yielded(c)
  <2>0. Aside /\ life' = life /\ pc[c] \notin Served \cup InFlight /\ Calls(c)
    BY <1>0, <1>14 DEF Yielded, Aside, TypeOK, leader, InFlight, Served
  <2>1. CASE Reject(c)
    BY <2>0, <2>1, Rejects
  <2>2. CASE ~Superseded(c) /\ Install(c, Client, "client")
    BY <2>0, <2>2, Installs DEF Served
  <2> QED BY <1>14, <2>1, <2>2 DEF Yielded
<1> QED
  BY <1>1, <1>2, <1>3, <1>4, <1>5, <1>6, <1>7, <1>8, <1>9, <1>10, <1>11, <1>12, <1>13, <1>14 DEF InitStep

LEMMA SchedulerKeepsSlots ==
  ASSUME OrphanInv, NEW s \in Call, IdleTimeout(s) \/ LeadershipCheck(s) \/ Deregister(s) \/ StopServer(s)
  PROVE  OrphanInv'
<1> USE CallsAreMadeSomewhere, NamesSE DEF OrphanInv
<1>1. CASE IdleTimeout(s)
  BY <1>1, Shutdown DEF IdleTimeout, TypeOK, RestartsAreWhole, PromisesStayHome, SlotsAgree, NoOrphanScheduler, Running
<1>2. CASE LeadershipCheck(s)
  <2>1. CASE BeginShutdown(s)
    BY <1>2, <2>1, Shutdown
       DEF LeadershipCheck, TypeOK, RestartsAreWhole, PromisesStayHome, SlotsAgree, NoOrphanScheduler, Running
  <2>2. CASE UNCHANGED <<service, life, armed>>
    BY <1>2, <2>2
       DEF LeadershipCheck, TypeOK, RestartsAreWhole, PromisesStayHome, SlotsAgree, NoOrphanScheduler, Running, service
  <2> QED BY <1>2, <2>1, <2>2 DEF LeadershipCheck
<1>3. CASE Deregister(s)
  BY <1>3 DEF Deregister, Cleared, TypeOK, RestartsAreWhole, PromisesStayHome, SlotsAgree, NoOrphanScheduler, Running, service
<1>4. CASE StopServer(s)
  BY <1>4 DEF StopServer, TypeOK, RestartsAreWhole, PromisesStayHome, SlotsAgree, NoOrphanScheduler, Running, service
<1> QED BY <1>1, <1>2, <1>3, <1>4

(* Nobody is served, or begins or leaves a flight, by getting back from a   *)
(* restart.                                                                 *)
StandStill == /\ pc' \in [Call -> Steps]
              /\ \A c \in Call : pc[c] \in Served => pc'[c] \in Served
              /\ \A c \in Call : pc[c] \in InFlight => pc'[c] \in InFlight
              /\ \A c \in Call : pc[c] \in Elected => pc'[c] \in Elected

LEMMA BackFromRestart ==
  ASSUME TypeOK, NEW p \in Process, NEW at \in {"failed", "restarted"}, GetsBack(p, at)
  PROVE  StandStill
<1>1. pc \in [Call -> Steps] /\ at \in Steps
  BY DEF TypeOK, Steps
<1>2. pc' \in [Call -> Steps]
  BY <1>1 DEF GetsBack
<1>3. ASSUME NEW c \in Call, pc[c] # "restarting" PROVE pc'[c] = pc[c]
  BY <1>3 DEF GetsBack
<1>4. "restarting" \notin Served /\ "restarting" \notin InFlight /\ "restarting" \notin Elected
  BY DEF Served, InFlight, Elected
<1> QED BY <1>2, <1>3, <1>4 DEF StandStill

LEMMA ProcessKeepsSlots ==
  ASSUME OrphanInv, NEW p \in Process,
         TaskFails(p) \/ RestartStep(p) \/ Dispose(p) \/ DisposeEnds(p) \/ Crash(p)
  PROVE  OrphanInv'
<1> USE CallsAreMadeSomewhere, NamesSE DEF OrphanInv
<1>1. CASE TaskFails(p)
  BY <1>1 DEF TaskFails, StartRestart, TypeOK, RestartsAreWhole, PromisesStayHome, SlotsAgree, NoOrphanScheduler, Running,
     leader, NoRestart
<1>2. CASE RestartReads(p)
  <2>1. CASE restart' = [restart EXCEPT ![p] =
                [at |-> IF registered = None THEN "clearing" ELSE "judging",
                 old |-> restart[p].old, saw |-> registered]] /\ UNCHANGED <<letgo, pc>>
    BY <1>2, <2>1 DEF RestartReads, TypeOK, RestartsAreWhole, PromisesStayHome, SlotsAgree, NoOrphanScheduler, Running,
       leader, service
  <2>2. CASE /\ restart' = [restart EXCEPT ![p] = NoRestart]
             /\ letgo' = letgo \cup ({restart[p].old} \ {None}) /\ GetsBack(p, "failed")
    <3>1. StandStill
      BY <2>2, BackFromRestart
    <3>2. TypeOK' /\ RestartsAreWhole' /\ PromisesStayHome'
      BY <1>2, <2>2, <3>1 DEF StandStill, RestartReads, TypeOK, RestartsAreWhole, PromisesStayHome, leader,
         service, NoRestart
    <3>3. SlotsAgree'
      BY <1>2, <3>1 DEF StandStill, RestartReads, SlotsAgree, TypeOK, service
    <3>4. NoOrphanScheduler'
      BY <1>2, <2>2, <3>1 DEF StandStill, RestartReads, NoOrphanScheduler, Running, TypeOK, leader, service, NoRestart
    <3> QED BY <3>2, <3>3, <3>4
  <2> QED BY <1>2, <2>1, <2>2 DEF RestartReads
<1>3. CASE RestartJudges(p)
  BY <1>3 DEF RestartJudges, TypeOK, RestartsAreWhole, PromisesStayHome, SlotsAgree, NoOrphanScheduler, Running,
     leader, service, NoRestart
<1>4. CASE RestartClears(p)
  BY <1>4 DEF RestartClears, Cleared, TypeOK, RestartsAreWhole, PromisesStayHome, SlotsAgree, NoOrphanScheduler, Running,
     leader, service, NoRestart
<1>5. CASE RestartEnds(p)
  <2>0. StandStill
    BY <1>5, BackFromRestart DEF RestartEnds
  <2>1. CASE restart[p].old = None
    <3>1. TypeOK' /\ RestartsAreWhole' /\ PromisesStayHome'
      BY <1>5, <2>0, <2>1 DEF StandStill, RestartEnds, TypeOK, RestartsAreWhole, PromisesStayHome, service, NoRestart
    <3>2. SlotsAgree'
      BY <1>5, <2>0, <2>1 DEF StandStill, RestartEnds, SlotsAgree, TypeOK, service
    <3>3. NoOrphanScheduler'
      BY <1>5, <2>0, <2>1, NamesSE DEF StandStill, RestartEnds, NoOrphanScheduler, Running, TypeOK, service, NoRestart
    <3> QED BY <3>1, <3>2, <3>3
  <2>2. CASE restart[p].old # None
    <3>1. restart[p].old \in Call /\ BeginShutdown(restart[p].old)
      BY <1>5, <2>2 DEF RestartEnds, TypeOK
    <3>2. /\ life' \in [Call -> {"none", "up", "draining", "cleared", "closed"}]
          /\ \A t \in Call : life'[t] = "up" => life[t] = "up" /\ t # restart[p].old
          /\ instance' \in [Process -> Call \cup {None, Client}]
          /\ promise' \in [Process -> Call \cup {None}]
          /\ \A q \in Process : \/ instance'[q] = instance[q] /\ promise'[q] = promise[q]
                                \/ instance[q] = restart[p].old /\ instance'[q] = None /\ promise'[q] = None
      BY <3>1, Shutdown
    <3>3. TypeOK' /\ RestartsAreWhole' /\ PromisesStayHome'
      BY <1>5, <2>0, <3>2 DEF StandStill, RestartEnds, TypeOK, RestartsAreWhole, PromisesStayHome, NoRestart
    <3>4. SlotsAgree'
      BY <1>5, <2>0, <3>2 DEF StandStill, RestartEnds, SlotsAgree, TypeOK
    <3>5. NoOrphanScheduler'
      BY <1>5, <2>0, <3>2 DEF StandStill, RestartEnds, NoOrphanScheduler, Running, TypeOK, NoRestart
    <3> QED BY <3>3, <3>4, <3>5
  <2> QED BY <2>1, <2>2
<1>6. CASE Dispose(p)
  BY <1>6 DEF Dispose, TypeOK, RestartsAreWhole, PromisesStayHome, SlotsAgree, NoOrphanScheduler, Running, leader
<1>7. CASE DisposeEnds(p)
  BY <1>7 DEF DisposeEnds, TypeOK, RestartsAreWhole, PromisesStayHome, SlotsAgree, NoOrphanScheduler, Running
<1>8. CASE Crash(p)
  <2>1. TypeOK'
    BY <1>8 DEF Crash, TypeOK, Steps, service
  <2>2. RestartsAreWhole'
    BY <1>8 DEF Crash, RestartsAreWhole
  <2>3. SlotsAgree'
    <3> SUFFICES ASSUME NEW q \in alive', disposal'[q] = "no", instance'[q] # None
                 PROVE  promise'[q] # None /\ pc'[promise'[q]] \in Served
      BY DEF SlotsAgree
    <3>1. q \in Process /\ q # p /\ promise[q] # None /\ promise[q] \in Call /\ pc[promise[q]] \in Served
      BY <1>8 DEF Crash, SlotsAgree, service, TypeOK
    <3>2. ProcessOf[promise[q]] # p
      BY <3>1 DEF PromisesStayHome
    <3> QED BY <1>8, <3>1, <3>2 DEF Crash, service
  <2>4. NoOrphanScheduler'
    BY <1>8 DEF Crash, TypeOK, NoOrphanScheduler, Running, service
  <2>5. PromisesStayHome'
    BY <1>8 DEF Crash, PromisesStayHome, service
  <2> QED BY <2>1, <2>2, <2>3, <2>4, <2>5
<1> QED BY <1>1, <1>2, <1>3, <1>4, <1>5, <1>6, <1>7, <1>8 DEF RestartStep

LEMMA SlotsStep == OrphanInv /\ [Next]_vars => OrphanInv'
<1> SUFFICES ASSUME OrphanInv, [Next]_vars PROVE OrphanInv'
  OBVIOUS
<1>1. CASE UNCHANGED vars
  BY <1>1 DEF OrphanInv, TypeOK, RestartsAreWhole, PromisesStayHome, SlotsAgree, NoOrphanScheduler, Running,
     vars, leader, service
<1>2. CASE Next
  BY <1>2, CallKeepsSlots, SchedulerKeepsSlots, ProcessKeepsSlots DEF Next
<1> QED BY <1>1, <1>2

LEMMA SlotsInit == Init => OrphanInv
BY NamesSE DEF Init, OrphanInv, TypeOK, Steps, RestartsAreWhole, PromisesStayHome, SlotsAgree, NoOrphanScheduler,
   Running, NoRestart

(* No scheduler is left running that nothing will shut down, for any calls, *)
(* processes, restarts, disposals and deaths: whoever installs a scheduler  *)
(* finds the slot empty, because the promise of an instance stays in its    *)
(* place as long as the instance does.                                      *)
THEOREM NoOrphans == Spec => []NoOrphanScheduler
<1>1. Init => OrphanInv
  BY SlotsInit
<1>2. OrphanInv /\ [Next]_vars => OrphanInv'
  BY SlotsStep
<1>3. OrphanInv => NoOrphanScheduler
  BY DEF OrphanInv
<1> QED BY <1>1, <1>2, <1>3, PTL DEF Spec

(* What is behind its election stays behind it: it is not registered again, *)
(* its server does not start again, and nobody else is registered unelected. *)
Behind == /\ \A s \in Call : pc[s] \in Elected =>
               /\ pc'[s] \in Elected
               /\ registered' = s => registered = s
               /\ s \in ports' => s \in ports
          /\ registered' \in {registered, None} \/ (registered' \in Call /\ pc'[registered'] \in Elected)
          /\ alive' \subseteq alive /\ wants' = wants

(* One step of a call, as far as registrations go.                          *)
Goes(c) ==
  /\ pc' \in [Call -> Steps] /\ (\A d \in Call \ {c} : pc'[d] = pc[d])
  /\ pc[c] \in Elected => pc'[c] \in Elected
  /\ registered' \in {registered, None} \/ (registered' = c /\ pc[c] = "electing" /\ pc'[c] = "won")
  /\ ports' = ports \/ (pc[c] = "starting" /\ ports' = ports \cup {c})
  /\ saw' = saw \/ (pc[c] = "reading" /\ saw' = [saw EXCEPT ![c] = registered])
  /\ UNCHANGED <<alive, wants>>

LEMMA CallGoes ==
  ASSUME TypeOK, NEW c \in Call, GetScheduler(c) \/ InitStep(c)
  PROVE  Goes(c)
<1> USE DEF Goes, Steps, Elected
<1>0. pc \in [Call -> Steps]
  BY DEF TypeOK
<1>1. CASE GetScheduler(c)
  BY <1>0, <1>1 DEF GetScheduler, Initialize, StartRestart, leader
<1>2. CASE AfterRestart(c)
  BY <1>0, <1>2 DEF AfterRestart, Initialize, leader
<1>3. CASE Acquire(c)
  BY <1>0, <1>3 DEF Acquire, Reject, leader
<1>4. CASE LockTimesOut(c)
  BY <1>0, <1>4 DEF LockTimesOut, Reject, leader
<1>5. CASE ReadServer(c)
  BY <1>0, <1>5 DEF ReadServer, Reject, GoOn, leader
<1>6. CASE Judge(c)
  BY <1>0, <1>6 DEF Judge, GoOn, leader
<1>7. CASE Probe(c)
  BY <1>0, <1>7 DEF Probe, GoOn, Reject, Install, leader
<1>8. CASE ClearServer(c)
  BY <1>0, <1>8 DEF ClearServer, Cleared, GoOn, Reject, leader
<1>9. CASE Create(c)
  BY <1>0, <1>9 DEF Create, Reject, GoOn, leader
<1>10. CASE ServerStarts(c)
  BY <1>0, <1>10 DEF ServerStarts, Undo, GoOn, Install, leader
<1>11. CASE Elect(c)
  BY <1>0, <1>11 DEF Elect, GoOn, leader
<1>12. CASE Settle(c)
  BY <1>0, <1>12 DEF Settle, Undo, Install, leader
<1>13. CASE Yield(c)
  BY <1>0, <1>13 DEF Yield, leader
<1>14. CASE Yielded(c)
  BY <1>0, <1>14 DEF Yielded, Reject, Install, leader
<1> QED
  BY <1>1, <1>2, <1>3, <1>4, <1>5, <1>6, <1>7, <1>8, <1>9, <1>10, <1>11, <1>12, <1>13, <1>14 DEF InitStep

LEMMA CallStaysBehind ==
  ASSUME TypeOK, NEW c \in Call, GetScheduler(c) \/ InitStep(c)
  PROVE  Behind
<1>1. Goes(c) /\ "electing" \notin Elected /\ "starting" \notin Elected /\ "won" \in Elected
  BY CallGoes DEF Elected
<1>2. \A s \in Call : pc[s] \in Elected =>
               /\ pc'[s] \in Elected
               /\ registered' = s => registered = s
               /\ s \in ports' => s \in ports
  BY <1>1, NamesSE DEF Goes
<1> QED BY <1>1, <1>2 DEF Goes, Behind

LEMMA SchedulerStaysBehind ==
  ASSUME TypeOK, NEW s \in Call, IdleTimeout(s) \/ LeadershipCheck(s) \/ Deregister(s) \/ StopServer(s)
  PROVE  Behind
<1>1. /\ pc' = pc /\ alive' = alive /\ wants' = wants
      /\ registered' \in {registered, None} /\ ports' \subseteq ports
  BY DEF IdleTimeout, LeadershipCheck, Deregister, StopServer, Cleared
<1> QED BY <1>1, NamesSE DEF Behind

LEMMA ProcessStaysBehind ==
  ASSUME TypeOK, NEW p \in Process,
         TaskFails(p) \/ RestartStep(p) \/ Dispose(p) \/ DisposeEnds(p) \/ Crash(p)
  PROVE  Behind
<1> USE NamesSE DEF TypeOK
<1>1. CASE TaskFails(p) \/ Dispose(p) \/ DisposeEnds(p)
  BY <1>1 DEF Behind, TaskFails, Dispose, DisposeEnds, leader
<1>2. CASE RestartStep(p)
  <2>1. /\ registered' \in {registered, None} /\ ports' = ports /\ alive' = alive /\ wants' = wants
        /\ pc' = pc \/ GetsBack(p, "failed") \/ GetsBack(p, "restarted")
    BY <1>2 DEF RestartStep, RestartReads, RestartJudges, RestartClears, RestartEnds, Cleared, leader
  <2>2. \A s \in Call : pc[s] \in Elected => pc'[s] \in Elected
    BY <2>1, BackFromRestart DEF StandStill
  <2> QED BY <2>1, <2>2 DEF Behind
<1>3. CASE Crash(p)
  BY <1>3 DEF Behind, Crash, Elected
<1> QED BY <1>1, <1>2, <1>3

(* What the restart of p and the initialization of c know, apart.           *)
RestartKnows(p) ==
  /\ restart[p].at = "judging" => restart[p].saw # None
  /\ restart[p].at = "clearing" /\ restart[p].saw # None
        => ProcessOf[restart[p].saw] = p \/ JudgedGone(restart[p].saw)
  /\ restart[p].saw # None => pc[restart[p].saw] \in Elected
CallKnows(c) ==
  /\ pc[c] \in {"judging", "probing", "clearing stale", "clearing deaf"} => saw[c] # None
  /\ pc[c] = "clearing stale" => wants[saw[c]] # wants[c]
  /\ pc[c] = "clearing deaf" => saw[c] \notin ports
  /\ saw[c] # None => pc[saw[c]] \in Elected

LEMMA WhatIsKnown ==
  ClearInv <=> /\ TypeOK /\ (registered # None => pc[registered] \in Elected)
               /\ \A p \in Process : RestartKnows(p)
               /\ \A c \in Call : CallKnows(c)
BY DEF ClearInv, SeenElected, Judged, RestartKnows, CallKnows

(* Knowledge lasts while its owner stands still.                            *)
LEMMA RestartLasts ==
  ASSUME TypeOK, Behind, NEW p \in Process, RestartKnows(p), restart'[p] = restart[p]
  PROVE  RestartKnows(p)'
BY DEF TypeOK, Behind, RestartKnows, JudgedGone

LEMMA CallLasts ==
  ASSUME TypeOK, Behind, NEW c \in Call, CallKnows(c), pc'[c] = pc[c], saw'[c] = saw[c]
  PROVE  CallKnows(c)'
BY DEF TypeOK, Behind, CallKnows

LEMMA CallKnowsOn ==
  ASSUME ClearInv, Behind, NEW c \in Call, GetScheduler(c) \/ InitStep(c)
  PROVE  CallKnows(c)' /\ (\A d \in Call \ {c} : pc'[d] = pc[d] /\ saw'[d] = saw[d])
<1>0. /\ TypeOK /\ CallKnows(c) /\ pc \in [Call -> Steps] /\ saw \in [Call -> Call \cup {None}]
      /\ (registered # None => pc[registered] \in Elected) /\ wants' = wants
  BY WhatIsKnown DEF TypeOK, Behind
<1>1. Goes(c)
  BY <1>0, CallGoes
<1>2. \A d \in Call \ {c} : pc'[d] = pc[d] /\ saw'[d] = saw[d]
  BY <1>0, <1>1 DEF Goes
<1>3. saw'[c] # None => pc'[saw'[c]] \in Elected
  BY <1>0, <1>1 DEF Goes, CallKnows, Behind, TypeOK
<1>4. CASE pc'[c] \notin {"judging", "probing", "clearing stale", "clearing deaf"}
  BY <1>2, <1>3, <1>4 DEF CallKnows
<1>5. CASE pc'[c] \in {"judging", "probing", "clearing stale", "clearing deaf"}
  <2>1. ReadServer(c) \/ Judge(c) \/ Probe(c)
    BY <1>0, <1>5 DEF InitStep, GetScheduler, Initialize, StartRestart, AfterRestart, Acquire, Reject, LockTimesOut,
       ClearServer, GoOn, Create, ServerStarts, Undo, Install, Elect, Settle, Yield, Yielded
  <2>2. CASE ReadServer(c)
    BY <1>0, <1>2, <1>3, <1>5, <2>2 DEF ReadServer, Reject, GoOn, CallKnows
  <2>3. CASE Judge(c)
    BY <1>0, <1>2, <1>3, <1>5, <2>3 DEF Judge, IsAlive, GoOn, CallKnows
  <2>4. CASE Probe(c)
    BY <1>0, <1>2, <1>3, <1>5, <2>4 DEF Probe, Reject, Install, GoOn, CallKnows, leader
  <2> QED BY <2>1, <2>2, <2>3, <2>4
<1> QED BY <1>4, <1>5

LEMMA RestartKnowsOn ==
  ASSUME ClearInv, Behind, NEW p \in Process, RestartStep(p) \/ StartRestart(p)
  PROVE  RestartKnows(p)'
<1> USE NamesSE, WhatIsKnown DEF TypeOK
<1>1. CASE StartRestart(p)
  BY <1>1 DEF StartRestart, RestartKnows
<1>2. CASE RestartReads(p)
  BY <1>2 DEF RestartReads, RestartKnows, NoRestart
<1>3. CASE RestartJudges(p)
  BY <1>3 DEF RestartJudges, RestartKnows, JudgedGone, IsAlive
<1>4. CASE RestartClears(p)
  BY <1>4 DEF RestartClears, RestartKnows
<1>5. CASE RestartEnds(p)
  BY <1>5 DEF RestartEnds, RestartKnows, NoRestart
<1> QED BY <1>1, <1>2, <1>3, <1>4, <1>5 DEF RestartStep

LEMMA OnlyOneRestarts ==
  ASSUME TypeOK, Next, NEW p \in Process
  PROVE  restart'[p] = restart[p] \/ RestartStep(p) \/ StartRestart(p)
<1> USE CallsAreMadeSomewhere DEF TypeOK
<1>1. ASSUME NEW c \in Call, GetScheduler(c) PROVE restart'[p] = restart[p] \/ StartRestart(p)
  BY <1>1 DEF GetScheduler, StartRestart
<1>2. ASSUME NEW c \in Call, InitStep(c) PROVE restart' = restart
  BY <1>2 DEF InitStep, AfterRestart, Acquire, LockTimesOut, ReadServer, Judge, Probe, ClearServer, Create,
     ServerStarts, Elect, Settle, Yield, Yielded
<1>3. ASSUME NEW s \in Call, IdleTimeout(s) \/ LeadershipCheck(s) \/ Deregister(s) \/ StopServer(s)
      PROVE  restart' = restart
  BY <1>3 DEF IdleTimeout, LeadershipCheck, Deregister, StopServer
<1>4. ASSUME NEW q \in Process, TaskFails(q) PROVE restart'[p] = restart[p] \/ StartRestart(p)
  BY <1>4 DEF TaskFails, StartRestart
<1>5. ASSUME NEW q \in Process, RestartStep(q) PROVE restart'[p] = restart[p] \/ RestartStep(p)
  BY <1>5 DEF RestartStep, RestartReads, RestartJudges, RestartClears, RestartEnds
<1>6. ASSUME NEW q \in Process, Dispose(q) \/ DisposeEnds(q) \/ Crash(q) PROVE restart' = restart
  BY <1>6 DEF Dispose, DisposeEnds, Crash
<1> QED BY <1>1, <1>2, <1>3, <1>4, <1>5, <1>6 DEF Next

LEMMA OnlyOneCalls ==
  ASSUME TypeOK, Next, NEW c \in Call
  PROVE  \/ saw'[c] = saw[c] /\ pc'[c] \in {pc[c], "dead", "failed", "restarted"}
         \/ GetScheduler(c) \/ InitStep(c)
<1>1. ASSUME NEW d \in Call, GetScheduler(d) \/ InitStep(d)
      PROVE  (saw'[c] = saw[c] /\ pc'[c] = pc[c]) \/ GetScheduler(c) \/ InitStep(c)
  BY <1>1, CallGoes DEF Goes, TypeOK
<1>2. ASSUME NEW s \in Call, IdleTimeout(s) \/ LeadershipCheck(s) \/ Deregister(s) \/ StopServer(s)
      PROVE  saw' = saw /\ pc' = pc
  BY <1>2 DEF IdleTimeout, LeadershipCheck, Deregister, StopServer
<1>3. ASSUME NEW q \in Process, TaskFails(q) \/ RestartStep(q) \/ Dispose(q) \/ DisposeEnds(q)
      PROVE  saw' = saw /\ pc'[c] \in {pc[c], "failed", "restarted"}
  <2>1. saw' = saw /\ (pc' = pc \/ GetsBack(q, "failed") \/ GetsBack(q, "restarted"))
    BY <1>3
       DEF TaskFails, RestartStep, RestartReads, RestartJudges, RestartClears, RestartEnds, Dispose, DisposeEnds
  <2> QED BY <2>1 DEF GetsBack
<1>4. ASSUME NEW q \in Process, Crash(q) PROVE saw'[c] = saw[c] /\ pc'[c] \in {pc[c], "dead"}
  BY <1>4 DEF Crash
<1> QED BY <1>1, <1>2, <1>3, <1>4 DEF Next

LEMMA ClearStep == OrphanInv /\ OrphanInv' /\ ClearInv /\ [Next]_vars => ClearInv'
<1> SUFFICES ASSUME OrphanInv, OrphanInv', ClearInv, [Next]_vars PROVE ClearInv'
  OBVIOUS
<1>1. CASE UNCHANGED vars
  BY <1>1 DEF ClearInv, TypeOK, SeenElected, Judged, JudgedGone, vars, leader, service
<1>2. CASE Next
  <2>1. Behind
    BY <1>2, CallStaysBehind, SchedulerStaysBehind, ProcessStaysBehind DEF Next, ClearInv
  <2>2. registered' # None => pc'[registered'] \in Elected
    BY <2>1 DEF Behind, ClearInv, SeenElected, TypeOK
  <2>3. ASSUME NEW p \in Process PROVE RestartKnows(p)'
    <3>1. restart'[p] = restart[p] \/ RestartStep(p) \/ StartRestart(p)
      BY <1>2, CallsAreMadeSomewhere, OnlyOneRestarts DEF OrphanInv
    <3> QED BY <2>1, <3>1, RestartLasts, RestartKnowsOn, WhatIsKnown
  <2>4. ASSUME NEW c \in Call PROVE CallKnows(c)'
    <3>1. \/ saw'[c] = saw[c] /\ pc'[c] \in {pc[c], "dead", "failed", "restarted"}
          \/ GetScheduler(c) \/ InitStep(c)
      BY <1>2, OnlyOneCalls DEF OrphanInv
    <3>2. CallKnows(c) /\ TypeOK
      BY WhatIsKnown
    <3>3. CASE saw'[c] = saw[c] /\ pc'[c] = pc[c]
      BY <2>1, <3>2, <3>3, CallLasts
    <3>4. CASE saw'[c] = saw[c] /\ pc'[c] \in {"dead", "failed", "restarted"}
      BY <2>1, <3>2, <3>4 DEF CallKnows, Behind, TypeOK
    <3>5. CASE GetScheduler(c) \/ InitStep(c)
      BY <2>1, <3>5, CallKnowsOn
    <3> QED BY <3>1, <3>3, <3>4, <3>5
  <2>5. TypeOK'
    BY DEF OrphanInv
  <2> QED BY <2>2, <2>3, <2>4, <2>5 DEF ClearInv, SeenElected, Judged, RestartKnows, CallKnows
<1> QED BY <1>1, <1>2

(* A healthy leader loses its registration only to a call of another        *)
(* config, a restart of its own process or a restart that read the state    *)
(* file when nobody was registered: whoever else clears a registration saw  *)
(* it dead, silent or superseded, and no scheduler comes back from that.    *)
THEOREM ClearsAreJustified == Spec => OnlyJustifiedClears
<1>1. OrphanInv /\ ClearInv /\ [Next]_vars =>
        [\A s \in Call : registered = s /\ registered' # s /\ Healthy(s)
           => \/ \E c \in Call : pc[c] = "clearing stale" /\ wants[c] # wants[s]
              \/ Clearing(ProcessOf[s], s)
              \/ \E p \in Process : Clearing(p, None)]_vars
  <2> SUFFICES ASSUME OrphanInv, ClearInv, [Next]_vars, NEW s \in Call,
                      registered = s, registered' # s, Healthy(s)
               PROVE  \/ \E c \in Call : pc[c] = "clearing stale" /\ wants[c] # wants[s]
                      \/ Clearing(ProcessOf[s], s)
                      \/ \E p \in Process : Clearing(p, None)
    OBVIOUS
  <2>0. s # None /\ ProcessOf[s] \in alive /\ life[s] = "up" /\ s \in ports
    BY NamesSE DEF Healthy, Running
  <2>1. \/ \E c \in Call : ClearServer(c) \/ Elect(c) \/ Deregister(c)
        \/ \E p \in Process : RestartClears(p)
    BY DEF Next, InitStep, RestartStep, vars, GetScheduler, AfterRestart, Acquire, LockTimesOut, ReadServer,
       Judge, Probe, Create, ServerStarts, Settle, Yield, Yielded, IdleTimeout, LeadershipCheck, StopServer,
       TaskFails, RestartReads, RestartJudges, RestartEnds, Dispose, DisposeEnds, Crash
  <2>2. ASSUME NEW c \in Call, ClearServer(c) PROVE pc[c] = "clearing stale" /\ wants[c] # wants[s]
    <3>1. saw[c] = s
      BY <2>2 DEF ClearServer, Cleared, ClearInv, Judged
    <3> QED BY <2>0, <2>2, <3>1 DEF ClearServer, ClearInv, Judged
  <2>3. ASSUME NEW c \in Call, Elect(c) PROVE FALSE
    BY <2>0, <2>3 DEF Elect, IsAlive
  <2>4. ASSUME NEW c \in Call, Deregister(c) PROVE FALSE
    BY <2>0, <2>4, NamesSE DEF Deregister, Cleared
  <2>5. ASSUME NEW p \in Process, RestartClears(p) PROVE Clearing(ProcessOf[s], s) \/ Clearing(p, None)
    BY <2>0, <2>5 DEF RestartClears, Cleared, Clearing, ClearInv, Judged, JudgedGone
  <2> QED BY <2>1, <2>2, <2>3, <2>4, <2>5
<1>2. Init => OrphanInv /\ ClearInv
  <2>1. Init => OrphanInv
    BY SlotsInit
  <2> QED BY <2>1 DEF Init, OrphanInv, ClearInv, SeenElected, Judged, NoRestart
<1>3. OrphanInv /\ ClearInv /\ [Next]_vars => OrphanInv' /\ ClearInv'
  BY SlotsStep, ClearStep
<1> QED BY <1>1, <1>2, <1>3, PTL DEF Spec, OnlyJustifiedClears
=============================================================================
