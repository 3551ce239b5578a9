-------------------------- MODULE EmbeddingElection --------------------------
(***************************************************************************)
(* Who serves embeddings: getEmbedder() and clearEmbeddingInstance() of    *)
(* infrastructure/embedding/embedding-factory.ts, the leadership check and *)
(* the shutdown of embedding-server.ts, and the teardown of                *)
(* core/service-initialization.ts.  An entry of the shared state file      *)
(* names the leader from before it loads its model; a process that finds   *)
(* it waits for its port and becomes a client.  A server that steps down   *)
(* clears its entry first and frees its model long after, when the         *)
(* inferences under way are done, or never.                                *)
(***************************************************************************)
EXTENDS Integers, FiniteSets, Functions

CONSTANTS Session,  \* calls of getEmbedder(), each with its server id
          Host,     \* processes
          HostOf,   \* HostOf[s]: the process session s belongs to
          Odd,      \* sessions that may be configured for another embedding model
          MaxTries, \* MAX_LEADER_WAIT_RETRIES
          MissThreshold,
          Nobody

VARIABLES entry,    \* state.embeddingServer: Nobody, or the owner and whether its port is out
          place,    \* place[s]: where session s is
          target,   \* target[s]: the server id its poll has read
          tries, misses,
          instance, inFlight,  \* per process: _embeddingInstance, _embeddingInitPromise
          clearing, \* servers whose shutdown a clearEmbeddingInstance() awaits
          deaf,     \* servers whose endpoint does not answer
          dead,     \* processes
          otherModel, \* sessions that are
          excuse    \* history: ways in which a live server lost its entry

electionVars == <<entry, place, target, tries, misses, instance, inFlight, clearing, deaf, dead,
                  otherModel, excuse>>
perHost == <<instance, inFlight>>
world == <<misses, deaf, dead, otherModel>>

Init ==
  /\ entry = Nobody /\ place = [s \in Session |-> "new"] /\ target = [s \in Session |-> Nobody]
  /\ tries = [s \in Session |-> 0] /\ misses = [s \in Session |-> 0]
  /\ instance = [h \in Host |-> Nobody] /\ inFlight = [h \in Host |-> Nobody]
  /\ clearing = {} /\ deaf = {} /\ dead = {} /\ otherModel \in SUBSET Odd /\ excuse = {}

Go(s, at) == place' = [place EXCEPT ![s] = at]
Loading == {"init", "publish"}
Serving == {"lead", "unlisted"}
Active == {s \in Session : place[s] \in Loading \cup Serving}
Pending == {"replacing", "claim", "poll", "clear", "retry"} \cup Loading  \* of an election
Living(s) == HostOf[s] \notin dead
Mine(s) == entry # Nobody /\ entry.owner = s
WithoutAny(s) == Nobody                       \* mutant: an unconditional delete

Without(s) == IF Mine(s) THEN Nobody ELSE entry                     \* clearEmbeddingServer({serverId})
Same(s, t) == (s \in otherModel) <=> (t \in otherModel)
Mismatch(s) == entry # Nobody /\ ~Same(s, entry.owner)
Unlatch(s) == inFlight' = [inFlight EXCEPT ![HostOf[s]] = IF @ = s THEN Nobody ELSE @]
Keep(s, what) == instance' = [instance EXCEPT ![HostOf[s]] = what] /\ Unlatch(s)

(* shutdown() of k: only the first call goes through.  The entry goes at   *)
(* once, if it is still its own and the state can be updated.              *)
Goes(k) == k # Nobody /\ place[k] = "lead"
Unregister(k) == entry' \in {entry, Without(k)}

-----------------------------------------------------------------------------
(* getEmbedder().                                                          *)

Elect(s) == Go(s, "claim") /\ inFlight' = [inFlight EXCEPT ![HostOf[s]] = s]

(* The call in flight, if it is for the same model, or an election.        *)
Join(s) ==
  LET f == inFlight[HostOf[s]] IN
  \/ f = Nobody /\ Elect(s) /\ UNCHANGED target
  \/ f # Nobody /\ Same(s, f) /\ Go(s, "joined") /\ UNCHANGED <<target, inFlight>>
  \/ /\ f # Nobody /\ ~Same(s, f) /\ Go(s, "outwait")
     /\ target' = [target EXCEPT ![s] = f] /\ UNCHANGED inFlight

(* The cached instance is for another model: it is taken out of the cache  *)
(* before its disposal is awaited.                                         *)
Replace(s) ==
  LET k == instance[HostOf[s]] IN
  /\ instance' = [instance EXCEPT ![HostOf[s]] = Nobody] /\ UNCHANGED inFlight
  /\ target' = [target EXCEPT ![s] = IF Goes(k) THEN k ELSE s]
  /\ IF Goes(k) THEN place' = [place EXCEPT ![s] = "replacing", ![k] = "closing"] /\ Unregister(k)
     ELSE Go(s, "replacing") /\ UNCHANGED entry

Get(s) ==
  LET k == instance[HostOf[s]] IN
  /\ place[s] = "new" /\ Living(s)
  /\ \/ k = Nobody /\ Join(s) /\ UNCHANGED <<entry, instance>>
     \/ k # Nobody /\ Same(s, k) /\ Go(s, "joined") /\ UNCHANGED <<entry, target, perHost>>
     \/ k # Nobody /\ ~Same(s, k) /\ Replace(s)
  /\ UNCHANGED <<tries, clearing, world, excuse>>

(* A retry goes on past the join.                                          *)
Replaced(s) ==
  /\ place[s] = "replacing" /\ place[target[s]] # "closing"
  /\ IF tries[s] = 0 THEN Join(s) ELSE Elect(s) /\ UNCHANGED target
  /\ UNCHANGED <<entry, tries, instance, clearing, world, excuse>>

Outwaited(s) ==
  /\ place[s] = "outwait" /\ place[target[s]] \notin Pending /\ Go(s, "new")
  /\ UNCHANGED <<entry, target, tries, perHost, clearing, world, excuse>>

Claim(s) ==
  /\ place[s] = "claim"
  /\ IF entry # Nobody /\ Living(entry.owner)
     THEN IF Mismatch(s)
          THEN Go(s, "local") /\ Keep(s, s) /\ UNCHANGED entry
          ELSE Go(s, "poll") /\ UNCHANGED <<entry, perHost>>
     ELSE /\ entry' = [owner |-> s, up |-> FALSE] /\ Go(s, "init") /\ UNCHANGED perHost
  /\ UNCHANGED <<target, tries, clearing, world, excuse>>

(* One turn of the waiting loop.  A server that closes answers until its   *)
(* endpoint is down.                                                       *)
Answers(s) == place[s] \in Serving \cup {"closing"} /\ s \notin deaf

Poll(s) ==
  /\ place[s] = "poll"
  /\ \/ entry = Nobody /\ Go(s, "retry") /\ UNCHANGED <<target, perHost>>
     \/ /\ entry # Nobody /\ ~Living(entry.owner)
        /\ Go(s, "clear") /\ target' = [target EXCEPT ![s] = entry.owner] /\ UNCHANGED perHost
     \/ /\ entry # Nobody /\ Living(entry.owner) /\ Mismatch(s)
        /\ Go(s, "local") /\ Keep(s, s) /\ UNCHANGED target
     \/ /\ entry # Nobody /\ Living(entry.owner) /\ ~Mismatch(s) /\ entry.up
        /\ \/ Answers(entry.owner) /\ Go(s, "client") /\ Keep(s, s) /\ UNCHANGED target
           \/ /\ ~Answers(entry.owner) \/ place[entry.owner] = "closing"
              /\ Go(s, "clear")                   \* unreachable, poll after poll
              /\ target' = [target EXCEPT ![s] = entry.owner] /\ UNCHANGED perHost
  /\ UNCHANGED <<entry, tries, clearing, world, excuse>>

Clear(s) ==
  /\ place[s] = "clear" /\ Go(s, "retry") /\ entry' = Without(target[s])
  /\ excuse' = IF Mine(target[s]) /\ target[s] \in Active THEN excuse \cup {"unreachable"}
               ELSE excuse
  /\ UNCHANGED <<target, tries, perHost, clearing, world>>

Timeout(s) ==
  /\ place[s] = "poll" /\ entry # Nobody /\ Living(entry.owner) /\ Go(s, "retry")
  /\ UNCHANGED <<entry, target, tries, perHost, clearing, world, excuse>>

Again(s) ==
  LET k == instance[HostOf[s]] IN
  \/ k = Nobody /\ Elect(s) /\ UNCHANGED <<entry, target, instance>>
  \/ k # Nobody /\ Same(s, k) /\ Go(s, "joined") /\ Unlatch(s)
       /\ UNCHANGED <<entry, target, instance>>
  \/ k # Nobody /\ ~Same(s, k) /\ Replace(s)

Retry(s) ==
  /\ place[s] = "retry"
  /\ \/ /\ tries[s] + 1 >= MaxTries /\ Go(s, "failed") /\ Unlatch(s)
        /\ UNCHANGED <<entry, target, tries, instance>>
     \/ tries[s] + 1 < MaxTries /\ tries' = [tries EXCEPT ![s] = @ + 1] /\ Again(s)
  /\ UNCHANGED <<clearing, world, excuse>>

(* The candidate loads its model, starts its server, publishes its port.   *)
Started(s) ==
  /\ place[s] = "init"
  /\ \/ Go(s, "publish") /\ UNCHANGED <<entry, inFlight>>
     \/ Go(s, "failed") /\ Unlatch(s) /\ Unregister(s)
  /\ UNCHANGED <<target, tries, instance, clearing, world, excuse>>

Publish(s) ==
  /\ place[s] = "publish"
  /\ \/ Go(s, "lead") /\ Keep(s, s)
        /\ entry' = IF Mine(s) THEN [entry EXCEPT !.up = TRUE] ELSE entry
     \/ Go(s, "unlisted") /\ Unlatch(s)           \* the state could not be updated
        /\ UNCHANGED <<entry, instance>>
  /\ UNCHANGED <<target, tries, clearing, world, excuse>>

-----------------------------------------------------------------------------
(* startLeadershipCheck(): a missing entry is benign.                      *)
CheckLeadership(s) ==
  /\ place[s] = "lead" /\ entry # Nobody
  /\ LET n == IF Mine(s) THEN 0 ELSE misses[s] + 1
     IN  /\ misses' = [misses EXCEPT ![s] = n]
         /\ IF n >= MissThreshold THEN Go(s, "closing") ELSE UNCHANGED place
  /\ UNCHANGED <<entry, target, tries, perHost, clearing, deaf, dead, otherModel, excuse>>

(* clearEmbeddingInstance(): a reconnect, a disposal, a poisoned queue.    *)
(* The cache is emptied when the server's shutdown has ended, whatever it  *)
(* holds by then.  The call in flight is forgotten, not stopped.           *)
Forget(h) ==
  /\ instance' = [instance EXCEPT ![h] = Nobody] /\ inFlight' = [inFlight EXCEPT ![h] = Nobody]

ClearInstance(h) ==
  LET k == instance[h] IN
  /\ h \notin dead /\ (k # Nobody \/ inFlight[h] # Nobody)
  /\ IF Goes(k)
     THEN Go(k, "closing") /\ Unregister(k) /\ clearing' = clearing \cup {k} /\ UNCHANGED perHost
     ELSE Forget(h) /\ UNCHANGED <<entry, place, clearing>>
  /\ UNCHANGED <<target, tries, world, excuse>>

(* shutdown() has closed the HTTP server and waited for the queue to be    *)
(* idle, without a bound, and disposes of the model.                       *)
Freed(s) ==
  /\ place[s] = "closing" /\ Go(s, "gone") /\ clearing' = clearing \ {s}
  /\ IF s \in clearing THEN Forget(HostOf[s]) ELSE UNCHANGED perHost
  /\ UNCHANGED <<entry, target, tries, world, excuse>>

(* An inference that hangs for good: the server steps down, its model is   *)
(* never freed, and the instance is cleared.  Under a server that closes   *)
(* already, it never stops closing.                                        *)
Poisoned(s) ==
  LET k == instance[HostOf[s]]
      another == k # s /\ Goes(k)
  IN
  /\ place[s] = "lead"
  /\ place' = [t \in Session |-> IF t = s THEN "wedged"
                                 ELSE IF another /\ t = k THEN "closing" ELSE place[t]]
  /\ entry' \in {entry, Without(s)} \cup IF another THEN {Without(k)} ELSE {}
  /\ IF another THEN clearing' = clearing \cup {k} /\ UNCHANGED perHost
     ELSE Forget(HostOf[s]) /\ UNCHANGED clearing
  /\ UNCHANGED <<target, tries, world, excuse>>

-----------------------------------------------------------------------------
(* disposeCoreServices(): by process id, unless a server is cached.        *)
OwnsServer(h) ==
  \E s \in Session : instance[h] = s /\ place[s] \in {"lead", "closing", "wedged", "gone"}

Teardown(h) ==
  /\ h \notin dead /\ ~OwnsServer(h)
  /\ entry # Nobody /\ HostOf[entry.owner] = h /\ entry' = Nobody
  /\ excuse' = IF entry.owner \in Active THEN excuse \cup {"withdrawn"} ELSE excuse
  /\ UNCHANGED <<place, target, tries, perHost, clearing, world>>

GoDeaf(s) ==
  /\ place[s] = "lead" /\ deaf' = deaf \cup {s}
  /\ UNCHANGED <<entry, place, target, tries, misses, perHost, clearing, dead, otherModel, excuse>>

Die(h) ==
  /\ h \notin dead /\ dead' = dead \cup {h}
  /\ place' = [s \in Session |-> IF HostOf[s] = h THEN "dead" ELSE place[s]]
  /\ clearing' = {s \in clearing : HostOf[s] # h}
  /\ UNCHANGED <<entry, target, tries, misses, perHost, deaf, otherModel, excuse>>

Turn(s) == \/ Get(s) \/ Replaced(s) \/ Outwaited(s) \/ Claim(s) \/ Poll(s) \/ Clear(s)
           \/ Timeout(s) \/ Retry(s) \/ Started(s) \/ Publish(s) \/ CheckLeadership(s)
           \/ Freed(s) \/ Poisoned(s) \/ GoDeaf(s)
Next ==
  \/ \E s \in Session : Turn(s)
  \/ \E h \in Host : ClearInstance(h) \/ Teardown(h) \/ Die(h)

Spec == Init /\ [][Next]_electionVars

-----------------------------------------------------------------------------
(* At most one session per machine loads the model to serve it, or serves  *)
(* it, and it is the registered one, which others find: elections, deaths, *)
(* several waiters that see the same death, retries, cleared instances,    *)
(* changes of model, servers that step down or hang, and failures never    *)
(* make two.  Two come about only when a live server is judged             *)
(* unreachable, or a teardown withdraws the claim of a model load in its   *)
(* own process.  (A server that has stepped down may still hold its model  *)
(* beside them: for that the GPU has its lock.)                            *)
OneLeader == (Cardinality(Active) <= 1 /\ \A s \in Active : Mine(s)) \/ excuse # {}

-----------------------------------------------------------------------------
(* What makes it so: the inductive invariant, and what it needs of the     *)
(* parameters.                                                             *)
ElectionSetting == HostOf \in [Session -> Host] /\ Nobody \notin [owner : Session, up : BOOLEAN]

Places == {"new", "joined", "outwait", "replacing", "claim", "local", "poll", "init", "retry",
           "clear", "client", "failed", "publish", "lead", "unlisted", "closing", "wedged", "gone",
           "dead"}

ElectionTyped ==
  /\ entry \in [owner : Session, up : BOOLEAN] \cup {Nobody}
  /\ place \in [Session -> Places]
  /\ \A s \in Session : ~Living(s) => place[s] = "dead"

(* Every model that is loaded or served is the registered one.             *)
Listed == \A s \in Active : Mine(s)

ElectionInv == ElectionTyped /\ (excuse = {} => Listed)

(* The cached instance of a process, if any, is one of the sessions.       *)
CachedHere == instance \in [Host -> Session \cup {Nobody}]
=============================================================================
