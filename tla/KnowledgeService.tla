-------------------------- MODULE KnowledgeService --------------------------
(***************************************************************************)
(* initialize() and dispose() of infrastructure/knowledge-store-service.ts. *)
(* The service keeps one set of components (embedder, store, writer queue) *)
(* for one working directory and mode, which together are a scope here.    *)
(* Any number of callers initialise it, lazily or for a scope of their     *)
(* own, and dispose of it; each continues after its awaits when its turn   *)
(* among the microtasks comes.                                             *)
(***************************************************************************)
EXTENDS Integers, FiniteSets

CONSTANTS Opener,   \* calls of initialize()
          Closer,   \* calls of dispose()
          Scope,    \* working directories with their knowledge mode
          Lazy,     \* no ctx: whatever scope the service has
          MaxBuilds \* bound: initializations and rebuilds

VARIABLES lifecycle, scope,
          wants,      \* per initialize(): the scope of its ctx, or Lazy
          parts,      \* parts[b]: what became of the components of build b:
                      \* "none", "live", "closed", or "stuck" when a disposal
                      \* failed on them part of the way
          held,       \* the build whose components the fields point at, 0 for null
          initLock,   \* whether _initLock points at a lock
          building,   \* _initializationPromise: the build, 0 for null
          built,      \* builds begun; underWay: those whose closure still runs
          underWay,
          disposal,   \* _disposalPromise: the disposal, 0 for null
          torn,       \* disposals begun; closing: those whose closure still runs,
          closing,    \* each with the components and the lock it captured
          at, awaits, \* per call: where it is; the build or disposal it awaits
          collided    \* history: a build and a disposal went on at once

serviceVars == <<lifecycle, scope, wants, parts, held, initLock, building, built, underWay,
                 disposal, torn, closing, at, awaits, collided>>
fields == <<lifecycle, scope, wants, parts, held, initLock, building, built, underWay,
            disposal, torn, closing, collided>>

Caller == Opener \cup Closer
Build == 1 .. MaxBuilds

Init ==
  /\ lifecycle = "uninitialized" /\ scope \in Scope
  /\ parts = [b \in Build |-> "none"] /\ held = 0 /\ initLock = FALSE
  /\ building = 0 /\ built = 0 /\ underWay = {}
  /\ disposal = 0 /\ torn = 0 /\ closing = {}
  /\ wants \in [Opener -> Scope \cup {Lazy}]
  /\ at = [c \in Caller |-> "new"] /\ awaits = [c \in Caller |-> 0] /\ collided = FALSE

Go(c, pc, on) == at' = [at EXCEPT ![c] = pc] /\ awaits' = [awaits EXCEPT ![c] = on]
Settled == lifecycle \in {"initialized", "disabled"}
New(c) == IF wants[c] = Lazy THEN scope ELSE wants[c]

(* The promise the call awaits has settled. Its continuation is a          *)
(* microtask: no I/O of a build or a disposal completes before it has run. *)
Resumes(c) ==
  \/ at[c] \in {"outwait", "settle", "settling"} /\ awaits[c] \notin underWay
  \/ at[c] = "rebuild" /\ \A d \in closing : d.id # awaits[c]
NoneResumes == \A c \in Caller : ~Resumes(c)

-----------------------------------------------------------------------------
(* dispose(): the half before its first await. With nothing to close there *)
(* is no await: the closure is done before _disposalPromise is assigned.   *)

TearDown(c, next) ==
  LET d == [id |-> torn + 1, build |-> held, lock |-> initLock]
      nothing == held = 0 /\ ~initLock
  IN /\ disposal' = d.id /\ torn' = d.id
     /\ lifecycle' = IF nothing THEN "disposed" ELSE "disposing"
     /\ closing' = IF nothing THEN closing ELSE closing \cup {d}
     /\ collided' = (collided \/ underWay # {})
     /\ Go(c, next, d.id)
     /\ UNCHANGED <<scope, wants, parts, held, initLock, building, built, underWay>>

(* `next' is where c goes on when the service is disposed, `wait' where it *)
(* waits for the initialization in flight.                                 *)
Dispose(c, next, wait) ==
  IF lifecycle \in {"disposed", "uninitialized"} \/ disposal # 0
  THEN Go(c, next, disposal) /\ UNCHANGED fields
  ELSE IF building # 0 THEN Go(c, wait, building) /\ UNCHANGED fields
  ELSE TearDown(c, next)

(* After that wait only the disposal is looked at again.                   *)
DisposeNow(c, next) ==
  /\ Resumes(c)
  /\ IF disposal # 0 THEN Go(c, next, disposal) /\ UNCHANGED fields ELSE TearDown(c, next)

Close(c) == at[c] = "new" /\ Dispose(c, "done", "settling")

(* The initialization that a disposal, of a dispose() or of a rebuild, had *)
(* to wait for has settled.                                                *)
BuildSettled(c) ==
  \/ at[c] = "settling" /\ DisposeNow(c, "done")
  \/ at[c] = "settle" /\ DisposeNow(c, "rebuild")

(* What the closure of a disposal does last, whatever became of it.        *)
Over(d, outcome) ==
  /\ NoneResumes
  /\ closing' = closing \ {d} /\ lifecycle' = "disposed"
  /\ parts' = IF d.build = 0 THEN parts ELSE [parts EXCEPT ![d.build] = outcome]
  /\ disposal' = IF disposal = d.id THEN 0 ELSE disposal
  /\ UNCHANGED <<scope, wants, building, built, underWay, torn, at, awaits, collided>>

Closed(d) ==
  /\ Over(d, "closed")
  /\ held' = IF held = d.build THEN 0 ELSE held
  /\ initLock' = (initLock /\ ~d.lock)

(* A component throws: what comes after it is not disposed of, the fields  *)
(* keep what they point at, and the service is disposed all the same.      *)
CloseFails(d) == Over(d, "stuck") /\ UNCHANGED <<held, initLock>>

-----------------------------------------------------------------------------
(* initialize().                                                           *)

Start(c) ==
  /\ built < MaxBuilds /\ built' = built + 1
  /\ lifecycle' = "initializing" /\ scope' = New(c) /\ initLock' = TRUE
  /\ building' = built + 1 /\ underWay' = underWay \cup {built + 1}
  /\ collided' = (collided \/ closing # {})
  /\ Go(c, "done", 0)
  /\ UNCHANGED <<wants, parts, held, disposal, torn, closing>>

(* Join a build of the same scope, wait for one of another, or start.      *)
JoinOrStart(c) ==
  IF building = 0 THEN Start(c)
  ELSE /\ IF scope = New(c) THEN Go(c, "done", 0) ELSE Go(c, "outwait", building)
       /\ UNCHANGED fields

(* Mutant: a change of scope builds over what there is.                    *)
InitializeOver(c) ==
  /\ at[c] = "new" /\ disposal = 0
  /\ IF Settled /\ scope = New(c) THEN Go(c, "done", 0) /\ UNCHANGED fields
     ELSE JoinOrStart(c)

Initialize(c) ==
  /\ at[c] = "new" /\ disposal = 0
  /\ IF ~Settled THEN JoinOrStart(c)
     ELSE IF scope = New(c) THEN Go(c, "done", 0) /\ UNCHANGED fields
     ELSE Dispose(c, "rebuild", "settle")

(* Its own disposal, or the one it joined, has ended.                      *)
Rebuild(c) == at[c] = "rebuild" /\ Resumes(c) /\ JoinOrStart(c)

(* The loop over an initialization for another scope. It does not look at  *)
(* _disposalPromise again.                                                 *)
Outwaited(c) ==
  /\ at[c] = "outwait" /\ Resumes(c)
  /\ IF (building # 0 \/ Settled) /\ scope = New(c) THEN Go(c, "done", 0) /\ UNCHANGED fields
     ELSE IF Settled THEN Dispose(c, "rebuild", "settle")
     ELSE JoinOrStart(c)

(* The closure of a build ends: with components, disabled, or by throwing. *)
Publish(b, outcome) ==
  /\ NoneResumes
  /\ b \in underWay /\ underWay' = underWay \ {b}
  /\ building' = IF building = b THEN 0 ELSE building
  /\ lifecycle' = outcome
  /\ parts' = IF outcome = "initialized" THEN [parts EXCEPT ![b] = "live"] ELSE parts
  /\ held' = CASE outcome = "initialized" -> b
               [] outcome = "disabled" -> 0
               [] OTHER -> held
  /\ UNCHANGED <<scope, wants, initLock, built, disposal, torn, closing, at, awaits, collided>>

Next ==
  \/ \E c \in Opener : Initialize(c) \/ Rebuild(c) \/ Outwaited(c)
  \/ \E c \in Closer : Close(c)
  \/ \E c \in Caller : BuildSettled(c)
  \/ \E d \in closing : Closed(d) \/ CloseFails(d)
  \/ \E b \in underWay, o \in {"initialized", "disabled", "uninitialized"} : Publish(b, o)

Spec == Init /\ [][Next]_serviceVars

-----------------------------------------------------------------------------
(* No components are leaked, resurrected or handed out half disposed:      *)
(* those alive are the ones the fields point at or a disposal has in hand; *)
(* a service that rests disposed points at none but those its disposal     *)
(* failed on; an initialized one points at components no disposal has      *)
(* touched; and _disposalPromise, on which initialize() loops, is not left *)
(* behind by a disposal that has ended, failed or not: whatever            *)
(* initialisations of several scopes, disposals and failures overlap, but  *)
(* for a build that went on beside a disposal.                             *)
NoComponentsLeak ==
  \/ /\ \A b \in Build : parts[b] = "live" => held = b \/ \E d \in closing : d.build = b
     /\ lifecycle = "disposed" /\ underWay = {} => held = 0 \/ parts[held] = "stuck"
     /\ lifecycle = "initialized" => held # 0 /\ parts[held] = "live"
     /\ disposal # 0 => \E d \in closing : d.id = disposal
  \/ collided

-----------------------------------------------------------------------------
(* What makes it so: the inductive invariant, and what it needs of the     *)
(* parameters.                                                             *)
ServiceSetting == MaxBuilds \in Nat

Builds == 0 .. MaxBuilds
Disposal == [id : Nat \ {0}, build : Builds, lock : BOOLEAN]
Steps == {"new", "outwait", "settle", "settling", "rebuild", "done"}

ServiceTyped ==
  /\ lifecycle \in {"uninitialized", "initializing", "initialized", "disabled", "disposing", "disposed"}
  /\ parts \in [Build -> {"none", "live", "stuck", "closed"}]
  /\ held \in Builds /\ building \in Builds /\ built \in Builds
  /\ initLock \in BOOLEAN /\ collided \in BOOLEAN
  /\ disposal \in Nat /\ torn \in Nat /\ closing \subseteq Disposal
  /\ at \in [Caller -> Steps] /\ awaits \in [Caller -> Nat]

(* One build runs at a time, the one the promise is of.                    *)
OneBuild == underWay = IF building = 0 THEN {} ELSE {building}

(* What the fields say of the disposal and the build that run.             *)
DisposalKnown ==
  IF disposal = 0 THEN closing = {} /\ lifecycle # "disposing"
  ELSE /\ lifecycle = "disposing" /\ building = 0
       /\ \E d \in closing : /\ closing = {d} /\ d.id = disposal
                             /\ d.build = held /\ d.lock = initLock

Stuck == held # 0 /\ parts[held] = "stuck"

(* A build runs under its lock, with nothing alive or torn down beside it. *)
BuildKnown ==
  building # 0 => (held = 0 \/ Stuck) /\ disposal = 0 /\ initLock /\ lifecycle = "initializing"

(* Whatever is alive is what the fields point at.                          *)
Held ==
  /\ \A b \in Build : parts[b] = "live" => held = b
  /\ held # 0 /\ ~Stuck => lifecycle \in {"initialized", "disposing"}
  /\ lifecycle = "initialized" => held # 0 /\ parts[held] = "live"
  /\ lifecycle \in {"initializing", "initialized", "disabled"} => initLock

(* What a call may rely on when its wait is over.                          *)
Waits ==
  \A c \in Caller :
    /\ at[c] \in {"settle", "settling"} /\ awaits[c] \notin underWay => disposal # 0 \/ initLock
    /\ at[c] = "rebuild" /\ Resumes(c) => ~Settled

Tidy == DisposalKnown /\ BuildKnown /\ Held /\ Waits
ServiceInv == ServiceTyped /\ OneBuild /\ (collided \/ Tidy)
=============================================================================
