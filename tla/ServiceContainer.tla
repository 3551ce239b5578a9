-------------------------- MODULE ServiceContainer --------------------------
(***************************************************************************)
(* core/service-registry.ts: one registration of the container and what    *)
(* get(), clear(), replace() and disposeAll() do to it when they overlap.  *)
(* An awaiting call goes on as a microtask, before any other initialize()  *)
(* or dispose() completes.  Calls from inside an initialize(), which must  *)
(* not wait, are left out, and registerAndReplace(), which makes a new     *)
(* registration; the order disposeAll() gives dependent services is not    *)
(* needed for one registration.                                            *)
(***************************************************************************)
EXTENDS Integers, FiniteSets

CONSTANTS Getter,     \* calls of get()
          WithCtx,    \* those that pass a ctx
          Clearer,    \* calls of clear()
          Replacer,   \* calls of replace(), each with an instance of its own
          MaxInits    \* bound: initializations, again or not, and replacements

VARIABLES instance,   \* registration.instance: an instance, 0 for null
          promised,   \* initializationPromise: an initialization, 0 for null
          marker,     \* disposalPromise: the call it belongs to, or "none"
          life,       \* life[i]: "none", "live", or "gone" once dispose() was
                      \* called and has settled (a rejection is only logged),
                      \* for the instance that initialization i makes or that
                      \* the replacement i brings
          inits,      \* initializations that run: [id, of, again]
          begun,      \* how many there were, the replacements included
          clears,     \* bodies of clear() and replace() that run: [by, of, brings],
                      \* of = 0 before dispose(), brings = 0 for clear()
          behind,     \* per call of replace(): the call whose disposal it awaits
          teardown,   \* disposeAll(): its stage, what it awaits or disposes of
          teardowns,  \* how many there were
          step, on,   \* per call: where it is; the initialization it awaits, or
                      \* the replacement it is going to make
          failed,     \* history: instances whose initialization, or whose
                      \* re-initialization, failed: nobody disposes of them
          hurried,    \* history: a wait of disposeAll() timed out
          late        \* history: an initialization, clear() or replace() began
                      \* during one, a replace() beside another disposal, or a
                      \* joined get() re-initialized what another had in hand

containerVars == <<instance, promised, marker, life, inits, begun, clears, behind, teardown,
                   teardowns, step, on, failed, hurried, late>>
registration == <<instance, promised, marker, life, inits, begun, clears, behind, teardown,
                  teardowns, failed, hurried, late>>

Disposer == Clearer \cup Replacer
Calls == Getter \cup Disposer
Idle == [stage |-> "none", of |-> 0]
Running(k) == \E r \in inits : r.id = k
isDisposing == teardown # Idle

Init ==
  /\ instance = 0 /\ promised = 0 /\ marker = "none"
  /\ life = [i \in 1 .. MaxInits |-> "none"]
  /\ inits = {} /\ begun = 0 /\ clears = {} /\ teardown = Idle /\ teardowns = 0
  /\ behind = [c \in Replacer |-> "none"]
  /\ step = [c \in Calls |-> "new"] /\ on = [c \in Calls |-> 0]
  /\ failed = {} /\ hurried = FALSE /\ late = FALSE

Move(c, to, k) == step' = [step EXCEPT ![c] = to] /\ on' = [on EXCEPT ![c] = k]
Leave(c, to, k) == Move(c, to, k) /\ UNCHANGED registration

(* The promise call c awaits has settled. get() loops while there is a     *)
(* marker, also over one that was left behind settled.                     *)
Ready(c) ==
  \/ step[c] = "waiting" /\ \A r \in clears : r.by # marker
  \/ step[c] \in {"joining", "settling"} /\ ~Running(on[c])
  \/ step[c] = "queued" /\ \A r \in clears : r.by # behind[c]
Quiet == \A c \in Calls : ~Ready(c)

-----------------------------------------------------------------------------
(* get().                                                                  *)

Busy == clears # {} \/ inits # {}

Initialize(c, again) ==
  /\ begun < MaxInits /\ begun' = begun + 1 /\ promised' = begun + 1
  /\ inits' = inits \cup {[id |-> begun + 1, of |-> IF again THEN instance ELSE 0,
                           again |-> again]}
  /\ late' = (late \/ isDisposing \/ (step[c] = "joining" /\ Busy))
  /\ Move(c, "started", begun + 1)
  /\ UNCHANGED <<instance, marker, life, clears, behind, teardown, teardowns, failed, hurried>>

(* With an instance, or after the wait for its initialization.             *)
Hand(c) == IF c \in WithCtx THEN Initialize(c, TRUE) ELSE Leave(c, "done", 0)

Serve(c) ==
  IF instance # 0 /\ promised # 0 THEN Leave(c, "joining", promised)
  ELSE IF instance # 0 THEN Hand(c)
  ELSE IF promised # 0 THEN Leave(c, "done", 0)
  ELSE Initialize(c, FALSE)

Get(c) ==
  /\ step[c] = "new" /\ ~isDisposing
  /\ IF marker = "none" THEN Serve(c) ELSE Leave(c, "waiting", 0)

GetWaited(c) == step[c] = "waiting" /\ marker = "none" /\ Serve(c)

(* The initialization it joined may have failed and cleaned up: then it    *)
(* starts over, and is refused while the container disposes.               *)
GetJoined(c) ==
  /\ step[c] = "joining" /\ Ready(c)
  /\ IF instance # 0 THEN Hand(c)
     ELSE IF isDisposing THEN Leave(c, "done", 0)
     ELSE IF marker = "none" THEN Serve(c) ELSE Leave(c, "waiting", 0)

-----------------------------------------------------------------------------
(* _initializeService() and the re-initialization of get().                *)

Construct(r) ==
  /\ Quiet /\ r.of = 0
  /\ instance' = r.id /\ life' = [life EXCEPT ![r.id] = "live"]
  /\ inits' = (inits \ {r}) \cup {[r EXCEPT !.of = r.id]}
  /\ UNCHANGED <<promised, marker, begun, clears, behind, teardown, teardowns, step, on, failed,
                 hurried, late>>

Succeed(r) ==
  /\ Quiet /\ r.of # 0 /\ inits' = inits \ {r}
  /\ promised' = IF r.again /\ promised # r.id THEN promised ELSE 0
  /\ step' = [c \in Calls |-> IF step[c] = "started" /\ on[c] = r.id THEN "done" ELSE step[c]]
  /\ UNCHANGED <<instance, marker, life, begun, clears, behind, teardown, teardowns, on, failed,
                 hurried, late>>

(* The registration lets go of what failed, and does not dispose of it.  A *)
(* re-initialization that is no longer current touches nothing.  The catch *)
(* of the get() that started it, which clears the promise again, runs      *)
(* right behind and changes nothing more.                                  *)
Fail(r) ==
  /\ Quiet /\ inits' = inits \ {r}
  /\ LET current == ~r.again \/ promised = r.id IN
     /\ promised' = IF current THEN 0 ELSE promised
     /\ instance' = IF current /\ r.of # 0 THEN 0 ELSE instance
     /\ failed' = IF current /\ r.of # 0 THEN failed \cup {r.of} ELSE failed
  /\ step' = [c \in Calls |-> IF step[c] = "started" /\ on[c] = r.id THEN "done" ELSE step[c]]
  /\ UNCHANGED <<marker, life, begun, clears, behind, teardown, teardowns, on, hurried, late>>

-----------------------------------------------------------------------------
(* clear() and replace(): settle the initialization in flight, dispose of  *)
(* the instance, and leave none (k = 0) or the one that replaces it.       *)

Installed(k, lives) == IF k = 0 THEN lives ELSE [lives EXCEPT ![k] = "live"]

(* With neither an initialization nor an instance the body has no await:   *)
(* it has cleared disposalPromise before the call assigns it.              *)
Dispose(c, k) ==
  /\ marker' = c
  /\ late' = (late \/ isDisposing \/ clears # {})
  /\ IF promised = 0 /\ instance = 0
     THEN instance' = k /\ life' = Installed(k, life) /\ UNCHANGED clears
     ELSE /\ clears' = clears \cup {[by |-> c, of |-> IF promised = 0 THEN instance ELSE 0,
                                    brings |-> k]}
          /\ UNCHANGED <<instance, life>>
  /\ IF promised = 0 THEN Move(c, "done", 0) ELSE Move(c, "settling", promised)
  /\ UNCHANGED <<promised, inits, behind, teardown, teardowns, failed, hurried>>

Clear(c) ==
  /\ step[c] = "new"
  /\ IF marker # "none" THEN Leave(c, "done", 0) ELSE Dispose(c, 0) /\ UNCHANGED begun

(* replace() looks once: what it finds in flight it awaits, and then it    *)
(* goes on, whatever began meanwhile.                                      *)
Replace(c) ==
  /\ step[c] = "new" /\ begun < MaxInits /\ begun' = begun + 1
  /\ IF marker = "none" THEN Dispose(c, begun + 1)
     ELSE /\ Move(c, "queued", begun + 1) /\ behind' = [behind EXCEPT ![c] = marker]
          /\ UNCHANGED <<instance, promised, marker, life, inits, clears, teardown, teardowns,
                         failed, hurried, late>>

ReplaceJoined(c) ==
  /\ step[c] = "queued" /\ Ready(c) /\ Dispose(c, on[c]) /\ UNCHANGED begun

ClearedRegistration(r) ==
  /\ instance' = r.brings /\ promised' = 0 /\ marker' = "none" /\ clears' = clears \ {r}
  /\ life' = Installed(r.brings, IF r.of = 0 THEN life ELSE [life EXCEPT ![r.of] = "gone"])

ClearSettled(c, r) ==
  /\ step[c] = "settling" /\ Ready(c) /\ Move(c, "done", 0)
  /\ r.by = c /\ r.of = 0
  /\ IF instance = 0 THEN ClearedRegistration(r)
     ELSE /\ clears' = (clears \ {r}) \cup {[r EXCEPT !.of = instance]}
          /\ UNCHANGED <<instance, promised, marker, life>>
  /\ UNCHANGED <<inits, begun, behind, teardown, teardowns, failed, hurried, late>>

ClearEnds(r) ==
  /\ Quiet /\ r.of # 0 /\ ClearedRegistration(r)
  /\ UNCHANGED <<inits, begun, behind, teardown, teardowns, step, on, failed, hurried, late>>

-----------------------------------------------------------------------------
(* disposeAll(): wait for the initialization in flight, then for the       *)
(* disposal in flight, each for five seconds at most, then dispose.        *)

(* Mutant: initializations in flight are not waited for.                   *)
AwaitNoInits(stage) ==
  IF stage # "snapshot" /\ clears # {} THEN [stage |-> "disposals", of |-> 0]
  ELSE IF instance # 0 THEN [stage |-> "disposing", of |-> instance]
  ELSE Idle

Await(stage) ==
  IF stage = "inits" /\ promised # 0 THEN [stage |-> "inits", of |-> promised]
  ELSE IF stage # "snapshot" /\ clears # {} THEN [stage |-> "disposals", of |-> 0]
  ELSE IF instance # 0 THEN [stage |-> "disposing", of |-> instance]
  ELSE Idle

DisposeAll ==
  /\ ~isDisposing /\ teardowns = 0 /\ teardowns' = 1 /\ teardown' = Await("inits")
  /\ UNCHANGED <<instance, promised, marker, life, inits, begun, clears, behind, step, on, failed,
                 hurried, late>>

Settled ==
  \/ teardown.stage = "inits" /\ ~Running(teardown.of)
  \/ teardown.stage = "disposals" /\ clears = {}

(* Its continuation is a few microtasks behind those of get() and clear(). *)
TeardownGoesOn ==
  /\ Quiet /\ teardown.stage \in {"inits", "disposals"}
  /\ teardown' = Await(IF teardown.stage = "inits" THEN "disposals" ELSE "snapshot")
  /\ hurried' = (hurried \/ ~Settled)
  /\ UNCHANGED <<instance, promised, marker, life, inits, begun, clears, behind, teardowns, step,
                 on, failed, late>>

TeardownEnds ==
  /\ Quiet /\ teardown.stage = "disposing"
  /\ teardown' = Idle /\ instance' = 0 /\ promised' = 0
  /\ life' = [life EXCEPT ![teardown.of] = "gone"]
  /\ UNCHANGED <<marker, inits, begun, clears, behind, teardowns, step, on, failed, hurried, late>>

Next ==
  \/ \E c \in Getter : Get(c) \/ GetWaited(c) \/ GetJoined(c)
  \/ \E r \in inits : Construct(r) \/ Succeed(r) \/ Fail(r)
  \/ \E c \in Clearer : Clear(c)
  \/ \E c \in Replacer : Replace(c) \/ ReplaceJoined(c)
  \/ \E c \in Disposer, r \in clears : ClearSettled(c, r)
  \/ \E r \in clears : ClearEnds(r)
  \/ DisposeAll \/ TeardownGoesOn \/ TeardownEnds

Spec == Init /\ [][Next]_containerVars

-----------------------------------------------------------------------------
Sole(i) == \A q \in inits : q.of \notin {0, i}

(* No two of clear(), replace() and disposeAll() dispose of one instance   *)
(* at once, nor does any of one that is being initialized; and the only    *)
(* instances alive outside the registration are those that failed to       *)
(* initialize, which are let go of undisposed: however gets,               *)
(* re-initializations, failures, clears and replacements overlap, but for  *)
(* a teardown that outwaited one of them, and for what began beside        *)
(* another's work as `late' says.                                          *)
TornDownOnce ==
  \/ /\ \A i \in DOMAIN life : life[i] = "live" => i = instance \/ i \in failed
     /\ \A r \in clears : r.of # 0 => Sole(r.of) /\ teardown.stage # "disposing"
     /\ \A q, r \in clears : q.of # 0 /\ q.of = r.of => q = r
     /\ teardown.stage = "disposing" => Sole(teardown.of)
  \/ hurried \/ late

-----------------------------------------------------------------------------
(* What makes it so: the inductive invariant, and what it needs of the     *)
(* parameters.                                                             *)
ContainerSetting ==
  MaxInits \in Nat /\ "none" \notin Disposer /\ Getter \cap Disposer = {}

Instances == 0 .. MaxInits

ContainerTyped ==
  /\ instance \in Instances /\ promised \in Instances /\ begun \in Instances
  /\ life \in [1 .. MaxInits -> {"none", "live", "gone"}]
  /\ inits \subseteq [id : 1 .. MaxInits, of : Instances, again : BOOLEAN]
  /\ clears \subseteq [by : Disposer, of : Instances, brings : Instances]
  /\ teardown \in [stage : {"none", "inits", "disposals", "disposing"}, of : Instances]
  /\ step \in [Calls -> {"new", "waiting", "joining", "queued", "settling", "started", "done"}]
  /\ on \in [Calls -> Instances]

(* At most one initialization runs, and the registration knows it.         *)
OneInit ==
  /\ \A q \in inits : q.id = promised /\ (IF q.of = 0 THEN instance = 0 ELSE q.of = instance)
  /\ \A p, q \in inits : p = q

(* At most one clear() runs, the one of the marker; while it awaits an     *)
(* initialization it knows which, and what it disposes of is alone.        *)
OneClear ==
  /\ \A r \in clears : r.by = marker /\ (r.of # 0 => r.of = instance /\ inits = {})
  /\ \A r, q \in clears : r = q
  /\ \A c \in Calls : step[c] = "settling" =>
       (\E r \in clears : r.by = c /\ r.of = 0) /\ \A q \in inits : q.id = on[c]

(* The teardown has waited for what it found.                              *)
OneTeardown ==
  /\ teardown.stage = "inits" => \A q \in inits : q.id = teardown.of
  /\ teardown.stage \in {"disposals", "disposing"} => inits = {}
  /\ teardown.stage = "disposing" => clears = {} /\ teardown.of = instance

(* Only the instance of the registration is alive, and what failed.        *)
OneAlive == \A i \in 1 .. MaxInits : life[i] = "live" => i = instance \/ i \in failed

Orderly == OneInit /\ OneClear /\ OneTeardown /\ OneAlive
ContainerInv == ContainerTyped /\ (hurried \/ late \/ Orderly)

Places == {"new", "waiting", "joining", "queued", "settling", "started", "done"}
Bad == hurried \/ late
=============================================================================
