----------------------------- MODULE WorkerPool -----------------------------
(***************************************************************************)
(* infrastructure/browser/worker-pool-manager.ts: one manager owns at most *)
(* one pool of browser workers.  Three things build and destroy pools and  *)
(* interleave at their awaits: ensurePool(), called for every browser      *)
(* task; the auto-recovery that worker errors schedule; and shutdown(),    *)
(* after which the same instance is used again.  The generation counts     *)
(* shutdowns, the epoch silences the events of pools that were replaced.   *)
(***************************************************************************)
EXTENDS Integers, FiniteSets

CONSTANTS Caller,      \* calls of ensurePool()
          Shape,       \* pool shapes (WORKER_THREADS, WORKER_CONCURRENCY)
          MaxPools,    \* bound: pools built
          MaxStops,    \* bound: calls of shutdown()
          Threshold,   \* consecutive errors that schedule a reset (3)
          None

Pool == 1 .. MaxPools

VARIABLES pool,      \* this.pool
          shape,     \* currentWorkerCount and currentWorkerConcurrency
          built,     \* pools constructed so far
          life,      \* life[p]: "unborn", "live", "destroying", "gone", or
                     \* "broken": its destroy() was rejected
          inflight,  \* keys of _destroyInFlight
          racing,    \* history: pools destroy() was called on while it ran
          outgoing,  \* history: pools whose replacement was begun
          epochOf,   \* the epoch a pool's handlers captured
          epoch,     \* poolEpoch
          generation,
          stopping,  \* isShuttingDown
          stop,      \* where shutdown() is: "none", "joining", "destroying"
          init,      \* the initialization in flight: where it is, its shape and generation
          errors,    \* consecutiveErrors
          resetting, \* _resetInProgress
          resets,    \* reset callbacks that are armed or awaiting destroy()
          pc,        \* pc[c]: where the call of c is
          wants,     \* wants[c]: the shape of its config
          got,       \* got[c]: the pool it was given
          since      \* history: the generation in which it last passed the checks

mgr    == <<pool, shape, built, life, inflight, racing, outgoing, epochOf, epoch>>
caller == <<pc, wants, got, since>>
vars   == <<mgr, generation, stopping, stop, init, errors, resetting, resets, caller>>

NoInit == [at |-> "none", shape |-> None, gen |-> 0]

Init ==
  /\ pool = None /\ shape = None /\ built = 0
  /\ life = [p \in Pool |-> "unborn"]
  /\ inflight = {} /\ racing = {} /\ outgoing = {}
  /\ epochOf = [p \in Pool |-> 0]
  /\ epoch = 0 /\ generation = 0
  /\ stopping = FALSE /\ stop = "none"
  /\ init = NoInit
  /\ errors = 0
  /\ resetting = FALSE /\ resets = {}
  /\ pc = [c \in Caller |-> "idle"]
  /\ wants \in [Caller -> Shape]
  /\ got = [c \in Caller |-> None]
  /\ since = [c \in Caller |-> 0]

(* poolifier's destroy(): harmless on a pool that is gone, not on one it is *)
(* at work on.                                                              *)
Destroy(p) ==
  /\ life' = [life EXCEPT ![p] = IF @ = "live" THEN "destroying" ELSE @]
  /\ racing' = IF life[p] = "destroying" THEN racing \cup {p} ELSE racing

(* Mutant of DestroyOnce: destroy() is called every time.                   *)
DestroyAgain(p) == Destroy(p) /\ UNCHANGED inflight

(* destroyPoolOnce(): the first call destroys, those that come while its    *)
(* promise is in flight share it.                                           *)
DestroyOnce(p) ==
  IF p \in inflight THEN UNCHANGED <<life, racing, inflight>>
  ELSE Destroy(p) /\ inflight' = inflight \cup {p}

(* The first stretch of an initialization: an existing pool of another      *)
(* shape is destroyed first.                                                *)
StartInit(c) ==
  IF pool # None
  THEN /\ epoch' = epoch + 1
       /\ DestroyOnce(pool)
       /\ outgoing' = outgoing \cup {pool}
       /\ init' = [at |-> "replacing", shape |-> wants[c], gen |-> generation]
       /\ UNCHANGED <<pool, shape, built, epochOf>>
  ELSE /\ shape' = wants[c]
       /\ init' = [at |-> "installing", shape |-> wants[c], gen |-> generation]
       /\ UNCHANGED <<pool, built, life, inflight, racing, outgoing, epochOf, epoch>>

Fail(c) == /\ pc' = [pc EXCEPT ![c] = "failed"]
           /\ UNCHANGED got
Give(c) == /\ pc' = [pc EXCEPT ![c] = "has"]
           /\ got' = [got EXCEPT ![c] = pool]

(* Mutant of Check: the cached pool is looked at before the stop flag.      *)
CheckCachedFirst(c) ==
  \/ /\ pool # None /\ shape = wants[c]
     /\ Give(c)
     /\ UNCHANGED <<mgr, init>>
  \/ /\ ~(pool # None /\ shape = wants[c])
     /\ stopping
     /\ Fail(c)
     /\ UNCHANGED <<mgr, init>>
  \/ /\ ~(pool # None /\ shape = wants[c])
     /\ ~stopping /\ resetting
     /\ pc' = [pc EXCEPT ![c] = "waiting"]
     /\ UNCHANGED <<got, mgr, init>>
  \/ /\ ~(pool # None /\ shape = wants[c])
     /\ ~stopping /\ ~resetting
     /\ pc' = [pc EXCEPT ![c] = "joined"]
     /\ IF init.at # "none" THEN UNCHANGED <<mgr, init>> ELSE StartInit(c)
     /\ UNCHANGED got

(* The checks of ensurePool(), in order, with no await between them.        *)
Check(c) ==
  \/ /\ stopping
     /\ Fail(c)
     /\ UNCHANGED <<mgr, init>>
  \/ /\ ~stopping /\ resetting
     /\ pc' = [pc EXCEPT ![c] = "waiting"]
     /\ UNCHANGED <<got, mgr, init>>
  \/ /\ ~stopping /\ ~resetting
     /\ pool # None /\ shape = wants[c]
     /\ Give(c)
     /\ UNCHANGED <<mgr, init>>
  \/ /\ ~stopping /\ ~resetting
     /\ ~(pool # None /\ shape = wants[c])
     /\ pc' = [pc EXCEPT ![c] = "joined"]
     /\ IF init.at # "none" THEN UNCHANGED <<mgr, init>> ELSE StartInit(c)
     /\ UNCHANGED got

EnsurePool(c) ==
  /\ pc[c] = "idle"
  /\ since' = [since EXCEPT ![c] = generation]
  /\ Check(c)
  /\ UNCHANGED <<generation, stopping, stop, errors, resetting, resets, wants>>

(* The poll of the reset flag finds it cleared, and ensurePool() recurses.  *)
Recheck(c) ==
  /\ pc[c] = "waiting" /\ ~resetting
  /\ Check(c)
  /\ since' = [since EXCEPT ![c] = generation]
  /\ UNCHANGED <<generation, stopping, stop, errors, resetting, resets, wants>>

(* Three seconds of polling are over.                                       *)
GiveUp(c) ==
  /\ pc[c] = "waiting" /\ resetting
  /\ Fail(c)
  /\ UNCHANGED <<mgr, generation, stopping, stop, init, errors, resetting, resets, wants, since>>

(* The old pool is destroyed: the initialization installs the browser.      *)
Replaced ==
  /\ init.at = "replacing" /\ life[pool] = "gone"
  /\ pool' = None
  /\ shape' = init.shape
  /\ init' = [init EXCEPT !.at = "installing"]
  /\ UNCHANGED <<built, life, inflight, racing, outgoing, epochOf, epoch, generation, stopping, stop,
                 errors, resetting, resets, caller>>

Joined == {c \in Caller : pc[c] = "joined"}

(* Mutant of EndInit: a failure is not told to those who joined.            *)
EndInitForgets(ok) ==
  /\ pc' = [c \in Caller |-> IF c \in Joined /\ ok THEN "has" ELSE pc[c]]
  /\ got' = [c \in Caller |-> IF c \in Joined /\ ok THEN pool' ELSE got[c]]
  /\ init' = NoInit

(* The initialization is over: the shared promise settles for whoever       *)
(* joined it, and is cleared.                                               *)
EndInit(ok) ==
  /\ pc' = [c \in Caller |-> IF c \in Joined THEN (IF ok THEN "has" ELSE "failed") ELSE pc[c]]
  /\ got' = [c \in Caller |-> IF c \in Joined /\ ok THEN pool' ELSE got[c]]
  /\ init' = NoInit

(* destroy() of the old pool was rejected: the initialization fails with    *)
(* it, and the half-destroyed pool stays the manager's, under its shape.    *)
ReplaceFails ==
  /\ init.at = "replacing" /\ life[pool] = "broken"
  /\ EndInit(FALSE)
  /\ UNCHANGED <<mgr, generation, stopping, stop, errors, resetting, resets, wants, since>>

(* Installation failed, or the worker bundle is missing or does not parse.  *)
InstallFails ==
  /\ init.at = "installing"
  /\ EndInit(FALSE)
  /\ UNCHANGED <<mgr, generation, stopping, stop, errors, resetting, resets, wants, since>>

(* new FixedClusterPool(), and the check for a shutdown that intervened.    *)
Construct ==
  /\ init.at = "installing" /\ built < MaxPools
  /\ LET p == built + 1 IN
     /\ built' = p
     /\ epochOf' = [epochOf EXCEPT ![p] = epoch + 1]
     /\ IF stopping \/ generation # init.gen
        THEN /\ pool' = None
             /\ life' = [life EXCEPT ![p] = "destroying"]
             /\ epoch' = epoch + 2
             /\ init' = [init EXCEPT !.at = "undoing"]
             /\ UNCHANGED <<pc, got>>
        ELSE /\ pool' = p
             /\ life' = [life EXCEPT ![p] = "live"]
             /\ epoch' = epoch + 1
             /\ EndInit(TRUE)
  /\ UNCHANGED <<shape, inflight, racing, outgoing, generation, stopping, stop, errors, resetting, resets,
                 wants, since>>

(* Its pool is destroyed, or cannot be, which is swallowed.                 *)
Undone ==
  /\ init.at = "undoing" /\ life[built] \in {"gone", "broken"}
  /\ EndInit(FALSE)
  /\ UNCHANGED <<mgr, generation, stopping, stop, errors, resetting, resets, wants, since>>

(* poolifier's destroy() resolves.  It need not: a worker that does not     *)
(* answer its kill message keeps it pending.                                *)
DestroyDone(p) ==
  /\ life[p] = "destroying"
  /\ life' = [life EXCEPT ![p] = "gone"]
  /\ inflight' = inflight \ {p}
  /\ UNCHANGED <<pool, shape, built, racing, outgoing, epochOf, epoch, generation, stopping, stop, init,
                 errors, resetting, resets, caller>>

(* It is rejected: the promise stays in _destroyInFlight, and whoever asks  *)
(* for this pool's destruction again gets the same rejection.               *)
DestroyFails(p) ==
  /\ life[p] = "destroying"
  /\ life' = [life EXCEPT ![p] = "broken"]
  /\ UNCHANGED <<pool, shape, built, inflight, racing, outgoing, epochOf, epoch, generation, stopping,
                 stop, init, errors, resetting, resets, caller>>

(* Mutant of WorkerFault: the handlers do not compare epochs.               *)
FaultOfAnyEpoch(p) ==
  /\ life[p] \in {"live", "destroying", "broken"}
  /\ IF errors + 1 >= Threshold /\ ~stopping /\ ~resetting
     THEN /\ errors' = 0
          /\ resetting' = TRUE
          /\ shape' = None
          /\ resets' = resets \cup {[pool |-> pool, gen |-> generation, at |-> "armed"]}
     ELSE /\ errors' = IF errors < Threshold THEN errors + 1 ELSE errors
          /\ UNCHANGED <<resetting, shape, resets>>
  /\ UNCHANGED <<pool, built, life, inflight, racing, outgoing, epochOf, epoch, generation, stopping, stop,
                 init, caller>>

(* An error or abnormal exit of a worker of p, also a trailing one.  The    *)
(* third in a row, and every later one, schedules a reset unless one is     *)
(* pending or the manager is stopping.  (Counted up to the threshold.)      *)
WorkerFault(p) ==
  /\ life[p] \in {"live", "destroying", "broken"} /\ epochOf[p] = epoch
  /\ IF errors + 1 >= Threshold /\ ~stopping /\ ~resetting
     THEN /\ errors' = 0
          /\ resetting' = TRUE
          /\ shape' = None
          /\ resets' = resets \cup {[pool |-> pool, gen |-> generation, at |-> "armed"]}
     ELSE /\ errors' = IF errors < Threshold THEN errors + 1 ELSE errors
          /\ UNCHANGED <<resetting, shape, resets>>
  /\ UNCHANGED <<pool, built, life, inflight, racing, outgoing, epochOf, epoch, generation, stopping, stop,
                 init, caller>>

(* The leadership tick of a healthy pool.                                   *)
Decay ==
  /\ errors > 0
  /\ errors' = errors - 1
  /\ UNCHANGED <<mgr, generation, stopping, stop, init, resetting, resets, caller>>

(* One second later the reset destroys the pool it was scheduled for.       *)
ResetFires(r) ==
  /\ r.at = "armed"
  /\ IF stopping \/ generation # r.gen
     THEN /\ resets' = resets \ {r}
          /\ UNCHANGED <<life, inflight, racing, epoch>>
     ELSE /\ resets' = (resets \ {r}) \cup {[r EXCEPT !.at = "awaiting"]}
          /\ epoch' = epoch + 1
          /\ DestroyOnce(r.pool)
  /\ UNCHANGED <<pool, shape, built, outgoing, epochOf, generation, stopping, stop, init, errors,
                 resetting, caller>>

(* Its finally, after a rejection too: the shared state is touched only in  *)
(* its own generation.                                                      *)
ResetDone(r) ==
  /\ r.at = "awaiting" /\ life[r.pool] \in {"gone", "broken"}
  /\ resets' = resets \ {r}
  /\ IF ~stopping /\ generation = r.gen
     THEN /\ pool' = IF pool = r.pool THEN None ELSE pool
          /\ resetting' = FALSE
     ELSE UNCHANGED <<pool, resetting>>
  /\ UNCHANGED <<shape, built, life, inflight, racing, outgoing, epochOf, epoch, generation, stopping,
                 stop, init, errors, caller>>

(* shutdown(), up to the await of an initialization in flight.  An armed    *)
(* reset timer is cleared; a callback that already runs is not.             *)
Shutdown ==
  /\ ~stopping /\ generation < MaxStops
  /\ stopping' = TRUE
  /\ generation' = generation + 1
  /\ resets' = {r \in resets : r.at = "awaiting"}
  /\ stop' = "joining"
  /\ UNCHANGED <<mgr, init, errors, resetting, caller>>

ShutdownDestroys ==
  /\ stop = "joining" /\ init.at = "none"
  /\ stop' = "destroying"
  /\ IF pool # None THEN epoch' = epoch + 1 /\ DestroyOnce(pool)
     ELSE UNCHANGED <<epoch, life, inflight, racing>>
  /\ UNCHANGED <<pool, shape, built, outgoing, epochOf, generation, stopping, init, errors, resetting,
                 resets, caller>>

(* destroy() settled or its five seconds are over: the instance is reset    *)
(* for use by a later scheduler.                                            *)
ShutdownEnds ==
  /\ stop = "destroying"
  /\ stop' = "none" /\ stopping' = FALSE
  /\ pool' = None /\ shape' = None /\ errors' = 0 /\ resetting' = FALSE
  /\ UNCHANGED <<built, life, inflight, racing, outgoing, epochOf, epoch, generation, init, resets, caller>>

Next == \/ \E c \in Caller : EnsurePool(c) \/ Recheck(c) \/ GiveUp(c)
        \/ Replaced \/ ReplaceFails \/ InstallFails \/ Construct \/ Undone
        \/ \E p \in Pool : DestroyDone(p) \/ DestroyFails(p) \/ WorkerFault(p)
        \/ \E r \in resets : ResetFires(r) \/ ResetDone(r)
        \/ Decay \/ Shutdown \/ ShutdownDestroys \/ ShutdownEnds

Spec == Init /\ [][Next]_vars

(* Timers fire, and what awaited a promise that has settled goes on.        *)
(* Nothing is assumed of calls, faults and shutdowns, nor that a destroy()  *)
(* settles.                                                                 *)
FairSpec ==
  /\ Spec
  /\ \A c \in Caller : WF_vars(Recheck(c) \/ GiveUp(c))
  /\ WF_vars(Replaced \/ ReplaceFails) /\ WF_vars(Construct \/ InstallFails) /\ WF_vars(Undone)
  /\ WF_vars(\E r \in resets : ResetFires(r) \/ ResetDone(r))
  /\ WF_vars(ShutdownDestroys) /\ WF_vars(ShutdownEnds)

-----------------------------------------------------------------------------

(* No pool leaks: one that nobody has begun to destroy is the manager's     *)
(* pool, so a shutdown or a reset still reaches it.  And                    *)
(* poolifier's destroy() is never called while it runs: the reset, the      *)
(* shutdown and a change of shape share one call ("the double-destroy race  *)
(* of the 2026-10-08 crash chain").                                         *)
DestroyedOnce ==
  /\ \A p \in Pool : life[p] = "live" => pool = p
  /\ racing = {}

(* Whoever is given a pool is given one that nobody has begun to destroy,   *)
(* with one exception, that of the code: a pool that a call with another    *)
(* shape is replacing, or has failed to replace, still goes to the calls    *)
(* with its own (see the README, "What is not so").  "Invalidate any        *)
(* in-flight ensurePool() so the pool it builds is torn down ... rather     *)
(* than surviving past this shutdown" (lines 570-572): who joined an        *)
(* initialization before a shutdown gets no pool after it.                  *)
GivenALivePool ==
  [][\A c \in Caller : pc[c] # "has" /\ pc'[c] = "has"
        => /\ life'[got'[c]] = "live" \/ got'[c] \in outgoing
           /\ pc[c] = "joined" => since[c] = generation]_vars

(* A reset is scheduled for the pool in use: events of a pool that was      *)
(* replaced or is being destroyed never take down its successor.            *)
ResetsTheLivePool ==
  [][\A r \in resets' \ resets : r.at = "armed" => r.pool = pool /\ pool # None /\ life[pool] = "live"]_vars

(* The awaits of destroy() without a bound: an initialization's (lines 202, *)
(* 383) and a reset's (532).  Only the shutdown's own has one (600).        *)
InitAwaitsDestroy ==
  /\ init.at \in {"replacing", "undoing"}
  /\ life[IF init.at = "replacing" THEN pool ELSE built] = "destroying"
ResetAwaitsDestroy == \E r \in resets : r.at = "awaiting" /\ life[r.pool] = "destroying"

(* Every wait on the manager ends, through replacements, faults, rejected   *)
(* destructions and each other: a call returns, a shutdown and a reset      *)
(* leave the manager usable.  What may last is only what hangs on a         *)
(* destroy() that never settles: the initialization that awaits it, with    *)
(* those who joined it and the shutdown that joins it first, and the reset; *)
(* the calls that poll the reset flag come back whatever happens.           *)
EveryWaitEnds ==
  /\ \A c \in Caller : pc[c] \in {"waiting", "joined"}
        ~> (pc[c] \in {"has", "failed"} \/ [](pc[c] = "joined" /\ InitAwaitsDestroy))
  /\ stopping ~> (~stopping \/ [](stop = "joining" /\ InitAwaitsDestroy))
  /\ resetting ~> (~resetting \/ []ResetAwaitsDestroy)

-----------------------------------------------------------------------------
(* What makes it so.                                                        *)
Reset == [pool : Pool, gen : Nat, at : {"armed", "awaiting"}]

TypeOK ==
  /\ pool \in Pool \cup {None} /\ built \in Nat
  /\ life \in [Pool -> {"unborn", "live", "destroying", "gone", "broken"}]
  /\ inflight \subseteq Pool /\ outgoing \subseteq Pool
  /\ epochOf \in [Pool -> Nat] /\ epoch \in Nat /\ generation \in Nat
  /\ stopping \in BOOLEAN /\ resetting \in BOOLEAN
  /\ stop \in {"none", "joining", "destroying"}
  /\ init.at \in {"none", "replacing", "installing", "undoing"}
  /\ init = [at |-> init.at, shape |-> init.shape, gen |-> init.gen]
  /\ resets \subseteq Reset
  /\ pc \in [Caller -> {"idle", "waiting", "joined", "has", "failed"}]
  /\ got \in [Caller -> Pool \cup {None}] /\ since \in [Caller -> Nat]

(* Which pools there are, and that whatever destroys a pool that the       *)
(* manager or a reset can name has registered it.                          *)
Account ==
  /\ \A p \in Pool : life[p] = "unborn" <=> p > built
  /\ \A p \in Pool : life[p] = "live" => pool = p
  /\ \A p \in inflight : life[p] \in {"destroying", "gone", "broken"}
  /\ pool # None => pool <= built /\ (life[pool] \in {"destroying", "broken"} => pool \in inflight)
  /\ \A r \in resets : r.pool <= built /\ (life[r.pool] \in {"destroying", "broken"} => r.pool \in inflight)
  /\ racing = {}

(* The events of a pool are heard only while it is the one in use.         *)
Epochs == \A p \in Pool : epochOf[p] <= epoch /\ (life[p] \in {"destroying", "broken"} => epochOf[p] < epoch)

(* The initialization, and what a shutdown waits for.                      *)
Phases ==
  /\ init.at = "replacing" => pool # None /\ life[pool] # "live" /\ pool \in outgoing
  /\ init.at \in {"installing", "undoing"} => pool = None
  /\ init.at # "none" /\ ~stopping => init.gen = generation
  /\ stopping <=> stop # "none"
  /\ stop = "destroying" => init.at = "none" /\ (pool # None => life[pool] # "live")

(* One reset per generation; while it is pending nothing else is done.     *)
Resets ==
  /\ \A r \in resets : r.gen <= generation /\ (stopping => r.gen < generation)
  /\ \A r \in resets : r.gen = generation => r.pool = pool /\ resetting /\ init.at = "none"
  /\ \A r, s \in resets : r.gen = generation /\ s.gen = generation => r = s

(* A pool on its way out is not handed out, and who waits for an           *)
(* initialization joined in its generation.                                *)
Usable ==
  /\ pool # None /\ life[pool] # "live" => stopping \/ resetting \/ pool \in outgoing
  /\ \A c \in Caller : pc[c] = "joined" => init.at # "none" /\ since[c] = init.gen

Inv == TypeOK /\ Account /\ Epochs /\ Phases /\ Resets /\ Usable

Setting == MaxPools \in Nat /\ None \notin Pool
=============================================================================
