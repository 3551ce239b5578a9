------------------------------ MODULE Embedder ------------------------------
(***************************************************************************)
(* Embedder of knowledge/embedder.ts: one object that loads a model into a *)
(* native pipeline, runs inferences on it, reloads it on the CPU when the  *)
(* GPU is lost, and disposes of it after a minute of idleness or for good. *)
(* Everything runs in one event loop; the interleavings are those of its   *)
(* awaits.  A load, a recovery and a disposal are flows that others join   *)
(* through initializingPromise, recoveryPromise and disposePromise.        *)
(***************************************************************************)
EXTENDS Integers, FiniteSets

CONSTANTS Caller,    \* calls of embed() and embedMany()
          MaxLoads,  \* bound: initialisations and recoveries
          MaxDisposals

VARIABLES state, reason,      \* this.state, this.disposeReason
          pipeline,           \* this.pipeline: the load it comes from, 0 for null
          native,             \* native[i]: what became of the pipeline of load i
          load,               \* load[i]: its flow, [kind, pc, owner]
          initializing,       \* initializingPromise, 0 for null
          recovering,         \* recoveryPromise, 0 for null
          disposal,           \* disposal[i]: where the i-th disposal is
          disposing,          \* disposePromise, 0 for null
          call, on,           \* call[c]: where it is; on[c]: the load or disposal it awaits,
                              \* or the pipeline it is in
          idleTimer, wedged,
          excuse              \* history: what the drains do not cover and has happened

embedderVars == <<state, reason, pipeline, native, load, initializing, recovering, disposal,
                  disposing, call, on, idleTimer, wedged, excuse>>
loading  == <<native, load, initializing, recovering>>
closing  == <<reason, disposal, disposing, wedged>>
calling  == <<call, on>>

Load == 1 .. MaxLoads
Disposal == 1 .. MaxDisposals
NoLoad == [kind |-> "none", pc |-> "none", gpu |-> FALSE]

Init ==
  /\ state = "idle" /\ reason = "terminal" /\ pipeline = 0
  /\ native = [i \in Load |-> "none"] /\ load = [i \in Load |-> NoLoad]
  /\ initializing = 0 /\ recovering = 0
  /\ disposal = [i \in Disposal |-> "none"] /\ disposing = 0
  /\ call = [c \in Caller |-> "idle"] /\ on = [c \in Caller |-> 0]
  /\ idleTimer = FALSE /\ wedged = FALSE /\ excuse = {}

Fresh(flows, unused) == {i \in DOMAIN flows : flows[i] = unused /\ \A j \in 1 .. i - 1 : flows[j] # unused}
Inferring == {c \in Caller : call[c] = "infer"}
Active    == {c \in Caller : call[c] \in {"lock", "again", "infer", "lost", "parked", "recover"}}
Waiting   == {c \in Caller : call[c] = "parked"}      \* recoveryWaiters
Put(c, pc, n) == call' = [call EXCEPT ![c] = pc] /\ on' = [on EXCEPT ![c] = n]
Over(c) == Put(c, "idle", 0)

-----------------------------------------------------------------------------
(* initialize(), as a call enters it.                                      *)

Underway(d) == disposal[d] \notin {"none", "done"}
Undone == IF \E d \in Disposal : Underway(d) THEN excuse \cup {"undone"} ELSE excuse

(* The call starts a load and is the first to await it.                    *)
StartLoad(c) ==
  /\ initializing = 0
  /\ \E i \in Fresh(load, NoLoad) :
       /\ load' = [load EXCEPT ![i] = [kind |-> "initialize", pc |-> "load", gpu |-> TRUE]]
       /\ initializing' = i /\ state' = "initializing"
       /\ Put(c, "join", i)
  /\ excuse' = Undone
  /\ UNCHANGED <<pipeline, native, recovering, closing, idleTimer>>

(* Mutant: a pipeline that is still there is good enough.                  *)
EnterAnyway(c) ==
  /\ call[c] = "idle"
  /\ \/ pipeline = 0 /\ state \notin {"ready", "disposing"} /\ StartLoad(c)
     \/ pipeline # 0 /\ Put(c, "counting", 0)
          /\ UNCHANGED <<state, pipeline, loading, closing, idleTimer, excuse>>

Enter(c) ==
  /\ call[c] \in {"idle", "revived"}
  /\ ~(call[c] = "revived" /\ state # "ready" /\ reason = "terminal")
  /\ \/ /\ state = "ready" /\ Put(c, "counting", 0)
        /\ UNCHANGED <<state, pipeline, loading, closing, idleTimer, excuse>>
     \/ /\ state = "disposing" /\ reason = "idle" /\ call[c] = "idle" /\ disposing # 0
        /\ Put(c, "revive", disposing)
        /\ UNCHANGED <<state, pipeline, loading, closing, idleTimer, excuse>>
     \/ /\ state \notin {"ready", "disposing"} /\ initializing # 0
        /\ Put(c, "join", initializing)
        /\ UNCHANGED <<state, pipeline, loading, closing, idleTimer, excuse>>
     \/ state \notin {"ready", "disposing"} /\ StartLoad(c)

(* "Cannot initialize while disposing".                                    *)
Refused(c) ==
  /\ \/ call[c] = "idle" /\ state = "disposing" /\ reason = "terminal"
     \/ call[c] = "revived" /\ state # "ready" /\ (reason = "terminal" \/ state = "disposing")
  /\ Over(c)
  /\ UNCHANGED <<state, pipeline, loading, closing, idleTimer, excuse>>

(* _initializeInternal(): the pipeline is stored before it is warmed up.   *)
Loaded(i) ==
  /\ load[i].pc = "load"
  /\ load' = [load EXCEPT ![i].pc = "warm"]
  /\ native' = [native EXCEPT ![i] = "live"] /\ pipeline' = i
  /\ UNCHANGED <<state, initializing, recovering, closing, calling, idleTimer, excuse>>

Settled(i, ok) ==            \* everyone who awaits load i goes on, in the same tick
  /\ call' = [c \in Caller |->
       IF on[c] # i THEN call[c]
       ELSE CASE call[c] = "join" -> IF ok THEN "lock" ELSE "idle"
              [] call[c] \in {"parked", "recover"} -> IF ok THEN "again" ELSE "idle"
              [] OTHER -> call[c]]
  /\ on' = [c \in Caller |-> IF on[c] = i /\ call[c] \in {"join", "parked", "recover"} THEN 0 ELSE on[c]]
  /\ load' = [load EXCEPT ![i].pc = "done"]
  /\ initializing' = IF initializing = i \/ load[i].kind = "initialize" THEN 0 ELSE initializing
  /\ recovering' = IF recovering = i THEN 0 ELSE recovering

Succeed(i) ==
  /\ load[i].pc = "warm" /\ Settled(i, TRUE)
  /\ state' = IF state = "disposing" THEN state ELSE "ready"
  /\ UNCHANGED <<pipeline, native, closing, idleTimer, excuse>>

(* The failing load disposes of whatever pipeline the object has.          *)
Fail(i) ==
  /\ load[i].pc \in {"load", "warm"} /\ Settled(i, FALSE)
  /\ state' = "failed"
  /\ IF pipeline = 0 THEN UNCHANGED <<pipeline, native>>
     ELSE native' = [native EXCEPT ![pipeline] = "gone"] /\ pipeline' = 0
  /\ idleTimer' = (idleTimer \/ \E c \in Caller : call[c] \in {"parked", "recover"} /\ on[c] = i)
  /\ UNCHANGED <<closing, excuse>>

-----------------------------------------------------------------------------
(* embed() and embedMany() after initialize().                             *)

(* From the ready state this is a later microtask.                         *)
Count(c) ==
  /\ call[c] = "counting" /\ Put(c, "lock", 0) /\ idleTimer' = FALSE
  /\ UNCHANGED <<state, pipeline, loading, closing, excuse>>

(* runInference(), once the per-call GPU lock is held or timed out; again  *)
(* for the next batch, and after a recovery.                               *)
RunInference(c) ==
  /\ call[c] \in {"lock", "again"}
  /\ \/ pipeline # 0 /\ Put(c, "infer", pipeline) /\ UNCHANGED idleTimer
     \/ pipeline = 0 /\ Over(c) /\ idleTimer' = TRUE
  /\ UNCHANGED <<state, pipeline, loading, closing, excuse>>

Return(c) ==
  /\ call[c] = "infer"
  /\ \/ Over(c) /\ idleTimer' = TRUE
     \/ Put(c, "lock", 0) /\ UNCHANGED idleTimer
     \/ load[on[c]].gpu /\ Put(c, "lost", 0) /\ UNCHANGED idleTimer    \* isWebGpuDeviceError
  /\ UNCHANGED <<state, pipeline, loading, closing, excuse>>

(* recoverToCpu(): joined, skipped, or begun.                              *)
Recover(c) ==
  /\ call[c] = "lost"
  /\ \/ /\ recovering # 0 /\ Put(c, "parked", recovering)
        /\ UNCHANGED <<state, pipeline, loading, closing, idleTimer, excuse>>
     \/ /\ recovering = 0 /\ state \in {"disposing", "idle"} /\ Put(c, "again", 0)
        /\ UNCHANGED <<state, pipeline, loading, closing, idleTimer, excuse>>
     \/ /\ recovering = 0 /\ state \notin {"disposing", "idle"} /\ state' = "initializing"
        /\ \E i \in Fresh(load, NoLoad) :
             /\ load' = [load EXCEPT ![i] = [kind |-> "recover", pc |-> "drain", gpu |-> FALSE]]
             /\ initializing' = i /\ recovering' = i /\ Put(c, "recover", i)
        /\ excuse' = Undone
        /\ UNCHANGED <<pipeline, native, closing, idleTimer>>

Quiet == Inferring = {} /\ Cardinality(Active) - Cardinality(Waiting) <= 1

(* The first await comes before the drain: whoever entered has counted.    *)
RecoveryDrained(i) ==
  /\ \A c \in Caller : call[c] # "counting"
  /\ load[i].pc = "drain" /\ load' = [load EXCEPT ![i].pc = "swap"]
  /\ excuse' = IF Quiet THEN excuse ELSE excuse \cup {"outlived"}
  /\ native' = IF pipeline = 0 THEN native ELSE [native EXCEPT ![pipeline] = "dying"]
  /\ UNCHANGED <<state, pipeline, initializing, recovering, closing, calling, idleTimer>>

RecoverySwapped(i) ==
  /\ load[i].pc = "swap" /\ load' = [load EXCEPT ![i].pc = "load"]
  /\ native' = IF pipeline = 0 THEN native ELSE [native EXCEPT ![pipeline] = "gone"]
  /\ pipeline' = 0
  /\ UNCHANGED <<state, initializing, recovering, closing, calling, idleTimer, excuse>>

-----------------------------------------------------------------------------
(* dispose(), and the idle timer.                                          *)

Dispose(why) ==
  /\ state # "idle"
  /\ \/ /\ state = "disposing" /\ disposing # 0
        /\ reason' = IF why = "terminal" THEN why ELSE reason
        /\ UNCHANGED <<state, disposal, disposing>>
     \/ /\ state # "disposing" \/ disposing = 0
        /\ reason' = why /\ state' = "disposing"
        /\ \E d \in Fresh(disposal, "none") :
             disposal' = [disposal EXCEPT ![d] = "drain"] /\ disposing' = d
  /\ idleTimer' = FALSE
  /\ UNCHANGED <<pipeline, loading, calling, wedged, excuse>>

IdleFires == idleTimer /\ Active = {} /\ state = "ready" /\ Dispose("idle")

(* drainActiveEmbeddings(), then the wait for a load in flight, then the   *)
(* second drain.                                                           *)
Drained(d) ==
  /\ disposal[d] = "drain" /\ initializing # 0
  /\ disposal' = [disposal EXCEPT ![d] = "await"]
  /\ UNCHANGED <<state, reason, pipeline, loading, disposing, calling, idleTimer, wedged, excuse>>

LoadAwaited(d) ==
  /\ disposal[d] = "await" /\ initializing = 0
  /\ disposal' = [disposal EXCEPT ![d] = "redrain"]
  /\ UNCHANGED <<state, reason, pipeline, loading, disposing, calling, idleTimer, wedged, excuse>>

TearDown(d) ==
  /\ disposal[d] = "redrain" \/ (disposal[d] = "drain" /\ initializing = 0)
  /\ disposal' = [disposal EXCEPT ![d] = IF pipeline = 0 \/ wedged THEN "unlock" ELSE "free"]
  /\ native' = IF pipeline = 0 THEN native
               ELSE [native EXCEPT ![pipeline] = IF wedged THEN "abandoned" ELSE "dying"]
  /\ pipeline' = IF wedged THEN 0 ELSE pipeline
  /\ excuse' = excuse
       \cup (IF Active # {} THEN {"outlived"} ELSE {})
       \cup (IF \E c \in Caller : call[c] = "counting" THEN {"uncounted"} ELSE {})
  /\ UNCHANGED <<state, reason, load, initializing, recovering, disposing, calling, idleTimer,
                 wedged>>

Freed(d) ==
  /\ disposal[d] = "free" /\ disposal' = [disposal EXCEPT ![d] = "unlock"]
  /\ native' = [i \in Load |-> IF native[i] = "dying" THEN "gone" ELSE native[i]]
  /\ pipeline' = 0
  /\ UNCHANGED <<state, reason, load, initializing, recovering, disposing, calling, idleTimer,
                 wedged, excuse>>

TornDown(d) ==
  /\ disposal[d] = "unlock" /\ disposal' = [disposal EXCEPT ![d] = "done"]
  /\ state' = "idle" /\ disposing' = 0
  /\ call' = [c \in Caller |-> IF call[c] = "revive" /\ on[c] = d THEN "revived" ELSE call[c]]
  /\ on' = [c \in Caller |-> IF call[c] = "revive" /\ on[c] = d THEN 0 ELSE on[c]]
  /\ UNCHANGED <<pipeline, loading, reason, idleTimer, wedged, excuse>>

Wedge ==                     \* markPipelineWedged(): an inference never returns
  /\ Inferring # {} /\ ~wedged /\ wedged' = TRUE
  /\ UNCHANGED <<state, reason, pipeline, loading, disposal, disposing, calling, idleTimer, excuse>>

Next ==
  \/ \E c \in Caller : Enter(c) \/ Refused(c) \/ Count(c) \/ RunInference(c) \/ Return(c) \/ Recover(c)
  \/ \E i \in Load : Loaded(i) \/ Succeed(i) \/ Fail(i) \/ RecoveryDrained(i) \/ RecoverySwapped(i)
  \/ Dispose("terminal") \/ IdleFires \/ Wedge
  \/ \E d \in Disposal : Drained(d) \/ LoadAwaited(d) \/ TearDown(d)
                         \/ Freed(d) \/ TornDown(d)

Spec == Init /\ [][Next]_embedderVars

-----------------------------------------------------------------------------
(* Properties.                                                             *)

(* No inference runs on a pipeline that is being disposed of or is gone,   *)
(* which is what the drains are for, whatever loads, recoveries, revivals  *)
(* and disposals overlap; but for a call that outlives a drain's patience, *)
(* one of the same tick that had not counted itself yet, and a load begun  *)
(* under a disposal.  With the same exceptions, every pipeline that is     *)
(* alive is the object's own: none is overwritten by a second load and     *)
(* leaked with its GPU memory.                                             *)
InferenceUndisturbed ==
  \/ /\ \A c \in Inferring : native[on[c]] \in {"live", "abandoned"}
     /\ \A i \in Load : native[i] = "live" => pipeline = i
  \/ excuse # {}

-----------------------------------------------------------------------------
(* What makes it so: the inductive invariant, and what it needs of the     *)
(* parameters.                                                             *)
EmbedderSetting == IsFiniteSet(Caller) /\ MaxLoads \in Nat /\ MaxDisposals \in Nat

Flow == [kind : {"none", "initialize", "recover"},
         pc : {"none", "load", "warm", "drain", "swap", "done"}, gpu : BOOLEAN]
Fates == {"none", "live", "dying", "gone", "abandoned"}
Calls == {"idle", "revived", "counting", "revive", "join", "lock", "again", "infer", "lost",
          "parked", "recover"}

EmbedderTyped ==
  /\ state \in {"idle", "initializing", "ready", "failed", "disposing"}
  /\ pipeline \in 0 .. MaxLoads /\ initializing \in 0 .. MaxLoads /\ recovering \in 0 .. MaxLoads
  /\ native \in [Load -> Fates] /\ load \in [Load -> Flow]
  /\ disposal \in [Disposal -> {"none", "drain", "await", "redrain", "free", "unlock", "done"}]
  /\ disposing \in 0 .. MaxDisposals
  /\ call \in [Caller -> Calls] /\ on \in [Caller -> Nat]

Running(i) == load[i].pc \in {"drain", "swap", "load", "warm"}
Busy(c) == call[c] \in {"counting", "lock", "again", "infer", "lost"}
Alive == pipeline # 0 /\ native[pipeline] = "live"

(* One load runs at a time, the one the promises are of.                   *)
OneLoad ==
  /\ \A i \in Load : Running(i) => initializing = i /\ (load[i].kind = "recover" => recovering = i)
  /\ \A i \in Load : load[i].pc \in {"drain", "swap"} => load[i].kind = "recover"
  /\ initializing # 0 => Running(initializing)
  /\ recovering # 0 => recovering = initializing /\ \E c \in Caller : call[c] = "recover"

(* What a load has made of the pipeline.                                   *)
LoadKnows ==
  /\ \A i \in Load : load[i].pc = "load" => pipeline = 0
  /\ \A i \in Load : load[i].pc = "warm" => pipeline = i /\ native[i] = "live"
  /\ \A i \in Load : native[i] = "live" => pipeline = i

(* What the state says.                                                    *)
StateKnows ==
  /\ state = "ready" => Alive /\ initializing = 0
  /\ state \in {"idle", "failed"} => pipeline = 0 /\ initializing = 0
  /\ state = "initializing" => initializing # 0
  /\ (\E d \in Disposal : Underway(d)) => state \in {"disposing", "failed", "idle"}

(* What a disposal under way has made sure of.                             *)
DisposalKnows ==
  \A d \in Disposal :
    /\ disposal[d] \in {"redrain", "free", "unlock"} => initializing = 0
    /\ disposal[d] \in {"free", "unlock"} => ~Alive /\ \A c \in Caller : ~Busy(c)
    /\ disposal[d] = "unlock" => pipeline = 0

(* What a call may rely on.                                                *)
CallKnows ==
  \A c \in Caller :
    /\ call[c] = "join" => on[c] = initializing /\ initializing # 0
    /\ call[c] \in {"parked", "recover"} => on[c] = recovering /\ recovering # 0
    /\ call[c] = "infer" => on[c] = pipeline
    /\ Busy(c) => Alive /\ (initializing # 0 => load[initializing].pc = "drain")

Orderly == OneLoad /\ LoadKnows /\ StateKnows /\ DisposalKnows /\ CallKnows
EmbedderInv == EmbedderTyped /\ (excuse = {} => Orderly)
=============================================================================
