------------------------------ MODULE LockTurns -----------------------------
(***************************************************************************)
(* The in-process half of FileLockService: the FIFO queue of turns, the    *)
(* re-entrancy bookkeeping of AsyncLocalStorage, and cleanup().            *)
(* (src/infrastructure/file-lock-service.ts)                               *)
(*                                                                         *)
(* A flow is an asynchronous call chain that calls withLock() on the one   *)
(* instance of its process.  withLock() looks for the lock's key in the    *)
(* AsyncLocalStorage Set<string> of the flow, and gives a flow that has no *)
(* Set a fresh one for the duration of the call.  A flow started by a      *)
(* timer armed inside some lock's callback inherits that callback's Set,   *)
(* so two flows can share one.  The lock file itself is reduced to who     *)
(* owns it: this instance, a peer process, or nobody (module FileLock has  *)
(* the protocol).                                                          *)
(***************************************************************************)
EXTENDS Integers, SequencesExt

CONSTANTS
  Flow,       \* the flows of this process that use the lock
  NoFlow,
  Inherited,  \* AsyncLocalStorage Sets that flows were started with
  NoContext,  \* no inherited Set: a fresh one for every call
  ContextOf,  \* [Flow -> Inherited \cup {NoContext}]
  Forced,     \* may cleanup() give up draining and tear a held lock down?
  MaxNesting  \* bound on re-entrant acquireLock() levels

VARIABLES
  pc,           \* pc[f]: where the flow's withLock() call has got to
  line,         \* flows whose turn promise is unresolved, in queue order
  resolveTurn,  \* the flow whose turn _releaseTurn() will resolve, or NoFlow
  handle,       \* lockHandle # null
  lockCount,
  heldIn,       \* the inherited Sets that contain this lock's key
  lockFile,     \* "free", "ours" or "peer"
  retired,
  cleanup       \* how far cleanup() has got

vars == <<pc, line, resolveTurn, handle, lockCount, heldIn, lockFile, retired, cleanup>>

Init ==
  /\ pc = [f \in Flow |-> "idle"]
  /\ line = <<>>
  /\ resolveTurn = NoFlow
  /\ handle = FALSE
  /\ lockCount = 0
  /\ heldIn = {}
  /\ lockFile = "free"
  /\ retired = FALSE
  /\ cleanup = "no"

Goto(f, l) == pc' = [pc EXCEPT ![f] = l]

(* The line without the turn of f, which is in it once or not at all.      *)
Without(f) ==
  IF f \in ToSet(line) THEN RemoveAt(line, CHOOSE i \in DOMAIN line : line[i] = f) ELSE line

First(f) == line # <<>> /\ Head(line) = f

(* Mutant: the captured turn is forgotten without being resolved.          *)
ReleaseTurnForgets ==
  /\ line' = line
  /\ resolveTurn' = NoFlow

(* _releaseTurn(): resolve the captured turn, if there is one.             *)
ReleaseTurn ==
  /\ line' = Without(resolveTurn)
  /\ resolveTurn' = NoFlow

-----------------------------------------------------------------------------
(* Mutant: a caller that comes in does not wait for its turn.              *)
CallUnqueued(f) ==
  /\ pc[f] = "idle"
  /\ ~retired
  /\ line' = <<f>> \o line
  /\ Goto(f, "queued")
  /\ UNCHANGED <<resolveTurn, handle, lockCount, heldIn, lockFile, retired, cleanup>>

(* withLock(): a context that holds the key runs the callback at once;     *)
(* otherwise acquireLock() joins the queue, or refuses when retired.       *)
Call(f) ==
  /\ pc[f] = "idle"
  /\ IF ContextOf[f] \in heldIn
     THEN Goto(f, "inner") /\ UNCHANGED line
     ELSE ~retired /\ line' = Append(line, f) /\ Goto(f, "queued")
  /\ UNCHANGED <<resolveTurn, handle, lockCount, heldIn, lockFile, retired, cleanup>>

(* The previous turn resolved.  (The code first asks whether its context   *)
(* acquired the lock meanwhile; TurnMeansNoHandle says that it never has.) *)
(* Retired while queued: hand the turn straight on and throw.              *)
Refuse(f) ==
  /\ pc[f] = "queued" /\ First(f)
  /\ retired
  /\ line' = Tail(line)
  /\ Goto(f, "idle")
  /\ UNCHANGED <<resolveTurn, handle, lockCount, heldIn, lockFile, retired, cleanup>>

Granted(f) ==
  /\ pc[f] = "queued" /\ First(f)
  /\ ~retired
  /\ resolveTurn' = f
  /\ Goto(f, "acquiring")
  /\ UNCHANGED <<line, handle, lockCount, heldIn, lockFile, retired, cleanup>>

(* The acquire loop wins the lock file and commits it to the instance.     *)
Commit(f) ==
  /\ pc[f] = "acquiring"
  /\ lockFile = "free" /\ ~retired
  /\ lockFile' = "ours"
  /\ handle' = TRUE
  /\ lockCount' = 1
  /\ heldIn' = heldIn \cup ({ContextOf[f]} \ {NoContext})
  /\ Goto(f, "cs")
  /\ UNCHANGED <<line, resolveTurn, retired, cleanup>>

(* The acquire loop throws: a peer kept the lock too long, the disk        *)
(* failed, or the instance was retired.  The turn is handed on.            *)
AcquireFails(f) ==
  /\ pc[f] = "acquiring"
  /\ ReleaseTurn
  /\ Goto(f, "idle")
  /\ UNCHANGED <<handle, lockCount, heldIn, lockFile, retired, cleanup>>

-----------------------------------------------------------------------------
(* The callback of a call that found the key in its context returns.       *)
FinishInner(f) ==
  /\ pc[f] = "inner"
  /\ Goto(f, "idle")
  /\ UNCHANGED <<line, resolveTurn, handle, lockCount, heldIn, lockFile, retired, cleanup>>

(* releaseLock(), the handle already torn down: only the turn is handed on.*)
ReleaseForfeited(f) ==
  /\ pc[f] = "cs" /\ ~handle
  /\ ReleaseTurn
  /\ Goto(f, "idle")
  /\ UNCHANGED <<handle, lockCount, heldIn, lockFile, retired, cleanup>>

(* acquireLock() from inside the callback counts one level more, and the   *)
(* matching releaseLock() only counts it down.                             *)
Nest(f) ==
  /\ pc[f] = "cs" /\ handle /\ ~retired
  /\ lockCount \in 1..(MaxNesting - 1)
  /\ lockCount' = lockCount + 1
  /\ UNCHANGED <<pc, line, resolveTurn, handle, heldIn, lockFile, retired, cleanup>>
Unnest(f) ==
  /\ pc[f] = "cs" /\ handle /\ lockCount > 1
  /\ lockCount' = lockCount - 1
  /\ UNCHANGED <<pc, line, resolveTurn, handle, heldIn, lockFile, retired, cleanup>>

(* The last level starts to release: read the file, unlink it if ours.     *)
Release(f) ==
  /\ pc[f] = "cs" /\ handle /\ lockCount <= 1
  /\ lockCount' = 0
  /\ Goto(f, "releasing")
  /\ UNCHANGED <<line, resolveTurn, handle, heldIn, lockFile, retired, cleanup>>

Unlinked == IF lockFile = "ours" THEN "free" ELSE lockFile

(* ... then close and forget the handle, leave the context, and in any     *)
(* case (closing a handle cleanup() has nulled throws) hand the turn on.   *)
Released(f) ==
  /\ pc[f] = "releasing"
  /\ lockFile' = Unlinked
  /\ handle' = FALSE
  /\ heldIn' = IF handle THEN heldIn \ {ContextOf[f]} ELSE heldIn
  /\ ReleaseTurn
  /\ Goto(f, "idle")
  /\ UNCHANGED <<lockCount, retired, cleanup>>

-----------------------------------------------------------------------------
(* cleanup(): wait, bounded, for the held handle to be released ...        *)
Cleanup ==
  /\ cleanup = "no"
  /\ cleanup' = "draining"
  /\ UNCHANGED <<pc, line, resolveTurn, handle, lockCount, heldIn, lockFile, retired>>

(* ... then retire; with nothing held, wake whoever is parked ...          *)
RetireDrained ==
  /\ cleanup = "draining" /\ ~handle
  /\ retired' = TRUE
  /\ lockCount' = 0
  /\ ReleaseTurn
  /\ cleanup' = "done"
  /\ UNCHANGED <<pc, handle, heldIn, lockFile>>

(* ... with the lock still held, tear it down under the critical section.  *)
RetireForced ==
  /\ Forced
  /\ cleanup = "draining" /\ handle
  /\ retired' = TRUE
  /\ cleanup' = "unlinking"
  /\ UNCHANGED <<pc, line, resolveTurn, handle, lockCount, heldIn, lockFile>>

TornDown ==
  /\ cleanup = "unlinking"
  /\ lockFile' = Unlinked
  /\ handle' = FALSE
  /\ lockCount' = 0
  /\ ReleaseTurn
  /\ cleanup' = "done"
  /\ UNCHANGED <<pc, heldIn, retired>>

(* Another process takes the free lock file, or releases it.               *)
PeerTakes ==
  /\ lockFile = "free" /\ lockFile' = "peer"
  /\ UNCHANGED <<pc, line, resolveTurn, handle, lockCount, heldIn, retired, cleanup>>

PeerReleases ==
  /\ lockFile = "peer" /\ lockFile' = "free"
  /\ UNCHANGED <<pc, line, resolveTurn, handle, lockCount, heldIn, retired, cleanup>>

Proceed(f) ==
  \/ Refuse(f) \/ Granted(f) \/ Commit(f) \/ AcquireFails(f)
  \/ FinishInner(f) \/ ReleaseForfeited(f) \/ Unnest(f) \/ Release(f) \/ Released(f)

Next ==
  \/ \E f \in Flow : Call(f) \/ Nest(f) \/ Proceed(f)
  \/ Cleanup \/ RetireDrained \/ RetireForced \/ TornDown
  \/ PeerTakes \/ PeerReleases

Spec == Init /\ [][Next]_vars

(* Callbacks return (however they nest), I/O completes, an acquire    *)
(* loop ends (its waits are bounded, see LockWait).  Nobody is obliged to  *)
(* call, and no peer to let go.                                            *)
Fairness ==
  /\ \A f \in Flow : WF_vars(Proceed(f)) /\ SF_vars(Release(f))
  /\ WF_vars(RetireDrained \/ RetireForced \/ TornDown)

FairSpec == Spec /\ Fairness

-----------------------------------------------------------------------------
Inside(f) == pc[f] \in {"cs", "inner"}

(* "Correctly serializing non-nested concurrent calls on the same          *)
(* instance": two flows are never inside the critical section together ... *)
Serialized == \A f, g \in Flow : Inside(f) /\ Inside(g) => f = g

(* ... except where one of them came in by a Set that it shares with a     *)
(* holder: whoever takes the lock itself is alone among those who did.     *)
SerializedButForSiblings ==
  \A f, g \in Flow : Inside(f) /\ Inside(g) /\ f # g => "inner" \in {pc[f], pc[g]}

(* The FIFO queue never jams: a caller parked on the turn before it gets   *)
(* on, with cleanup() at any moment and critical sections torn down.       *)
NoLostTurn == \A f \in Flow : []<>(pc[f] # "queued")

(* The callers see a first-come-first-served lock, and are alone in it but *)
(* for those siblings.                                                     *)
InService == {f \in Flow : pc[f] \in {"cs", "releasing"}}

Waiting == IF line # <<>> /\ Head(line) \in InService THEN Tail(line) ELSE line
Holder == IF InService = {} THEN NoFlow ELSE CHOOSE f \in InService : TRUE

Callers == INSTANCE FifoLock WITH line <- Waiting, holder <- Holder

ImplementsFifoLock == Callers!Spec /\ []SerializedButForSiblings

-----------------------------------------------------------------------------
(* A turn that was granted and not yet handed on.                          *)
Active(f) == pc[f] \in {"acquiring", "cs", "releasing"}

TypeOK ==
  /\ pc \in [Flow -> {"idle", "queued", "acquiring", "cs", "inner", "releasing"}]
  /\ line \in Seq(Flow) /\ resolveTurn \in Flow \cup {NoFlow}
  /\ handle \in BOOLEAN /\ retired \in BOOLEAN
  /\ cleanup \in {"no", "draining", "unlinking", "done"}

(* Each flow is in line once, and all but the first are waiting.           *)
InOrder ==
  /\ \A i, j \in 1 .. Len(line) : line[i] = line[j] => i = j
  /\ \A i \in 1 .. Len(line) : pc[line[i]] = "queued" \/ (i = 1 /\ Active(line[i]))

(* One turn at a time, that of the first in line until it is handed on;    *)
(* only a retirement hands it on early, after which none is granted.       *)
OneTurn ==
  /\ \A f, g \in Flow : Active(f) /\ Active(g) => f = g
  /\ resolveTurn # NoFlow => line # <<>> /\ Head(line) = resolveTurn /\ Active(resolveTurn)
  /\ line # <<>> /\ Active(Head(line)) => resolveTurn = Head(line)
  /\ \A f \in Flow : Active(f) => resolveTurn = f \/ retired

Held ==
  /\ retired <=> cleanup \in {"unlinking", "done"}
  /\ ~retired => \A f \in InService : handle

Inv == TypeOK /\ InOrder /\ OneTurn /\ Held

(* A step of the turns is a step of the queue of callers, or none.         *)
Stepped == Callers!Next \/ UNCHANGED <<Waiting, Holder>>

Setting == NoFlow \notin Flow
=============================================================================
