------------------------------ MODULE FileLock ------------------------------
(***************************************************************************)
(* The cross-process lock-file protocol of FileLockService                 *)
(* (src/infrastructure/file-lock-service.ts).                              *)
(*                                                                         *)
(* Every element of Proc is one FileLockService instance in a process of   *)
(* its own, all sharing one lock path.  One action is one file-system call *)
(* (or one synchronous stretch of code between two awaits), so that every  *)
(* interleaving of open / read / stat / rename / link / unlink by several  *)
(* processes, and a crash between any two of them, is a behaviour.         *)
(*                                                                         *)
(* The in-process FIFO of turns is module LockTurns; the stall bound and   *)
(* the ceiling of a wait are module LockWait.  Here a contender that finds *)
(* the lock taken may retry or give up, whenever it likes.                 *)
(***************************************************************************)
EXTENDS Integers, FiniteSets

CONSTANTS
  Proc,        \* lock-service instances, one per process
  NoProc,      \* no owner: content no instance will ever write
  NoLock,      \* no file at a path
  MaxAge,      \* 0: no file ever ages; 1: past the unidentified window;
               \* 2: past liveOwnerStaleThreshold as well
  Heartbeats,  \* does this lock class refresh a held lock's mtime?
  Predecessors,\* processes that died before the others started
  LeftTorn,    \* may such a process have died between open() and write()?
  Crashers,    \* the processes that may be killed
  Forceable,   \* the processes whose cleanup() may give up draining
  Faulty       \* the processes whose reads and writes of the lock may fail

(* A lock file.  Between open('wx') and write() it exists and is empty     *)
(* (written = FALSE): it has an owner, but no reader can tell which.       *)
LockFile == [owner : Proc \cup {NoProc}, written : BOOLEAN, age : 0..2]

ASSUME NamesAssumption == NoProc \notin Proc /\ NoLock \notin LockFile
ASSUME ClassAssumption ==
  /\ MaxAge \in 0..2
  /\ Heartbeats \in BOOLEAN
  /\ Faulty \subseteq Proc
  /\ LeftTorn \in BOOLEAN
  /\ Crashers \subseteq Proc
  /\ Predecessors \subseteq Proc
  /\ Forceable \subseteq Proc

VARIABLES
  file,      \* the lock path: NoLock or a lock file
  trash,     \* trash[p]: the file p renamed to <lock>.trash.<hex>, not yet settled
  pc,        \* where p is in its protocol
  seen,      \* seen[p]: the uuid p read at the lock path
  believed,  \* believed[p]: owners p's per-episode memo holds to be alive
  starting,  \* the processes still in initialize()'s startup cleanup
  retired,   \* the instances cleanup() has retired
  teardown,  \* how far p's forced teardown has got
  misfired   \* history: was the lock file of a living owner ever renamed away?

vars == <<file, trash, pc, seen, believed, starting, retired, teardown, misfired>>

-----------------------------------------------------------------------------
Unreadable == NoProc

(* _parseLockContent: the uuid a reader finds; '' for an empty file.       *)
Uuid(f) == IF f.written THEN f.owner ELSE Unreadable

Alive(p) == pc[p] # "dead"

(* Program points at which p's own lock file should be at the lock path.   *)
Owning == {"write", "hold", "relRead", "relUnlink", "abandon"}

(* Program points of a contender between open() and the next retry.        *)
Contending == {"open", "read", "judge", "unlinkOwn", "rename", "verify", "restore"}

PC == Owning \cup Contending \cup {"new", "idle", "forfeit", "dead"}

(* Where a finished inspection leads: back to the acquire loop, or out of  *)
(* the one-shot startup cleanup.                                           *)
Resume(p) == IF p \in starting THEN "idle" ELSE "open"

(* Moving on, the locals of acquireLock() go out of scope: the uuid read   *)
(* with the attempt, the liveness memo with the episode.                   *)
Judging == {"judge", "unlinkOwn", "rename", "verify"}

Goto(p, l) ==
  /\ pc' = [pc EXCEPT ![p] = l]
  /\ seen' = IF l \in Judging THEN seen ELSE [seen EXCEPT ![p] = Unreadable]
  /\ believed' = IF l \in Contending THEN believed ELSE [believed EXCEPT ![p] = {}]
  /\ starting' = IF l = "idle" THEN starting \ {p} ELSE starting

-----------------------------------------------------------------------------
TypeOK ==
  /\ file \in LockFile \cup {NoLock}
  /\ trash \in [Proc -> LockFile \cup {NoLock}]
  /\ pc \in [Proc -> PC]
  /\ seen \in [Proc -> Proc \cup {Unreadable}]
  /\ believed \in [Proc -> SUBSET Proc]
  /\ starting \subseteq Proc
  /\ retired \subseteq Proc
  /\ teardown \in [Proc -> {"none", "read", "unlink", "close", "done"}]
  /\ misfired \in BOOLEAN

(* What a predecessor can have left at the lock path.                      *)
Leftover ==
  {[owner |-> d, written |-> w, age |-> MaxAge] :
     d \in Predecessors, w \in {TRUE, ~LeftTorn}}

Init ==
  /\ file \in Leftover \cup {NoLock}
  /\ trash = [p \in Proc |-> NoLock]
  /\ pc = [p \in Proc |-> IF p \in Predecessors THEN "dead" ELSE "new"]
  /\ seen = [p \in Proc |-> Unreadable]
  /\ believed = [p \in Proc |-> {}]
  /\ starting = {}
  /\ retired = {}
  /\ teardown = [p \in Proc |-> "none"]
  /\ misfired = FALSE

-----------------------------------------------------------------------------
(* initialize(): inspect, once, whatever lock a predecessor left behind.   *)
Start(p) ==
  /\ pc[p] = "new"
  /\ starting' = starting \cup {p}
  /\ pc' = [pc EXCEPT ![p] = "read"]
  /\ UNCHANGED <<file, trash, seen, believed, retired, teardown, misfired>>

(* acquireLock(), once this caller's turn has come: a new episode.         *)
Acquire(p) ==
  /\ pc[p] = "idle"
  /\ p \notin retired
  /\ Goto(p, "open")
  /\ UNCHANGED <<file, trash, retired, teardown, misfired>>

(* One attempt: fs.open(lockFilePath, 'wx').                               *)
Open(p) ==
  /\ pc[p] = "open"
  /\ IF p \in retired
     THEN Goto(p, "idle") /\ UNCHANGED file
     ELSE IF file = NoLock
          THEN /\ file' = [owner |-> p, written |-> FALSE, age |-> 0]
               /\ Goto(p, "write")
          ELSE Goto(p, "read") /\ UNCHANGED file
  /\ UNCHANGED <<trash, retired, teardown, misfired>>

(* A write goes to the inode the handle names, wherever it was renamed to. *)
Written(p, f) ==
  IF f # NoLock /\ f.owner = p /\ ~f.written THEN [f EXCEPT !.written = TRUE, !.age = 0]
                                             ELSE f

(* handle.write() + sync() succeed.  A retirement that landed meanwhile    *)
(* makes the code throw into the catch that closes and unlinks.            *)
Write(p) ==
  /\ pc[p] = "write"
  /\ file' = Written(p, file)
  /\ trash' = [q \in Proc |-> Written(p, trash[q])]
  /\ Goto(p, IF p \in retired THEN "abandon" ELSE "hold")
  /\ UNCHANGED <<retired, teardown, misfired>>

(* write() or sync() fails: the file stays empty for good.                 *)
WriteFails(p) ==
  /\ p \in Faulty
  /\ pc[p] = "write"
  /\ trash' = [q \in Proc |->
                 IF trash[q] # NoLock /\ trash[q].owner = p /\ ~trash[q].written
                 THEN [trash[q] EXCEPT !.owner = NoProc] ELSE trash[q]]
  /\ Goto(p, "abandon")
  /\ UNCHANGED <<file, retired, teardown, misfired>>

(* Mutant: a failed attempt closes its handle and leaves its file.         *)
AbandonKeepsFile(p) ==
  /\ pc[p] = "abandon"
  /\ Goto(p, "idle")
  /\ UNCHANGED <<file, trash, retired, teardown, misfired>>

(* The catch of a failed attempt: close the handle, unlink the path        *)
(* whatever is there now, hand the turn on.                                *)
Abandon(p) ==
  /\ pc[p] = "abandon"
  /\ file' = NoLock
  /\ Goto(p, "idle")
  /\ UNCHANGED <<trash, retired, teardown, misfired>>

-----------------------------------------------------------------------------
(* EEXIST: read the lock.  ENOENT means it was released meanwhile.         *)
Read(p) ==
  /\ pc[p] = "read"
  /\ IF file = NoLock
     THEN Goto(p, Resume(p))
     ELSE /\ seen' = [seen EXCEPT ![p] = Uuid(file)]
          /\ pc' = [pc EXCEPT ![p] = "judge"]
          /\ UNCHANGED <<believed, starting>>
  /\ UNCHANGED <<file, trash, retired, teardown, misfired>>

(* _resolveOwnerAlive: a positive answer is remembered for the episode.    *)
OwnerAlive(p, o) == o \in believed[p] \/ o = Unreadable \/ Alive(o)
Remember(p) ==
  believed' = [believed EXCEPT ![p] = @ \cup ({seen[p]} \cap {o \in Proc : Alive(o)})]

(* Sleep for lockRetryDelay, then attempt again.                           *)
Retry(p) ==
  /\ Remember(p)
  /\ pc' = [pc EXCEPT ![p] = "open"]
  /\ seen' = [seen EXCEPT ![p] = Unreadable]
  /\ UNCHANGED starting

(* _shouldReclaim, for the uuid p read and the age p then stats.           *)
ShouldReclaim(p, age) ==
  \/ ~OwnerAlive(p, seen[p])
  \/ seen[p] = Unreadable /\ age >= 1
  \/ age >= 2

(* stat(), the own-uuid check, the liveness probe and the verdict.         *)
Judge(p) ==
  /\ pc[p] = "judge"
  /\ IF file = NoLock
     THEN Goto(p, Resume(p))
     ELSE IF seen[p] = p /\ p \notin starting
     THEN Goto(p, "unlinkOwn")
     ELSE IF ShouldReclaim(p, file.age)
     THEN Remember(p) /\ pc' = [pc EXCEPT ![p] = "rename"] /\ UNCHANGED <<seen, starting>>
     ELSE \/ Resume(p) = "open" /\ Retry(p)
          \/ Goto(p, "idle")                  \* a bound was reached: give up
  /\ UNCHANGED <<file, trash, retired, teardown, misfired>>

(* Mutant: a lock that cannot be read is removed, as the code once did.    *)
InspectFailsRemoves(p) ==
  /\ p \in Faulty
  /\ pc[p] \in {"read", "judge"}
  /\ file' = NoLock
  /\ Goto(p, Resume(p))
  /\ UNCHANGED <<trash, retired, teardown, misfired>>

(* The lock cannot be read or statted: back off, never reclaim.            *)
InspectFails(p) ==
  /\ p \in Faulty
  /\ pc[p] \in {"read", "judge"}
  /\ \E l \in {Resume(p), "idle"} : Goto(p, l)
  /\ UNCHANGED <<file, trash, retired, teardown, misfired>>

(* The lock names this very instance: an interrupted earlier attempt.      *)
UnlinkOwn(p) ==
  /\ pc[p] = "unlinkOwn"
  /\ file' = NoLock
  /\ Goto(p, "open")
  /\ UNCHANGED <<trash, retired, teardown, misfired>>

(* Move the lock aside, whatever it has become since it was judged.        *)
Rename(p) ==
  /\ pc[p] = "rename"
  /\ IF file = NoLock
     THEN Goto(p, Resume(p)) /\ UNCHANGED <<file, trash, misfired>>
     ELSE /\ trash' = [trash EXCEPT ![p] = file]
          /\ file' = NoLock
          /\ misfired' = (misfired \/ \E o \in Proc : o = file.owner /\ Alive(o))
          /\ Goto(p, "verify")
  /\ UNCHANGED <<retired, teardown>>

(* Mutant: the two branches of the verification are swapped.               *)
VerifySwapped(p) ==
  /\ pc[p] = "verify"
  /\ IF Uuid(trash[p]) # seen[p]
     THEN /\ trash' = [trash EXCEPT ![p] = NoLock]
          /\ Goto(p, Resume(p))
     ELSE Goto(p, "restore") /\ UNCHANGED trash
  /\ UNCHANGED <<file, retired, teardown, misfired>>

(* Is the file in the trash the one that was judged?  Then it goes.        *)
Verify(p) ==
  /\ pc[p] = "verify"
  /\ IF Uuid(trash[p]) = seen[p]
     THEN /\ trash' = [trash EXCEPT ![p] = NoLock]
          /\ Goto(p, Resume(p))
     ELSE Goto(p, "restore") /\ UNCHANGED trash
  /\ UNCHANGED <<file, retired, teardown, misfired>>

(* The trash copy cannot be read, so the verification never ran.           *)
VerifyFails(p) ==
  /\ p \in Faulty
  /\ pc[p] = "verify"
  /\ Goto(p, "restore")
  /\ UNCHANGED <<file, trash, retired, teardown, misfired>>

(* _restoreLockFile: link() puts the copy back if the path is free (by an  *)
(* exclusive re-creation where there are no hard links); if a peer took    *)
(* the path, the peer's lock is authoritative and the copy is dropped.     *)
Restore(p) ==
  /\ pc[p] = "restore"
  /\ file' = IF file = NoLock THEN trash[p] ELSE file
  /\ trash' = [trash EXCEPT ![p] = NoLock]
  /\ Goto(p, Resume(p))
  /\ UNCHANGED <<retired, teardown, misfired>>

-----------------------------------------------------------------------------
(* releaseLock(): read the path; only a lock that is ours is unlinked, by  *)
(* a second call that takes whatever is there by then.                     *)
Release(p) ==
  /\ pc[p] = "hold"
  /\ Goto(p, "relRead")
  /\ UNCHANGED <<file, trash, retired, teardown, misfired>>

ReleaseRead(p) ==
  /\ pc[p] = "relRead"
  /\ Goto(p, IF file # NoLock /\ Uuid(file) = p THEN "relUnlink" ELSE "idle")
  /\ UNCHANGED <<file, trash, retired, teardown, misfired>>

ReleaseUnlink(p) ==
  /\ pc[p] = "relUnlink"
  /\ file' = NoLock
  /\ Goto(p, "idle")
  /\ UNCHANGED <<trash, retired, teardown, misfired>>

(* _startHeartbeat: futimes through the held handle, so it can only ever   *)
(* touch the holder's own inode.                                           *)
Heartbeat(p) ==
  /\ Heartbeats
  /\ pc[p] = "hold" /\ p \notin retired
  /\ file # NoLock /\ Uuid(file) = p /\ file.age > 0
  /\ file' = [file EXCEPT !.age = 0]
  /\ UNCHANGED <<trash, pc, seen, believed, starting, retired, teardown, misfired>>

-----------------------------------------------------------------------------
(* cleanup() of an instance that holds nothing: retire it.                 *)
Retire(p) ==
  /\ pc[p] \in (Contending \cup {"new", "idle", "write"})
  /\ p \in Forceable \ retired
  /\ retired' = retired \cup {p}
  /\ UNCHANGED <<file, trash, pc, seen, believed, starting, teardown, misfired>>

(* cleanup() whose drain of the held lock timed out: retire, then tear the *)
(* lock down while the critical section is still running.                  *)
ForceTeardown(p) ==
  /\ pc[p] = "hold"
  /\ p \in Forceable \ retired
  /\ retired' = retired \cup {p}
  /\ teardown' = [teardown EXCEPT ![p] = "read"]
  /\ UNCHANGED <<file, trash, pc, seen, believed, starting, misfired>>

TeardownRead(p) ==
  /\ teardown[p] = "read" /\ Alive(p)
  /\ teardown' = [teardown EXCEPT ![p] =
                    IF file # NoLock /\ Uuid(file) = p THEN "unlink" ELSE "close"]
  /\ UNCHANGED <<file, trash, pc, seen, believed, starting, retired, misfired>>

TeardownUnlink(p) ==
  /\ teardown[p] = "unlink" /\ Alive(p)
  /\ file' = NoLock
  /\ teardown' = [teardown EXCEPT ![p] = "close"]
  /\ UNCHANGED <<trash, pc, seen, believed, starting, retired, misfired>>

(* The handle is closed under the critical section, which runs on.         *)
TeardownClose(p) ==
  /\ teardown[p] = "close" /\ Alive(p)
  /\ teardown' = [teardown EXCEPT ![p] = "done"]
  /\ pc' = [pc EXCEPT ![p] = IF @ = "hold" THEN "forfeit" ELSE @]
  /\ UNCHANGED <<file, trash, seen, believed, starting, retired, misfired>>

(* withLock's finally finds the handle gone: it only hands the turn on.    *)
FinishForfeited(p) ==
  /\ pc[p] = "forfeit"
  /\ Goto(p, "idle")
  /\ UNCHANGED <<file, trash, retired, teardown, misfired>>

-----------------------------------------------------------------------------
(* The process dies: its files stay, its unsettled trash copy is lost to   *)
(* the protocol (only the ten-minute sweep will ever collect it).          *)
Crash(p) ==
  /\ p \in Crashers
  /\ Alive(p)
  /\ Goto(p, "dead")
  /\ trash' = [trash EXCEPT ![p] = NoLock]
  /\ UNCHANGED <<file, retired, teardown, misfired>>

(* Time passes: the lock's mtime falls behind the next threshold.          *)
Age ==
  /\ file # NoLock
  /\ file.age < MaxAge
  /\ file' = [file EXCEPT !.age = @ + 1]
  /\ UNCHANGED <<trash, pc, seen, believed, starting, retired, teardown, misfired>>

Contend(p) ==
  \/ Open(p) \/ Write(p) \/ WriteFails(p) \/ Abandon(p)
  \/ Read(p) \/ Judge(p) \/ InspectFails(p) \/ UnlinkOwn(p)
  \/ Rename(p) \/ Verify(p) \/ VerifyFails(p) \/ Restore(p)

Finish(p) ==
  \/ Release(p) \/ ReleaseRead(p) \/ ReleaseUnlink(p)
  \/ TeardownRead(p) \/ TeardownUnlink(p) \/ TeardownClose(p) \/ FinishForfeited(p)

Next ==
  \/ \E p \in Proc : \/ Start(p) \/ Acquire(p) \/ Contend(p) \/ Finish(p)
                     \/ Heartbeat(p) \/ Retire(p) \/ ForceTeardown(p) \/ Crash(p)
  \/ Age

Spec == Init /\ [][Next]_vars

(* An operation once begun is carried on by the event loop; nothing says   *)
(* that a caller ever asks for the lock, or that a process ever dies.  A   *)
(* fault is transient: one trash copy after another is not unreadable.     *)
Fairness ==
  /\ \A p \in Proc : WF_vars(Contend(p)) /\ WF_vars(Finish(p))
  /\ \A p \in Faulty : SF_vars(Verify(p))
  /\ WF_vars(Age)

FairSpec == Spec /\ Fairness

-----------------------------------------------------------------------------
(* The callback of withLock runs here: between a successful acquireLock()  *)
(* and the start of releaseLock(), or on after a forced teardown.          *)
InCriticalSection(p) == pc[p] \in {"hold", "forfeit"}

NeverForced == \A p \in Proc : teardown[p] = "none"

(* No two processes are ever inside the critical section together.         *)
MutualExclusion ==
  \A p, q \in Proc : InCriticalSection(p) /\ InCriticalSection(q) => p = q

(* Whatever crashes, torn files, stale judgements, aging and races of      *)
(* release against reclaim there are, exclusion is lost only after the     *)
(* lock file of a living process was renamed away by a reclaimer, or after *)
(* a cleanup() forced its way past the drain.                              *)
ExclusionUnlessMisfired ==
  ~misfired /\ NeverForced => MutualExclusion

(* With the same exceptions, a living process that is not between open()   *)
(* and the end of its release leaves no lock behind: nobody is locked out  *)
(* by a lock that nobody will ever release and no liveness check reclaims. *)
NoOrphanUnlessMisfired ==
  ~misfired /\ NeverForced /\ file # NoLock =>
    \A p \in Proc : file.owner = p /\ Alive(p) => pc[p] \in Owning

(* An instance that cleanup() retired never enters the critical section    *)
(* afterwards, wherever its acquisition had got to at that moment.         *)
RetiredNeverAcquires ==
  [][\A p \in Proc : p \in retired /\ ~InCriticalSection(p) => ~InCriticalSection(p)']_vars

(* No contender waits for ever for the lock of a dead process, unless it   *)
(* has (in this episode) convinced itself that the owner is alive: the     *)
(* lock goes for good, from the path and from every trash, or the          *)
(* contender stops contending.  Its own I/O is assumed to work.            *)
Gone(d) ==
  /\ file = NoLock \/ file.owner # d
  /\ \A q \in Proc : trash[q] = NoLock \/ trash[q].owner # d

DeadLockReclaimed ==
  \A p \in Proc \ Faulty, d \in Proc :
    []<>(Alive(d) \/ Gone(d) \/ d \in believed[p] \/ pc[p] \notin Contending)

=============================================================================
