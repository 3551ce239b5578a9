--------------------------- MODULE ProgressProofs ---------------------------
(***************************************************************************)
(* What holds of the components of MCProgress for every value of their     *)
(* constants: the lock file, for every set of processes, every lock class  *)
(* and every pattern of crashes, faults and forced teardowns; the turns of *)
(* a FileLockService instance, which implement a first-come-first-served   *)
(* lock; one embedding computed at a time; and what a research run         *)
(* announces, which adds up.  A run of the composition is a run of each.   *)
(***************************************************************************)
EXTENDS MCProgress, Sequences, TLAPS

-----------------------------------------------------------------------------
(* As long as no living process's lock was renamed away and no teardown    *)
(* was forced, the lock path tells exactly who is between open() and the   *)
(* end of its release, and only dead owners' files are in the trash.       *)
Clean == ~misfired /\ NeverForced

OwnerAtPath ==
  \A p \in Proc :
    /\ pc[p] \in Owning => file # NoLock /\ file.owner = p
    /\ pc[p] \in {"hold", "relRead", "relUnlink"} => file.written

NoOrphan ==
  \A p \in Proc : file # NoLock /\ file.owner = p /\ Alive(p) => pc[p] \in Owning

TrashOfTheDead ==
  \A p, q \in Proc : trash[q] # NoLock /\ trash[q].owner = p => ~Alive(p)

NeverOwnLockSeen ==
  \A p \in Proc : /\ pc[p] = "judge" => seen[p] # p
                  /\ pc[p] \notin {"unlinkOwn", "forfeit"}

LockInv == OwnerAtPath /\ NoOrphan /\ TrashOfTheDead /\ NeverOwnLockSeen

IInv == TypeOK /\ (Clean => LockInv)

-----------------------------------------------------------------------------
(* What open(), write() and the clock make of a lock file.                 *)
LEMMA FreshFile ==
  ASSUME NEW p \in Proc
  PROVE  /\ [owner |-> p, written |-> FALSE, age |-> 0] \in LockFile
         /\ [owner |-> p, written |-> FALSE, age |-> 0] # NoLock
<1>1. [owner |-> p, written |-> FALSE, age |-> 0] \in LockFile
  BY DEF LockFile
<1>2. QED  BY <1>1, NamesAssumption

LEMMA WrittenFile ==
  ASSUME NEW p \in Proc, NEW f \in LockFile \cup {NoLock}
  PROVE  /\ Written(p, f) \in LockFile \cup {NoLock}
         /\ Written(p, f) = NoLock <=> f = NoLock
         /\ f # NoLock => /\ Written(p, f).owner = f.owner
                          /\ f.written => Written(p, f).written
                          /\ f.owner = p => Written(p, f).written
<1>1. CASE f # NoLock /\ f.owner = p /\ ~f.written
  <2>1. Written(p, f) = [f EXCEPT !.written = TRUE, !.age = 0]
    BY <1>1 DEF Written
  <2>2. Written(p, f) = [owner |-> f.owner, written |-> TRUE, age |-> 0]
    BY <1>1, <2>1 DEF LockFile
  <2>3. Written(p, f) \in LockFile
    BY <1>1, <2>2 DEF LockFile
  <2>4. Written(p, f) # NoLock
    BY <2>3, NamesAssumption
  <2>5. Written(p, f).owner = f.owner /\ Written(p, f).written
    BY <2>2
  <2>6. QED  BY <1>1, <2>3, <2>4, <2>5
<1>2. CASE ~(f # NoLock /\ f.owner = p /\ ~f.written)
  BY <1>2 DEF Written
<1>3. QED  BY <1>1, <1>2

LEMMA AgedFile ==
  ASSUME NEW f \in LockFile, NEW n \in 0..2
  PROVE  /\ [f EXCEPT !.age = n] \in LockFile
         /\ [f EXCEPT !.age = n] # NoLock
         /\ [f EXCEPT !.age = n].owner = f.owner
         /\ [f EXCEPT !.age = n].written = f.written
<1>1. [f EXCEPT !.age = n] = [owner |-> f.owner, written |-> f.written, age |-> n]
  BY DEF LockFile
<1>2. [f EXCEPT !.age = n] \in LockFile
  BY <1>1 DEF LockFile
<1>3. QED  BY <1>1, <1>2, NamesAssumption

LEMMA InitTypeOK == Init => TypeOK
<1> SUFFICES ASSUME Init PROVE TypeOK
  OBVIOUS
<1>1. file \in LockFile \cup {NoLock}
  <2>1. Leftover \subseteq LockFile
    <3>1. ASSUME NEW e \in Predecessors, NEW w \in {TRUE, ~LeftTorn}
          PROVE  [owner |-> e, written |-> w, age |-> MaxAge] \in LockFile
      <4>1. w \in BOOLEAN
        BY ClassAssumption
      <4>2. QED  BY <4>1, ClassAssumption DEF LockFile
    <3>2. \A f \in Leftover : \E e \in Predecessors, w \in {TRUE, ~LeftTorn} :
            f = [owner |-> e, written |-> w, age |-> MaxAge]
      BY DEF Leftover
    <3>3. QED  BY <3>1, <3>2
  <2>2. QED  BY <2>1 DEF Init
<1>2. pc \in [Proc -> PC]
  BY DEF Init, PC, Owning, Contending
<1>3. QED
  BY <1>1, <1>2 DEF Init, TypeOK, Unreadable

(* Every variable keeps its type: in particular a lock file is only ever   *)
(* empty or names one of the instances, whatever is renamed or restored.   *)
THEOREM TypeCorrect == Spec => []TypeOK
<1>1. Init => TypeOK
  BY InitTypeOK
<1>2. TypeOK /\ [Next]_vars => TypeOK'
  <2> SUFFICES ASSUME TypeOK, [Next]_vars PROVE TypeOK'
    OBVIOUS
  <2> USE NamesAssumption, ClassAssumption
      DEF TypeOK, PC, Owning, Contending, Unreadable
  <2>1. ASSUME NEW p \in Proc, Start(p) \/ Acquire(p) PROVE TypeOK'
    BY <2>1 DEF Start, Acquire, Goto
  <2>2. ASSUME NEW p \in Proc, Contend(p) PROVE TypeOK'
    <3>1. CASE Open(p)
      BY <3>1, FreshFile DEF Open, Goto
    <3>2. CASE Write(p) \/ WriteFails(p)
      <4>1. CASE Write(p)
        BY <4>1, WrittenFile DEF Write, Goto
      <4>2. CASE WriteFails(p)
        BY <4>2 DEF WriteFails, Goto, LockFile
      <4>3. QED  BY <3>2, <4>1, <4>2
    <3>3. CASE Abandon(p) \/ UnlinkOwn(p)
      BY <3>3 DEF Abandon, UnlinkOwn, Goto
    <3>4. CASE Read(p)
      BY <3>4 DEF Read, Goto, Resume, Uuid, LockFile
    <3>5. CASE Judge(p)
      BY <3>5 DEF Judge, Goto, Resume, Remember, Retry
    <3>6. CASE InspectFails(p)
      BY <3>6 DEF InspectFails, Goto, Resume
    <3>7. CASE Rename(p)
      <4>1. misfired' \in BOOLEAN
        BY <3>7 DEF Rename
      <4>2. QED  BY <3>7, <4>1 DEF Rename, Goto, Resume
    <3>8. CASE Verify(p) \/ VerifyFails(p)
      BY <3>8 DEF Verify, VerifyFails, Goto, Resume
    <3>9. CASE Restore(p)
      BY <3>9 DEF Restore, Goto, Resume
    <3>10. QED
      BY <2>2, <3>1, <3>2, <3>3, <3>4, <3>5, <3>6, <3>7, <3>8, <3>9 DEF Contend
  <2>3. ASSUME NEW p \in Proc, Finish(p) PROVE TypeOK'
    BY <2>3 DEF Finish, Release, ReleaseRead, ReleaseUnlink, TeardownRead,
                TeardownUnlink, TeardownClose, FinishForfeited, Goto
  <2>4. ASSUME NEW p \in Proc, Heartbeat(p) PROVE TypeOK'
    BY <2>4 DEF Heartbeat, LockFile
  <2>5. ASSUME NEW p \in Proc, Retire(p) \/ ForceTeardown(p) \/ Crash(p) PROVE TypeOK'
    BY <2>5 DEF Retire, ForceTeardown, Crash, Goto
  <2>6. CASE Age
    BY <2>6 DEF Age, LockFile
  <2>7. CASE UNCHANGED vars
    BY <2>7 DEF vars
  <2>8. QED  BY <2>1, <2>2, <2>3, <2>4, <2>5, <2>6, <2>7 DEF Next
<1>3. QED  BY <1>1, <1>2, PTL DEF Spec

-----------------------------------------------------------------------------
LEMMA CleanIsOld ==
  ASSUME TypeOK, [Next]_vars, Clean'  PROVE  Clean
<1>1. misfired => misfired'
  BY DEF Next, vars, Start, Acquire, Contend, Finish, Open, Write, WriteFails,
         Abandon, Read, Judge, InspectFails, UnlinkOwn, Rename, Verify, VerifyFails,
         Restore, Release, ReleaseRead, ReleaseUnlink, TeardownRead, TeardownUnlink,
         TeardownClose, FinishForfeited, Heartbeat, Retire, ForceTeardown, Crash, Age
<1>2. ASSUME NEW p \in Proc, teardown[p] # "none" PROVE teardown'[p] # "none"
  BY <1>2 DEF TypeOK, Next, vars, Start, Acquire, Contend, Finish, Open, Write,
         WriteFails, Abandon, Read, Judge, InspectFails, UnlinkOwn, Rename, Verify,
         VerifyFails, Restore, Release, ReleaseRead, ReleaseUnlink, TeardownRead,
         TeardownUnlink, TeardownClose, FinishForfeited, Heartbeat, Retire, ForceTeardown,
         Crash, Age
<1>3. QED  BY <1>1, <1>2 DEF Clean, NeverForced

(* No step of a clean execution breaks the bond of owner and lock path.    *)
LEMMA LockInvPreserved ==
  ASSUME TypeOK, Clean, Clean', LockInv, [Next]_vars  PROVE  LockInv'
<1> USE NamesAssumption DEF TypeOK, LockInv, OwnerAtPath, NoOrphan, TrashOfTheDead,
                            NeverOwnLockSeen, Owning, Alive, Unreadable
<1>1. ASSUME NEW p \in Proc, Start(p) \/ Acquire(p) PROVE LockInv'
  BY <1>1 DEF Start, Acquire, Goto
<1>2. ASSUME NEW p \in Proc, Contend(p) PROVE LockInv'
  <2>1. CASE Open(p)
    BY <2>1, FreshFile DEF Open, Goto
  <2>2. CASE Write(p)
    BY <2>2, WrittenFile DEF Write, Goto
  <2>3. CASE WriteFails(p)
    BY <2>3 DEF WriteFails, Goto, LockFile
  <2>4. CASE Abandon(p)
    BY <2>4 DEF Abandon, Goto
  <2>5. CASE Read(p)
    BY <2>5 DEF Read, Goto, Resume, Uuid
  <2>6. CASE Judge(p)
    BY <2>6 DEF Judge, Goto, Resume, Retry
  <2>7. CASE InspectFails(p)
    BY <2>7 DEF InspectFails, Goto, Resume
  <2>8. CASE UnlinkOwn(p)
    BY <2>8 DEF UnlinkOwn
  <2>9. CASE Rename(p)
    <3>1. CASE file = NoLock
      BY <2>9, <3>1 DEF Rename, Goto, Resume
    <3>2. CASE file # NoLock
      <4>1. \A o \in Proc : o = file.owner => ~Alive(o)
        BY <2>9, <3>2 DEF Rename, Clean
      <4>2. QED  BY <2>9, <3>2, <4>1 DEF Rename, Goto
    <3>3. QED  BY <3>1, <3>2
  <2>10. CASE Verify(p)
    BY <2>10 DEF Verify, Goto, Resume
  <2>11. CASE VerifyFails(p)
    BY <2>11 DEF VerifyFails, Goto
  <2>12. CASE Restore(p)
    BY <2>12 DEF Restore, Goto, Resume
  <2>13. QED
    BY <1>2, <2>1, <2>2, <2>3, <2>4, <2>5, <2>6, <2>7, <2>8, <2>9, <2>10, <2>11, <2>12
       DEF Contend
<1>3. ASSUME NEW p \in Proc, Finish(p) PROVE LockInv'
  <2>1. CASE Release(p)
    BY <2>1 DEF Release, Goto
  <2>2. CASE ReleaseRead(p)
    <3>1. file # NoLock /\ Uuid(file) = p
      BY <2>2 DEF ReleaseRead, Uuid
    <3>2. QED  BY <2>2, <3>1 DEF ReleaseRead, Goto
  <2>3. CASE ReleaseUnlink(p)
    BY <2>3 DEF ReleaseUnlink, Goto
  <2>4. CASE TeardownRead(p) \/ TeardownUnlink(p) \/ TeardownClose(p) \/ FinishForfeited(p)
    BY <2>4 DEF TeardownRead, TeardownUnlink, TeardownClose, FinishForfeited, Clean, NeverForced
  <2>5. QED  BY <1>3, <2>1, <2>2, <2>3, <2>4 DEF Finish
<1>4. ASSUME NEW p \in Proc, Heartbeat(p) \/ Retire(p) \/ ForceTeardown(p) \/ Crash(p) PROVE LockInv'
  BY <1>4 DEF Heartbeat, Retire, ForceTeardown, Crash, Goto, LockFile
<1>5. CASE Age
  <2>1. file \in LockFile /\ file.age + 1 \in 0..2
    BY <1>5, ClassAssumption DEF Age, LockFile
  <2>2. file' = [file EXCEPT !.age = file.age + 1]
    BY <1>5 DEF Age
  <2>3. file' # NoLock /\ file'.owner = file.owner /\ file'.written = file.written
    BY <2>1, <2>2, AgedFile
  <2>4. QED  BY <1>5, <2>3 DEF Age
<1>6. CASE UNCHANGED vars
  BY <1>6 DEF vars
<1>7. QED  BY <1>1, <1>2, <1>3, <1>4, <1>5, <1>6 DEF Next

(* IInv is an invariant, from which exclusion and freedom from orphans     *)
(* follow below.                                                           *)
THEOREM Safety == Spec => []IInv
<1>1. Init => IInv
  <2> SUFFICES ASSUME Init PROVE TypeOK /\ LockInv
    BY DEF IInv
  <2>1. TypeOK
    BY InitTypeOK
  <2>2. LockInv
    BY NamesAssumption
       DEF Init, Leftover, LockInv, OwnerAtPath, NoOrphan, TrashOfTheDead,
           NeverOwnLockSeen, Owning, Alive
  <2>3. QED  BY <2>1, <2>2
<1>2. IInv /\ [Next]_vars /\ TypeOK' => IInv'
  BY CleanIsOld, LockInvPreserved DEF IInv
<1>3. QED  BY <1>1, <1>2, TypeCorrect, PTL DEF Spec

(* Exclusion and freedom from orphaned locks, for any number of processes: *)
(* torn files, dead owners, stale verdicts, failing reads and writes and   *)
(* the read-then-unlink of a release never break them by themselves.       *)
THEOREM Exclusion == Spec => []ExclusionUnlessMisfired
<1>1. IInv => ExclusionUnlessMisfired
  BY DEF IInv, Clean, LockInv, OwnerAtPath, NeverOwnLockSeen, Owning,
         ExclusionUnlessMisfired, MutualExclusion, InCriticalSection
<1>2. QED  BY <1>1, Safety, PTL

THEOREM NoOrphans == Spec => []NoOrphanUnlessMisfired
<1>1. IInv => NoOrphanUnlessMisfired
  BY DEF IInv, Clean, LockInv, NoOrphan, NoOrphanUnlessMisfired
<1>2. QED  BY <1>1, Safety, PTL

-----------------------------------------------------------------------------
(* A retired instance never enters the critical section again: each of the *)
(* two re-checks of _retired (before open, after sync) is needed.          *)
THEOREM Retirement == Spec => RetiredNeverAcquires
<1>1. ASSUME TypeOK, [Next]_vars, NEW p \in Proc, p \in retired, ~InCriticalSection(p)
      PROVE  ~InCriticalSection(p)'
  <2> USE <1>1 DEF TypeOK, InCriticalSection, PC, Owning, Contending
  <2>1. ASSUME NEW q \in Proc, Contend(q) PROVE ~InCriticalSection(p)'
    BY <2>1 DEF Contend, Open, Write, WriteFails, Abandon, Read, Judge, Retry,
                InspectFails, UnlinkOwn, Rename, Verify, VerifyFails, Restore, Goto,
                Resume
  <2>2. ASSUME NEW q \in Proc, Finish(q) PROVE ~InCriticalSection(p)'
    BY <2>2 DEF Finish, Release, ReleaseRead, ReleaseUnlink, TeardownRead,
                TeardownUnlink, TeardownClose, FinishForfeited, Goto
  <2>3. ASSUME NEW q \in Proc,
               Start(q) \/ Acquire(q) \/ Heartbeat(q) \/ Retire(q) \/ ForceTeardown(q) \/ Crash(q)
        PROVE  ~InCriticalSection(p)'
    BY <2>3 DEF Start, Acquire, Heartbeat, Retire, ForceTeardown, Crash, Goto
  <2>4. CASE Age \/ UNCHANGED vars
    BY <2>4 DEF Age, vars
  <2>5. QED  BY <2>1, <2>2, <2>3, <2>4 DEF Next
<1>2. TypeOK /\ [Next]_vars
        => [\A p \in Proc : p \in retired /\ ~InCriticalSection(p) => ~InCriticalSection(p)']_vars
  BY <1>1
<1>3. QED  BY <1>2, TypeCorrect, PTL DEF Spec, RetiredNeverAcquires

-----------------------------------------------------------------------------
(* Where nobody dies, nothing ages and nothing is forced, no reclaim ever  *)
(* begins, and the lock is a mutual-exclusion lock without qualification.  *)
QuietInv ==
  /\ ~misfired
  /\ NeverForced
  /\ file # NoLock => file.age = 0
  /\ \A p \in Proc : Alive(p) /\ pc[p] \notin {"rename", "verify", "restore"}

THEOREM QuietExclusion ==
  ASSUME Predecessors = {}, Crashers = {}, Forceable = {}, MaxAge = 0
  PROVE  Spec => []MutualExclusion
<1>1. Init => QuietInv
  BY DEF Init, QuietInv, NeverForced, Leftover, Alive
<1>2. TypeOK /\ QuietInv /\ [Next]_vars => QuietInv'
  <2> SUFFICES ASSUME TypeOK, QuietInv, [Next]_vars PROVE QuietInv'
    OBVIOUS
  <2> USE DEF TypeOK, QuietInv, NeverForced, Alive
  <2>1. ASSUME NEW p \in Proc, Contend(p) PROVE QuietInv'
    <3>1. ASSUME Judge(p) PROVE QuietInv'
      <4>1. file # NoLock => ~ShouldReclaim(p, file.age)
        BY DEF ShouldReclaim, OwnerAlive, LockFile, Unreadable
      <4>2. QED  BY <3>1, <4>1 DEF Judge, Goto, Resume, Retry
    <3>2. ASSUME Open(p) PROVE QuietInv'
      BY <3>2, FreshFile DEF Open, Goto
    <3>3. ASSUME Write(p) PROVE QuietInv'
      <4>1. file' # NoLock => file'.age = 0
        BY <3>3 DEF Write, Written, LockFile
      <4>2. QED  BY <3>3, <4>1 DEF Write, Goto
    <3>4. QED
      BY <2>1, <3>1, <3>2, <3>3 DEF Contend, WriteFails, Abandon, Read, InspectFails,
             UnlinkOwn, Rename, Verify, VerifyFails, Restore, Goto, Resume
  <2>2. ASSUME NEW p \in Proc, Finish(p) PROVE QuietInv'
    BY <2>2 DEF Finish, Release, ReleaseRead, ReleaseUnlink, TeardownRead,
                TeardownUnlink, TeardownClose, FinishForfeited, Goto
  <2>3. ASSUME NEW p \in Proc,
               Start(p) \/ Acquire(p) \/ Heartbeat(p) \/ Retire(p) \/ ForceTeardown(p) \/ Crash(p)
        PROVE  QuietInv'
    BY <2>3 DEF Start, Acquire, Heartbeat, Retire, ForceTeardown, Crash, Goto, LockFile
  <2>4. CASE Age \/ UNCHANGED vars
    BY <2>4 DEF Age, vars, LockFile
  <2>5. QED  BY <2>1, <2>2, <2>3, <2>4 DEF Next
<1>3. QuietInv /\ ExclusionUnlessMisfired => MutualExclusion
  BY DEF QuietInv, ExclusionUnlessMisfired
<1>4. QED  BY <1>1, <1>2, <1>3, TypeCorrect, Exclusion, PTL DEF Spec

-----------------------------------------------------------------------------
(* What a run of the five together shows of one, it shows of the component: *)
(* a behaviour of the composition is, for each, a behaviour of its own.    *)
LEMMA ProgressInits ==
  ASSUME AllInit
  PROVE  Init /\ Turns!Init /\ Queue!Init /\ Breaker!Init /\ Rounds!Init
BY DEF AllInit

LEMMA ProgressSteps ==
  ASSUME [AllNext]_all
  PROVE  /\ [Next]_vars /\ [Turns!Next]_Turns!vars /\ [Queue!Next]_Queue!queueVars
         /\ [Breaker!Next]_Breaker!breakerVars /\ [Rounds!Next]_Rounds!roundsVars
<1>1. /\ UNCHANGED turnsVars => UNCHANGED Turns!vars
      /\ UNCHANGED queueVars => UNCHANGED Queue!queueVars
      /\ UNCHANGED breakerVars => UNCHANGED Breaker!breakerVars
      /\ UNCHANGED roundsVars => UNCHANGED Rounds!roundsVars
  BY DEF turnsVars, queueVars, breakerVars, roundsVars, Turns!vars, Queue!queueVars,
     Breaker!breakerVars, Rounds!roundsVars
<1>2. CASE UNCHANGED all
  BY <1>1, <1>2 DEF all
<1>3. CASE AllNext
  <2> USE <1>1, <1>3
  <2>1. \/ Next /\ FileLockOnly
        \/ Turns!Next /\ TurnsOnly
        \/ Queue!Next /\ QueueOnly
        \/ Breaker!Next /\ BreakerOnly
        \/ Rounds!Next /\ RoundsOnly
    BY DEF AllNext, Next, Turns!Next, Queue!Next, Queue!Timers, Breaker!Next, Rounds!Next, Rounds!Rounds
  <2>2. QED
    BY <2>1 DEF FileLockOnly, TurnsOnly, QueueOnly, BreakerOnly, RoundsOnly
<1>4. QED  BY <1>2, <1>3

(* Each of the five components runs as its own specification says.         *)
THEOREM Components ==
  SafetySpec => Spec /\ Turns!Spec /\ Queue!Spec /\ Breaker!Spec /\ Rounds!Spec
<1>1. AllInit => Init /\ Turns!Init /\ Queue!Init /\ Breaker!Init /\ Rounds!Init
  BY ProgressInits
<1>2. [AllNext]_all =>
        /\ [Next]_vars /\ [Turns!Next]_Turns!vars /\ [Queue!Next]_Queue!queueVars
        /\ [Breaker!Next]_Breaker!breakerVars /\ [Rounds!Next]_Rounds!roundsVars
  BY ProgressSteps
<1>3. QED
  BY <1>1, <1>2, PTL DEF SafetySpec, Spec, Turns!Spec, Queue!Spec, Breaker!Spec, Rounds!Spec

-----------------------------------------------------------------------------
(* Resolving a turn takes the first out of the line, or changes nothing.   *)
LEMMA TurnsWithoutFirst ==
  ASSUME Turns!TypeOK, Turns!InOrder, turnsLine # <<>>
     PROVE  Turns!Without(Head(turnsLine)) = Tail(turnsLine)
<1>1. Len(turnsLine) \in Nat /\ Len(turnsLine) >= 1 /\ turnsLine[1] = Head(turnsLine)
         /\ DOMAIN turnsLine = 1 .. Len(turnsLine)
  BY DEF Turns!TypeOK
<1>2. (CHOOSE i \in DOMAIN turnsLine : turnsLine[i] = Head(turnsLine)) = 1
  BY <1>1 DEF Turns!InOrder
<1>3. Head(turnsLine) \in Turns!ToSet(turnsLine)
  BY <1>1 DEF Turns!ToSet
<1>4. Turns!RemoveAt(turnsLine, 1) = Tail(turnsLine)
  BY <1>1 DEF Turns!RemoveAt, Turns!TypeOK
<1>5. QED  BY <1>2, <1>3, <1>4 DEF Turns!Without

LEMMA TurnsWithoutNobody ==
  ASSUME Turns!Setting, Turns!TypeOK  PROVE  Turns!Without("none") = turnsLine
BY DEF Turns!Setting, Turns!TypeOK, Turns!Without, Turns!ToSet

LEMMA TurnHandedOn ==
  ASSUME Turns!Setting, Turns!Inv, Turns!ReleaseTurn
  PROVE  /\ turnsResolveTurn' = "none"
         /\ \/ turnsResolveTurn = "none" /\ turnsLine' = turnsLine
            \/ /\ turnsResolveTurn # "none" /\ turnsLine # <<>>
                  /\ Head(turnsLine) = turnsResolveTurn
               /\ Turns!Active(turnsResolveTurn) /\ turnsLine' = Tail(turnsLine)
BY TurnsWithoutFirst, TurnsWithoutNobody DEF Turns!Inv, Turns!OneTurn, Turns!ReleaseTurn

LEMMA TurnsTailInOrder ==
  ASSUME Turns!TypeOK, Turns!InOrder, turnsLine # <<>>, turnsLine' = Tail(turnsLine),
         NEW f \in Flows, f = Head(turnsLine),
         \A g \in Flows : g # f => turnsPc'[g] = turnsPc[g]
  PROVE  /\ turnsLine' \in Seq(Flows) /\ Turns!InOrder'
         /\ turnsLine' # <<>> => Head(turnsLine') # f /\ turnsPc'[Head(turnsLine')] = "queued"
<1>1. /\ turnsLine' \in Seq(Flows) /\ Len(turnsLine') = Len(turnsLine) - 1 /\ Len(turnsLine) \in Nat
      /\ \A i \in 1 .. Len(turnsLine') : turnsLine'[i] = turnsLine[i + 1]
            /\ i + 1 \in 1 .. Len(turnsLine)
  BY DEF Turns!TypeOK
<1>2. \A i \in 1 .. Len(turnsLine') : turnsLine'[i] # f /\ turnsLine'[i] \in Flows
         /\ turnsPc[turnsLine'[i]] = "queued"
  <2>1. turnsLine[1] = f /\ 1 \in 1 .. Len(turnsLine)
    BY <1>1 DEF Turns!TypeOK
  <2>2. QED  BY <1>1, <2>1 DEF Turns!InOrder, Turns!TypeOK
<1>3. Turns!InOrder'
  BY <1>1, <1>2 DEF Turns!InOrder
<1>4. turnsLine' # <<>> => Head(turnsLine') = turnsLine'[1] /\ 1 \in 1 .. Len(turnsLine')
  BY <1>1
<1>5. QED  BY <1>1, <1>2, <1>3, <1>4

LEMMA TurnsHeadInLine ==
  ASSUME Turns!TypeOK, turnsLine # <<>>
  PROVE  Head(turnsLine) = turnsLine[1] /\ 1 \in 1 .. Len(turnsLine) /\ Head(turnsLine) \in Flows
BY DEF Turns!TypeOK

-----------------------------------------------------------------------------
(* A flow gets on without the line changing, or leaves it.                 *)
LEMMA TurnsInvCall ==
  ASSUME Turns!Setting, Turns!Inv, NEW f \in Flows, Turns!Call(f)  PROVE  Turns!Inv'
<1> USE DEF Turns!Inv
<1>1. CASE turnsPc' = [turnsPc EXCEPT ![f] = "inner"] /\ UNCHANGED turnsLine
  <2>1. Turns!TypeOK'
    BY <1>1 DEF Turns!Call, Turns!TypeOK
  <2>2. \A g \in Flows : (turnsPc'[g] = "queued" <=> turnsPc[g] = "queued")
           /\ (Turns!Active(g)' <=> Turns!Active(g))
    BY <1>1 DEF Turns!Call, Turns!TypeOK, Turns!Active
  <2>3. Turns!InOrder' /\ Turns!OneTurn' /\ Turns!Held'
    BY <1>1, <2>2, TurnsHeadInLine
       DEF Turns!Call, Turns!TypeOK, Turns!InOrder, Turns!OneTurn, Turns!Held,
           Turns!InService, Turns!Active
  <2>4. QED  BY <2>1, <2>3
<1>2. CASE turnsLine' = Append(turnsLine, f) /\ turnsPc' = [turnsPc EXCEPT ![f] = "queued"]
              /\ ~turnsRetired
  <2>1. turnsPc[f] = "idle"
    BY DEF Turns!Call
  <2>2. Turns!TypeOK'
    BY <1>2 DEF Turns!Call, Turns!TypeOK
  <2>3. /\ Len(turnsLine') = Len(turnsLine) + 1 /\ Len(turnsLine) \in Nat
              /\ turnsLine'[Len(turnsLine) + 1] = f
        /\ \A i \in 1 .. Len(turnsLine) : turnsLine'[i] = turnsLine[i] /\ turnsLine[i] \in Flows
              /\ turnsLine[i] # f
    BY <1>2, <2>1 DEF Turns!TypeOK, Turns!InOrder, Turns!Active
  <2>4. Turns!InOrder'
    BY <1>2, <2>3 DEF Turns!InOrder, Turns!TypeOK, Turns!Active
  <2>5. \A g \in Flows : Turns!Active(g)' <=> Turns!Active(g)
    BY <1>2, <2>1 DEF Turns!Active, Turns!TypeOK
  <2>6. turnsLine' # <<>> /\ Head(turnsLine') = IF turnsLine = <<>> THEN f ELSE Head(turnsLine)
    BY <1>2, <2>3 DEF Turns!TypeOK
  <2>7. Turns!OneTurn'
    BY <1>2, <2>1, <2>5, <2>6, TurnsHeadInLine
       DEF Turns!Call, Turns!OneTurn, Turns!Active, Turns!TypeOK
  <2>8. Turns!Held'
    BY <1>2, <2>1 DEF Turns!Call, Turns!Held, Turns!InService, Turns!TypeOK
  <2>9. QED  BY <2>2, <2>4, <2>7, <2>8
<1>3. QED  BY <1>1, <1>2 DEF Turns!Call, Turns!Goto

LEMMA TurnsInvRefuse ==
  ASSUME Turns!Setting, Turns!Inv, NEW f \in Flows, Turns!Refuse(f)  PROVE  Turns!Inv'
<1> USE DEF Turns!Inv
<1>1. /\ turnsLine # <<>> /\ Head(turnsLine) = f /\ turnsPc[f] = "queued" /\ turnsRetired
      /\ turnsLine' = Tail(turnsLine) /\ turnsPc' = [turnsPc EXCEPT ![f] = "idle"]
  BY DEF Turns!Refuse, Turns!First, Turns!Goto
<1>2. /\ turnsLine' \in Seq(Flows) /\ Turns!InOrder'
      /\ turnsLine' # <<>> => Head(turnsLine') # f /\ turnsPc'[Head(turnsLine')] = "queued"
  BY <1>1, TurnsTailInOrder DEF Turns!TypeOK
<1>3. \A g \in Flows : Turns!Active(g)' <=> Turns!Active(g)
  BY <1>1 DEF Turns!Active, Turns!TypeOK
<1>4. Turns!TypeOK' /\ Turns!Held'
  BY <1>1, <1>2 DEF Turns!Refuse, Turns!TypeOK, Turns!Held
<1>5. Turns!OneTurn'
  BY <1>1, <1>2, <1>3 DEF Turns!Refuse, Turns!OneTurn, Turns!Active
<1>6. QED  BY <1>2, <1>4, <1>5

(* A flow gets on with the turn it has; the line stays as it is.           *)
LEMMA TurnsInvGoOn ==
  ASSUME Turns!Setting, Turns!Inv, NEW f \in Flows,
         Turns!Granted(f) \/ Turns!Commit(f) \/ Turns!Nest(f) \/ Turns!Unnest(f)
            \/ Turns!Release(f) \/ Turns!FinishInner(f)
  PROVE  Turns!Inv'
<1> USE DEF Turns!Inv
<1>1. CASE Turns!Granted(f)
  <2>1. /\ turnsLine # <<>> /\ Head(turnsLine) = f /\ turnsPc[f] = "queued" /\ ~turnsRetired
              /\ turnsLine' = turnsLine
        /\ turnsResolveTurn' = f /\ turnsPc' = [turnsPc EXCEPT ![f] = "acquiring"]
        /\ UNCHANGED <<turnsHandle, turnsRetired, turnsCleanup>>
    BY <1>1 DEF Turns!Granted, Turns!First, Turns!Goto
  <2>2. \A g \in Flows : ~Turns!Active(g)
    BY <2>1 DEF Turns!OneTurn, Turns!Active, Turns!Setting
  <2>3. \A g \in Flows : Turns!Active(g)' <=> g = f
    BY <2>1, <2>2 DEF Turns!Active, Turns!TypeOK
  <2>4. Turns!TypeOK'
    BY <2>1 DEF Turns!TypeOK
  <2>5. turnsLine[1] = f /\ \A i \in 1 .. Len(turnsLine) : turnsLine[i] \in Flows
    BY <2>1, TurnsHeadInLine DEF Turns!TypeOK
  <2>6. Turns!InOrder'
    BY <2>1, <2>3, <2>5, TurnsHeadInLine DEF Turns!InOrder, Turns!TypeOK, Turns!Active
  <2>7. Turns!OneTurn'
    BY <2>1, <2>3 DEF Turns!OneTurn
  <2>8. Turns!Held'
    BY <2>1, <2>2 DEF Turns!Held, Turns!InService, Turns!TypeOK, Turns!Active
  <2>9. QED  BY <2>4, <2>6, <2>7, <2>8
<1>2. CASE Turns!Commit(f)
  <2>1. /\ turnsPc[f] = "acquiring" /\ turnsPc' = [turnsPc EXCEPT ![f] = "cs"]
              /\ turnsHandle' = TRUE
        /\ UNCHANGED <<turnsLine, turnsResolveTurn, turnsRetired, turnsCleanup>>
    BY <1>2 DEF Turns!Commit, Turns!Goto
  <2>2. \A g \in Flows : (turnsPc'[g] = "queued" <=> turnsPc[g] = "queued")
           /\ (Turns!Active(g)' <=> Turns!Active(g))
    BY <2>1 DEF Turns!Active, Turns!TypeOK
  <2>3. Turns!TypeOK'
    BY <2>1 DEF Turns!TypeOK
  <2>4. Turns!InOrder' /\ Turns!OneTurn'
    BY <2>1, <2>2, TurnsHeadInLine DEF Turns!InOrder, Turns!OneTurn, Turns!TypeOK
  <2>5. Turns!Held'
    BY <2>1 DEF Turns!Held
  <2>6. QED  BY <2>3, <2>4, <2>5
<1>3. CASE Turns!Nest(f) \/ Turns!Unnest(f)
  BY <1>3
     DEF Turns!Nest, Turns!Unnest, Turns!TypeOK, Turns!InOrder, Turns!OneTurn,
         Turns!Held, Turns!InService, Turns!Active
<1>4. CASE Turns!Release(f)
  <2>1. /\ turnsPc[f] = "cs" /\ turnsPc' = [turnsPc EXCEPT ![f] = "releasing"]
        /\ UNCHANGED <<turnsLine, turnsResolveTurn, turnsHandle, turnsRetired, turnsCleanup>>
    BY <1>4 DEF Turns!Release, Turns!Goto
  <2>2. \A g \in Flows : (turnsPc'[g] = "queued" <=> turnsPc[g] = "queued")
           /\ (Turns!Active(g)' <=> Turns!Active(g))
    BY <2>1 DEF Turns!Active, Turns!TypeOK
  <2>3. Turns!TypeOK'
    BY <2>1 DEF Turns!TypeOK
  <2>4. Turns!InOrder' /\ Turns!OneTurn'
    BY <2>1, <2>2, TurnsHeadInLine DEF Turns!InOrder, Turns!OneTurn, Turns!TypeOK
  <2>5. Turns!Held'
    BY <2>1 DEF Turns!Held, Turns!InService, Turns!TypeOK
  <2>6. QED  BY <2>3, <2>4, <2>5
<1>5. CASE Turns!FinishInner(f)
  <2>1. /\ turnsPc[f] = "inner" /\ turnsPc' = [turnsPc EXCEPT ![f] = "idle"]
        /\ UNCHANGED <<turnsLine, turnsResolveTurn, turnsHandle, turnsRetired, turnsCleanup>>
    BY <1>5 DEF Turns!FinishInner, Turns!Goto
  <2>2. \A g \in Flows : (turnsPc'[g] = "queued" <=> turnsPc[g] = "queued")
           /\ (Turns!Active(g)' <=> Turns!Active(g))
    BY <2>1 DEF Turns!Active, Turns!TypeOK
  <2>3. Turns!TypeOK'
    BY <2>1 DEF Turns!TypeOK
  <2>4. Turns!InOrder' /\ Turns!OneTurn'
    BY <2>1, <2>2, TurnsHeadInLine DEF Turns!InOrder, Turns!OneTurn, Turns!TypeOK
  <2>5. Turns!Held'
    BY <2>1 DEF Turns!Held, Turns!InService, Turns!TypeOK
  <2>6. QED  BY <2>3, <2>4, <2>5
<1>6. QED  BY <1>1, <1>2, <1>3, <1>4, <1>5

(* A flow is done with its turn: it hands it on, unless that has been done. *)
LEMMA TurnsInvHandOn ==
  ASSUME Turns!Setting, Turns!Inv, NEW f \in Flows,
         Turns!AcquireFails(f) \/ Turns!ReleaseForfeited(f) \/ Turns!Released(f)
  PROVE  Turns!Inv'
<1> USE DEF Turns!Inv
<1>1. /\ Turns!Active(f) /\ turnsPc' = [turnsPc EXCEPT ![f] = "idle"] /\ Turns!ReleaseTurn
      /\ UNCHANGED <<turnsRetired, turnsCleanup>> /\ turnsHandle' \in BOOLEAN
  BY DEF Turns!AcquireFails, Turns!ReleaseForfeited, Turns!Released, Turns!Goto,
     Turns!Active, Turns!TypeOK
<1>2. \A g \in Flows : ~Turns!Active(g)'
  BY <1>1 DEF Turns!OneTurn, Turns!Active, Turns!TypeOK
<1>3. turnsResolveTurn' = "none"
  BY <1>1, TurnHandedOn
<1>4. CASE turnsResolveTurn # "none"
  <2>1. turnsLine # <<>> /\ Head(turnsLine) = f /\ turnsLine' = Tail(turnsLine)
    BY <1>1, <1>4, TurnHandedOn DEF Turns!OneTurn, Turns!TypeOK
  <2>2. turnsLine' \in Seq(Flows) /\ Turns!InOrder'
           /\ (turnsLine' # <<>> => Head(turnsLine') \in Flows)
    BY <1>1, <2>1, TurnsTailInOrder DEF Turns!TypeOK
  <2>3. Turns!TypeOK'
    BY <1>1, <1>3, <2>2 DEF Turns!TypeOK
  <2>4. Turns!OneTurn' /\ Turns!Held'
    BY <1>1, <1>2, <1>3, <2>2
       DEF Turns!OneTurn, Turns!Held, Turns!InService, Turns!Active
  <2>5. QED  BY <2>2, <2>3, <2>4
<1>5. CASE turnsResolveTurn = "none"
  <2>1. turnsLine' = turnsLine
    BY <1>1, <1>5, TurnHandedOn
  <2>2. Turns!TypeOK'
    BY <1>1, <1>3, <2>1 DEF Turns!TypeOK
  <2>3. \A i \in 1 .. Len(turnsLine) : turnsLine[i] # f
    <3>1. ASSUME NEW i \in 1 .. Len(turnsLine), turnsLine[i] = f  PROVE  FALSE
      <4>1. i = 1 /\ turnsLine # <<>>
        BY <1>1, <3>1 DEF Turns!InOrder, Turns!Active, Turns!TypeOK
      <4>2. Head(turnsLine) = f
        BY <3>1, <4>1, TurnsHeadInLine
      <4>3. QED  BY <1>1, <1>5, <4>1, <4>2 DEF Turns!OneTurn, Turns!Setting
    <3>2. QED  BY <3>1
  <2>4. Turns!InOrder'
    BY <1>1, <2>1, <2>3 DEF Turns!InOrder, Turns!TypeOK, Turns!Active
  <2>5. Turns!OneTurn' /\ Turns!Held'
    BY <1>1, <1>2, <1>3, <2>1, TurnsHeadInLine
       DEF Turns!OneTurn, Turns!Held, Turns!InService, Turns!Active
  <2>6. QED  BY <2>2, <2>4, <2>5
<1>6. QED  BY <1>4, <1>5

(* The turn of a holder, or of a flow that is still acquiring, is handed   *)
(* on by cleanup().                                                        *)
LEMMA TurnsInvCleanup ==
  ASSUME Turns!Setting, Turns!Inv,
         Turns!Cleanup \/ Turns!RetireDrained \/ Turns!RetireForced \/ Turns!TornDown
            \/ Turns!PeerTakes \/ Turns!PeerReleases
  PROVE  Turns!Inv'
<1> USE DEF Turns!Inv
<1>1. CASE Turns!Cleanup \/ Turns!PeerTakes \/ Turns!PeerReleases \/ Turns!RetireForced
  <2>1. /\ UNCHANGED <<turnsPc, turnsLine, turnsResolveTurn, turnsHandle>>
        /\ \/ turnsRetired' = turnsRetired /\ turnsCleanup' = turnsCleanup
           \/ turnsRetired' = turnsRetired /\ turnsCleanup = "no" /\ turnsCleanup' = "draining"
           \/ turnsRetired' = TRUE /\ turnsCleanup' = "unlinking"
    BY <1>1 DEF Turns!Cleanup, Turns!PeerTakes, Turns!PeerReleases, Turns!RetireForced
  <2>2. Turns!TypeOK' /\ Turns!InOrder'
    BY <2>1 DEF Turns!TypeOK, Turns!InOrder, Turns!Active
  <2>3. Turns!OneTurn' /\ Turns!Held'
    BY <2>1 DEF Turns!OneTurn, Turns!Held, Turns!InService, Turns!Active, Turns!TypeOK
  <2>4. QED  BY <2>2, <2>3
<1>2. CASE Turns!RetireDrained \/ Turns!TornDown
  <2>1. /\ turnsPc' = turnsPc /\ Turns!ReleaseTurn /\ turnsRetired' = TRUE
              /\ turnsCleanup' = "done" /\ turnsHandle' \in BOOLEAN
    BY <1>2 DEF Turns!RetireDrained, Turns!TornDown, Turns!TypeOK, Turns!Held
  <2>2. turnsResolveTurn' = "none" /\ \A g \in Flows : Turns!Active(g)' <=> Turns!Active(g)
    BY <2>1, TurnHandedOn DEF Turns!Active
  <2>3. CASE turnsResolveTurn # "none"
    <3>1. turnsLine # <<>> /\ turnsLine' = Tail(turnsLine) /\ Head(turnsLine) \in Flows
      BY <2>1, <2>3, TurnHandedOn, TurnsHeadInLine
    <3>2. /\ turnsLine' \in Seq(Flows) /\ Turns!InOrder'
          /\ turnsLine' # <<>> => Head(turnsLine') # Head(turnsLine)
                /\ turnsPc'[Head(turnsLine')] = "queued"
      BY <2>1, <3>1, TurnsTailInOrder
    <3>3. Turns!TypeOK' /\ Turns!Held'
      BY <2>1, <2>2, <3>2 DEF Turns!TypeOK, Turns!Held
    <3>4. Turns!OneTurn'
      BY <2>1, <2>2, <3>2 DEF Turns!OneTurn, Turns!Active
    <3>5. QED  BY <3>2, <3>3, <3>4
  <2>4. CASE turnsResolveTurn = "none"
    <3>1. turnsLine' = turnsLine
      BY <2>1, <2>4, TurnHandedOn
    <3>2. Turns!TypeOK' /\ Turns!Held' /\ Turns!InOrder' /\ Turns!OneTurn'
      BY <2>1, <2>2, <2>4, <3>1
         DEF Turns!TypeOK, Turns!Held, Turns!InOrder, Turns!OneTurn, Turns!Active
    <3>3. QED  BY <3>2
  <2>5. QED  BY <2>3, <2>4
<1>3. QED  BY <1>1, <1>2

LEMMA TurnsInvStep ==
  ASSUME Turns!Setting, Turns!Inv, [Turns!Next]_Turns!vars  PROVE  Turns!Inv'
<1>1. CASE UNCHANGED Turns!vars
  BY <1>1
     DEF Turns!Inv, Turns!TypeOK, Turns!InOrder, Turns!OneTurn, Turns!Held,
         Turns!InService, Turns!Active, Turns!vars
<1>2. QED
  BY <1>1, TurnsInvCall, TurnsInvRefuse, TurnsInvGoOn, TurnsInvHandOn, TurnsInvCleanup
     DEF Turns!Next, Turns!Proceed

-----------------------------------------------------------------------------
(* What the callers see.                                                   *)
LEMMA TurnsHolderIs ==
  ASSUME Turns!Setting, Turns!Inv
  PROVE  /\ Turns!Holder = "none" <=> Turns!InService = {}
         /\ \A f \in Turns!InService : Turns!InService = {f} /\ Turns!Holder = f
<1>1. \A f \in Turns!InService : Turns!InService = {f}
  BY DEF Turns!Inv, Turns!OneTurn, Turns!Active, Turns!InService
<1>2. QED  BY <1>1 DEF Turns!Holder, Turns!Setting, Turns!InService

(* Nobody behind the first in line is served, so that without the first    *)
(* the line is what the callers see.                                       *)
LEMMA TurnsWaitingWithoutFirst ==
  ASSUME Turns!Setting, Turns!Inv, Turns!Inv', turnsLine # <<>>,
         turnsLine' = Tail(turnsLine),
         turnsLine' # <<>> => turnsPc'[Head(turnsLine')] = "queued"
  PROVE  Turns!Waiting' = Tail(turnsLine)
BY DEF Turns!Waiting, Turns!InService

LEMMA TurnsStepCall ==
  ASSUME Turns!Setting, Turns!Inv, Turns!Inv', NEW f \in Flows, Turns!Call(f)
     PROVE  Turns!Stepped
<1>1. CASE turnsPc' = [turnsPc EXCEPT ![f] = "inner"] /\ UNCHANGED turnsLine
  <2>1. Turns!InService' = Turns!InService /\ turnsLine' = turnsLine
    BY <1>1 DEF Turns!Call, Turns!InService, Turns!Inv, Turns!TypeOK
  <2>2. QED  BY <2>1 DEF Turns!Stepped, Turns!Waiting, Turns!Holder
<1>2. CASE turnsLine' = Append(turnsLine, f) /\ turnsPc' = [turnsPc EXCEPT ![f] = "queued"]
  <2>1. turnsPc[f] = "idle" /\ Turns!InService' = Turns!InService /\ f \notin Turns!InService
    BY <1>2 DEF Turns!Call, Turns!InService, Turns!Inv, Turns!TypeOK
  <2>2. Turns!Holder' = Turns!Holder /\ f # Turns!Holder
    BY <2>1, TurnsHolderIs DEF Turns!Holder, Turns!Setting
  <2>3. \A i \in 1 .. Len(turnsLine) : turnsLine[i] # f
    BY <2>1 DEF Turns!Inv, Turns!InOrder, Turns!Active
  <2>4. Turns!Waiting' = Append(Turns!Waiting, f)
    <3>1. CASE turnsLine = <<>>
      BY <1>2, <2>1, <3>1 DEF Turns!Waiting
    <3>2. CASE turnsLine # <<>>
      <4>1. turnsLine' # <<>> /\ Head(turnsLine') = Head(turnsLine)
               /\ Tail(turnsLine') = Append(Tail(turnsLine), f)
        BY <1>2, <3>2 DEF Turns!Inv, Turns!TypeOK
      <4>2. QED  BY <1>2, <2>1, <3>2, <4>1 DEF Turns!Waiting
    <3>3. QED  BY <3>1, <3>2
  <2>5. \A i \in 1 .. Len(Turns!Waiting) : Turns!Waiting[i] # f
    <3>1. CASE Turns!Waiting = turnsLine
      BY <2>3, <3>1
    <3>2. CASE turnsLine # <<>> /\ Turns!Waiting = Tail(turnsLine)
      BY <2>3, <3>2 DEF Turns!Inv, Turns!TypeOK
    <3>3. QED  BY <3>1, <3>2 DEF Turns!Waiting
  <2>6. Turns!Callers!Join(f)
    BY <2>2, <2>4, <2>5
       DEF Turns!Callers!Join, Turns!Callers!InLine, Turns!Waiting, Turns!Holder
  <2>7. QED  BY <2>6 DEF Turns!Stepped, Turns!Callers!Next
<1>3. QED  BY <1>1, <1>2 DEF Turns!Call, Turns!Goto

LEMMA TurnsStepRefuse ==
  ASSUME Turns!Setting, Turns!Inv, Turns!Inv', NEW f \in Flows, Turns!Refuse(f)
     PROVE  Turns!Stepped
<1>1. /\ turnsLine # <<>> /\ Head(turnsLine) = f /\ turnsPc[f] = "queued"
      /\ turnsLine' = Tail(turnsLine) /\ turnsPc' = [turnsPc EXCEPT ![f] = "idle"]
  BY DEF Turns!Refuse, Turns!First, Turns!Goto
<1>2. Turns!InService' = Turns!InService /\ f \notin Turns!InService
  BY <1>1 DEF Turns!InService, Turns!Inv, Turns!TypeOK
<1>3. Turns!Holder' = Turns!Holder /\ Turns!Waiting = turnsLine
  BY <1>1, <1>2 DEF Turns!Holder, Turns!Waiting
<1>4. turnsLine' # <<>> => turnsPc'[Head(turnsLine')] = "queued"
  BY <1>1, TurnsTailInOrder DEF Turns!Inv, Turns!TypeOK
<1>5. Turns!Waiting' = Tail(Turns!Waiting) /\ Turns!Waiting # <<>>
  BY <1>1, <1>3, <1>4, TurnsWaitingWithoutFirst
<1>6. Turns!Callers!GiveUp
  BY <1>3, <1>5 DEF Turns!Callers!GiveUp, Turns!Waiting, Turns!Holder
<1>7. QED  BY <1>6 DEF Turns!Stepped, Turns!Callers!Next

LEMMA TurnsStepGoOn ==
  ASSUME Turns!Setting, Turns!Inv, Turns!Inv', NEW f \in Flows,
         Turns!Granted(f) \/ Turns!Nest(f) \/ Turns!Unnest(f) \/ Turns!Release(f)
            \/ Turns!FinishInner(f)
  PROVE  Turns!Stepped
<1>1. Turns!InService' = Turns!InService /\ turnsLine' = turnsLine
  BY DEF Turns!Granted, Turns!Nest, Turns!Unnest, Turns!Release, Turns!FinishInner,
     Turns!Goto, Turns!InService, Turns!Inv, Turns!TypeOK
<1>2. QED  BY <1>1 DEF Turns!Stepped, Turns!Waiting, Turns!Holder

LEMMA TurnsStepCommit ==
  ASSUME Turns!Setting, Turns!Inv, Turns!Inv', NEW f \in Flows, Turns!Commit(f)
     PROVE  Turns!Stepped
<1>1. /\ turnsPc[f] = "acquiring" /\ ~turnsRetired /\ turnsPc' = [turnsPc EXCEPT ![f] = "cs"]
            /\ turnsLine' = turnsLine
  BY DEF Turns!Commit, Turns!Goto
<1>2. turnsResolveTurn = f /\ turnsLine # <<>> /\ Head(turnsLine) = f
  BY <1>1 DEF Turns!Inv, Turns!OneTurn, Turns!Active, Turns!Setting
<1>3. Turns!InService = {} /\ f \in Turns!InService'
  BY <1>1 DEF Turns!Inv, Turns!OneTurn, Turns!Active, Turns!InService, Turns!TypeOK
<1>4. Turns!Holder = "none" /\ Turns!Holder' = f
  <2>1. Turns!Holder = "none"
    BY <1>3 DEF Turns!Holder
  <2>2. Turns!InService' = {f}
    BY <1>1, <1>3 DEF Turns!InService, Turns!Inv, Turns!TypeOK
  <2>3. QED  BY <2>1, <2>2 DEF Turns!Holder
<1>5. Turns!Waiting = turnsLine /\ Turns!Waiting' = Tail(turnsLine)
  BY <1>1, <1>2, <1>3 DEF Turns!Waiting
<1>6. Turns!Callers!Grant
  BY <1>2, <1>4, <1>5 DEF Turns!Callers!Grant, Turns!Waiting, Turns!Holder
<1>7. QED  BY <1>6 DEF Turns!Stepped, Turns!Callers!Next

(* What the callers see of a turn that is handed on while nobody else is   *)
(* active: a flow that is served leaves, one that is not gives up.         *)
LEMMA TurnsStepHandOn ==
  ASSUME Turns!Setting, Turns!Inv, Turns!Inv', Turns!ReleaseTurn, NEW f \in Flows,
         Turns!Active(f),
         turnsPc' = [turnsPc EXCEPT ![f] = "idle"]
  PROVE  Turns!Stepped
<1>1. Turns!InService' = {} /\ Turns!Holder' = "none"
  BY DEF Turns!Inv, Turns!OneTurn, Turns!Active, Turns!InService, Turns!TypeOK,
     Turns!Holder
<1>2. Turns!Waiting' = turnsLine'
  BY <1>1 DEF Turns!Waiting
<1>3. CASE turnsResolveTurn = "none"
  <2>1. turnsLine' = turnsLine
    BY <1>3, TurnHandedOn
  <2>2. turnsLine # <<>> => Head(turnsLine) \notin Turns!InService
    BY <1>3, TurnsHeadInLine
       DEF Turns!Inv, Turns!OneTurn, Turns!InService, Turns!Active, Turns!Setting
  <2>3. Turns!Waiting = turnsLine
    BY <2>2 DEF Turns!Waiting
  <2>4. CASE Turns!Holder = "none"
    BY <1>1, <1>2, <2>1, <2>3, <2>4 DEF Turns!Stepped
  <2>5. CASE Turns!Holder # "none"
    <3>1. Turns!Callers!Release
      BY <1>1, <1>2, <2>1, <2>3, <2>5
         DEF Turns!Callers!Release, Turns!Waiting, Turns!Holder
    <3>2. QED  BY <3>1 DEF Turns!Stepped, Turns!Callers!Next
  <2>6. QED  BY <2>4, <2>5
<1>4. CASE turnsResolveTurn # "none"
  <2>1. turnsLine # <<>> /\ Head(turnsLine) = turnsResolveTurn /\ turnsLine' = Tail(turnsLine)
           /\ turnsResolveTurn = f
    BY <1>4, TurnHandedOn DEF Turns!Inv, Turns!OneTurn, Turns!TypeOK
  <2>2. CASE f \in Turns!InService
    <3>1. Turns!Waiting = Tail(turnsLine) /\ Turns!Holder # "none"
      BY <2>1, <2>2, TurnsHolderIs DEF Turns!Waiting
    <3>2. Turns!Callers!Release
      BY <1>1, <1>2, <2>1, <3>1 DEF Turns!Callers!Release, Turns!Waiting, Turns!Holder
    <3>3. QED  BY <3>2 DEF Turns!Stepped, Turns!Callers!Next
  <2>3. CASE f \notin Turns!InService
    <3>1. Turns!Waiting = turnsLine /\ Turns!Holder = "none"
      <4>1. Turns!InService = {}
        BY <2>3 DEF Turns!Inv, Turns!OneTurn, Turns!Active, Turns!InService
      <4>2. QED  BY <2>1, <2>3, <4>1 DEF Turns!Waiting, Turns!Holder
    <3>2. Turns!Callers!GiveUp
      BY <1>1, <1>2, <2>1, <3>1 DEF Turns!Callers!GiveUp, Turns!Waiting, Turns!Holder
    <3>3. QED  BY <3>2 DEF Turns!Stepped, Turns!Callers!Next
  <2>4. QED  BY <2>2, <2>3
<1>5. QED  BY <1>3, <1>4

LEMMA TurnsStepCleanup ==
  ASSUME Turns!Setting, Turns!Inv, Turns!Inv',
         Turns!Cleanup \/ Turns!RetireDrained \/ Turns!RetireForced \/ Turns!TornDown
            \/ Turns!PeerTakes \/ Turns!PeerReleases
  PROVE  Turns!Stepped
<1>1. Turns!InService' = Turns!InService /\ Turns!Holder' = Turns!Holder /\ turnsPc' = turnsPc
  <2>1. turnsPc' = turnsPc
    BY DEF Turns!Cleanup, Turns!RetireDrained, Turns!RetireForced, Turns!TornDown,
       Turns!PeerTakes, Turns!PeerReleases
  <2>2. Turns!InService' = Turns!InService
    BY <2>1 DEF Turns!InService
  <2>3. QED  BY <2>1, <2>2 DEF Turns!Holder
<1>2. CASE turnsLine' = turnsLine
  BY <1>1, <1>2 DEF Turns!Stepped, Turns!Waiting
<1>3. CASE turnsLine # <<>> /\ turnsLine' = Tail(turnsLine)
  <2>1. turnsLine' # <<>> => turnsPc'[Head(turnsLine')] = "queued"
    BY <1>1, <1>3, TurnsTailInOrder, TurnsHeadInLine DEF Turns!Inv
  <2>2. Turns!Waiting' = Tail(turnsLine)
    BY <1>3, <2>1, TurnsWaitingWithoutFirst
  <2>3. CASE Head(turnsLine) \in Turns!InService
    BY <1>1, <1>3, <2>2, <2>3 DEF Turns!Stepped, Turns!Waiting
  <2>4. CASE Head(turnsLine) \notin Turns!InService
    <3>1. Turns!Waiting = turnsLine
      BY <2>4 DEF Turns!Waiting
    <3>2. Turns!Callers!GiveUp
      BY <1>1, <1>3, <2>2, <3>1 DEF Turns!Callers!GiveUp, Turns!Waiting, Turns!Holder
    <3>3. QED  BY <3>2 DEF Turns!Stepped, Turns!Callers!Next
  <2>5. QED  BY <2>3, <2>4
<1>4. QED
  BY <1>2, <1>3, TurnHandedOn
     DEF Turns!Cleanup, Turns!RetireDrained, Turns!RetireForced, Turns!TornDown,
         Turns!PeerTakes, Turns!PeerReleases

LEMMA TurnsEveryStep ==
  ASSUME Turns!Setting, Turns!Inv, Turns!Inv', [Turns!Next]_Turns!vars
     PROVE  Turns!Stepped
<1>1. CASE UNCHANGED Turns!vars
  BY <1>1 DEF Turns!Stepped, Turns!Waiting, Turns!Holder, Turns!InService, Turns!vars
<1>2. ASSUME NEW f \in Flows,
             Turns!AcquireFails(f) \/ Turns!ReleaseForfeited(f) \/ Turns!Released(f)
      PROVE  Turns!Stepped
  BY <1>2, TurnsStepHandOn
     DEF Turns!AcquireFails, Turns!ReleaseForfeited, Turns!Released, Turns!Goto,
         Turns!Active
<1>3. QED
  BY <1>1, <1>2, TurnsStepCall, TurnsStepRefuse, TurnsStepGoOn, TurnsStepCommit,
     TurnsStepCleanup DEF Turns!Next, Turns!Proceed

(* Callers are served one at a time, first come, first served, and alone   *)
(* but for siblings that share a Set of held keys.                         *)
THEOREM TurnsAreFifo == Turns!Spec => ImplementsFifoLock
<1> Turns!Setting
  BY FlowSetting DEF Turns!Setting
<1>1. Turns!Init => Turns!Inv
  <2>1. Turns!Init => Turns!TypeOK
    <3>1. << >> \in Seq(Flows)
      OBVIOUS
    <3>2. QED  BY <3>1, Zenon DEF Turns!Init, Turns!TypeOK
  <2>2. Turns!Init => Turns!InOrder /\ Turns!OneTurn /\ Turns!Held
    BY DEF Turns!Init, Turns!InOrder, Turns!OneTurn, Turns!Held, Turns!Active,
       Turns!InService
  <2>3. QED  BY <2>1, <2>2 DEF Turns!Inv
<1>2. Turns!Inv /\ [Turns!Next]_Turns!vars => Turns!Inv'
  BY TurnsInvStep
<1>3. Turns!Init => Turns!Callers!Init
  BY DEF Turns!Init, Turns!Callers!Init, Turns!InService, Turns!Waiting, Turns!Holder
<1>4. Turns!Inv /\ Turns!Inv' /\ [Turns!Next]_Turns!vars => [Turns!Callers!Next]_Turns!Callers!vars
  BY TurnsEveryStep DEF Turns!Stepped, Turns!Waiting, Turns!Holder, Turns!Callers!vars
<1>5. Turns!Inv => Turns!SerializedButForSiblings
  BY DEF Turns!Inv, Turns!OneTurn, Turns!Active, Turns!SerializedButForSiblings,
     Turns!Inside
<1>6. QED  BY <1>1, <1>2, <1>3, <1>4, <1>5, PTL
   DEF Turns!Spec, ImplementsFifoLock, Turns!ImplementsFifoLock, Turns!Callers!Spec

-----------------------------------------------------------------------------
(* The queue of embeddings: what is inside is what currentWork names.      *)
LEMMA QueueInvStep ==
  ASSUME Queue!QueueInv, [Queue!Next]_Queue!queueVars  PROVE  Queue!QueueInv'
<1>1. ASSUME NEW r \in Requests, Queue!Ask(r)  PROVE  Queue!QueueInv'
  BY <1>1, RequestSetting DEF Queue!QueueInv, Queue!Ask, Queue!Admits, Queue!Begin
<1>2. ASSUME NEW r \in Requests, Queue!Settle(r)  PROVE  Queue!QueueInv'
  BY <1>2 DEF Queue!QueueInv, Queue!Settle
<1>3. CASE Queue!Pump
  <2>1. CASE queueTasks = << >>
    BY <1>3, <2>1 DEF Queue!QueueInv, Queue!Pump
  <2>2. CASE queueTasks # << >>
    <3>1. Head(queueTasks) \in Requests /\ Tail(queueTasks) \in Seq(Requests)
      BY <2>2 DEF Queue!QueueInv
    <3>2. QED  BY <1>3, <2>2, <3>1, RequestSetting
       DEF Queue!QueueInv, Queue!Pump, Queue!Begin
  <2>3. QED  BY <2>1, <2>2
<1>4. CASE Queue!HardDeadline
  BY <1>4 DEF Queue!QueueInv, Queue!HardDeadline
<1>5. ASSUME NEW r \in Requests, Queue!SoftTimeout(r)  PROVE  Queue!QueueInv'
  BY <1>5 DEF Queue!QueueInv, Queue!SoftTimeout
<1>6. CASE Queue!Shutdown \/ Queue!Closed \/ Queue!WaitForIdle \/ Queue!Disposed
  BY <1>6
     DEF Queue!QueueInv, Queue!Shutdown, Queue!Closed, Queue!WaitForIdle, Queue!Disposed
<1>7. CASE UNCHANGED Queue!queueVars
  BY <1>7 DEF Queue!QueueInv, Queue!queueVars
<1>8. QED  BY <1>1, <1>2, <1>3, <1>4, <1>5, <1>6, <1>7 DEF Queue!Next, Queue!Timers

(* One native call at a time, for any number of requests, whichever of     *)
(* them hang and however deep the queue.                                   *)
THEOREM OneAtATime == Queue!Spec => []OneNativeCall
<1>1. Queue!Init => Queue!QueueInv
  BY DEF Queue!Init, Queue!QueueInv
<1>2. Queue!QueueInv /\ [Queue!Next]_Queue!queueVars => Queue!QueueInv'
  BY QueueInvStep
<1>3. Queue!QueueInv => OneNativeCall
  BY DEF Queue!QueueInv, OneNativeCall, Queue!OneNativeCall
<1>4. QED  BY <1>1, <1>2, <1>3, PTL DEF Queue!Spec

-----------------------------------------------------------------------------
(* The rounds of a research run.  A step of the run's own moves what it    *)
(* announces and ends; what the user does moves neither.                   *)
LEMMA RoundsInvEnter ==
  ASSUME Rounds!RoundsInv, Rounds!Enter  PROVE  Rounds!RoundsInv'
BY DEF Rounds!RoundsInv, Rounds!Numbers, Rounds!Announced, Rounds!OneEnd, Rounds!Enter,
   Rounds!Announce, Rounds!events, Rounds!collected

LEMMA RoundsInvUser ==
  ASSUME Rounds!RoundsInv, Rounds!Steer \/ Rounds!Cancel \/ Rounds!Begin
  PROVE  Rounds!RoundsInv'
BY DEF Rounds!RoundsInv, Rounds!Numbers, Rounds!Announced, Rounds!OneEnd, Rounds!Steer,
   Rounds!Cancel, Rounds!Begin, Rounds!events, Rounds!collected

LEMMA RoundsInvDecided ==
  ASSUME Rounds!RoundsInv,
         Rounds!DecidedToFinish \/ Rounds!DecidedToWait \/ Rounds!DecidedToDelegate
  PROVE  Rounds!RoundsInv'
BY DEF Rounds!RoundsInv, Rounds!Numbers, Rounds!Announced, Rounds!OneEnd,
   Rounds!DecidedToFinish, Rounds!DecidedToWait, Rounds!DecidedToDelegate, Rounds!events,
   Rounds!collected

LEMMA RoundsInvResearched ==
  ASSUME Rounds!RoundsInv, NEW found \in BOOLEAN, NEW failed,
         Rounds!Researched(found, failed)
  PROVE  Rounds!RoundsInv'
<1>1. /\ roundsDoing' \in {"entering", "throwing"} /\ roundsDoing = "researching"
      /\ UNCHANGED <<roundsCurrentRound, roundsLastAnnouncedRound, Rounds!events>>
  BY DEF Rounds!Researched
<1>2. QED
  BY <1>1 DEF Rounds!RoundsInv, Rounds!Numbers, Rounds!Announced, Rounds!OneEnd, Rounds!events

LEMMA RoundsInvEnds ==
  ASSUME Rounds!RoundsInv,
         \/ Rounds!Conclude \/ Rounds!Throw \/ Rounds!Caught \/ Rounds!FallbackFails
         \/ Rounds!WaitEnds
         \/ \E empty \in BOOLEAN : Rounds!Written(empty)
  PROVE  Rounds!RoundsInv'
BY DEF Rounds!RoundsInv, Rounds!Numbers, Rounds!Announced, Rounds!OneEnd, Rounds!Conclude,
   Rounds!Throw, Rounds!Caught, Rounds!FallbackFails, Rounds!WaitEnds, Rounds!Written,
   Rounds!Announce,
   Rounds!Complete, Rounds!Fail, Rounds!events, Rounds!collected

(* round_start names 1, 2, 3, ... once each, one terminal callback ends    *)
(* the run, and what it collected is handed over: for any number of        *)
(* rounds, waits, extensions and messages.                                 *)
THEOREM EveryRunAddsUp == Rounds!Spec => []OneOutcome
<1>1. Rounds!Init => Rounds!RoundsInv
  BY DEF Rounds!Init, Rounds!RoundsInv, Rounds!Numbers, Rounds!Announced, Rounds!OneEnd
<1>2. Rounds!RoundsInv /\ [Rounds!Next]_Rounds!roundsVars => Rounds!RoundsInv'
  <2>1. CASE UNCHANGED Rounds!roundsVars
    BY <2>1 DEF Rounds!RoundsInv, Rounds!Numbers, Rounds!Announced, Rounds!OneEnd,
       Rounds!roundsVars
  <2>2. QED
    BY <2>1, RoundsInvEnter, RoundsInvUser, RoundsInvDecided, RoundsInvResearched,
       RoundsInvEnds DEF Rounds!Next, Rounds!Rounds
<1>3. Rounds!RoundsInv => OneOutcome
  BY DEF Rounds!RoundsInv, Rounds!Numbers, Rounds!Announced, Rounds!OneEnd, OneOutcome,
     Rounds!OneOutcome
<1>4. QED  BY <1>1, <1>2, <1>3, PTL DEF Rounds!Spec

-----------------------------------------------------------------------------
(* All of it, of the runs of the composition.                              *)
THEOREM Progress ==
  SafetySpec => [](OneNativeCall /\ OneOutcome) /\ ImplementsFifoLock
BY Components, TurnsAreFifo, OneAtATime, EveryRunAddsUp, PTL
=============================================================================
