--------------------------- MODULE ResourcesProofs --------------------------
(***************************************************************************)
(* What holds of the components of MCResources for every value of their    *)
(* constants.  The run semaphore: every number of slots, every set of runs *)
(* and processes, every scenario of cancels, deaths, breakage and failing  *)
(* releases.  The worker pools: any number of calls, shapes, pools,        *)
(* shutdowns and errors.                                                   *)
(***************************************************************************)
EXTENDS MCResources, FiniteSetTheorems, TLAPS

-----------------------------------------------------------------------------
(* Arithmetic of the rotating start index.                                 *)
LEMMA SlotsExist ==
  /\ 0 \in Slot
  /\ IsFiniteSet(Slot) /\ Cardinality(Slot) = MaxSlots
<1>1. MaxSlots - 1 \in Int /\ 0 \in Int /\ ~(0 > MaxSlots - 1)
  BY AtLeastOneSlot
<1> QED BY <1>1, AtLeastOneSlot, FS_Interval DEF Slot

LEMMA Wrapped ==
  ASSUME NEW n \in Nat  PROVE  n % MaxSlots \in Slot
BY AtLeastOneSlot DEF Slot

LEMMA TargetIsSlot ==
  ASSUME TypeOK, NEW r \in Run  PROVE  Target(r) \in Slot
<1>1. sweep[r].start + sweep[r].offset \in Nat
  BY AtLeastOneSlot DEF TypeOK, Slot
<1> QED BY <1>1, Wrapped DEF Target

-----------------------------------------------------------------------------
LEMMA RecallTyped ==
  ASSUME TypeOK, NEW fresh, Recall(fresh)
  PROVE  /\ open' \in [Run -> SUBSET Slot]
         /\ intact' \in [Run -> SUBSET Slot]
         /\ shut' \in [Run -> SUBSET Slot]
BY DEF TypeOK, Recall

LEMMA BeginSweepTyped ==
  ASSUME TypeOK, NEW r \in Run, BeginSweep(r)  PROVE  TypeOK'
<1>1. ProcessOf[r] \in Process /\ nextStart[ProcessOf[r]] \in Slot
  BY RunsRunSomewhere DEF TypeOK
<1>2. (nextStart[ProcessOf[r]] + 1) % MaxSlots \in Slot
  BY <1>1, Wrapped DEF Slot
<1>3. nextStart' \in [Process -> Slot]
  BY <1>1, <1>2 DEF BeginSweep, TypeOK
<1>4. sweep' \in [Run -> [start: Slot, offset: Slot, broken: 0 .. MaxSlots]]
  BY <1>1, SlotsExist, AtLeastOneSlot DEF BeginSweep, TypeOK
<1> QED BY <1>3, <1>4, RecallTyped DEF BeginSweep, TypeOK, env

(* Trying one more slot, the errored ones are at most those tried.         *)
CountsTried == \A r \in Run : sweep[r].broken =< sweep[r].offset

LEMMA TrySlotTyped ==
  ASSUME TypeOK, CountsTried, NEW r \in Run, TrySlot(r)  PROVE  TypeOK' /\ CountsTried'
<1> DEFINE i == Target(r)
           errored == sweep[r].broken + (IF i \in broken THEN 1 ELSE 0)
<1>1. i \in Slot
  BY TargetIsSlot
<1>2. slot' \in [Slot -> Run \cup {Free, Torn, Expired}]
  BY <1>1 DEF TrySlot, TypeOK
<1>3. AfterSweep(r, errored) \in {"uncapped", "refused", "asleep"}
  BY DEF AfterSweep
<1>4. pc' \in [Run -> {"idle", "trying", "asleep", "admitted", "uncapped", "releasing",
                       "refused", "cancelled", "done", "dead"}]
  BY <1>3 DEF TrySlot, TypeOK
<1>5. sweep[r].start \in Slot /\ sweep[r].offset \in Slot /\ sweep[r].broken \in 0 .. MaxSlots
  BY DEF TypeOK
<1>6. CASE sweep' = [sweep EXCEPT ![r] = NoSweep]
  <2>1. NoSweep \in [start: Slot, offset: Slot, broken: 0 .. MaxSlots]
    BY SlotsExist, AtLeastOneSlot DEF NoSweep
  <2>2. sweep' \in [Run -> [start: Slot, offset: Slot, broken: 0 .. MaxSlots]] /\ CountsTried'
    BY <1>6, <2>1 DEF TypeOK, CountsTried, NoSweep
  <2> QED BY <2>2, <1>2, <1>4, RecallTyped DEF TrySlot, TypeOK, env
<1>7. CASE /\ sweep[r].offset # MaxSlots - 1
           /\ sweep' = [sweep EXCEPT ![r] =
                          [start |-> sweep[r].start, offset |-> sweep[r].offset + 1,
                           broken |-> errored]]
  <2>1. sweep[r].offset + 1 \in Slot
    BY <1>5, <1>7, AtLeastOneSlot DEF Slot
  <2>2. errored \in 0 .. MaxSlots /\ errored =< sweep[r].offset + 1
    BY <1>5, <2>1, AtLeastOneSlot DEF CountsTried, Slot
  <2> HIDE DEF errored
  <2>3. sweep' \in [Run -> [start: Slot, offset: Slot, broken: 0 .. MaxSlots]] /\ CountsTried'
    BY <1>5, <1>7, <2>1, <2>2 DEF TypeOK, CountsTried
  <2> QED BY <2>3, <1>2, <1>4, RecallTyped DEF TrySlot, TypeOK, env
<1>8. \/ sweep' = [sweep EXCEPT ![r] = NoSweep]
      \/ /\ sweep[r].offset # MaxSlots - 1
         /\ sweep' = [sweep EXCEPT ![r] =
                        [start |-> sweep[r].start, offset |-> sweep[r].offset + 1,
                           broken |-> errored]]
  <2>1. CASE (i \notin broken /\ Takeable(i)) \/ sweep[r].offset = MaxSlots - 1
    BY <2>1 DEF TrySlot
  <2>2. CASE ~((i \notin broken /\ Takeable(i)) \/ sweep[r].offset = MaxSlots - 1)
    BY <2>2 DEF TrySlot
  <2> QED BY <2>1, <2>2
<1> QED BY <1>6, <1>7, <1>8

LEMMA BeginSweepCounts ==
  ASSUME TypeOK, CountsTried, NEW r \in Run, BeginSweep(r)  PROVE  CountsTried'
BY DEF BeginSweep, TypeOK, CountsTried

LEMMA InitTyped == Init => TypeOK /\ CountsTried
<1> SUFFICES ASSUME Init PROVE TypeOK /\ CountsTried
  OBVIOUS
<1>1. NoSweep \in [start: Slot, offset: Slot, broken: 0 .. MaxSlots]
  BY SlotsExist, AtLeastOneSlot DEF NoSweep
<1>2. TypeOK
  BY <1>1, SlotsExist DEF Init, TypeOK
<1>3. CountsTried
  BY DEF Init, CountsTried, NoSweep
<1> QED BY <1>2, <1>3

(* Every variable keeps its type, and no sweep counts more errored slots   *)
(* than it has tried.                                                      *)
THEOREM TypeCorrect == Spec => [](TypeOK /\ CountsTried)
<1>1. ASSUME TypeOK, CountsTried, [Next]_vars PROVE TypeOK' /\ CountsTried'
  <2> USE <1>1
  <2>1. ASSUME NEW r \in Run, Enter(r) PROVE TypeOK' /\ CountsTried'
    <3>1. CASE r \in aborted
      BY <2>1, <3>1, RecallTyped DEF Enter, TypeOK, CountsTried, env
    <3>2. CASE r \notin aborted
      BY <2>1, <3>2, BeginSweepTyped, BeginSweepCounts DEF Enter
    <3> QED BY <3>1, <3>2
  <2>2. ASSUME NEW r \in Run, TrySlot(r) PROVE TypeOK' /\ CountsTried'
    BY <2>2, TrySlotTyped
  <2>3. ASSUME NEW r \in Run, Wake(r) PROVE TypeOK' /\ CountsTried'
    BY <2>3, BeginSweepTyped, BeginSweepCounts DEF Wake
  <2>4. ASSUME NEW r \in Run, Abort(r) \/ DeadlinePasses(r) \/ Finish(r)
        PROVE  TypeOK' /\ CountsTried'
    BY <2>4, RecallTyped DEF Abort, DeadlinePasses, Finish, TypeOK, CountsTried, env
  <2>5. ASSUME NEW r \in Run, Release(r) PROVE TypeOK' /\ CountsTried'
    BY <2>5, RecallTyped DEF Release, TypeOK, CountsTried, env
  <2>6. ASSUME NEW p \in Process, Crash(p) PROVE TypeOK' /\ CountsTried'
    <3>1. NoSweep \in [start: Slot, offset: Slot, broken: 0 .. MaxSlots]
      BY SlotsExist, AtLeastOneSlot DEF NoSweep
    <3>2. /\ sweep' \in [Run -> [start: Slot, offset: Slot, broken: 0 .. MaxSlots]]
          /\ CountsTried'
      BY <2>6, <3>1 DEF Crash, TypeOK, CountsTried, NoSweep
    <3>3. slot' \in [Slot -> Run \cup {Free, Torn, Expired}]
      BY <2>6, TargetIsSlot DEF Crash, TypeOK
    <3> QED BY <2>6, <3>2, <3>3, RecallTyped DEF Crash, TypeOK
  <2>7. ASSUME NEW i \in Slot, TornExpires(i) \/ Break(i) PROVE TypeOK' /\ CountsTried'
    BY <2>7, RecallTyped DEF TornExpires, Break, TypeOK, CountsTried, env
  <2>8. CASE UNCHANGED vars
    BY <2>8 DEF vars, env, hist, TypeOK, CountsTried
  <2> QED
    BY <2>1, <2>2, <2>3, <2>4, <2>5, <2>6, <2>7, <2>8 DEF Next
<1> QED BY <1>1, InitTyped, PTL DEF Spec

-----------------------------------------------------------------------------
(* The slot files and the runs that own them.  A slot is stolen only from  *)
(* a run whose process is dead, and such a run is no longer inside: so who *)
(* is inside keeps the file that names it.                                 *)
EveryCappedRunOwns == \A r \in Capped : \E i \in Slot : slot[i] = r

NobodyOwnsTwo == \A i, j \in Slot : slot[i] \in Run /\ slot[i] = slot[j] => i = j

OnlyAdmittedOwn ==
  \A i \in Slot : slot[i] \in Run => pc[slot[i]] \in {"admitted", "releasing", "done", "dead"}

TheDeadAreDead == \A r \in Run : pc[r] = "dead" <=> ProcessOf[r] \notin alive

SlotInv == /\ EveryCappedRunOwns /\ NobodyOwnsTwo /\ OnlyAdmittedOwn
           /\ TheDeadAreDead /\ NoLeakedSlot

(* Steps that move no file, and no run in or out.                          *)
LEMMA SlotsUntouched ==
  ASSUME TypeOK, SlotInv,
         slot' = slot, alive' = alive, leaked' = leaked,
         \A r \in Run : \/ pc'[r] = pc[r]
                        \/ /\ pc[r] \in {"idle", "trying", "asleep", "uncapped"}
                           /\ pc'[r] \notin {"admitted", "releasing", "dead"}
                        \/ pc[r] = "admitted" /\ pc'[r] = "releasing"
  PROVE  SlotInv'
BY DEF TypeOK, SlotInv, EveryCappedRunOwns, NobodyOwnsTwo, OnlyAdmittedOwn, TheDeadAreDead,
       NoLeakedSlot, Capped

LEMMA TrySlotKeepsSlots ==
  ASSUME TypeOK, SlotInv, NEW r \in Run, TrySlot(r)  PROVE  SlotInv'
<1> DEFINE i == Target(r)
           errored == sweep[r].broken + (IF i \in broken THEN 1 ELSE 0)
<1>1. i \in Slot
  BY TargetIsSlot
<1>2. AfterSweep(r, errored) \in {"uncapped", "refused", "asleep"}
  BY DEF AfterSweep
<1>3. CASE i \notin broken /\ Takeable(i)
  <2> HIDE DEF i, errored
  <2>1. slot' = [slot EXCEPT ![i] = r] /\ pc' = [pc EXCEPT ![r] = "admitted"]
    BY <1>3 DEF TrySlot, i
  <2>2. alive' = alive /\ leaked' = leaked /\ ProcessOf[r] \in alive /\ pc[r] = "trying"
    BY DEF TrySlot, env
  <2>3. \A j \in Slot : slot[j] # r
    BY <2>2 DEF SlotInv, OnlyAdmittedOwn
  <2>4. slot[i] \notin Capped
    BY <1>1, <1>3, NotARun DEF Takeable, TakeableIn, SlotInv, TheDeadAreDead, Capped, TypeOK
  <2> QED
    BY <1>1, <2>1, <2>2, <2>3, <2>4
       DEF TypeOK, SlotInv, EveryCappedRunOwns, NobodyOwnsTwo, OnlyAdmittedOwn, TheDeadAreDead,
           NoLeakedSlot, Capped
<1>4. CASE ~(i \notin broken /\ Takeable(i))
  <2>1. slot' = slot /\ alive' = alive /\ leaked' = leaked /\ pc[r] = "trying"
    BY <1>4 DEF TrySlot, env
  <2>2. \E l \in {"trying", "uncapped", "refused", "asleep"} : pc' = [pc EXCEPT ![r] = l]
    BY <1>2, <1>4 DEF TrySlot
  <2> QED BY <2>1, <2>2, SlotsUntouched DEF TypeOK
<1> QED BY <1>3, <1>4

LEMMA ReleaseKeepsSlots ==
  ASSUME TypeOK, SlotInv, NEW r \in Run, Release(r)  PROVE  SlotInv'
<1>1. /\ pc[r] = "releasing" /\ pc' = [pc EXCEPT ![r] = "done"]
      /\ alive' = alive
  BY DEF Release, env
<1>2. PICK i \in Slot : /\ slot[i] = r
                        /\ \/ slot' = [slot EXCEPT ![i] = Free] /\ leaked' = leaked
                           \/ slot' = slot /\ leaked' = leaked \cup {r}
  BY DEF Release
<1>3. \A j \in Slot : slot[j] = r => j = i
  BY <1>2 DEF SlotInv, NobodyOwnsTwo
<1>4. CASE slot' = [slot EXCEPT ![i] = Free] /\ leaked' = leaked
  BY <1>1, <1>2, <1>3, <1>4, NotARun
     DEF TypeOK, SlotInv, EveryCappedRunOwns, NobodyOwnsTwo, OnlyAdmittedOwn, TheDeadAreDead,
         NoLeakedSlot, Capped
<1>5. CASE slot' = slot /\ leaked' = leaked \cup {r}
  BY <1>1, <1>2, <1>3, <1>5
     DEF TypeOK, SlotInv, EveryCappedRunOwns, NobodyOwnsTwo, OnlyAdmittedOwn, TheDeadAreDead,
         NoLeakedSlot, Capped
<1> QED BY <1>2, <1>4, <1>5

LEMMA CrashKeepsSlots ==
  ASSUME TypeOK, SlotInv, NEW p \in Process, Crash(p)  PROVE  SlotInv'
<1>1. /\ alive' = alive \ {p} /\ leaked' = leaked
      /\ pc' = [r \in Run |-> IF ProcessOf[r] = p THEN "dead" ELSE pc[r]]
  BY DEF Crash
<1>2. \A i \in Slot : slot'[i] = slot[i] \/ (slot[i] = Free /\ slot'[i] = Torn)
  <2>1. CASE slot' = slot
    BY <2>1
  <2>2. ASSUME NEW r \in Run, slot[Target(r)] = Free,
               slot' = [slot EXCEPT ![Target(r)] = Torn]
        PROVE  \A i \in Slot : slot'[i] = slot[i] \/ (slot[i] = Free /\ slot'[i] = Torn)
    BY <2>2, TargetIsSlot DEF TypeOK
  <2> QED BY <2>1, <2>2 DEF Crash
<1>3. \A i \in Slot : slot'[i] \in Run \/ slot[i] \in Run => slot'[i] = slot[i]
  BY <1>2, NotARun
<1> QED
  BY <1>1, <1>3, RunsRunSomewhere
     DEF TypeOK, SlotInv, EveryCappedRunOwns, NobodyOwnsTwo, OnlyAdmittedOwn, TheDeadAreDead,
         NoLeakedSlot, Capped

(* In every reachable state the files and their owners agree.             *)
THEOREM SlotsAreOwned == Spec => []SlotInv
<1>1. Init => SlotInv
  BY RunsRunSomewhere, NotARun
     DEF Init, SlotInv, EveryCappedRunOwns, NobodyOwnsTwo, OnlyAdmittedOwn, TheDeadAreDead,
         NoLeakedSlot, Capped
<1>2. ASSUME TypeOK, TypeOK', SlotInv, [Next]_vars PROVE SlotInv'
  <2> USE <1>2
  <2>1. ASSUME NEW r \in Run, Enter(r) \/ Wake(r) \/ Abort(r) \/ DeadlinePasses(r) \/ Finish(r)
        PROVE  SlotInv'
    <3>1. slot' = slot /\ alive' = alive /\ leaked' = leaked
      BY <2>1 DEF Enter, Wake, BeginSweep, Abort, DeadlinePasses, Finish, env
    <3>2. \A q \in Run : \/ pc'[q] = pc[q]
                         \/ /\ pc[q] \in {"idle", "trying", "asleep", "uncapped"}
                            /\ pc'[q] \notin {"admitted", "releasing", "dead"}
                         \/ pc[q] = "admitted" /\ pc'[q] = "releasing"
      BY <2>1 DEF Enter, Wake, BeginSweep, Abort, DeadlinePasses, Finish, TypeOK
    <3> QED BY <3>1, <3>2, SlotsUntouched
  <2>2. ASSUME NEW r \in Run, TrySlot(r) \/ Release(r) PROVE SlotInv'
    BY <2>2, TrySlotKeepsSlots, ReleaseKeepsSlots
  <2>3. ASSUME NEW p \in Process, Crash(p) PROVE SlotInv'
    BY <2>3, CrashKeepsSlots
  <2>4. ASSUME NEW i \in Slot, TornExpires(i) PROVE SlotInv'
    BY <2>4, NotARun
       DEF TornExpires, env, TypeOK, SlotInv, EveryCappedRunOwns, NobodyOwnsTwo, OnlyAdmittedOwn,
           TheDeadAreDead, NoLeakedSlot, Capped
  <2>5. ASSUME NEW i \in Slot, Break(i) PROVE SlotInv'
    BY <2>5 DEF Break, SlotInv, EveryCappedRunOwns, NobodyOwnsTwo, OnlyAdmittedOwn,
                TheDeadAreDead, NoLeakedSlot, Capped
  <2>6. CASE UNCHANGED vars
    BY <2>6 DEF vars, env, SlotInv, EveryCappedRunOwns, NobodyOwnsTwo, OnlyAdmittedOwn,
                TheDeadAreDead, NoLeakedSlot, Capped
  <2> QED BY <2>1, <2>2, <2>3, <2>4, <2>5, <2>6 DEF Next
<1> QED BY <1>1, <1>2, TypeCorrect, PTL DEF Spec

-----------------------------------------------------------------------------
(* The cap holds, for any number of slots and runs: who is inside owns a   *)
(* file of its own, and there are MaxSlots files.                          *)
THEOREM Cap == Spec => []CapHolds
<1>1. SlotInv => CapHolds
  <2> SUFFICES ASSUME SlotInv PROVE Cardinality(Capped) =< MaxSlots
    BY DEF CapHolds
  <2> DEFINE file == [r \in Capped |-> CHOOSE i \in Slot : slot[i] = r]
  <2>1. \A r \in Capped : file[r] \in Slot /\ slot[file[r]] = r
    BY DEF SlotInv, EveryCappedRunOwns
  <2>2. file \in Injection(Capped, Slot)
    <3>1. file \in [Capped -> Slot]
      BY <2>1
    <3>2. \A q, r \in Capped : file[q] = file[r] => q = r
      BY <2>1
    <3> HIDE DEF file
    <3> QED BY <3>1, <3>2 DEF Injection, IsInjective
  <2>3. Cardinality(Capped) =< Cardinality(Slot)
    BY <2>2, SlotsExist, FS_Injection
  <2> QED BY <2>3, SlotsExist
<1> QED BY <1>1, SlotsAreOwned, PTL

(* Every run inside owns exactly one slot file.                            *)
THEOREM Ownership == Spec => []AdmittedOwnsASlot
<1>1. SlotInv => AdmittedOwnsASlot
  <2> SUFFICES ASSUME SlotInv, NEW r \in Capped
               PROVE  Cardinality({i \in Slot : slot[i] = r}) = 1
    BY DEF AdmittedOwnsASlot
  <2>1. PICK i \in Slot : slot[i] = r
    BY DEF SlotInv, EveryCappedRunOwns
  <2>2. {j \in Slot : slot[j] = r} = {i}
    BY <2>1 DEF SlotInv, NobodyOwnsTwo, Capped
  <2> QED BY <2>2, FS_Singleton
<1> QED BY <1>1, SlotsAreOwned, PTL

(* No slot leaks, save by an unlink that fails.                            *)
THEOREM NoLeak == Spec => []NoLeakedSlot
<1>1. SlotInv => NoLeakedSlot
  BY DEF SlotInv
<1> QED BY <1>1, SlotsAreOwned, PTL

-----------------------------------------------------------------------------
(* What a sweep has learned.  The slots tried are those between the start  *)
(* index and the offset, wrapped; the verdict at the end of the sweep      *)
(* speaks of all slots because by then the offset has gone round once.     *)
Tried(r, i) == \E j \in Nat : j < sweep[r].offset /\ i = (sweep[r].start + j) % MaxSlots

Remembered(r) ==
  /\ \A i \in open[r] : Takeable(i) /\ i \notin broken
  /\ \A i \in intact[r] : i \notin broken
  /\ shut[r] \subseteq broken

Learned(r) ==
  /\ \A i \in Slot : Tried(r, i) => i \notin open[r]
  /\ sweep[r].broken = sweep[r].offset => \A i \in Slot : Tried(r, i) => i \notin intact[r]
  /\ sweep[r].broken < sweep[r].offset => \E i \in Slot : Tried(r, i) /\ i \notin shut[r]

SweepInv == \A r \in Run : pc[r] = "trying" => Remembered(r) /\ Learned(r)

LEMMA ModuloWraps ==
  ASSUME NEW k \in Slot
  PROVE  k % MaxSlots = k /\ (k + MaxSlots) % MaxSlots = k
BY AtLeastOneSlot DEF Slot

LEMMA OnceRound ==
  ASSUME TypeOK, NEW r \in Run, sweep[r].offset = MaxSlots - 1, NEW k \in Slot
  PROVE  k = Target(r) \/ Tried(r, k)
<1> DEFINE s == sweep[r].start
           j == IF k >= s THEN k - s ELSE k - s + MaxSlots
<1>1. s \in 0 .. MaxSlots - 1 /\ k \in 0 .. MaxSlots - 1 /\ MaxSlots \in Nat \ {0}
  BY AtLeastOneSlot DEF TypeOK, Slot
<1> HIDE DEF s
<1>2. j \in Nat /\ j =< MaxSlots - 1 /\ (s + j = k \/ s + j = k + MaxSlots)
  BY <1>1
<1> HIDE DEF j
<1>3. (s + j) % MaxSlots = k
  BY <1>2, ModuloWraps
<1>4. CASE j = MaxSlots - 1
  BY <1>3, <1>4 DEF Target, s
<1>5. CASE j < MaxSlots - 1
  BY <1>2, <1>3, <1>5 DEF Tried, s
<1> QED BY <1>1, <1>2, <1>4, <1>5

(* What Recall makes of the history of a run that sweeps on, or begins to. *)
LEMMA RecallRemembers ==
  ASSUME TypeOK, NEW fresh, Recall(fresh), NEW r \in Run, pc'[r] = "trying"
  PROVE  /\ Remembered(r)'
         /\ r \notin fresh => /\ open'[r] \subseteq open[r]
                             /\ intact'[r] \subseteq intact[r]
                             /\ shut'[r] \subseteq shut[r]
<1>1. CASE r \in fresh
  BY <1>1 DEF Recall, Remembered, Takeable, TypeOK
<1>2. CASE r \notin fresh
  BY <1>2 DEF Recall, Remembered, Takeable, TypeOK
<1> QED BY <1>1, <1>2

LEMMA SweepGoesOn ==
  ASSUME TypeOK, SweepInv, Recall({}), NEW r \in Run, pc'[r] = "trying",
         pc[r] = "trying", sweep'[r] = sweep[r]
  PROVE  Remembered(r)' /\ Learned(r)'
<1>1. /\ Remembered(r)'
      /\ open'[r] \subseteq open[r] /\ intact'[r] \subseteq intact[r] /\ shut'[r] \subseteq shut[r]
  BY RecallRemembers
<1>2. Learned(r)
  BY DEF SweepInv
<1>3. \A i : Tried(r, i)' <=> Tried(r, i)
  BY DEF Tried
<1> QED BY <1>1, <1>2, <1>3 DEF Learned

LEMMA SweepBegins ==
  ASSUME TypeOK, SweepInv, NEW q \in Run, BeginSweep(q)  PROVE  SweepInv'
<1> SUFFICES ASSUME NEW r \in Run, pc'[r] = "trying" PROVE Remembered(r)' /\ Learned(r)'
  BY DEF SweepInv
<1>1. CASE r = q
  <2>1. Remembered(r)'
    BY RecallRemembers DEF BeginSweep
  <2>2. sweep'[r].offset = 0 /\ sweep'[r].broken = 0
    BY <1>1 DEF BeginSweep, TypeOK
  <2>3. \A i : ~Tried(r, i)'
    BY <2>2 DEF Tried
  <2> QED BY <2>1, <2>2, <2>3 DEF Learned
<1>2. CASE r # q
  <2>1. pc[r] = "trying" /\ sweep'[r] = sweep[r]
    BY <1>2 DEF BeginSweep, TypeOK
  <2>2. /\ Remembered(r)'
        /\ open'[r] \subseteq open[r] /\ intact'[r] \subseteq intact[r] /\ shut'[r] \subseteq shut[r]
    BY <1>2, RecallRemembers DEF BeginSweep
  <2>3. \A i : Tried(r, i)' <=> Tried(r, i)
    BY <2>1 DEF Tried
  <2> QED BY <2>1, <2>2, <2>3 DEF Learned, SweepInv
<1> QED BY <1>1, <1>2

-----------------------------------------------------------------------------
Errored(r) == sweep[r].broken + (IF Target(r) \in broken THEN 1 ELSE 0)

(* What a try that wins nothing teaches, before the sweep moves on: the    *)
(* slot was not takeable, and it errored just if it was broken.            *)
LEMMA TryTeaches ==
  ASSUME TypeOK, CountsTried, SweepInv, NEW r \in Run, pc[r] = "trying",
         ~(Target(r) \notin broken /\ Takeable(Target(r)))
  PROVE  /\ Target(r) \in Slot
         /\ Target(r) \notin open[r]
         /\ Errored(r) = sweep[r].offset + 1 =>
               /\ Target(r) \notin intact[r] /\ sweep[r].broken = sweep[r].offset
         /\ Errored(r) < sweep[r].offset + 1 =>
               Target(r) \notin shut[r] \/ sweep[r].broken < sweep[r].offset
<1>1. Remembered(r) /\ Target(r) \in Slot
  BY TargetIsSlot DEF SweepInv
<1>2. /\ sweep[r].broken \in Int /\ sweep[r].offset \in Int
      /\ sweep[r].broken =< sweep[r].offset
  BY DEF TypeOK, Slot, CountsTried
<1>3. CASE Target(r) \in broken
  BY <1>1, <1>2, <1>3 DEF Remembered, Errored
<1>4. CASE Target(r) \notin broken
  BY <1>1, <1>2, <1>4 DEF Remembered, Errored
<1> QED BY <1>3, <1>4

LEMMA SweepTries ==
  ASSUME TypeOK, CountsTried, SweepInv, NEW q \in Run, TrySlot(q)  PROVE  SweepInv'
<1> SUFFICES ASSUME NEW r \in Run, pc'[r] = "trying" PROVE Remembered(r)' /\ Learned(r)'
  BY DEF SweepInv
<1>1. CASE r # q
  BY <1>1, SweepGoesOn DEF TrySlot, TypeOK
<1>2. CASE r = q
  <2>1. AfterSweep(r, Errored(r)) # "trying"
    BY DEF AfterSweep
  <2>2. /\ pc[r] = "trying"
        /\ ~(Target(r) \notin broken /\ Takeable(Target(r)))
        /\ sweep'[r] = [start |-> sweep[r].start, offset |-> sweep[r].offset + 1,
                        broken |-> Errored(r)]
    BY <1>2, <2>1 DEF TrySlot, TypeOK, Errored
  <2>3. /\ Remembered(r)'
        /\ open'[r] \subseteq open[r] /\ intact'[r] \subseteq intact[r] /\ shut'[r] \subseteq shut[r]
    BY <1>2, RecallRemembers DEF TrySlot
  <2>4. sweep[r].offset \in Nat
    BY DEF TypeOK, Slot
  <2>5. \A i : Tried(r, i)' <=> Tried(r, i) \/ i = Target(r)
    BY <2>2, <2>4 DEF Tried, Target
  <2>6. Learned(r) /\ Target(r) \in Slot
    BY <2>2, TargetIsSlot DEF SweepInv
  <2>7. Target(r) \notin open[r]
    BY <2>2, TryTeaches
  <2>8. sweep'[r].broken = sweep'[r].offset
          => \A i \in Slot : Tried(r, i)' => i \notin intact'[r]
    BY <2>2, <2>3, <2>5, <2>6, TryTeaches DEF Learned
  <2>9. sweep'[r].broken < sweep'[r].offset
          => \E i \in Slot : Tried(r, i)' /\ i \notin shut'[r]
    BY <2>2, <2>3, <2>5, <2>6, TryTeaches DEF Learned
  <2> QED BY <2>3, <2>5, <2>6, <2>7, <2>8, <2>9 DEF Learned
<1> QED BY <1>1, <1>2

(* In every reachable state the sweeps in progress have seen what they say. *)
THEOREM SweepsLearn == Spec => []SweepInv
<1>1. Init => SweepInv
  BY DEF Init, SweepInv
<1>2. ASSUME TypeOK, CountsTried, SweepInv, [Next]_vars PROVE SweepInv'
  <2> USE <1>2
  <2>1. ASSUME NEW q \in Run, TrySlot(q) PROVE SweepInv'
    BY <2>1, SweepTries
  <2>2. ASSUME NEW q \in Run, Enter(q) \/ Wake(q) PROVE SweepInv'
    <3>1. CASE BeginSweep(q)
      BY <3>1, SweepBegins
    <3>2. CASE ~BeginSweep(q)
      BY <2>2, <3>2, SweepGoesOn DEF Enter, Wake, SweepInv, TypeOK
    <3> QED BY <3>1, <3>2
  <2>3. ASSUME NEW q \in Run, Abort(q) \/ DeadlinePasses(q) \/ Finish(q) \/ Release(q)
        PROVE  SweepInv'
    <3> SUFFICES ASSUME NEW r \in Run, pc'[r] = "trying" PROVE Remembered(r)' /\ Learned(r)'
      BY DEF SweepInv
    <3>1. Recall({}) /\ sweep' = sweep /\ pc[r] = "trying"
      BY <2>3 DEF Abort, DeadlinePasses, Finish, Release, TypeOK
    <3> QED BY <3>1, SweepGoesOn
  <2>4. ASSUME NEW p \in Process, Crash(p) PROVE SweepInv'
    <3> SUFFICES ASSUME NEW r \in Run, pc'[r] = "trying" PROVE Remembered(r)' /\ Learned(r)'
      BY DEF SweepInv
    <3>1. Recall({}) /\ sweep'[r] = sweep[r] /\ pc[r] = "trying"
      BY <2>4 DEF Crash, TypeOK
    <3> QED BY <3>1, SweepGoesOn
  <2>5. ASSUME NEW i \in Slot, TornExpires(i) \/ Break(i) PROVE SweepInv'
    BY <2>5, SweepGoesOn DEF TornExpires, Break, SweepInv
  <2>6. CASE UNCHANGED vars
    <3>1. /\ pc' = pc /\ sweep' = sweep /\ slot' = slot /\ alive' = alive /\ broken' = broken
          /\ open' = open /\ intact' = intact /\ shut' = shut
      BY <2>6 DEF vars, env, hist
    <3> QED BY <3>1 DEF SweepInv, Remembered, Learned, Tried, Takeable
  <2> QED BY <2>1, <2>2, <2>3, <2>4, <2>5, <2>6 DEF Next
<1> QED BY <1>1, <1>2, TypeCorrect, PTL DEF Spec

(* A step that ends a sweep without a slot has tried every slot.           *)
LEMMA Verdict ==
  ASSUME TypeOK, CountsTried, SweepInv, [Next]_vars, NEW r \in Run,
         pc[r] # pc'[r], pc'[r] \in {"refused", "uncapped"}
  PROVE  /\ pc'[r] = "refused" => open[r] = {} /\ shut[r] # Slot
         /\ pc'[r] = "uncapped" => intact[r] = {}
<1>1. TrySlot(r)
  <2>1. UNCHANGED pc => FALSE
    OBVIOUS
  <2>2. ASSUME NEW q \in Run, q # r, TrySlot(q) PROVE FALSE
    BY <2>2 DEF TrySlot, TypeOK
  <2>3. ASSUME NEW q \in Run,
               \/ Enter(q) \/ Wake(q) \/ Abort(q) \/ DeadlinePasses(q) \/ Finish(q) \/ Release(q)
        PROVE  FALSE
    BY <2>3 DEF Enter, Wake, BeginSweep, Abort, DeadlinePasses, Finish, Release, TypeOK
  <2>4. ASSUME NEW p \in Process, Crash(p) PROVE FALSE
    BY <2>4 DEF Crash, TypeOK
  <2> QED
    BY <2>1, <2>2, <2>3, <2>4 DEF Next, TornExpires, Break, vars
<1>2. /\ pc[r] = "trying"
      /\ ~(Target(r) \notin broken /\ Takeable(Target(r)))
      /\ sweep[r].offset = MaxSlots - 1
      /\ pc'[r] = AfterSweep(r, Errored(r))
  BY <1>1 DEF TrySlot, TypeOK, Errored
<1>3. Remembered(r) /\ Learned(r)
  BY <1>2 DEF SweepInv
<1>4. \A k \in Slot : k = Target(r) \/ Tried(r, k)
  BY <1>2, OnceRound
<1>5. open[r] \subseteq Slot /\ intact[r] \subseteq Slot
  BY DEF TypeOK
<1>6. Errored(r) \in Int /\ Errored(r) =< MaxSlots /\ sweep[r].offset + 1 = MaxSlots
  BY <1>2, AtLeastOneSlot DEF Errored, CountsTried, TypeOK, Slot
<1>7. CASE pc'[r] = "refused"
  <2>1. Errored(r) < sweep[r].offset + 1
    <3>1. Errored(r) = MaxSlots => AfterSweep(r, Errored(r)) = "uncapped"
      BY DEF AfterSweep
    <3>2. Errored(r) # MaxSlots
      BY <1>2, <1>7, <3>1
    <3> QED BY <1>6, <3>2, AtLeastOneSlot
  <2>2. open[r] = {}
    BY <1>2, <1>3, <1>4, <1>5, TryTeaches DEF Learned
  <2>3. shut[r] # Slot
    BY <1>2, <1>3, <2>1, TryTeaches DEF Learned
  <2> QED BY <1>7, <2>2, <2>3
<1>8. CASE pc'[r] = "uncapped"
  <2>1. Errored(r) = sweep[r].offset + 1
    BY <1>2, <1>6, <1>8 DEF AfterSweep
  <2>2. intact[r] = {}
    BY <1>2, <1>3, <1>4, <1>5, <2>1, TryTeaches DEF Learned
  <2> QED BY <1>8, <2>2
<1> QED BY <1>7, <1>8

(* Refusal means full: no slot was takeable throughout the last sweep.     *)
THEOREM Refusal == Spec => RefusedOnlyWhenFull
<1>1. TypeOK /\ CountsTried /\ SweepInv /\ [Next]_vars
        => [\A r \in Run : pc[r] # "refused" /\ pc'[r] = "refused"
                             => open[r] = {} /\ shut[r] # Slot]_vars
  BY Verdict
<1> QED BY <1>1, TypeCorrect, SweepsLearn, PTL DEF Spec, RefusedOnlyWhenFull

(* Failing open means broken: no slot was intact throughout the last sweep. *)
THEOREM FailOpen == Spec => UncappedOnlyWhenBroken
<1>1. TypeOK /\ CountsTried /\ SweepInv /\ [Next]_vars
        => [\A r \in Run : pc[r] # "uncapped" /\ pc'[r] = "uncapped" => intact[r] = {}]_vars
  BY Verdict
<1> QED BY <1>1, TypeCorrect, SweepsLearn, PTL DEF Spec, UncappedOnlyWhenBroken

-----------------------------------------------------------------------------
(* What destroyPoolOnce() does to a pool that the manager or a reset names. *)
LEMMA PoolsDestroyOnceEffect ==
  ASSUME Pools!TypeOK, Pools!Account, NEW p \in Pools!Pool, p <= poolsBuilt,
         poolsLife[p] \in {"destroying", "broken"} => p \in poolsInflight, Pools!DestroyOnce(p)
  PROVE  /\ poolsLife' \in [Pools!Pool -> {"unborn", "live", "destroying", "gone", "broken"}]
         /\ \A q \in Pools!Pool : q # p => poolsLife'[q] = poolsLife[q]
         /\ poolsLife'[p] \in {"destroying", "gone", "broken"}
               /\ (poolsLife'[p] = "gone" => poolsLife[p] = "gone")
         /\ poolsInflight' \subseteq Pools!Pool /\ p \in poolsInflight'
               /\ poolsInflight \subseteq poolsInflight'
         /\ \A q \in poolsInflight' : q = p \/ q \in poolsInflight
         /\ poolsRacing' = {}
<1>1. CASE p \in poolsInflight
  BY <1>1 DEF Pools!TypeOK, Pools!Account, Pools!DestroyOnce
<1>2. CASE p \notin poolsInflight
  <2>1. poolsLife[p] \in {"live", "gone"}
    BY <1>2 DEF Pools!TypeOK, Pools!Account, Pools!Pool
  <2>2. poolsLife' = [poolsLife EXCEPT ![p] = IF poolsLife[p] = "live" THEN "destroying"
           ELSE poolsLife[p]]
        /\ poolsRacing' = {} /\ poolsInflight' = poolsInflight \cup {p}
    BY <1>2, <2>1 DEF Pools!DestroyOnce, Pools!Destroy, Pools!Account
  <2> QED BY <2>1, <2>2 DEF Pools!TypeOK
<1> QED BY <1>1, <1>2

(* Destroying a pool somebody can name keeps the account of the pools.     *)
LEMMA PoolsDestroyOnceKeeps ==
  ASSUME Pools!TypeOK, Pools!Account, Pools!Epochs, NEW p \in Pools!Pool,
         p <= poolsBuilt,
         poolsLife[p] \in {"destroying", "broken"} => p \in poolsInflight, Pools!DestroyOnce(p),
         poolsEpoch' = poolsEpoch + 1, poolsPool' = poolsPool,
            poolsBuilt' = poolsBuilt, poolsEpochOf' = poolsEpochOf,
         \A r \in poolsResets' : \E q \in poolsResets : r.pool = q.pool
  PROVE  Pools!Account' /\ Pools!Epochs'
<1>1. /\ poolsLife' \in [Pools!Pool -> {"unborn", "live", "destroying", "gone", "broken"}]
      /\ \A q \in Pools!Pool : q # p => poolsLife'[q] = poolsLife[q]
      /\ poolsLife'[p] \in {"destroying", "gone", "broken"}
            /\ (poolsLife'[p] = "gone" => poolsLife[p] = "gone")
      /\ poolsInflight' \subseteq Pools!Pool /\ p \in poolsInflight'
            /\ poolsInflight \subseteq poolsInflight'
      /\ \A q \in poolsInflight' : q = p \/ q \in poolsInflight
      /\ poolsRacing' = {}
  BY PoolsDestroyOnceEffect
<1>2. Pools!Account'
  <2>1. \A q \in Pools!Pool : poolsLife'[q] = "unborn" <=> q > poolsBuilt'
    BY <1>1 DEF Pools!Account, Pools!TypeOK, Pools!Pool
  <2>2. \A q \in Pools!Pool : poolsLife'[q] = "live" => poolsPool' = q
    BY <1>1 DEF Pools!Account
  <2>3. \A q \in poolsInflight' : poolsLife'[q] \in {"destroying", "gone", "broken"}
    BY <1>1 DEF Pools!Account, Pools!TypeOK
  <2>4. poolsPool' # None => poolsPool' <= poolsBuilt'
           /\ (poolsLife'[poolsPool'] \in {"destroying", "broken"} => poolsPool' \in poolsInflight')
    BY <1>1 DEF Pools!Account, Pools!TypeOK
  <2>5. \A r \in poolsResets' : r.pool <= poolsBuilt'
           /\ (poolsLife'[r.pool] \in {"destroying", "broken"} => r.pool \in poolsInflight')
    <3>1. ASSUME NEW r \in poolsResets, poolsLife'[r.pool] \in {"destroying", "broken"}
       PROVE  r.pool \in poolsInflight'
      BY <1>1, <3>1 DEF Pools!Account, Pools!TypeOK, Pools!Reset
    <3> QED BY <3>1 DEF Pools!Account
  <2> QED BY <1>1, <2>1, <2>2, <2>3, <2>4, <2>5 DEF Pools!Account
<1>3. Pools!Epochs'
  BY <1>1 DEF Pools!Epochs, Pools!TypeOK
<1> QED BY <1>2, <1>3

(* The checks of ensurePool().                                             *)
LEMMA PoolsCheckKeeps ==
  ASSUME Pools!Setting, Pools!Inv, NEW c \in Callers,
         poolsPc[c] \in {"idle", "waiting"}, Pools!Check(c),
         poolsSince' = [poolsSince EXCEPT ![c] = poolsGeneration],
         UNCHANGED <<poolsGeneration, poolsStopping, poolsStop, poolsErrors, poolsResetting,
                     poolsResets, poolsWants>>
  PROVE  Pools!Inv'
<1> USE DEF Pools!Inv
<1>1. CASE poolsPc' = [poolsPc EXCEPT ![c] = "joined"] /\ poolsInit.at = "none"
              /\ Pools!StartInit(c)
           /\ ~poolsStopping /\ ~poolsResetting /\ UNCHANGED poolsGot
  <2>1. CASE poolsPool # None
    <3>1. /\ poolsEpoch' = poolsEpoch + 1 /\ Pools!DestroyOnce(poolsPool)
          /\ poolsInit' = [at |-> "replacing", shape |-> poolsWants[c], gen |-> poolsGeneration]
          /\ poolsPool' = poolsPool /\ poolsBuilt' = poolsBuilt /\ poolsEpochOf' = poolsEpochOf
          /\ poolsOutgoing' = poolsOutgoing \cup {poolsPool}
      BY <1>1, <2>1 DEF Pools!StartInit
    <3>2. poolsPool \in Pools!Pool /\ poolsPool <= poolsBuilt
             /\ (poolsLife[poolsPool] \in {"destroying", "broken"} => poolsPool \in poolsInflight)
      BY <2>1 DEF Pools!TypeOK, Pools!Account
    <3>3. /\ poolsLife' \in [Pools!Pool -> {"unborn", "live", "destroying", "gone", "broken"}]
          /\ poolsLife'[poolsPool] \in {"destroying", "gone", "broken"} /\ poolsInflight' \subseteq Pools!Pool
      BY <3>1, <3>2, PoolsDestroyOnceEffect
    <3>4. Pools!Account' /\ Pools!Epochs'
      BY <3>1, <3>2, PoolsDestroyOnceKeeps
    <3>5. Pools!TypeOK'
      BY <1>1, <3>1, <3>2, <3>3 DEF Pools!TypeOK
    <3>6. Pools!Phases'
      BY <1>1, <2>1, <3>1, <3>3 DEF Pools!Phases
    <3>7. Pools!Resets'
      BY <1>1, <3>1 DEF Pools!Resets
    <3>8. Pools!Usable'
      BY <1>1, <3>1 DEF Pools!Usable, Pools!TypeOK
    <3> QED BY <3>4, <3>5, <3>6, <3>7, <3>8
  <2>2. CASE poolsPool = None
    <3>1. /\ poolsInit' = [at |-> "installing", shape |-> poolsWants[c], gen |-> poolsGeneration]
          /\ UNCHANGED <<poolsPool, poolsBuilt, poolsLife, poolsInflight, poolsRacing, poolsOutgoing,
                         poolsEpochOf, poolsEpoch>>
      BY <1>1, <2>2 DEF Pools!StartInit
    <3>2. Pools!TypeOK'
      BY <1>1, <3>1 DEF Pools!TypeOK
    <3>3. Pools!Account' /\ Pools!Epochs'
      BY <3>1 DEF Pools!Account, Pools!Epochs
    <3>4. Pools!Phases' /\ Pools!Resets'
      BY <1>1, <2>2, <3>1 DEF Pools!Phases, Pools!Resets
    <3>5. Pools!Usable'
      BY <1>1, <2>2, <3>1 DEF Pools!Usable, Pools!TypeOK
    <3> QED BY <3>2, <3>3, <3>4, <3>5
  <2> QED BY <2>1, <2>2
<1>2. CASE poolsPc' = [poolsPc EXCEPT ![c] = "joined"] /\ poolsInit.at # "none" /\ ~poolsStopping
           /\ UNCHANGED <<Pools!mgr, poolsInit, poolsGot>>
  <2>1. Pools!TypeOK' /\ Pools!Account' /\ Pools!Epochs' /\ Pools!Phases' /\ Pools!Resets'
    BY <1>2
       DEF Pools!TypeOK, Pools!Account, Pools!Epochs, Pools!Phases, Pools!Resets,
           Pools!mgr
  <2>2. Pools!Usable'
    BY <1>2 DEF Pools!Usable, Pools!Phases, Pools!TypeOK, Pools!mgr
  <2> QED BY <2>1, <2>2
<1>3. CASE /\ poolsPc' \in [Callers -> {"idle", "waiting", "joined", "has", "failed"}]
           /\ poolsPc'[c] # "joined" /\ \A d \in Callers : d # c => poolsPc'[d] = poolsPc[d]
           /\ poolsGot' \in [Callers -> Pools!Pool \cup {None}]
                 /\ UNCHANGED <<Pools!mgr, poolsInit>>
  <2>1. Pools!TypeOK' /\ Pools!Account' /\ Pools!Epochs' /\ Pools!Phases' /\ Pools!Resets'
    BY <1>3
       DEF Pools!TypeOK, Pools!Account, Pools!Epochs, Pools!Phases, Pools!Resets,
           Pools!mgr
  <2>2. Pools!Usable'
    BY <1>3 DEF Pools!Usable, Pools!TypeOK, Pools!mgr
  <2> QED BY <2>1, <2>2
<1> QED
  <2>1. CASE poolsPc' = [poolsPc EXCEPT ![c] = "failed"]
                \/ poolsPc' = [poolsPc EXCEPT ![c] = "waiting"]
    <3>1. UNCHANGED <<poolsGot, Pools!mgr, poolsInit>>
      BY <2>1 DEF Pools!Check, Pools!Fail, Pools!Give, Pools!TypeOK
    <3> QED BY <1>3, <2>1, <3>1 DEF Pools!TypeOK
  <2>2. CASE Pools!Give(c) /\ UNCHANGED <<Pools!mgr, poolsInit>>
    BY <1>3, <2>2 DEF Pools!Give, Pools!TypeOK
  <2> QED BY <1>1, <1>2, <2>1, <2>2 DEF Pools!Check, Pools!Fail

(* Whoever joined an initialization is told, and it is over.               *)
LEMMA PoolsEndInitEffect ==
  ASSUME Pools!TypeOK, NEW ok \in BOOLEAN, Pools!EndInit(ok),
         poolsPool' \in Pools!Pool \cup {None}
  PROVE  /\ poolsPc' \in [Callers -> {"idle", "waiting", "joined", "has", "failed"}]
         /\ poolsGot' \in [Callers -> Pools!Pool \cup {None}]
         /\ \A c \in Callers : poolsPc'[c] # "joined"
         /\ poolsInit'.at = "none"
               /\ poolsInit' = [at |-> poolsInit'.at, shape |-> poolsInit'.shape, gen |-> poolsInit'.gen]
BY DEF Pools!TypeOK, Pools!EndInit, Pools!Joined, Pools!NoInit

LEMMA PoolsReplaceFailsKeeps ==
  ASSUME Pools!Setting, Pools!Inv, Pools!ReplaceFails  PROVE  Pools!Inv'
<1> USE DEF Pools!Inv
<1>1. /\ Pools!EndInit(FALSE) /\ poolsInit.at = "replacing"
      /\ UNCHANGED <<Pools!mgr, poolsGeneration, poolsStopping, poolsStop, poolsErrors,
                     poolsResetting, poolsResets, poolsWants, poolsSince>>
  BY DEF Pools!ReplaceFails
<1>2. /\ poolsPool' \in Pools!Pool \cup {None} /\ poolsPool \in poolsOutgoing
      /\ poolsStop # "destroying"
  BY <1>1 DEF Pools!TypeOK, Pools!mgr, Pools!Phases
<1>3. /\ poolsPc' \in [Callers -> {"idle", "waiting", "joined", "has", "failed"}]
      /\ poolsGot' \in [Callers -> Pools!Pool \cup {None}]
      /\ \A c \in Callers : poolsPc'[c] # "joined"
      /\ poolsInit'.at = "none"
            /\ poolsInit' = [at |-> poolsInit'.at, shape |-> poolsInit'.shape, gen |-> poolsInit'.gen]
  BY <1>1, <1>2, PoolsEndInitEffect
<1>4. Pools!TypeOK' /\ Pools!Account' /\ Pools!Epochs'
  BY <1>1, <1>3 DEF Pools!TypeOK, Pools!Account, Pools!Epochs, Pools!mgr
<1>5. Pools!Phases' /\ Pools!Resets' /\ Pools!Usable'
  BY <1>1, <1>2, <1>3 DEF Pools!Phases, Pools!Resets, Pools!Usable, Pools!mgr
<1> QED BY <1>4, <1>5

LEMMA PoolsInitEndsKeeps ==
  ASSUME Pools!Setting, Pools!Inv, Pools!InstallFails \/ Pools!Undone  PROVE  Pools!Inv'
<1> USE DEF Pools!Inv
<1>1. /\ Pools!EndInit(FALSE) /\ poolsInit.at \in {"installing", "undoing"}
      /\ UNCHANGED <<Pools!mgr, poolsGeneration, poolsStopping, poolsStop, poolsErrors,
                     poolsResetting, poolsResets, poolsWants, poolsSince>>
  BY DEF Pools!InstallFails, Pools!Undone
<1>2. poolsPool' \in Pools!Pool \cup {None} /\ poolsPool = None
  BY <1>1 DEF Pools!TypeOK, Pools!mgr, Pools!Phases
<1>3. /\ poolsPc' \in [Callers -> {"idle", "waiting", "joined", "has", "failed"}]
      /\ poolsGot' \in [Callers -> Pools!Pool \cup {None}]
      /\ \A c \in Callers : poolsPc'[c] # "joined"
      /\ poolsInit'.at = "none"
            /\ poolsInit' = [at |-> poolsInit'.at, shape |-> poolsInit'.shape, gen |-> poolsInit'.gen]
  BY <1>1, <1>2, PoolsEndInitEffect
<1>4. Pools!TypeOK' /\ Pools!Account' /\ Pools!Epochs'
  BY <1>1, <1>3 DEF Pools!TypeOK, Pools!Account, Pools!Epochs, Pools!mgr
<1>5. Pools!Phases' /\ Pools!Resets' /\ Pools!Usable'
  BY <1>1, <1>2, <1>3 DEF Pools!Phases, Pools!Resets, Pools!Usable, Pools!mgr
<1> QED BY <1>4, <1>5

LEMMA PoolsConstructKeeps ==
  ASSUME Pools!Setting, Pools!Inv, Pools!Construct  PROVE  Pools!Inv'
<1> USE DEF Pools!Inv
<1> DEFINE p == poolsBuilt + 1
<1>1. /\ poolsInit.at = "installing" /\ p \in Pools!Pool /\ poolsBuilt' = p /\ poolsPool = None
      /\ poolsEpochOf' = [poolsEpochOf EXCEPT ![p] = poolsEpoch + 1] /\ p \notin poolsInflight
      /\ UNCHANGED <<poolsInflight, poolsRacing, poolsOutgoing, poolsGeneration, poolsStopping, poolsStop,
                     poolsResetting, poolsResets, poolsSince>>
  <2>1. poolsInit.at = "installing" /\ p \in Pools!Pool /\ poolsPool = None
    BY DEF Pools!Construct, Pools!Phases, Pools!Setting, Pools!Pool, Pools!TypeOK
  <2>2. poolsLife[p] = "unborn"
    BY <2>1 DEF Pools!Account, Pools!TypeOK, Pools!Pool
  <2>3. p \notin poolsInflight
    BY <2>2 DEF Pools!Account
  <2> QED BY <2>1, <2>3 DEF Pools!Construct
<1>2. \A q \in Pools!Pool : poolsLife[q] # "live" /\ (poolsLife[q] = "unborn" <=> q > poolsBuilt)
  BY <1>1 DEF Pools!Account, Pools!TypeOK, Pools!Setting
<1>3. poolsBuilt \in Nat /\ poolsEpoch \in Nat /\ \A q \in Pools!Pool : q \in Nat
  BY DEF Pools!TypeOK, Pools!Pool
<1>4. \A r \in poolsResets : r.pool <= poolsBuilt /\ r.pool # p /\ r.pool \in Pools!Pool
         /\ r.gen # poolsGeneration
  BY <1>1, <1>3 DEF Pools!Account, Pools!Resets, Pools!TypeOK, Pools!Reset
<1>5. CASE poolsStopping \/ poolsGeneration # poolsInit.gen
  <2>1. /\ poolsPool' = None /\ poolsLife' = [poolsLife EXCEPT ![p] = "destroying"]
              /\ poolsEpoch' = poolsEpoch + 2
        /\ poolsInit' = [poolsInit EXCEPT !.at = "undoing"] /\ poolsPc' = poolsPc
              /\ poolsGot' = poolsGot
    BY <1>5 DEF Pools!Construct
  <2>2. Pools!TypeOK'
    BY <1>1, <1>3, <2>1 DEF Pools!TypeOK
  <2>3. Pools!Account'
    <3>1. \A q \in Pools!Pool : poolsLife'[q] = "unborn" <=> q > poolsBuilt'
      BY <1>1, <1>2, <1>3, <2>1 DEF Pools!TypeOK
    <3>2. \A q \in Pools!Pool : poolsLife'[q] # "live"
      BY <1>2, <2>1 DEF Pools!TypeOK
    <3>3. \A q \in poolsInflight' : poolsLife'[q] \in {"destroying", "gone", "broken"}
      BY <1>1, <2>1 DEF Pools!Account, Pools!TypeOK
    <3>4. \A r \in poolsResets' : r.pool <= poolsBuilt'
             /\ (poolsLife'[r.pool] \in {"destroying", "broken"} => r.pool \in poolsInflight')
      BY <1>1, <1>3, <1>4, <2>1 DEF Pools!Account, Pools!TypeOK
    <3> QED BY <1>1, <2>1, <3>1, <3>2, <3>3, <3>4 DEF Pools!Account
  <2>4. Pools!Epochs'
    BY <1>1, <1>3, <2>1 DEF Pools!Epochs, Pools!TypeOK
  <2>5. Pools!Phases'
    BY <1>1, <1>5, <2>1 DEF Pools!Phases, Pools!TypeOK
  <2>6. Pools!Resets'
    BY <1>1, <1>4 DEF Pools!Resets
  <2>7. Pools!Usable'
    BY <1>1, <2>1 DEF Pools!Usable, Pools!TypeOK
  <2> QED BY <2>2, <2>3, <2>4, <2>5, <2>6, <2>7
<1>6. CASE ~(poolsStopping \/ poolsGeneration # poolsInit.gen)
  <2>1. /\ poolsPool' = p /\ poolsLife' = [poolsLife EXCEPT ![p] = "live"]
              /\ poolsEpoch' = poolsEpoch + 1
        /\ Pools!EndInit(TRUE)
    BY <1>6 DEF Pools!Construct
  <2>2. /\ poolsPc' \in [Callers -> {"idle", "waiting", "joined", "has", "failed"}]
        /\ poolsGot' \in [Callers -> Pools!Pool \cup {None}]
        /\ \A c \in Callers : poolsPc'[c] # "joined"
        /\ poolsInit'.at = "none"
              /\ poolsInit' = [at |-> poolsInit'.at, shape |-> poolsInit'.shape, gen |-> poolsInit'.gen]
    BY <1>1, <2>1, PoolsEndInitEffect
  <2>3. Pools!TypeOK'
    BY <1>1, <1>3, <2>1, <2>2 DEF Pools!TypeOK
  <2>4. Pools!Account'
    <3>1. \A q \in Pools!Pool : poolsLife'[q] = "unborn" <=> q > poolsBuilt'
      BY <1>1, <1>2, <1>3, <2>1 DEF Pools!TypeOK
    <3>2. \A q \in Pools!Pool : poolsLife'[q] = "live" => poolsPool' = q
      BY <1>2, <2>1 DEF Pools!TypeOK
    <3>3. \A q \in poolsInflight' : poolsLife'[q] \in {"destroying", "gone", "broken"}
      BY <1>1, <2>1 DEF Pools!Account, Pools!TypeOK
    <3>4. \A r \in poolsResets' : r.pool <= poolsBuilt'
             /\ (poolsLife'[r.pool] \in {"destroying", "broken"} => r.pool \in poolsInflight')
      BY <1>1, <1>3, <1>4, <2>1 DEF Pools!Account, Pools!TypeOK
    <3>5. poolsPool' # None => poolsPool' <= poolsBuilt' /\ poolsLife'[poolsPool'] = "live"
      BY <1>1, <1>3, <2>1 DEF Pools!TypeOK
    <3> QED BY <1>1, <3>1, <3>2, <3>3, <3>4, <3>5 DEF Pools!Account
  <2>5. Pools!Epochs'
    BY <1>1, <1>3, <2>1 DEF Pools!Epochs, Pools!TypeOK
  <2>6. Pools!Phases' /\ Pools!Resets'
    BY <1>1, <1>4, <1>6, <2>1, <2>2 DEF Pools!Phases, Pools!Resets
  <2>7. Pools!Usable'
    BY <1>1, <2>1, <2>2 DEF Pools!Usable, Pools!TypeOK
  <2> QED BY <2>3, <2>4, <2>5, <2>6, <2>7
<1> QED BY <1>5, <1>6

LEMMA PoolsReplacedKeeps ==
  ASSUME Pools!Setting, Pools!Inv, Pools!Replaced  PROVE  Pools!Inv'
<1> USE DEF Pools!Inv
<1>1. /\ poolsInit.at = "replacing" /\ poolsLife[poolsPool] = "gone" /\ poolsPool \in Pools!Pool
            /\ poolsPool' = None
      /\ poolsInit' = [poolsInit EXCEPT !.at = "installing"]
      /\ UNCHANGED <<poolsBuilt, poolsLife, poolsInflight, poolsRacing, poolsOutgoing, poolsEpochOf, poolsEpoch,
                     poolsGeneration, poolsStopping, poolsStop,
                     poolsResetting, poolsResets, poolsPc, poolsGot, poolsSince>>
  BY DEF Pools!Replaced, Pools!caller, Pools!Phases, Pools!TypeOK
<1>2. Pools!TypeOK' /\ Pools!Epochs'
  BY <1>1 DEF Pools!TypeOK, Pools!Epochs
<1>3. Pools!Account'
  BY <1>1 DEF Pools!Account
<1>4. Pools!Phases' /\ Pools!Resets' /\ Pools!Usable'
  BY <1>1 DEF Pools!Phases, Pools!Resets, Pools!Usable, Pools!TypeOK
<1> QED BY <1>2, <1>3, <1>4

LEMMA PoolsDestroyDoneKeeps ==
  ASSUME Pools!Setting, Pools!Inv, NEW p \in Pools!Pool, Pools!DestroyDone(p)
     PROVE  Pools!Inv'
<1> USE DEF Pools!Inv
<1>1. /\ poolsLife[p] = "destroying" /\ poolsLife' = [poolsLife EXCEPT ![p] = "gone"]
      /\ poolsInflight' = poolsInflight \ {p}
      /\ UNCHANGED <<poolsPool, poolsBuilt, poolsRacing, poolsOutgoing, poolsEpochOf, poolsEpoch, poolsGeneration,
                     poolsStopping, poolsStop, poolsInit,
                     poolsResetting, poolsResets, poolsPc, poolsGot, poolsSince>>
  BY DEF Pools!DestroyDone, Pools!caller
<1>2. Pools!TypeOK' /\ Pools!Epochs'
  BY <1>1 DEF Pools!TypeOK, Pools!Epochs
<1>3. Pools!Account'
  BY <1>1 DEF Pools!Account, Pools!TypeOK, Pools!Reset
<1>4. Pools!Phases' /\ Pools!Resets' /\ Pools!Usable'
  BY <1>1 DEF Pools!Phases, Pools!Resets, Pools!Usable, Pools!TypeOK
<1> QED BY <1>2, <1>3, <1>4

LEMMA PoolsDestroyFailsKeeps ==
  ASSUME Pools!Setting, Pools!Inv, NEW p \in Pools!Pool, Pools!DestroyFails(p)
     PROVE  Pools!Inv'
<1> USE DEF Pools!Inv
<1>1. /\ poolsLife[p] = "destroying" /\ poolsLife' = [poolsLife EXCEPT ![p] = "broken"]
      /\ UNCHANGED <<poolsPool, poolsBuilt, poolsInflight, poolsRacing, poolsOutgoing, poolsEpochOf,
                     poolsEpoch, poolsGeneration, poolsStopping, poolsStop, poolsInit,
                     poolsResetting, poolsResets, poolsPc, poolsGot, poolsSince>>
  BY DEF Pools!DestroyFails, Pools!caller
<1>2. Pools!TypeOK' /\ Pools!Epochs'
  BY <1>1 DEF Pools!TypeOK, Pools!Epochs
<1>3. Pools!Account'
  BY <1>1 DEF Pools!Account, Pools!TypeOK, Pools!Reset
<1>4. Pools!Phases' /\ Pools!Resets' /\ Pools!Usable'
  BY <1>1 DEF Pools!Phases, Pools!Resets, Pools!Usable, Pools!TypeOK
<1> QED BY <1>2, <1>3, <1>4

(* Only the pool in use is heard, and then nothing else is under way.      *)
LEMMA PoolsHeardIsInUse ==
  ASSUME Pools!Inv, NEW p \in Pools!Pool, poolsLife[p] \in {"live", "destroying", "broken"},
         poolsEpochOf[p] = poolsEpoch
  PROVE  poolsLife[p] = "live" /\ poolsPool = p
BY DEF Pools!Inv, Pools!Epochs, Pools!Account, Pools!TypeOK

LEMMA PoolsFaultKeeps ==
  ASSUME Pools!Setting, Pools!Inv, NEW p \in Pools!Pool, Pools!WorkerFault(p)
     PROVE  Pools!Inv'
<1> USE DEF Pools!Inv
<1>1. poolsLife[p] = "live" /\ poolsPool = p /\ poolsPool # None
  BY PoolsHeardIsInUse DEF Pools!WorkerFault, Pools!Setting
<1>2. poolsInit.at = "none"
  BY <1>1 DEF Pools!Phases, Pools!TypeOK
<1>3. UNCHANGED <<poolsPool, poolsBuilt, poolsLife, poolsInflight, poolsRacing, poolsOutgoing, poolsEpochOf,
                  poolsEpoch, poolsGeneration, poolsStopping, poolsStop,
                  poolsInit, poolsPc, poolsGot, poolsSince>>
  BY DEF Pools!WorkerFault, Pools!caller
<1>4. CASE UNCHANGED <<poolsResetting, poolsResets>>
  BY <1>3, <1>4
     DEF Pools!TypeOK, Pools!Account, Pools!Epochs, Pools!Phases, Pools!Resets,
         Pools!Usable
<1>5. CASE /\ ~poolsStopping /\ ~poolsResetting /\ poolsResetting' = TRUE
           /\ poolsResets' = poolsResets \cup {[pool |-> poolsPool, gen |-> poolsGeneration, at |-> "armed"]}
  <2>1. \A r \in poolsResets : r.gen # poolsGeneration
    BY <1>5 DEF Pools!Resets
  <2>2. Pools!TypeOK'
    BY <1>1, <1>3, <1>5 DEF Pools!TypeOK, Pools!Reset
  <2>3. Pools!Account' /\ Pools!Epochs' /\ Pools!Phases'
    BY <1>1, <1>3, <1>5 DEF Pools!Account, Pools!Epochs, Pools!Phases
  <2>4. Pools!Resets'
    BY <1>2, <1>3, <1>5, <2>1 DEF Pools!Resets, Pools!TypeOK
  <2>5. Pools!Usable'
    BY <1>2, <1>3, <1>5 DEF Pools!Usable
  <2> QED BY <2>2, <2>3, <2>4, <2>5
<1> QED BY <1>4, <1>5 DEF Pools!WorkerFault

LEMMA PoolsResetFiresKeeps ==
  ASSUME Pools!Setting, Pools!Inv, NEW r \in poolsResets, Pools!ResetFires(r)
     PROVE  Pools!Inv'
<1> USE DEF Pools!Inv
<1>1. UNCHANGED <<poolsPool, poolsBuilt, poolsOutgoing, poolsEpochOf, poolsGeneration, poolsStopping, poolsStop,
                  poolsInit, poolsResetting, poolsPc, poolsGot, poolsSince>>
  BY DEF Pools!ResetFires, Pools!caller
<1>2. r \in Pools!Reset /\ r.at = "armed"
  BY DEF Pools!ResetFires, Pools!TypeOK
<1>3. CASE poolsResets' = poolsResets \ {r} /\ UNCHANGED <<poolsLife, poolsInflight, poolsRacing,
                                                           poolsEpoch>>
  <2>1. Pools!TypeOK' /\ Pools!Account' /\ Pools!Epochs' /\ Pools!Phases' /\ Pools!Usable'
    BY <1>1, <1>3
       DEF Pools!TypeOK, Pools!Account, Pools!Epochs, Pools!Phases, Pools!Usable
  <2>2. Pools!Resets'
    BY <1>1, <1>3 DEF Pools!Resets
  <2> QED BY <2>1, <2>2
<1>4. CASE ~(poolsStopping \/ poolsGeneration # r.gen)
  <2> DEFINE s == [pool |-> r.pool, gen |-> r.gen, at |-> "awaiting"]
  <2>1. poolsResets' = (poolsResets \ {r}) \cup {s} /\ poolsEpoch' = poolsEpoch + 1
           /\ Pools!DestroyOnce(r.pool)
    BY <1>2, <1>4 DEF Pools!ResetFires, Pools!Reset
  <2>2. r.pool \in Pools!Pool /\ r.pool <= poolsBuilt
           /\ (poolsLife[r.pool] \in {"destroying", "broken"} => r.pool \in poolsInflight)
    BY <1>2 DEF Pools!Account, Pools!Reset
  <2>3. /\ poolsLife' \in [Pools!Pool -> {"unborn", "live", "destroying", "gone", "broken"}]
        /\ \A q \in Pools!Pool : q # r.pool => poolsLife'[q] = poolsLife[q]
        /\ poolsLife'[r.pool] \in {"destroying", "gone", "broken"} /\ poolsInflight' \subseteq Pools!Pool
    BY <2>1, <2>2, PoolsDestroyOnceEffect
  <2>4. Pools!Account' /\ Pools!Epochs'
    BY <1>1, <2>1, <2>2, PoolsDestroyOnceKeeps
  <2>5. r.pool = poolsPool /\ poolsResetting /\ poolsInit.at = "none"
    BY <1>4 DEF Pools!Resets
  <2>6. Pools!TypeOK'
    BY <1>1, <1>2, <2>1, <2>3 DEF Pools!TypeOK, Pools!Reset
  <2>7. Pools!Phases'
    BY <1>1, <2>3, <2>5 DEF Pools!Phases
  <2>8. Pools!Resets'
    BY <1>1, <1>4, <2>1 DEF Pools!Resets
  <2>9. Pools!Usable'
    BY <1>1, <2>5 DEF Pools!Usable
  <2> QED BY <2>4, <2>6, <2>7, <2>8, <2>9
<1> QED BY <1>3, <1>4 DEF Pools!ResetFires

LEMMA PoolsResetDoneKeeps ==
  ASSUME Pools!Setting, Pools!Inv, NEW r \in poolsResets, Pools!ResetDone(r)
     PROVE  Pools!Inv'
<1> USE DEF Pools!Inv
<1>1. /\ poolsLife[r.pool] \in {"gone", "broken"} /\ poolsResets' = poolsResets \ {r}
      /\ UNCHANGED <<poolsBuilt, poolsLife, poolsInflight, poolsRacing, poolsOutgoing, poolsEpochOf, poolsEpoch,
                     poolsGeneration, poolsStopping, poolsStop, poolsInit,
                     poolsPc, poolsGot, poolsSince>>
  BY DEF Pools!ResetDone, Pools!caller
<1>2. CASE ~poolsStopping /\ poolsGeneration = r.gen
  <2>1. poolsPool' = None /\ poolsResetting' = FALSE /\ poolsInit.at = "none" /\ r.pool = poolsPool
    BY <1>2 DEF Pools!ResetDone, Pools!Resets
  <2>2. \A s \in poolsResets' : s.gen # poolsGeneration
    BY <1>1, <1>2 DEF Pools!Resets
  <2>3. Pools!TypeOK' /\ Pools!Epochs'
    BY <1>1, <2>1 DEF Pools!TypeOK, Pools!Epochs
  <2>4. Pools!Account'
    BY <1>1, <2>1 DEF Pools!Account
  <2>5. Pools!Phases' /\ Pools!Usable'
    BY <1>1, <2>1 DEF Pools!Phases, Pools!Usable
  <2>6. Pools!Resets'
    BY <1>1, <2>2 DEF Pools!Resets
  <2> QED BY <2>3, <2>4, <2>5, <2>6
<1>3. CASE ~(~poolsStopping /\ poolsGeneration = r.gen)
  <2>1. UNCHANGED <<poolsPool, poolsResetting>>
    BY <1>3 DEF Pools!ResetDone
  <2>2. Pools!TypeOK' /\ Pools!Account' /\ Pools!Epochs' /\ Pools!Phases' /\ Pools!Usable'
    BY <1>1, <2>1
       DEF Pools!TypeOK, Pools!Account, Pools!Epochs, Pools!Phases, Pools!Usable
  <2>3. Pools!Resets'
    BY <1>1, <2>1 DEF Pools!Resets
  <2> QED BY <2>2, <2>3
<1> QED BY <1>2, <1>3

LEMMA PoolsShutdownKeeps ==
  ASSUME Pools!Setting, Pools!Inv, Pools!Shutdown  PROVE  Pools!Inv'
<1> USE DEF Pools!Inv
<1>1. /\ ~poolsStopping /\ poolsStopping' = TRUE /\ poolsGeneration' = poolsGeneration + 1
            /\ poolsStop' = "joining"
      /\ poolsResets' = {r \in poolsResets : r.at = "awaiting"}
      /\ UNCHANGED <<poolsPool, poolsBuilt, poolsLife, poolsInflight, poolsRacing, poolsOutgoing, poolsEpochOf,
                     poolsEpoch, poolsInit, poolsResetting, poolsPc, poolsGot,
                     poolsSince>>
  BY DEF Pools!Shutdown, Pools!mgr, Pools!caller
<1>2. Pools!TypeOK' /\ Pools!Account' /\ Pools!Epochs'
  BY <1>1 DEF Pools!TypeOK, Pools!Account, Pools!Epochs
<1>3. Pools!Phases' /\ Pools!Usable'
  BY <1>1 DEF Pools!Phases, Pools!Usable
<1>4. Pools!Resets'
  <2>1. \A r \in poolsResets' : r \in poolsResets /\ r.gen \in Nat
    BY <1>1 DEF Pools!TypeOK, Pools!Reset
  <2>2. \A r \in poolsResets' : r.gen < poolsGeneration'
    BY <1>1, <2>1 DEF Pools!Resets, Pools!TypeOK
  <2>3. poolsGeneration' \in Nat
    BY <1>1 DEF Pools!TypeOK
  <2> QED BY <2>1, <2>2, <2>3 DEF Pools!Resets
<1> QED BY <1>2, <1>3, <1>4

LEMMA PoolsShutdownDestroysKeeps ==
  ASSUME Pools!Setting, Pools!Inv, Pools!ShutdownDestroys  PROVE  Pools!Inv'
<1> USE DEF Pools!Inv
<1>1. /\ poolsStop = "joining" /\ poolsInit.at = "none" /\ poolsStop' = "destroying"
      /\ UNCHANGED <<poolsPool, poolsBuilt, poolsOutgoing, poolsEpochOf, poolsGeneration, poolsStopping,
                     poolsInit, poolsResetting, poolsResets, poolsPc, poolsGot,
                     poolsSince>>
  BY DEF Pools!ShutdownDestroys, Pools!caller
<1>2. CASE poolsPool # None
  <2>1. poolsEpoch' = poolsEpoch + 1 /\ Pools!DestroyOnce(poolsPool)
    BY <1>2 DEF Pools!ShutdownDestroys
  <2>2. poolsPool \in Pools!Pool /\ poolsPool <= poolsBuilt
           /\ (poolsLife[poolsPool] \in {"destroying", "broken"} => poolsPool \in poolsInflight)
    BY <1>2 DEF Pools!TypeOK, Pools!Account
  <2>3. /\ poolsLife' \in [Pools!Pool -> {"unborn", "live", "destroying", "gone", "broken"}]
        /\ poolsLife'[poolsPool] \in {"destroying", "gone", "broken"} /\ poolsInflight' \subseteq Pools!Pool
    BY <2>1, <2>2, PoolsDestroyOnceEffect
  <2>4. Pools!Account' /\ Pools!Epochs'
    BY <1>1, <2>1, <2>2, PoolsDestroyOnceKeeps
  <2>5. Pools!TypeOK'
    BY <1>1, <2>1, <2>3 DEF Pools!TypeOK
  <2>6. Pools!Phases' /\ Pools!Resets' /\ Pools!Usable'
    BY <1>1, <2>3 DEF Pools!Phases, Pools!Resets, Pools!Usable
  <2> QED BY <2>4, <2>5, <2>6
<1>3. CASE poolsPool = None
  <2>1. UNCHANGED <<poolsEpoch, poolsLife, poolsInflight, poolsRacing>>
    BY <1>3 DEF Pools!ShutdownDestroys
  <2>2. Pools!TypeOK' /\ Pools!Account' /\ Pools!Epochs'
    BY <1>1, <2>1 DEF Pools!TypeOK, Pools!Account, Pools!Epochs
  <2>3. Pools!Phases' /\ Pools!Resets' /\ Pools!Usable'
    BY <1>1, <1>3, <2>1 DEF Pools!Phases, Pools!Resets, Pools!Usable
  <2> QED BY <2>2, <2>3
<1> QED BY <1>2, <1>3

LEMMA PoolsShutdownEndsKeeps ==
  ASSUME Pools!Setting, Pools!Inv, Pools!ShutdownEnds  PROVE  Pools!Inv'
<1> USE DEF Pools!Inv
<1>1. /\ poolsStop = "destroying" /\ poolsStop' = "none" /\ poolsStopping' = FALSE
            /\ poolsPool' = None
      /\ poolsResetting' = FALSE /\ poolsInit.at = "none" /\ poolsStopping
      /\ poolsPool # None => poolsLife[poolsPool] # "live"
      /\ UNCHANGED <<poolsBuilt, poolsLife, poolsInflight, poolsRacing, poolsOutgoing, poolsEpochOf, poolsEpoch,
                     poolsGeneration, poolsInit, poolsResets, poolsPc, poolsGot,
                     poolsSince>>
  BY DEF Pools!ShutdownEnds, Pools!caller, Pools!Phases
<1>2. Pools!TypeOK' /\ Pools!Epochs'
  BY <1>1 DEF Pools!TypeOK, Pools!Epochs
<1>3. Pools!Account'
  BY <1>1 DEF Pools!Account, Pools!TypeOK
<1>4. Pools!Phases' /\ Pools!Usable'
  BY <1>1 DEF Pools!Phases, Pools!Usable
<1>5. Pools!Resets'
  <2>1. \A r \in poolsResets : r.gen \in Nat /\ r.gen < poolsGeneration /\ poolsGeneration \in Nat
    BY <1>1 DEF Pools!Resets, Pools!TypeOK, Pools!Reset
  <2> QED BY <1>1, <2>1 DEF Pools!Resets
<1> QED BY <1>2, <1>3, <1>4, <1>5

LEMMA PoolsInvStep ==
  ASSUME Pools!Setting, Pools!Inv, [Pools!Next]_Pools!vars  PROVE  Pools!Inv'
<1>1. ASSUME NEW c \in Callers, Pools!EnsurePool(c) \/ Pools!Recheck(c)
   PROVE  Pools!Inv'
  BY <1>1, PoolsCheckKeeps DEF Pools!EnsurePool, Pools!Recheck
<1>2. ASSUME NEW c \in Callers, Pools!GiveUp(c)  PROVE  Pools!Inv'
  BY <1>2
     DEF Pools!GiveUp, Pools!Fail, Pools!Inv, Pools!TypeOK, Pools!Account,
         Pools!Epochs, Pools!Phases, Pools!Resets, Pools!Usable, Pools!mgr
<1>3. CASE Pools!Decay
  BY <1>3
     DEF Pools!Decay, Pools!Inv, Pools!TypeOK, Pools!Account, Pools!Epochs,
         Pools!Phases, Pools!Resets, Pools!Usable, Pools!mgr, Pools!caller
<1>4. CASE UNCHANGED Pools!vars
  BY <1>4
     DEF Pools!Inv, Pools!TypeOK, Pools!Account, Pools!Epochs, Pools!Phases,
         Pools!Resets, Pools!Usable, Pools!vars, Pools!mgr, Pools!caller
<1> QED
  BY <1>1, <1>2, <1>3, <1>4, PoolsReplacedKeeps, PoolsReplaceFailsKeeps, PoolsInitEndsKeeps,
     PoolsConstructKeeps, PoolsDestroyDoneKeeps, PoolsDestroyFailsKeeps,
     PoolsFaultKeeps, PoolsResetFiresKeeps, PoolsResetDoneKeeps, PoolsShutdownKeeps,
     PoolsShutdownDestroysKeeps,
     PoolsShutdownEndsKeeps DEF Pools!Next

LEMMA PoolsInvInit ==
  ASSUME Pools!Setting, Pools!Init  PROVE  Pools!Inv
<1> USE DEF Pools!Setting, Pools!Init
<1>1. Pools!TypeOK
  BY DEF Pools!TypeOK, Pools!NoInit, Pools!Pool
<1>2. Pools!Account /\ Pools!Epochs
  BY DEF Pools!Account, Pools!Epochs, Pools!Pool
<1>3. Pools!Phases /\ Pools!Resets /\ Pools!Usable
  BY DEF Pools!Phases, Pools!Resets, Pools!Usable, Pools!NoInit
<1> QED BY <1>1, <1>2, <1>3 DEF Pools!Inv

-----------------------------------------------------------------------------
(* No pool leaks, and none is destroyed while it is being destroyed.       *)
THEOREM PoolsDestroyedOnce == Pools!Spec => []DestroyedOnce
<1> Pools!Setting
  BY PoolsSetting DEF Pools!Setting, Pools!Pool
<1>1. Pools!Init => Pools!Inv
  BY PoolsInvInit
<1>2. Pools!Inv /\ [Pools!Next]_Pools!vars => Pools!Inv'
  BY PoolsInvStep
<1>3. Pools!Inv => DestroyedOnce
  BY DEF Pools!Inv, Pools!Account, DestroyedOnce, Pools!DestroyedOnce
<1> QED BY <1>1, <1>2, <1>3, PTL DEF Pools!Spec

(* A reset is scheduled for the pool in use.                               *)
THEOREM ResetsHitTheLivePool == Pools!Spec => ResetsTheLivePool
<1> Pools!Setting
  BY PoolsSetting DEF Pools!Setting, Pools!Pool
<1>1. Pools!Init => Pools!Inv
  BY PoolsInvInit
<1>2. Pools!Inv /\ [Pools!Next]_Pools!vars => Pools!Inv'
  BY PoolsInvStep
<1>3. ASSUME Pools!Inv, [Pools!Next]_Pools!vars
      PROVE  \A r \in poolsResets' \ poolsResets : r.at = "armed" => r.pool = poolsPool
                /\ poolsPool # None /\ poolsLife[poolsPool] = "live"
  <2>1. ASSUME NEW p \in Pools!Pool, Pools!WorkerFault(p)
        PROVE  \A r \in poolsResets' \ poolsResets : r.pool = poolsPool /\ poolsPool # None
                  /\ poolsLife[poolsPool] = "live"
    <3>1. poolsLife[p] = "live" /\ poolsPool = p /\ poolsPool # None
      BY <1>3, <2>1, PoolsHeardIsInUse DEF Pools!WorkerFault, Pools!Setting
    <3> QED BY <2>1, <3>1 DEF Pools!WorkerFault
  <2>2. ASSUME NEW r \in poolsResets, Pools!ResetFires(r)
        PROVE  \A s \in poolsResets' \ poolsResets : s.at # "armed"
    <3>1. r \in Pools!Reset
      BY <1>3 DEF Pools!Inv, Pools!TypeOK
    <3> QED BY <2>2, <3>1 DEF Pools!ResetFires, Pools!Reset
  <2>3. ASSUME NEW r \in poolsResets, Pools!ResetDone(r)
     PROVE  poolsResets' \subseteq poolsResets
    BY <2>3 DEF Pools!ResetDone
  <2>4. CASE Pools!Shutdown
    BY <2>4 DEF Pools!Shutdown
  <2>5. ASSUME ~Pools!Shutdown, ~\E p \in Pools!Pool : Pools!WorkerFault(p),
               ~\E r \in poolsResets : Pools!ResetFires(r) \/ Pools!ResetDone(r)
        PROVE  poolsResets' = poolsResets
    BY <1>3, <2>5
       DEF Pools!Next, Pools!EnsurePool, Pools!Recheck, Pools!GiveUp, Pools!Replaced,
           Pools!ReplaceFails, Pools!InstallFails, Pools!Construct, Pools!Undone,
                      Pools!DestroyDone, Pools!DestroyFails, Pools!Decay, Pools!ShutdownDestroys,
                      Pools!ShutdownEnds, Pools!vars
  <2> QED BY <2>1, <2>2, <2>3, <2>4, <2>5
<1> QED BY <1>1, <1>2, <1>3, PTL
   DEF Pools!Spec, ResetsTheLivePool, Pools!ResetsTheLivePool

(* Whoever is given a pool is given one that nobody has begun to destroy,  *)
(* unless to replace it, and of its own generation.                        *)
THEOREM PoolsGivenLive == Pools!Spec => GivenALivePool
<1> Pools!Setting
  BY PoolsSetting DEF Pools!Setting, Pools!Pool
<1>1. Pools!Init => Pools!Inv
  BY PoolsInvInit
<1>2. Pools!Inv /\ [Pools!Next]_Pools!vars => Pools!Inv'
  BY PoolsInvStep
<1>3. ASSUME Pools!Inv, [Pools!Next]_Pools!vars, NEW c \in Callers, poolsPc[c] # "has",
             poolsPc'[c] = "has"
      PROVE  /\ poolsLife'[poolsGot'[c]] = "live" \/ poolsGot'[c] \in poolsOutgoing
             /\ poolsPc[c] = "joined" => poolsSince[c] = poolsGeneration
  <2>1. CASE Pools!Construct
    <3>1. ~(poolsStopping \/ poolsGeneration # poolsInit.gen)
      BY <1>3, <2>1 DEF Pools!Construct
    <3>2. /\ poolsPool' = poolsBuilt + 1
                /\ poolsLife' = [poolsLife EXCEPT ![poolsBuilt + 1] = "live"] /\ Pools!EndInit(TRUE)
      BY <2>1, <3>1 DEF Pools!Construct
    <3>3. poolsPc[c] = "joined" /\ poolsGot'[c] = poolsPool'
      BY <1>3, <3>2 DEF Pools!EndInit, Pools!Joined
    <3>4. poolsBuilt + 1 \in Pools!Pool
      BY <1>3, <2>1
         DEF Pools!Construct, Pools!Setting, Pools!Pool, Pools!Inv, Pools!TypeOK
    <3>5. poolsLife'[poolsGot'[c]] = "live"
      BY <1>3, <3>2, <3>3, <3>4 DEF Pools!Inv, Pools!TypeOK
    <3> QED BY <1>3, <3>1, <3>3, <3>5 DEF Pools!Inv, Pools!Usable
  <2>2. ASSUME NEW d \in Callers, Pools!EnsurePool(d) \/ Pools!Recheck(d)
        PROVE  poolsLife'[poolsGot'[c]] = "live" \/ poolsGot'[c] \in poolsOutgoing
    <3>1. d = c /\ Pools!Give(c) /\ UNCHANGED <<Pools!mgr, poolsInit>> /\ poolsPool # None
             /\ ~poolsStopping /\ ~poolsResetting
      BY <1>3, <2>2
         DEF Pools!EnsurePool, Pools!Recheck, Pools!Check, Pools!Fail, Pools!Give,
             Pools!Inv, Pools!TypeOK
    <3>2. poolsGot'[c] = poolsPool /\ poolsLife' = poolsLife
      BY <1>3, <3>1 DEF Pools!Give, Pools!mgr, Pools!Inv, Pools!TypeOK
    <3> QED BY <1>3, <3>1, <3>2 DEF Pools!Inv, Pools!Usable
  <2>3. ASSUME NEW d \in Callers, Pools!EnsurePool(d) \/ Pools!Recheck(d)
        PROVE  poolsPc[c] # "joined"
    BY <1>3, <2>3
       DEF Pools!EnsurePool, Pools!Recheck, Pools!Check, Pools!Fail, Pools!Give,
           Pools!Inv, Pools!TypeOK
  <2>4. ASSUME ~Pools!Construct,
               ~\E d \in Callers : Pools!EnsurePool(d) \/ Pools!Recheck(d)  PROVE  FALSE
    <3>1. ASSUME NEW d \in Callers, Pools!GiveUp(d)  PROVE  FALSE
      BY <1>3, <3>1 DEF Pools!GiveUp, Pools!Fail, Pools!Inv, Pools!TypeOK
    <3>2. CASE Pools!InstallFails \/ Pools!Undone \/ Pools!ReplaceFails
      BY <1>3, <3>2
         DEF Pools!InstallFails, Pools!Undone, Pools!ReplaceFails, Pools!EndInit, Pools!Inv, Pools!TypeOK
    <3>3. CASE UNCHANGED poolsPc
      BY <1>3, <3>3
    <3> QED
      BY <1>3, <2>4, <3>1, <3>2, <3>3
         DEF Pools!Next, Pools!Replaced, Pools!DestroyDone, Pools!DestroyFails, Pools!WorkerFault,
             Pools!ResetFires, Pools!ResetDone, Pools!Decay, Pools!Shutdown,
             Pools!ShutdownDestroys, Pools!ShutdownEnds, Pools!vars, Pools!caller
  <2> QED BY <2>1, <2>2, <2>3, <2>4
<1>4. ASSUME Pools!Inv, [Pools!Next]_Pools!vars
      PROVE  \A c \in Callers : poolsPc[c] # "has" /\ poolsPc'[c] = "has"
               => /\ poolsLife'[poolsGot'[c]] = "live" \/ poolsGot'[c] \in poolsOutgoing
                  /\ poolsPc[c] = "joined" => poolsSince[c] = poolsGeneration
  BY <1>3, <1>4
<1> QED BY <1>1, <1>2, <1>4, PTL DEF Pools!Spec, GivenALivePool, Pools!GivenALivePool

-----------------------------------------------------------------------------
(* What a run of the two together shows of one, it shows of the component. *)
LEMMA ResourcesSteps ==
  ASSUME [AllNext]_all  PROVE  [Next]_vars /\ [Pools!Next]_Pools!vars
<1>1. UNCHANGED poolsVars => UNCHANGED Pools!vars
  BY DEF poolsVars, Pools!vars, Pools!mgr, Pools!caller
<1>2. CASE UNCHANGED all
  BY <1>1, <1>2 DEF all
<1>3. CASE AllNext
  <2>1. \/ Next /\ SemaphoreOnly
        \/ Pools!Next /\ PoolsOnly
    BY <1>3 DEF AllNext, Next, Pools!Next
  <2> QED
    BY <1>1, <2>1 DEF SemaphoreOnly, PoolsOnly
<1> QED BY <1>2, <1>3

(* Each of the two components runs as its own specification says.          *)
THEOREM Components == SafetySpec => Spec /\ Pools!Spec
<1>1. AllInit => Init /\ Pools!Init
  BY DEF AllInit
<1>2. [AllNext]_all => [Next]_vars /\ [Pools!Next]_Pools!vars
  BY ResourcesSteps
<1> QED BY <1>1, <1>2, PTL DEF SafetySpec, Spec, Pools!Spec

(* All of it, of the runs of the composition.                              *)
THEOREM Resources ==
  SafetySpec => /\ [](CapHolds /\ NoLeakedSlot /\ DestroyedOnce)
                /\ RefusedOnlyWhenFull /\ GivenALivePool /\ ResetsTheLivePool
BY Components, Cap, NoLeak, Refusal, PoolsDestroyedOnce, ResetsHitTheLivePool, PoolsGivenLive, PTL
=============================================================================
