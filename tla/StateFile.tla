------------------------------ MODULE StateFile ------------------------------
(***************************************************************************)
(* The shared state file: updateState(), _readState() and _writeState() of *)
(* state/state-manager.ts, the backups and the recovery of                 *)
(* state/state-backup-manager.ts and replaceFile() of                      *)
(* utils/atomic-replace.ts.  Every update reads, backs up and replaces the *)
(* file under the state lock; a process may die at any step.  On Windows a *)
(* rename that stays blocked becomes a copy in place, which may be cut     *)
(* short.  Processes of a newer build write a format older ones refuse.    *)
(***************************************************************************)
EXTENDS Integers, FiniteSets, Sequences

CONSTANTS Proc,       \* processes that update the file
          Newer,      \* those of a newer build
          MaxBackups, \* backups kept
          MaxUpdates, \* bound: updates begun
          MaxFaults   \* bound: failing file-system calls

VARIABLES disk,       \* the file: what it holds, its build, whether it is whole
          backups,    \* copies of it, newest first
          at, base,   \* at[p]: where its update is; base[p]: the state it read
          readOnly,   \* readOnly[p]: stateTooNew
          bare,       \* no intact backup precedes the write in progress
          updates, failed,
          acked,      \* history: updates whose caller was told they are written
          waived      \* history: losses the code accepts

stateVars == <<disk, backups, at, base, readOnly, bare, updates, failed, acked, waived>>

Absent   == [holds |-> {}, newer |-> FALSE, whole |-> TRUE]   \* or a default state
Torn(f)  == [f EXCEPT !.whole = FALSE]
Legible(p, f) == f.whole /\ (f.newer => p \in Newer)          \* migrateAndValidate()

Init ==
  /\ disk = Absent /\ backups = << >>
  /\ at = [p \in Proc |-> "idle"] /\ base = [p \in Proc |-> {}]
  /\ readOnly = [p \in Proc |-> FALSE] /\ bare = FALSE
  /\ updates = 0 /\ failed = 0 /\ acked = {} /\ waived = {}

Goto(p, pc) == at' = [at EXCEPT ![p] = pc]
Fails == failed < MaxFaults /\ failed' = failed + 1
Works == UNCHANGED failed
Has(p, state) == base' = [base EXCEPT ![p] = state]

Update(p) ==                                    \* withLock(): one at a time
  /\ updates < MaxUpdates /\ \A q \in Proc : at[q] = "idle"
  /\ updates' = updates + 1 /\ Goto(p, "read")
  /\ UNCHANGED <<disk, backups, base, readOnly, bare, failed, acked, waived>>

(* Mutant: a file of a newer build is taken for a corrupt one.             *)
ReadTooNew(p) ==
  /\ at[p] = "read" /\ Works
  /\ IF Legible(p, disk) THEN Goto(p, "backup") /\ Has(p, disk.holds)
                         ELSE Goto(p, "recover") /\ UNCHANGED base
  /\ UNCHANGED <<disk, backups, readOnly, bare, updates, acked, waived>>

Read(p) ==
  /\ at[p] = "read"
  /\ \/ readOnly[p] /\ Works /\ Goto(p, "idle") /\ UNCHANGED <<base, readOnly>>
     \/ /\ ~readOnly[p] /\ Works
        /\ \/ Legible(p, disk) /\ Goto(p, "backup") /\ Has(p, disk.holds) /\ UNCHANGED readOnly
           \/ disk.whole /\ ~Legible(p, disk)   \* quarantined; the write is suppressed
                /\ Goto(p, "idle") /\ readOnly' = [readOnly EXCEPT ![p] = TRUE] /\ UNCHANGED base
           \/ ~disk.whole /\ Goto(p, "recover") /\ UNCHANGED <<base, readOnly>>
     \/ ~readOnly[p] /\ Fails /\ Goto(p, "idle") /\ UNCHANGED <<base, readOnly>>
  /\ UNCHANGED <<disk, backups, bare, updates, acked, waived>>

(* recoverFromCorruption(): the newest backup this build can read, or a    *)
(* default state.  A directory, a listed file or a copy that cannot be read *)
(* is passed over in silence, and the recovery is a success all the same;  *)
(* if the write or the second read fails, the update goes on from a        *)
(* default.                                                                *)
Usable(p) == {i \in DOMAIN backups : Legible(p, backups[i])}
NewestOf(S) == CHOOSE i \in S : \A j \in S : i <= j
Found(p, seen) ==
  IF seen = {} THEN Absent ELSE [backups[NewestOf(seen)] EXCEPT !.newer = p \in Newer]
PassedOver(p, seen) == \E i \in Usable(p) : \A j \in seen : i < j

Recover(p) ==
  /\ at[p] = "recover" /\ Goto(p, "backup")
  /\ \E seen \in SUBSET Usable(p) :
       \/ /\ IF seen = Usable(p) THEN Works ELSE Fails
          /\ disk' = Found(p, seen) /\ Has(p, Found(p, seen).holds)
          /\ waived' = waived
               \cup {w \in {"newer build"} : ~disk.whole /\ disk.newer /\ p \notin Newer}
               \cup {w \in {"copy passed over"} : PassedOver(p, seen)}
       \/ /\ Fails /\ Has(p, {}) /\ disk' \in {disk, Found(p, seen)}
          /\ waived' = waived \cup {"recovery failed"}
  /\ UNCHANGED <<backups, readOnly, bare, updates, acked>>

Backup(p) ==                                    \* createBackup(): a failure is tolerated
  /\ at[p] = "backup" /\ Goto(p, "replace")
  /\ \/ disk = Absent /\ Works /\ bare' = FALSE /\ UNCHANGED backups
     \/ disk # Absent /\ Works /\ bare' = ~disk.whole /\ backups' = <<disk>> \o backups
     \/ Fails /\ bare' = TRUE /\ UNCHANGED backups
     \/ Fails /\ bare' = TRUE /\ backups' = <<Torn(disk)>> \o backups
  /\ UNCHANGED <<disk, base, readOnly, updates, acked, waived>>

Written(p) == [holds |-> base[p] \cup {updates}, newer |-> p \in Newer, whole |-> TRUE]

Replace(p) ==
  /\ at[p] = "replace"
  /\ \/ Works /\ disk' = Written(p) /\ Goto(p, "cleanup") /\ UNCHANGED waived
     \/ Fails /\ Goto(p, "idle") /\ UNCHANGED <<disk, waived>>
     \/ /\ Fails /\ disk' = Torn(Written(p)) /\ Goto(p, "copy")     \* copyFile() truncates
        /\ waived' = IF bare THEN waived \cup {"no backup"} ELSE waived
  /\ UNCHANGED <<backups, base, readOnly, bare, updates, acked>>

Copied(p) ==
  /\ at[p] = "copy"
  /\ \/ Works /\ disk' = Written(p) /\ Goto(p, "cleanup")
     \/ Fails /\ Goto(p, "idle") /\ UNCHANGED disk
  /\ UNCHANGED <<backups, base, readOnly, bare, updates, acked, waived>>

Cleanup(p) ==
  /\ at[p] = "cleanup" /\ Goto(p, "idle") /\ acked' = acked \cup {updates}
  /\ \/ Works /\ backups' = SubSeq(backups, 1, IF Len(backups) < MaxBackups THEN Len(backups)
                                                                          ELSE MaxBackups)
     \/ Fails /\ UNCHANGED backups
  /\ UNCHANGED <<disk, base, readOnly, bare, updates, waived>>

(* A process dies and another of its build takes its place.                *)
Crash(p) ==
  /\ Goto(p, "idle") /\ readOnly' = [readOnly EXCEPT ![p] = FALSE]
  /\ at[p] # "idle" \/ readOnly[p]
  /\ \/ at[p] = "backup" /\ backups' = <<Torn(disk)>> \o backups
     \/ UNCHANGED backups
  /\ UNCHANGED <<disk, base, bare, updates, failed, acked, waived>>

Run(p) == Read(p) \/ Recover(p) \/ Backup(p) \/ Replace(p) \/ Copied(p) \/ Cleanup(p)
Next == \E p \in Proc : Update(p) \/ Run(p) \/ Crash(p)
Spec == Init /\ [][Next]_stateVars

-----------------------------------------------------------------------------
(* An update that was acknowledged is in the file whenever the file can be *)
(* read: no death half-way, blocked rename, cut copy, recovery or process  *)
(* of another build drops it.  Waived, each where it happens, are a copy   *)
(* cut short without a backup before it, a recovery that fails itself, an  *)
(* older build that recovers a torn file of a newer one, and a recovery    *)
(* that cannot read a newer copy than the one it restores: the code skips  *)
(* the copy (state-backup-manager.ts:149-151, 165-168) and reports success. *)
AcknowledgedSurvives == disk.whole => acked \subseteq disk.holds \/ waived # {}

-----------------------------------------------------------------------------
(* What makes it so: the inductive invariant, and what it needs of the     *)
(* parameters.                                                             *)
FileSetting == MaxBackups \in Nat

Steps == {"idle", "read", "recover", "backup", "replace", "copy", "cleanup"}
File == [holds : SUBSET Nat, newer : BOOLEAN, whole : BOOLEAN]

FileTyped ==
  /\ disk \in File /\ backups \in Seq(File)
  /\ at \in [Proc -> Steps] /\ base \in [Proc -> SUBSET Nat]
  /\ bare \in BOOLEAN /\ updates \in Nat /\ acked \subseteq Nat
  /\ readOnly \in [Proc -> BOOLEAN]

(* The state lock: one update at a time.                                   *)
OneUpdate == \A p, q \in Proc : at[p] # "idle" /\ at[q] # "idle" => p = q

(* The newest copy is one that whoever can take the file can read, and it  *)
(* holds all that was acknowledged.                                        *)
BackedUp ==
  acked # {} => /\ Len(backups) > 0 /\ backups[1].whole /\ acked \subseteq backups[1].holds
                /\ (backups[1].newer => disk.newer)

(* What was acknowledged is in the file, or in the copy of a torn one.     *)
Survives == IF disk.whole THEN acked \subseteq disk.holds ELSE BackedUp

(* What an update under way may rely on.                                   *)
UpdateKnows ==
  \A p \in Proc :
    /\ at[p] = "recover" => ~disk.whole
    /\ at[p] \in {"backup", "replace"} =>
         disk.whole /\ acked \subseteq base[p] /\ (disk.newer => p \in Newer)
    /\ at[p] = "replace" /\ ~bare => BackedUp
    /\ at[p] = "copy" => ~disk.whole /\ acked \subseteq base[p]
    /\ at[p] = "cleanup" => disk.whole /\ acked \cup {updates} \subseteq disk.holds

FileInv == FileTyped /\ OneUpdate /\ (waived = {} => Survives /\ UpdateKnows)
=============================================================================
