------------------------------- MODULE Settings -------------------------------
(***************************************************************************)
(* The user's settings (config.ts, the /research-config menu of            *)
(* research-config.ts, and knowledge-config of cli.ts): several processes  *)
(* read and write config.env and the registry of per-directory settings.   *)
(*                                                                         *)
(* Each process is synchronous in itself, so a process is in one place of  *)
(* one call at a time, and every system call of the lock protocol is a     *)
(* step.  What a setting means is left out: a key has one of two values.   *)
(* A saver inside the lock is done within the 30 s after which its lock is *)
(* judged stale.                                                           *)
(***************************************************************************)
EXTENDS Integers, FiniteSets, Sequences, Functions

CONSTANTS
  Proc, Standalone,      \* the CLI is a standalone process; the others are pi sessions
  Dir, CwdOf,            \* the directory each process works in
  Env, Overlay, Named,   \* per process: its environment, its {iface}.env, the file --config names
  Starts,                \* what the processes may find (files of older versions, locks left
                         \* behind) and how many of them are killed
  Values, Inodes,
  MaxTries,              \* attempts at the lock
  MaxSaves,              \* lock files created
  NoLock

User == {"model", "device"}
Local == {"mode"}        \* LOCAL_SCOPE_KEYS
Keys == User \cup Local
Unset == "unset"
File == {"env", "registry"}
Empty == [k \in Keys |-> Unset]

VARIABLES
  start,                 \* the .pi-research.env of each directory, the user keys of HOME's entry
  config, registry, legacy, version, saves,
  lock,                  \* the lock file on each path
  claimed,               \* the lock a steal has renamed to its reclaim path
  alive, env, at, job, tries, judged, snapshot, stamp, view,
  cache, menu, store,
  chosen,                \* ghost: what savers meant to be in each file
  picked,                \* ghost: what the user saved for each directory
  breach, misplaced       \* ghosts: two in one critical section, and why; locks that a steal lost

diskVars == <<config, registry, version, chosen, picked>>
lockVars == <<saves, lock, claimed, breach, misplaced>>
callVars == <<at, job, tries, judged, snapshot, stamp, view>>
restVars == <<start, legacy, alive, env, store>>
settingsVars == <<diskVars, lockVars, callVars, restVars, cache, menu>>

NoJob == [file |-> "env", whole |-> Empty, changed |-> {}, then |-> "idle", held |-> NoLock, ok |-> TRUE]
NoCache == [stamp |-> <<>>, view |-> Empty]
Closed == [at |-> "closed", initial |-> Empty, now |-> Empty]
Nothing == [config |-> Empty, registry |-> [d \in Dir |-> Empty]]
Leftover == [ino |-> 1, by |-> "gone", nth |-> 0]

Init ==
  /\ config = Empty /\ registry = [d \in Dir |-> Empty] /\ start \in Starts
  /\ legacy = [d \in Dir |-> start.legacy[d] # Empty]
  /\ version = [f \in File |-> 0] /\ store = "kept"
  /\ lock = [f \in File |-> IF f \in start.dead THEN Leftover ELSE NoLock] /\ saves = 0
  /\ claimed = [p \in Proc |-> NoLock] /\ breach = "none" /\ misplaced = {}
  /\ alive = [p \in Proc |-> TRUE] /\ env = Env
  /\ at = [p \in Proc |-> IF p \in Standalone THEN "start" ELSE "idle"]
  /\ job = [p \in Proc |-> NoJob] /\ tries = [p \in Proc |-> 0] /\ judged = [p \in Proc |-> NoLock]
  /\ snapshot = [p \in Proc |-> Nothing] /\ stamp = [p \in Proc |-> <<>>] /\ view = [p \in Proc |-> Empty]
  /\ cache = [p \in Proc |-> NoCache] /\ menu = [p \in Proc |-> Closed]
  /\ chosen = Nothing /\ picked = [d \in Dir |-> Empty]

Goes(p, where) == at' = [at EXCEPT ![p] = where]
In(p, where) == at[p] = where /\ alive[p]

(* The first of the layers that sets the key.                              *)
Over(high, low) == [k \in Keys |-> IF high[k] # Unset THEN high[k] ELSE low[k]]
Only(layer, keys) == [k \in Keys |-> IF k \in keys THEN layer[k] ELSE Unset]

-----------------------------------------------------------------------------
(* bridgeConfigEnv(): promotes the file layers into the environment of the *)
(* CLI, but a per-directory key only from the file the user named.         *)
Bridge(p) ==
  /\ In(p, "start") /\ Goes(p, "idle")
  /\ LET ambient == Only(Over(Overlay[p], config), User)
     IN env' = [env EXCEPT ![p] = Over(@, Over(Named[p], ambient))]
  /\ UNCHANGED <<diskVars, lockVars, job, tries, judged, snapshot, stamp, view, start, legacy, alive, store, cache, menu>>

-----------------------------------------------------------------------------
(* getConfig().                                                            *)

LegacyOf(d) == IF legacy[d] THEN Only(start.legacy[d], Local) ELSE Empty

Fingerprint(p) == <<version["env"], version["registry"], legacy[CwdOf[p]]>>
Fresh(p) == cache[p].stamp = Fingerprint(p)

(* What the layers resolve to.  A legacy file that differs from the        *)
(* directory's entry is merged onto it before the entry is applied.        *)
Resolved(p, base, mine) ==
  Over(env[p], Over(Over(LegacyOf(CwdOf[p]), Only(mine, Local)), Over(Overlay[p], base)))

Room == saves < MaxSaves

(* The fingerprint is taken before the files are read.                     *)
GetConfig(p) ==
  /\ In(p, "idle") /\ ~Fresh(p) /\ Room
  /\ stamp' = [stamp EXCEPT ![p] = Fingerprint(p)] /\ Goes(p, "load")
  /\ UNCHANGED <<diskVars, lockVars, restVars, job, tries, judged, snapshot, view, cache, menu>>

(* A call of saveConfig() or updateProjectSettingsRegistry(): the whole    *)
(* configuration, the names of the keys that changed, where it returns to. *)
Save(p, file, whole, changed, then) ==
  /\ job' = [job EXCEPT ![p] = [file |-> file, whole |-> whole, changed |-> changed,
                                then |-> then, held |-> NoLock, ok |-> TRUE]]
  /\ tries' = [tries EXCEPT ![p] = 0] /\ Goes(p, "acquire")

(* The registry is read first.  The one-time migration: config.env is made *)
(* from the user keys of the HOME entry when it is missing.                *)
ReadRegistry(p) ==
  /\ In(p, "load")
  /\ view' = [view EXCEPT ![p] = registry[CwdOf[p]]]
  /\ LET kept == {k \in User : start.home[k] # Unset}
     IN IF version["env"] = 0 /\ kept # {} THEN Save(p, "env", start.home, kept, "files")
        ELSE Goes(p, "files") /\ UNCHANGED <<job, tries>>
  /\ UNCHANGED <<diskVars, lockVars, restVars, judged, snapshot, stamp, cache, menu>>

(* config.env, the overlay and the legacy file; the latter is migrated     *)
(* into the registry when it differs from the entry that was read.         *)
ReadFiles(p) ==
  /\ In(p, "files")
  /\ LET old == LegacyOf(CwdOf[p])
         differs == old # Empty /\ Only(view[p], Local) # old
     IN /\ view' = [view EXCEPT ![p] = Resolved(p, config, @)]
        /\ IF differs THEN Save(p, "registry", old, {k \in Local : old[k] # Unset}, "keep")
           ELSE Goes(p, "keep") /\ UNCHANGED <<job, tries>>
  /\ UNCHANGED <<diskVars, lockVars, restVars, judged, snapshot, stamp, cache, menu>>

Forgets(p) ==
  /\ job' = [job EXCEPT ![p] = NoJob] /\ tries' = [tries EXCEPT ![p] = 0]
  /\ judged' = [judged EXCEPT ![p] = NoLock] /\ snapshot' = [snapshot EXCEPT ![p] = Nothing]
  /\ stamp' = [stamp EXCEPT ![p] = <<>>] /\ view' = [view EXCEPT ![p] = Empty]

(* Mutant: the stamp is that of the files as they are at the end.          *)
KeepRestamped(p) ==
  /\ In(p, "keep") /\ Goes(p, "idle") /\ Forgets(p)
  /\ cache' = [cache EXCEPT ![p] = [stamp |-> Fingerprint(p), view |-> view[p]]]
  /\ UNCHANGED <<diskVars, lockVars, restVars, menu>>

Keep(p) ==
  /\ In(p, "keep") /\ Goes(p, "idle") /\ Forgets(p)
  /\ cache' = [cache EXCEPT ![p] = [stamp |-> stamp[p], view |-> view[p]]]
  /\ UNCHANGED <<diskVars, lockVars, restVars, menu>>

-----------------------------------------------------------------------------
(* The lock of a file: an exclusive create, and the steal of a stale one.  *)

Section == {"locked", "write", "release"}
Inside(p, f) == alive[p] /\ at[p] \in Section /\ job[p].file = f
Abandoned(l) == \A q \in Proc : alive[q] /\ at[q] \in Section => job[q].held # l

(* Inode numbers of files that were unlinked are used again.               *)
Taken(f) == {l.ino : l \in ({lock[f]} \cup {claimed[c] : c \in {q \in Proc : job[q].file = f}}) \ {NoLock}}

(* Whether another process is inside, and what let p in beside it: a steal *)
(* that has its lock in hand, a steal that lost it, or neither.            *)
Cause(p, f) ==
  LET others == {q \in Proc \ {p} : Inside(q, f)}
      held == {job[q].held : q \in others}
  IN CASE breach # "none" \/ others = {} -> breach
       [] held \cap Range(claimed) # {} -> "window"
       [] held \cap misplaced # {} -> "lost"
       [] OTHER -> "fault"

Create(p) ==
  /\ In(p, "acquire") /\ tries[p] < MaxTries /\ Room /\ lock[job[p].file] = NoLock /\ Goes(p, "locked")
  /\ LET f == job[p].file
     IN \E i \in Inodes \ Taken(f) :
          LET mine == [ino |-> i, by |-> p, nth |-> saves]
          IN /\ lock' = [lock EXCEPT ![f] = mine] /\ job' = [job EXCEPT ![p].held = mine]
             /\ breach' = Cause(p, f) /\ saves' = saves + 1
  /\ UNCHANGED <<diskVars, restVars, claimed, misplaced, tries, judged, snapshot, stamp, view, cache, menu>>

(* EEXIST, and the holder is at work: 50 ms of sleep.                      *)
WaitTurn(p) ==
  /\ In(p, "acquire") /\ tries[p] < MaxTries
  /\ lock[job[p].file] # NoLock /\ ~Abandoned(lock[job[p].file])
  /\ tries' = [tries EXCEPT ![p] = @ + 1]
  /\ UNCHANGED <<diskVars, lockVars, restVars, at, job, judged, snapshot, stamp, view, cache, menu>>

(* EEXIST, and the file is older than 30 s.                                *)
Judge(p) ==
  /\ In(p, "acquire") /\ tries[p] < MaxTries
  /\ lock[job[p].file] # NoLock /\ Abandoned(lock[job[p].file])
  /\ judged' = [judged EXCEPT ![p] = lock[job[p].file]] /\ Goes(p, "judged")
  /\ UNCHANGED <<diskVars, lockVars, restVars, job, tries, snapshot, stamp, view, cache, menu>>

TriesAgain(p) == Goes(p, "acquire") /\ tries' = [tries EXCEPT ![p] = @ + 1]

(* stealStaleLock(): the rename is won by one contender.                   *)
Claim(p) ==
  /\ In(p, "judged")
  /\ LET f == job[p].file
     IN IF lock[f] = NoLock THEN TriesAgain(p) /\ UNCHANGED <<lock, claimed>>
        ELSE /\ claimed' = [claimed EXCEPT ![p] = lock[f]] /\ lock' = [lock EXCEPT ![f] = NoLock]
             /\ Goes(p, "claimed") /\ UNCHANGED tries
  /\ UNCHANGED <<diskVars, restVars, saves, breach, misplaced, job, judged, snapshot, stamp, view, cache, menu>>

(* Mutant: the claimed lock is destroyed without a look at its inode.      *)
DestroyUnseen(p) ==
  /\ In(p, "claimed") /\ TriesAgain(p) /\ claimed' = [claimed EXCEPT ![p] = NoLock]
  /\ UNCHANGED <<diskVars, restVars, saves, lock, breach, misplaced, job, judged, snapshot, stamp, view, cache, menu>>

(* The lock that was judged is destroyed; another one is put back, unless  *)
(* the path has been taken meanwhile: then it stays a reclaim file.        *)
Destroy(p) ==
  /\ In(p, "claimed") /\ claimed[p].ino = judged[p].ino /\ TriesAgain(p)
  /\ misplaced' = IF claimed[p] = judged[p] THEN misplaced ELSE misplaced \cup {claimed[p]}
  /\ claimed' = [claimed EXCEPT ![p] = NoLock]
  /\ UNCHANGED <<diskVars, restVars, saves, lock, breach, job, judged, snapshot, stamp, view, cache, menu>>

PutBack(p) ==
  /\ In(p, "claimed") /\ claimed[p].ino # judged[p].ino /\ TriesAgain(p)
  /\ LET f == job[p].file
     IN /\ IF lock[f] = NoLock THEN lock' = [lock EXCEPT ![f] = claimed[p]] /\ UNCHANGED misplaced
           ELSE misplaced' = misplaced \cup {claimed[p]} /\ UNCHANGED lock
        /\ claimed' = [claimed EXCEPT ![p] = NoLock]
  /\ UNCHANGED <<diskVars, restVars, saves, breach, job, judged, snapshot, stamp, view, cache, menu>>

GivesUp(p) ==
  /\ In(p, "acquire") /\ tries[p] = MaxTries
  /\ job' = [job EXCEPT ![p].ok = FALSE] /\ Goes(p, job[p].then)
  /\ UNCHANGED <<diskVars, lockVars, restVars, tries, judged, snapshot, stamp, view, cache, menu>>

-----------------------------------------------------------------------------
(* The critical section: the file is read inside the lock, and only the    *)
(* keys that belong to it and were changed are replaced.                   *)

ScopeOf(f) == IF f = "env" THEN User ELSE Local
(* Mutant: all the keys of the scope are written, changed or not.          *)
NewValuesUnscoped(p) == Only(job[p].whole, ScopeOf(job[p].file))

NewValues(p) == Only(job[p].whole, job[p].changed \cap ScopeOf(job[p].file))

ReadLatest(p) ==
  /\ In(p, "locked") /\ Goes(p, "write")
  /\ snapshot' = [snapshot EXCEPT ![p] = [config |-> config, registry |-> registry]]
  /\ UNCHANGED <<diskVars, lockVars, restVars, job, tries, judged, stamp, view, cache, menu>>

(* A failed read or write, or a registry that does not parse: rethrown.    *)
Fails(p) ==
  /\ In(p, "locked") \/ In(p, "write")
  /\ Goes(p, "release") /\ job' = [job EXCEPT ![p].ok = FALSE]
  /\ UNCHANGED <<diskVars, lockVars, restVars, tries, judged, snapshot, stamp, view, cache, menu>>

(* The temporary file is renamed over the file.                            *)
Write(p) ==
  /\ In(p, "write") /\ Goes(p, "release")
  /\ LET f == job[p].file
         d == CwdOf[p]
         meant == Only(job[p].whole, job[p].changed)
     IN /\ version' = [version EXCEPT ![f] = @ + 1]
        /\ IF f = "env"
           THEN /\ config' = Over(NewValues(p), snapshot[p].config) /\ UNCHANGED registry
                /\ chosen' = [chosen EXCEPT !.config = Over(meant, @)]
           ELSE /\ registry' = [snapshot[p].registry EXCEPT ![d] = Over(NewValues(p), @)]
                /\ chosen' = [chosen EXCEPT !.registry[d] = Over(meant, @)] /\ UNCHANGED config
        /\ picked' = IF job[p].then = "keep" THEN picked ELSE [picked EXCEPT ![d] = Over(Only(meant, Local), @)]
  /\ UNCHANGED <<lockVars, restVars, job, tries, judged, snapshot, stamp, view, cache, menu>>

(* `finally': the lock file is unlinked, whoever it belongs to by now.     *)
Release(p) ==
  /\ In(p, "release") /\ Goes(p, job[p].then)
  /\ lock' = [lock EXCEPT ![job[p].file] = NoLock]
  /\ job' = [job EXCEPT ![p].held = NoLock]
  /\ UNCHANGED <<diskVars, restVars, saves, claimed, breach, misplaced, tries, judged, snapshot, stamp, view, cache, menu>>

-----------------------------------------------------------------------------
(* knowledge-config set, and the menu.                                     *)

SetForDirectory(p, k, v) ==
  /\ p \in Standalone /\ k \in Local /\ In(p, "idle") /\ Fresh(p) /\ cache[p].view[k] # v /\ Room
  /\ Save(p, "registry", [cache[p].view EXCEPT ![k] = v], {k}, "saved")
  /\ UNCHANGED <<diskVars, lockVars, restVars, judged, snapshot, stamp, view, cache, menu>>

OpenMenu(p) ==
  /\ p \notin Standalone /\ In(p, "idle") /\ Fresh(p) /\ menu[p].at = "closed"
  /\ menu' = [menu EXCEPT ![p] = [at |-> "open", initial |-> cache[p].view, now |-> cache[p].view]]
  /\ UNCHANGED <<diskVars, lockVars, restVars, callVars, cache>>

(* A change is saved at once: its key alone, to the file of its scope.     *)
Choose(p, k, v) ==
  /\ In(p, "idle") /\ menu[p].at = "open" /\ k # "model" /\ menu[p].now[k] # v /\ Room
  /\ menu' = [menu EXCEPT ![p].now[k] = v]
  /\ Save(p, IF k \in Local THEN "registry" ELSE "env", [menu[p].now EXCEPT ![k] = v], {k}, "saved")
  /\ UNCHANGED <<diskVars, lockVars, restVars, judged, snapshot, stamp, view, cache>>

(* Except the embedding model: it costs the store, and waits for the close. *)
ChooseModel(p, v) ==
  /\ In(p, "idle") /\ menu[p].at = "open" /\ menu[p].now["model"] # v
  /\ menu' = [menu EXCEPT ![p].now["model"] = v]
  /\ UNCHANGED <<diskVars, lockVars, restVars, callVars, cache>>

(* resetConfig() after a save; a failed one is shown, and nothing is reset. *)
Saved(p) ==
  /\ In(p, "saved") /\ Goes(p, "idle") /\ Forgets(p)
  /\ cache' = IF job[p].ok THEN [cache EXCEPT ![p] = NoCache] ELSE cache
  /\ UNCHANGED <<diskVars, lockVars, restVars, menu>>

Closes(p) == menu' = [menu EXCEPT ![p] = Closed]

Close(p, cancelled) ==
  /\ In(p, "idle") /\ menu[p].at = "open"
  /\ IF menu[p].now["model"] # menu[p].initial["model"] /\ ~cancelled
     THEN menu' = [menu EXCEPT ![p].at = "asking"] ELSE Closes(p)
  /\ UNCHANGED <<diskVars, lockVars, restVars, callVars, cache>>

Decline(p) ==
  /\ In(p, "idle") /\ menu[p].at = "asking" /\ Closes(p)
  /\ UNCHANGED <<diskVars, lockVars, restVars, callVars, cache>>

Confirm(p) ==
  /\ In(p, "idle") /\ menu[p].at = "asking" /\ Room
  /\ Save(p, "env", menu[p].now, {"model"}, "model")
  /\ UNCHANGED <<diskVars, lockVars, restVars, judged, snapshot, stamp, view, cache, menu>>

(* Saved: the store goes, unless clearing it fails.  Not saved: nothing.   *)
ModelSaved(p) ==
  /\ In(p, "model") /\ Goes(p, "idle") /\ Forgets(p) /\ Closes(p)
  /\ IF job[p].ok THEN cache' = [cache EXCEPT ![p] = NoCache] /\ store' \in {store, menu[p].now["model"]}
     ELSE UNCHANGED <<cache, store>>
  /\ UNCHANGED <<diskVars, lockVars, start, legacy, alive, env>>

-----------------------------------------------------------------------------
(* Outside the program: the user removes the deprecated file; a process is *)
(* killed (it matters where it leaves a lock behind).                      *)
RemoveLegacy(d) ==
  /\ legacy[d] /\ legacy' = [legacy EXCEPT ![d] = FALSE]
  /\ UNCHANGED <<diskVars, lockVars, callVars, start, alive, env, store, cache, menu>>

Die(p) ==
  /\ alive[p] /\ at[p] \in Section \cup {"claimed"} /\ Cardinality({q \in Proc : ~alive[q]}) < start.deaths
  /\ alive' = [alive EXCEPT ![p] = FALSE]
  /\ UNCHANGED <<diskVars, lockVars, callVars, start, legacy, env, store, cache, menu>>

Next ==
  \/ \E p \in Proc : \/ Bridge(p) \/ GetConfig(p) \/ ReadRegistry(p) \/ ReadFiles(p) \/ Keep(p)
                     \/ Create(p) \/ WaitTurn(p) \/ Judge(p) \/ Claim(p) \/ Destroy(p) \/ PutBack(p) \/ GivesUp(p)
                     \/ ReadLatest(p) \/ Fails(p) \/ Write(p) \/ Release(p)
                     \/ OpenMenu(p) \/ Saved(p) \/ Decline(p) \/ Confirm(p) \/ ModelSaved(p) \/ Die(p)
                     \/ \E cancelled \in BOOLEAN : Close(p, cancelled)
                     \/ \E k \in Keys, v \in Values : SetForDirectory(p, k, v) \/ Choose(p, k, v)
                     \/ \E v \in Values : ChooseModel(p, v)
  \/ \E d \in Dir : RemoveLegacy(d)

Spec == Init /\ [][Next]_settingsVars

-----------------------------------------------------------------------------
(* Each file holds what its savers chose, key by key: no save of one       *)
(* process undoes another's, no save freezes a key its user did not        *)
(* change, an embedding model nobody confirmed is never written, and no    *)
(* key goes to the file of the other scope.  Two processes are inside one  *)
(* critical section only when a steal holds the fresh lock of one of them  *)
(* in its hand, took it for the stale one because its inode number is used *)
(* again, or could not put it back because the path had been taken; after  *)
(* that nothing is promised.                                               *)
SavesAreKept ==
  /\ breach # "fault"
  /\ breach = "none" => config = chosen.config /\ registry = chosen.registry

(* A cached configuration that carries the fingerprint of the files as     *)
(* they are is what the files resolve to: no edit of another process is    *)
(* hidden by the cache.                                                    *)
StampedMeansCurrent ==
  \A p \in Proc : cache[p].stamp # <<>> /\ Fresh(p) => cache[p].view = Resolved(p, config, registry[CwdOf[p]])

(* config.ts: the registry wins over a legacy file.  A per-directory       *)
(* setting the user saved is the one a later load resolves to.             *)
RegistryWins ==
  \A p \in Proc : LET d == CwdOf[p] IN
    cache[p].stamp # <<>> /\ Fresh(p) /\ breach = "none"
      => \A k \in Local : picked[d][k] # Unset /\ env[p][k] = Unset => cache[p].view[k] = picked[d][k]

SettingsAreTruthful == SavesAreKept /\ StampedMeansCurrent

-----------------------------------------------------------------------------
(* What makes it so.                                                       *)
Layer == [Keys -> STRING \cup {Unset}]
Lock == [ino : Inodes \cup {1}, by : Proc \cup {"gone"}, nth : Nat]

(* Settings are strings, a process works in one directory, and no lock is  *)
(* no lock.                                                                *)
SettingsSetting ==
  /\ CwdOf \in [Proc -> Dir] /\ "gone" \notin Proc /\ NoLock \notin Lock /\ Values \subseteq STRING
  /\ Env \in [Proc -> Layer] /\ Overlay \in [Proc -> Layer] /\ Named \in [Proc -> Layer]
  /\ Starts \subseteq [legacy : [Dir -> Layer], home : Layer, dead : SUBSET File, deaths : Nat]

Returns == {"files", "keep", "saved", "model", "idle"}
Saving == {"acquire", "judged", "claimed"} \cup Section
Job == [file : File, whole : Layer, changed : SUBSET Keys, then : Returns, held : Lock \cup {NoLock}, ok : BOOLEAN]
Disk == [config : Layer, registry : [Dir -> Layer]]
Stamp == {<<>>} \cup (Nat \X Nat \X BOOLEAN)
Kept == [stamp : Stamp, view : Layer]
Menu == [at : {"closed", "open", "asking"}, initial : Layer, now : Layer]

SettingsTyped ==
  /\ config \in Layer /\ registry \in [Dir -> Layer] /\ chosen \in Disk /\ legacy \in [Dir -> BOOLEAN]
  /\ start \in [legacy : [Dir -> Layer], home : Layer, dead : SUBSET File, deaths : Nat]
  /\ version \in [File -> Nat] /\ saves \in Nat
  /\ lock \in [File -> Lock \cup {NoLock}] /\ claimed \in [Proc -> Lock \cup {NoLock}]
  /\ judged \in [Proc -> Lock \cup {NoLock}]
  /\ alive \in [Proc -> BOOLEAN] /\ env \in [Proc -> Layer]
  /\ at \in [Proc -> {"start", "idle", "load", "files", "keep", "saved", "model"} \cup Saving]
  /\ job \in [Proc -> Job] /\ snapshot \in [Proc -> Disk] /\ stamp \in [Proc -> Stamp]
  /\ view \in [Proc -> Layer] /\ cache \in [Proc -> Kept] /\ menu \in [Proc -> Menu]

(* A lock file that a process made is known by when it was made.           *)
Made(l) == l # NoLock /\ l.by # "gone" => l.nth < saves

(* Who is inside holds a lock that is on its path, in the hand of a steal  *)
(* or lost by one, and nobody is about to destroy it knowingly.            *)
Locks ==
  /\ breach \in {"none", "window", "lost"}
  /\ \A f \in File : Made(lock[f])
  /\ \A p \in Proc : Made(claimed[p]) /\ Made(judged[p]) /\ Made(job[p].held)
  /\ \A p \in Proc : claimed[p] # NoLock => at[p] = "claimed"
  /\ \A p, q \in Proc : at[p] \in {"judged", "claimed"} /\ alive[q] /\ at[q] \in Section => job[q].held # judged[p]
  /\ \A q \in Proc : alive[q] /\ at[q] \in Section =>
       /\ job[q].held # NoLock
       /\ breach = "none" => \/ job[q].held = lock[job[q].file] \/ job[q].held \in misplaced
                            \/ \E p \in Proc : claimed[p] = job[q].held /\ job[p].file = job[q].file
  /\ breach = "none" => \A p, q \in Proc, f \in File : Inside(p, f) /\ Inside(q, f) => p = q

(* What a file holds is what its savers chose; who is about to write has   *)
(* read it as it is.                                                       *)
Scoped(p) == at[p] \in Saving => job[p].changed \subseteq ScopeOf(job[p].file)
Contents ==
  /\ \A p \in Proc : Scoped(p)
  /\ breach = "none" =>
       /\ config = chosen.config /\ registry = chosen.registry
       /\ \A p \in Proc : alive[p] /\ at[p] = "write" =>
            IF job[p].file = "env" THEN snapshot[p].config = config ELSE snapshot[p].registry = registry

(* A stamp is never ahead of the files; what a load has read is what they  *)
(* hold as long as its stamp is theirs, and so is what is cached.          *)
Behind(st, p) ==
  st # <<>> => /\ st[1] <= version["env"] /\ st[2] <= version["registry"]
               /\ legacy[CwdOf[p]] => st[3]
ReturnsTo(p, w) == at[p] = w \/ (at[p] \in Saving /\ job[p].then = w)
Current(p) == Resolved(p, config, registry[CwdOf[p]])
HasEntry(p) == ReturnsTo(p, "files") /\ stamp[p] # <<>> /\ stamp[p][2] = version["registry"] => view[p] = registry[CwdOf[p]]
HasFiles(p) == ReturnsTo(p, "keep") /\ stamp[p] = Fingerprint(p) => view[p] = Current(p)
IsCached(p) == cache[p].stamp # <<>> /\ Fresh(p) => cache[p].view = Current(p)
CachedOf(p) ==
  /\ Behind(stamp[p], p) /\ Behind(cache[p].stamp, p) /\ (at[p] = "start" => cache[p].stamp = <<>>)
  /\ HasEntry(p) /\ HasFiles(p) /\ IsCached(p)
Cached == \A p \in Proc : CachedOf(p)
=============================================================================
