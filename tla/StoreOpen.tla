------------------------------ MODULE StoreOpen ------------------------------
(***************************************************************************)
(* Opening the knowledge store: KnowledgeStore.open() of knowledge/store.ts *)
(* with its migrations and its pruning, the corruption recovery of         *)
(* infrastructure/knowledge-store-service.ts and forceDeleteKnowledgeStore *)
(* of knowledge/index.ts.  Two retrieval modes share one directory, whose  *)
(* tables are subdirectories and whose manifest names the live table of    *)
(* each mode.  An open holds the service's init lock from before it reads  *)
(* the manifest until it ends or its process dies, so there is at most one *)
(* at a time; sessions opened earlier go on adding rows without the lock.  *)
(***************************************************************************)
EXTENDS Integers, FiniteSets, Functions

CONSTANTS Model,      \* embedding models (a schema version counts as part of its model)
          FirstModel, \* the model the store was created with
          Strategies, \* MIGRATION_STRATEGY values in use: of "backup", "drop", "re-embed"
          MaxOpens,   \* bound: opens
          MaxFaults,  \* bound: failing writes, renames, embeds, reads; corruptions
          MaxRows,    \* bound: rows ever written
          None        \* no open in progress

VARIABLES dirs,       \* dirs[name]: the table directory of that name
          manifest,   \* store-manifest.json
          opening,    \* the open in progress: its store object and where it is
          sessions,   \* stores that have opened: the tables they write to
          condemned,  \* condemned[mode]: processes about to force-delete the live table
          rowsUsed,   \* rows written so far: 1 .. rowsUsed, in order of age
          stamp,      \* the clock of generated table names
          ttl,        \* rows and table names older than the time to live
          opens, faults,
          writtenOff, \* history: rows nobody promises to keep
          parted,     \* history: the renamed table may lie where no manifest points
          excuse      \* history: what the code's promises leave out and has happened

storeVars == <<dirs, manifest, opening, sessions, condemned, rowsUsed, stamp, ttl, opens,
               faults, writtenOff, parted, excuse>>
disk == <<dirs, manifest>>
kept == <<sessions, condemned, rowsUsed, ttl, opens>>

Mode == {"vector", "bm25"}
Other(mode) == CHOOSE m \in Mode : m # mode
Plain(mode) == [kind |-> mode, ts |-> 0]             \* 'knowledge', 'knowledge-bm25'
NoName      == [kind |-> "none", ts |-> 0]           \* a manifest key never written
Temp(n)     == [kind |-> "migration", ts |-> n]
Backup(n)   == [kind |-> "backup", ts |-> n]

Conf == {[mode |-> "vector", model |-> m, strategy |-> s] : m \in Model, s \in Strategies}
          \cup {[mode |-> "bm25", model |-> FirstModel, strategy |-> "backup"]}

Init ==
  /\ dirs = [n \in {Plain("vector")} |-> [model |-> FirstModel, rows |-> {1, 2}, broken |-> FALSE]]
  /\ manifest = [read |-> "loaded", vector |-> Plain("vector"), bm25 |-> NoName]
  /\ opening = None /\ sessions = {} /\ condemned = [m \in Mode |-> 0]
  /\ rowsUsed = 2 /\ stamp = 0 /\ ttl = [rows |-> 0, stamp |-> 0]
  /\ opens = 0 /\ faults = 0
  /\ writtenOff = {} /\ parted = FALSE /\ excuse = {}

-----------------------------------------------------------------------------
(* Directories, the store object, the manifest.                            *)

Created(name, model) ==
  [n \in DOMAIN dirs \cup {name} |->
     IF n = name THEN [model |-> model, rows |-> {}, broken |-> FALSE] ELSE dirs[n]]
Moved(from, to) ==
  [n \in (DOMAIN dirs \ {from}) \cup {to} |-> IF n = to THEN dirs[from] ELSE dirs[n]]
Removed(names) == Restrict(dirs, DOMAIN dirs \ names)
RowsIn(names) == UNION {dirs[n].rows : n \in names \cap DOMAIN dirs}
WriteOff(rows) == writtenOff' = writtenOff \cup rows

(* The live table of each mode, for whoever reads the manifest now.         *)
Live == {IF manifest[m] = NoName THEN Plain(m) ELSE manifest[m] : m \in Mode}

At(pc) == opening # None /\ opening.pc = pc
Go(pc) == opening' = [opening EXCEPT !.pc = pc]
GoAs(pc, table) == opening' = [opening EXCEPT !.pc = pc, !.table = table]
Abort == opening' = None        \* rolled back; the service retries with a fresh store

Fault == faults < MaxFaults /\ faults' = faults + 1
Works == UNCHANGED faults

Saved(table) ==
  [read |-> "loaded",
   vector |-> IF opening.mode = "vector" THEN table ELSE opening.other,
   bm25   |-> IF opening.mode = "bm25" THEN table ELSE opening.other]

-----------------------------------------------------------------------------
(* open() and the first half of openInternal().                            *)

Open(c) ==
  /\ opening = None /\ opens < MaxOpens
  /\ opens' = opens + 1
  /\ LET lost == manifest.read = "corrupt"
     IN  /\ opening' = [pc |-> "table", mode |-> c.mode, model |-> c.model,
                        strategy |-> c.strategy, read |-> manifest.read,
                        table |-> IF lost \/ manifest[c.mode] = NoName
                                  THEN Plain(c.mode) ELSE manifest[c.mode],
                        other |-> IF lost THEN NoName ELSE manifest[Other(c.mode)],
                        temp |-> NoName, todo |-> 0]
         /\ excuse' = IF lost THEN excuse \cup {"manifest lost"} ELSE excuse
  /\ UNCHANGED <<disk, sessions, condemned, rowsUsed, stamp, ttl, faults, writtenOff, parted>>

OpenTable ==
  /\ At("table") /\ opening.table \in DOMAIN dirs
  /\ LET t == dirs[opening.table]
     IN  \/ /\ t.broken                          \* 'Invalid range 0..0'
            /\ Works /\ Abort
            /\ condemned' = [condemned EXCEPT ![opening.mode] = @ + 1]
         \/ /\ ~t.broken /\ (opening.mode = "bm25" \/ t.model = opening.model)
            /\ Works /\ Go("evict") /\ UNCHANGED condemned
         \/ /\ ~t.broken /\ opening.mode = "vector" /\ t.model # opening.model
            /\ \/ Works /\ Go(opening.strategy)
               \/ Fault /\ Go("evict")           \* the schema could not be read
               \/ Fault /\ Abort                 \* the warm-up embed failed
            /\ UNCHANGED condemned
  /\ UNCHANGED <<disk, sessions, rowsUsed, stamp, ttl, opens, writtenOff, parted, excuse>>

NewTable ==
  /\ At("table") /\ opening.table \notin DOMAIN dirs
  /\ \/ Works /\ Go("evict") /\ dirs' = Created(opening.table, opening.model)
     \/ Fault /\ Abort /\ UNCHANGED dirs
  /\ UNCHANGED <<manifest, kept, stamp, writtenOff, parted, excuse>>

(* migrationBackup(), migrationDrop().                                     *)
BackupRename ==
  /\ At("backup")
  /\ \/ /\ Works /\ Go("create")
        /\ IF opening.table \in DOMAIN dirs
           THEN dirs' = Moved(opening.table, Backup(stamp + 1)) /\ stamp' = stamp + 1
           ELSE UNCHANGED <<dirs, stamp>>
     \/ Fault /\ Abort /\ UNCHANGED <<dirs, stamp>>
  /\ UNCHANGED <<manifest, kept, writtenOff, parted, excuse>>

DropTable ==
  /\ At("drop")
  /\ \/ /\ opening.table \in DOMAIN dirs
        /\ Works /\ Go("create")
        /\ dirs' = Removed({opening.table}) /\ WriteOff(RowsIn({opening.table}))
     \/ /\ Fault \/ (opening.table \notin DOMAIN dirs /\ Works)
        /\ Abort /\ UNCHANGED <<dirs, writtenOff>>
  /\ UNCHANGED <<manifest, kept, stamp, parted, excuse>>

CreateAfter ==
  /\ At("create")
  /\ \/ Works /\ Go("evict") /\ dirs' = Created(opening.table, opening.model)
        /\ manifest' = Saved(opening.table)
     \/ Fault /\ Go("evict") /\ dirs' = Created(opening.table, opening.model)
        /\ UNCHANGED manifest                    \* a failed save is not noticed here
     \/ Fault /\ Abort /\ UNCHANGED disk
  /\ UNCHANGED <<kept, stamp, writtenOff, parted, excuse>>

-----------------------------------------------------------------------------
(* migrationReEmbed().  A failure before the manifest names the temporary  *)
(* table falls back to migrationBackup(); so does a failing drop, with the *)
(* temporary table as the one to back up.                                  *)

ReCreate ==
  /\ At("re-embed")
  /\ \/ /\ opening.table \in DOMAIN dirs /\ Works
        /\ stamp' = stamp + 1 /\ dirs' = Created(Temp(stamp + 1), opening.model)
        /\ opening' = [opening EXCEPT !.pc = "copy", !.temp = Temp(stamp + 1),
                                     !.todo = Cardinality(RowsIn({opening.table}))]
     \/ /\ Fault \/ (opening.table \notin DOMAIN dirs /\ Works)
        /\ Go("backup") /\ UNCHANGED <<dirs, stamp>>
  /\ UNCHANGED <<manifest, kept, writtenOff, parted, excuse>>

Copy ==                                          \* a batch of one row
  /\ At("copy") /\ opening.todo > 0
  /\ LET left == RowsIn({opening.table}) \ RowsIn({opening.temp})
     IN  \/ /\ Works /\ opening' = [opening EXCEPT !.todo = @ - 1]
            /\ IF left = {} THEN UNCHANGED dirs
               ELSE \E r \in left : /\ \A q \in left : r <= q
                                   /\ dirs' = [dirs EXCEPT ![opening.temp].rows = @ \cup {r}]
         \/ Fault /\ Go("backup") /\ UNCHANGED dirs
  /\ UNCHANGED <<manifest, kept, stamp, writtenOff, parted, excuse>>

(* Mutant: the old table is dropped before the manifest names the new one. *)
PointLater ==
  /\ At("copy") /\ opening.todo = 0 /\ Works /\ Go("redrop")
  /\ UNCHANGED <<disk, kept, stamp, writtenOff, parted, excuse>>

PointAtTemp ==
  /\ At("copy") /\ opening.todo = 0
  /\ \/ Works /\ manifest' = Saved(opening.temp) /\ Go("redrop")
     \/ Fault /\ Go("backup") /\ UNCHANGED manifest
  /\ UNCHANGED <<dirs, kept, stamp, writtenOff, parted, excuse>>

DropOld ==                                       \* this.tableName is the temporary one now
  /\ At("redrop")
  /\ \/ /\ opening.table \in DOMAIN dirs /\ Works
        /\ dirs' = Removed({opening.table}) /\ GoAs("rename", opening.temp)
     \/ /\ Fault \/ (opening.table \notin DOMAIN dirs /\ Works)
        /\ GoAs("backup", opening.temp) /\ UNCHANGED dirs
  /\ UNCHANGED <<manifest, kept, stamp, writtenOff, parted, excuse>>

RenameTemp ==
  /\ At("rename")
  /\ \/ /\ Plain("vector") \notin DOMAIN dirs /\ opening.temp \in DOMAIN dirs /\ Works
        /\ dirs' = Moved(opening.temp, Plain("vector")) /\ GoAs("resave", Plain("vector"))
     \/ /\ Fault \/ (Works /\ (Plain("vector") \in DOMAIN dirs \/ opening.temp \notin DOMAIN dirs))
        /\ Go("evict") /\ UNCHANGED dirs           \* the temporary name stays
  /\ UNCHANGED <<manifest, kept, stamp, writtenOff, parted, excuse>>

PointAtPlain ==
  /\ At("resave")
  /\ \/ Works /\ manifest' = Saved(Plain("vector")) /\ Go("reopen")
     \/ Fault /\ Go("revert") /\ UNCHANGED manifest
  /\ UNCHANGED <<dirs, kept, stamp, writtenOff, parted, excuse>>

(* A failing reopen is taken for a failing rename: the manifest goes back  *)
(* to the temporary name, whose directory is gone, and the table is left   *)
(* where no manifest points, unless that save fails as well.               *)
Reopen ==
  /\ At("reopen")
  /\ \/ Works /\ Go("evict") /\ UNCHANGED <<manifest, parted>>
     \/ /\ Fault /\ GoAs("evict", opening.temp)
        /\ \/ manifest' = Saved(opening.temp) /\ parted' = TRUE
           \/ UNCHANGED <<manifest, parted>>
  /\ UNCHANGED <<dirs, kept, stamp, writtenOff, excuse>>

(* The rename is undone; a reopen that fails after that is taken for a     *)
(* failing undo, and the manifest is made to name a table that is not      *)
(* there.                                                                  *)
Revert ==
  /\ At("revert")
  /\ \/ /\ Plain("vector") \in DOMAIN dirs /\ dirs' = Moved(Plain("vector"), opening.temp)
        /\ \/ Works /\ GoAs("evict", opening.temp) /\ UNCHANGED excuse
           \/ Fault /\ Go("repair") /\ excuse' = excuse \cup {"undo mistaken"}
     \/ /\ Fault \/ (Plain("vector") \notin DOMAIN dirs /\ Works)
        /\ Go("repair") /\ UNCHANGED <<dirs, excuse>>
  /\ UNCHANGED <<manifest, kept, stamp, writtenOff, parted>>

Repair ==
  /\ At("repair") /\ Go("evict")
  /\ \/ Works /\ manifest' = Saved(Plain("vector")) /\ UNCHANGED parted
     \/ Fault /\ parted' = TRUE /\ UNCHANGED manifest
  /\ UNCHANGED <<dirs, kept, stamp, writtenOff, excuse>>

-----------------------------------------------------------------------------
(* The rest of openInternal(): evictOldRecords(),                          *)
(* pruneOrphanedMigrationDirs(), saveManifest().                           *)

Evict ==
  /\ At("evict")
  /\ \/ /\ opening.table \in DOMAIN dirs /\ Go("prune")
        /\ \/ Works /\ dirs' = [dirs EXCEPT ![opening.table].rows = @ \ 1 .. ttl.rows]
           \/ Fault /\ UNCHANGED dirs
     \/ opening.table \notin DOMAIN dirs /\ Works /\ Abort /\ UNCHANGED dirs
  /\ UNCHANGED <<manifest, kept, stamp, writtenOff, parted, excuse>>

Superseded(n) == n.ts <= ttl.stamp /\ \E b \in DOMAIN dirs : b.kind = "backup" /\ b.ts > n.ts
Orphans(table) ==
  {n \in DOMAIN dirs \ {table} : \/ n.kind = "migration"
                                 \/ n.kind = "backup" /\ Superseded(n)}

Prune ==
  /\ At("prune") /\ Go("save")
  /\ LET orphans == IF opening.read = "corrupt" THEN {} ELSE Orphans(opening.table)
     IN  \E gone \in SUBSET orphans :
           /\ IF gone = orphans THEN Works ELSE Fault
           /\ dirs' = Removed(gone)
           /\ excuse' = IF manifest[Other(opening.mode)] \in gone
                         THEN excuse \cup {"other mode"} ELSE excuse
  /\ UNCHANGED <<manifest, kept, stamp, writtenOff, parted>>

Opened ==
  /\ At("save") /\ opening' = None
  /\ sessions' = sessions \cup {opening.table}
  /\ \/ Works /\ manifest' = Saved(opening.table)
     \/ Fault /\ UNCHANGED manifest
  /\ UNCHANGED <<dirs, condemned, rowsUsed, stamp, ttl, opens, writtenOff, parted, excuse>>

-----------------------------------------------------------------------------
(* What goes on beside it.                                                 *)

Add(t) ==                                        \* addDocuments() of an open session
  /\ rowsUsed < MaxRows /\ t \in DOMAIN dirs /\ ~dirs[t].broken
  /\ rowsUsed' = rowsUsed + 1
  /\ dirs' = [dirs EXCEPT ![t].rows = @ \cup {rowsUsed + 1}]
  /\ IF opening = None /\ t \in Live THEN UNCHANGED writtenOff ELSE WriteOff({rowsUsed + 1})
  /\ UNCHANGED <<manifest, opening, sessions, condemned, stamp, ttl, opens, faults, parted,
                 excuse>>

(* forceDeleteKnowledgeStore(): without the lock, and in either mode the   *)
(* default name is the vector table's.                                     *)
ForceDelete(mode) ==
  /\ condemned[mode] > 0 /\ condemned' = [condemned EXCEPT ![mode] = @ - 1]
  /\ LET named == manifest.read = "loaded" /\ manifest[mode] # NoName
         target == IF named THEN manifest[mode] ELSE Plain("vector")
     IN  /\ dirs' = Removed({target})
         /\ excuse' = IF target \in DOMAIN dirs /\ ~dirs[target].broken
                       THEN excuse \cup {"sound table deleted"} ELSE excuse
  /\ UNCHANGED <<manifest, opening, sessions, rowsUsed, stamp, ttl, opens, faults, writtenOff,
                 parted>>

(* Between the rename of the temporary table and the manifest's naming of  *)
(* the plain one, the vector rows are in neither table it names.           *)
Moving == opening # None /\ opening.pc \in {"resave", "revert", "repair"}

Crash ==                                         \* the opening process dies
  /\ opening # None /\ opening' = None /\ parted' = (parted \/ Moving)
  /\ UNCHANGED <<disk, kept, stamp, faults, writtenOff, excuse>>

PowerLoss ==                                     \* every process dies and a file is torn
  /\ Fault /\ opening' = None /\ sessions' = {} /\ condemned' = [m \in Mode |-> 0]
  /\ \/ manifest' = [manifest EXCEPT !.read = "corrupt"] /\ UNCHANGED <<dirs, writtenOff>>
     \/ \E n \in DOMAIN dirs : dirs' = [dirs EXCEPT ![n].broken = TRUE]
                              /\ WriteOff(dirs[n].rows) /\ UNCHANGED manifest
  /\ parted' = (parted \/ Moving)
  /\ UNCHANGED <<rowsUsed, stamp, ttl, opens, excuse>>

TtlPasses ==
  /\ ttl.rows = 0 /\ ttl' = [rows |-> rowsUsed, stamp |-> stamp]
  /\ WriteOff(1 .. rowsUsed)
  /\ UNCHANGED <<disk, opening, sessions, condemned, rowsUsed, stamp, opens, faults, parted,
                 excuse>>

Step ==
  \/ OpenTable \/ NewTable \/ BackupRename \/ DropTable \/ CreateAfter
  \/ ReCreate \/ Copy \/ PointAtTemp \/ DropOld \/ RenameTemp \/ PointAtPlain
  \/ Reopen \/ Revert \/ Repair \/ Evict \/ Prune \/ Opened
Next ==
  \/ \E c \in Conf : Open(c)
  \/ Step
  \/ \E t \in sessions : Add(t)
  \/ \E m \in Mode : ForceDelete(m)
  \/ Crash \/ PowerLoss \/ TtlPasses

Spec == Init /\ [][Next]_storeVars
FairSpec == Spec /\ WF_storeVars(Step)

-----------------------------------------------------------------------------
(* Properties.                                                             *)

(* What was stored is on disk where an open or a person will find it: when  *)
(* no open is running, in a table the manifest names or in a backup.  "A    *)
(* manifest referencing a table that contains the data exists at every      *)
(* instant", says store.ts:638, which is not so: between the rename of the  *)
(* migrated table (659) and the save of its name (662) no manifest names    *)
(* it.  An open that ends in there, or whose repair fails, leaves the rows  *)
(* in the plain directory, and there, whatever is opened, migrated or       *)
(* pruned afterwards, they must stay.                                       *)
Unnamed == IF parted THEN {Plain("vector")} ELSE {}
NothingStranded ==
  opening = None =>
    \/ 1 .. rowsUsed \subseteq
         RowsIn(Live \cup Unnamed \cup {n \in DOMAIN dirs : n.kind = "backup"}) \cup writtenOff
    \/ excuse # {}

(* "The dir the manifest currently points at is the live table: NEVER       *)
(* delete it" (store.ts:1507, of the prune): what the live tables hold is   *)
(* still on disk after a prune.                                             *)
LiveDataNeverReaped ==
  [][At("prune") /\ opening' # None /\ opening'.pc = "save"
       => RowsIn(Live) \subseteq RowsIn(DOMAIN dirs)']_storeVars

-----------------------------------------------------------------------------
(* What makes it so: the inductive invariant, and what it needs of the     *)
(* parameters.                                                             *)
Name == [kind : {"vector", "bm25", "none", "migration", "backup"}, ts : Nat]
Directory == [model : Model, rows : SUBSET (1 .. rowsUsed), broken : BOOLEAN]
Places == {"table", "evict", "backup", "drop", "create", "re-embed", "copy", "redrop", "rename",
           "resave", "reopen", "revert", "repair", "prune", "save"}
Openings == [pc : Places, mode : Mode, model : Model, strategy : {"backup", "drop", "re-embed"},
             read : {"loaded", "corrupt"}, table : Name, other : Name, temp : Name, todo : Nat]

StoreSetting ==
  /\ FirstModel \in Model /\ Strategies \subseteq {"backup", "drop", "re-embed"}
  /\ None \notin Openings

StoreTyped ==
  /\ DOMAIN dirs \subseteq Name /\ dirs \in [DOMAIN dirs -> Directory]
  /\ manifest \in [read : {"loaded", "corrupt"}, vector : Name, bm25 : Name]
  /\ opening \in Openings \cup {None}
  /\ sessions \subseteq Name
  /\ rowsUsed \in Nat /\ stamp \in Nat /\ ttl \in [rows : Nat, stamp : Nat]
  /\ parted \in BOOLEAN

(* What a name says: a generated one is not ahead of the clock, and the    *)
(* tables of the two modes never have one name.                            *)
OfVector(n) == n.kind \in {"vector", "migration"} /\ (n.kind = "vector" => n = Plain("vector"))
NamesKnow ==
  /\ \A n \in DOMAIN dirs : n.ts <= stamp
  /\ manifest.vector = NoName \/ OfVector(manifest.vector)
  /\ manifest.vector.ts <= stamp
  /\ manifest.bm25 \in {NoName, Plain("bm25")}
  /\ \A n \in sessions : n.kind # "backup"

(* Rows that need not be kept.                                             *)
RowsKnow ==
  /\ \A n \in DOMAIN dirs : dirs[n].broken => dirs[n].rows \subseteq writtenOff
  /\ 1 .. ttl.rows \subseteq writtenOff /\ ttl.stamp <= stamp
  /\ \A n \in DOMAIN dirs : n.kind = "backup" /\ n.ts <= ttl.stamp => dirs[n].rows \subseteq writtenOff

LiveVector == IF manifest.vector = NoName THEN Plain("vector") ELSE manifest.vector
HomeOf(n) ==
  \/ n.kind = "backup" \/ n = Plain("bm25")
  \/ n = IF Moving THEN Plain("vector") ELSE LiveVector
  \/ parted /\ n = Plain("vector")
AllAtHome ==
  \A r \in 1 .. rowsUsed : r \in writtenOff \/ \E n \in DOMAIN dirs : HomeOf(n) /\ r \in dirs[n].rows

(* What an open may rely on.                                               *)
OpeningKnows ==
  opening # None =>
    /\ opening.read = "loaded" /\ manifest.read = "loaded"
    /\ opening.table.ts <= stamp /\ opening.temp.ts <= stamp
    /\ opening.mode = "bm25" =>
         /\ opening.table = Plain("bm25") /\ opening.other = manifest.vector
         /\ opening.pc \in {"table", "evict", "prune", "save"}
    /\ opening.mode = "vector" =>
         /\ OfVector(opening.table) /\ opening.other = manifest.bm25
         /\ opening.pc # "redrop" /\ ~Moving =>
              \/ opening.table = LiveVector
              \/ /\ parted /\ opening.pc \in {"evict", "prune", "save"}
                 /\ opening.table = Plain("vector") /\ LiveVector \notin DOMAIN dirs
              \/ opening.pc = "evict" /\ opening.table \notin DOMAIN dirs
    /\ opening.pc \in {"copy", "redrop", "rename", "resave", "reopen", "revert", "repair"}
         => opening.temp.kind = "migration"
    /\ opening.pc = "create" => opening.table \notin DOMAIN dirs
    /\ opening.pc = "redrop" => manifest.vector = opening.temp /\ opening.table # opening.temp
    /\ opening.pc = "rename" => manifest.vector = opening.temp
    /\ opening.pc = "reopen" => opening.table = Plain("vector") /\ opening.temp \notin DOMAIN dirs
    /\ Moving => /\ opening.table = Plain("vector") /\ manifest.vector = opening.temp
                 /\ opening.temp \notin DOMAIN dirs

(* The rows a copy owes are among the first so many, and it has as many    *)
(* batches left; what the drop takes away has been copied.                 *)
Owed(m) == {r \in RowsIn({opening.table}) \ RowsIn({opening.temp}) : r <= m}
CopyKnows ==
  /\ At("copy") =>
       /\ opening.temp \in DOMAIN dirs /\ ~dirs[opening.temp].broken /\ opening.temp # opening.table
       /\ \E m \in 0 .. rowsUsed : /\ m + 1 .. rowsUsed \subseteq writtenOff
                                   /\ Cardinality(Owed(m)) <= opening.todo
  /\ At("redrop") => RowsIn({opening.table}) \subseteq writtenOff \cup RowsIn({opening.temp})

AsPromised == NamesKnow /\ RowsKnow /\ AllAtHome /\ OpeningKnows /\ CopyKnows
StoreInv == StoreTyped /\ (excuse = {} => AsPromised)
=============================================================================
