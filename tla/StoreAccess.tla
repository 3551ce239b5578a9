------------------------------ MODULE StoreAccess ------------------------------
(***************************************************************************)
(* One process's open knowledge store (knowledge/store.ts with             *)
(* knowledge/store-operations.ts): searches, look-ups, writes and deletes  *)
(* share one connection, one table handle that pins the version it was     *)
(* opened at, and one embedder that may have to be reconnected; the other  *)
(* processes commit to, drop and re-create the same table; and a teardown  *)
(* closes the connection under all of them.                                *)
(*                                                                         *)
(* The table is the sequence of its versions; a version is the rows of one *)
(* page, each a generation (its timestamp) and a chunk index.  Chunk 0     *)
(* carries the whole document.  At first the page has two generations: a   *)
(* replacement was written and what it replaces was not yet pruned.        *)
(***************************************************************************)
EXTENDS Integers, FiniteSets, Sequences, FiniteSetsExt

CONSTANTS
  Op, KindsOf,                \* operations, and what each may be
  MaxRetries, MaxCommits,
  SmallCap, LargeCap,         \* the limits of rebuildDocument's two scans
  Chunks,                     \* how many rows a generation may have
  TooOld                      \* generations beyond maxServeAgeDays

VARIABLES
  connected,                  \* this.db
  closing, close, awaited, timedOut,
  table, gone,
  handle,                     \* this.table: the version it was opened at, 0 for null
  active,                     \* activeWrites
  at, kind, pinned, tries, reconnected,
  beaten,                     \* versions an operation lost its commit to
  stale,                      \* it went on with an old handle when a refresh failed
  base,                       \* the newest version when it began
  served                      \* the row a look-up answered with

accessVars == <<connected, closing, close, awaited, timedOut, table, gone, handle, active, at, kind, pinned, tries, reconnected, beaten, stale, base, served>>
closeVars == <<connected, closing, close, awaited, timedOut>>
own == <<kind, base, pinned, tries, beaten, reconnected, stale, served>>
opVars == <<at, active, own>>

NoRow == [gen |-> 0, chunk |-> 0]
Version == Len(table)
Newest(rows) == Max({r.gen : r \in rows} \cup {0})

Added(rows, n) == rows \cup [gen : {Newest(rows) + 1}, chunk : 0 .. n - 1]
Pruned(rows) == {r \in rows : r.gen = Newest(rows)}

Init ==
  /\ connected = TRUE /\ closing = FALSE /\ close = "no" /\ awaited = {} /\ timedOut = FALSE
  /\ table = <<Added(Added({}, Max(Chunks)), Max(Chunks))>> /\ gone = FALSE /\ handle = 1 /\ active = {}
  /\ at = [o \in Op |-> "idle"] /\ kind = [o \in Op |-> "search"] /\ pinned = [o \in Op |-> 0]
  /\ tries = [o \in Op |-> 0] /\ reconnected = [o \in Op |-> FALSE]
  /\ beaten = [o \in Op |-> {}] /\ stale = [o \in Op |-> FALSE] /\ base = [o \in Op |-> 0] /\ served = [o \in Op |-> NoRow]

Goes(o, where) == at' = [at EXCEPT ![o] = where]
Under(o, where) == at[o] = where /\ UNCHANGED <<closeVars, gone>>

-----------------------------------------------------------------------------
(* trackOperation(): registered before `closing' is looked at, so that a   *)
(* close that comes in between waits for it.                               *)

TrackWritesOnly(o, k) == IF k \in {"add", "delete"} THEN active \cup {o} ELSE active
Track(o, k) == active \cup {o}

Start(o, k) ==
  /\ at[o] = "idle"
  /\ IF closing
       THEN Goes(o, "over") /\ UNCHANGED <<active, own>>
       ELSE /\ Goes(o, "refreshing") /\ active' = Track(o, k) /\ kind' = [kind EXCEPT ![o] = k]
            /\ base' = [base EXCEPT ![o] = IF k = "lookup" THEN Version ELSE 0]
            /\ UNCHANGED <<pinned, tries, beaten, reconnected, stale, served>>
  /\ UNCHANGED <<closeVars, table, gone, handle>>

(* Every way out settles the operation's promise.                          *)
Answers(o, row) ==
  /\ Goes(o, "over") /\ active' = active \ {o} /\ served' = [served EXCEPT ![o] = row]
  /\ kind' = [kind EXCEPT ![o] = "search"] /\ base' = [base EXCEPT ![o] = 0] /\ pinned' = [pinned EXCEPT ![o] = 0]
  /\ tries' = [tries EXCEPT ![o] = 0] /\ beaten' = [beaten EXCEPT ![o] = {}]
  /\ reconnected' = [reconnected EXCEPT ![o] = FALSE] /\ stale' = [stale EXCEPT ![o] = FALSE]

Ends(o) == Answers(o, NoRow)

-----------------------------------------------------------------------------
(* openFreshTable().                                                       *)

(* A write looks at `closing' once more before it embeds; whoever needs no *)
(* embedding goes straight to the table.                                   *)
Attempt(o, version, tried, lost, again, old) ==
  IF kind[o] = "add" /\ closing THEN Ends(o)
  ELSE /\ Goes(o, IF kind[o] \in {"search", "add"} THEN "embedding" ELSE "working")
       /\ pinned' = [pinned EXCEPT ![o] = version] /\ tries' = [tries EXCEPT ![o] = tried]
       /\ beaten' = [beaten EXCEPT ![o] = lost] /\ stale' = [stale EXCEPT ![o] = old]
       /\ reconnected' = [reconnected EXCEPT ![o] = again]
       /\ UNCHANGED <<active, kind, base, served>>

AttemptOn(o, version, old) == Attempt(o, version, tries[o], beaten[o], reconnected[o], old \/ stale[o])

Refreshed(o) ==
  /\ Under(o, "refreshing") /\ connected /\ ~gone
  /\ handle' = Version /\ AttemptOn(o, Version, FALSE)
  /\ UNCHANGED table

(* Dropped or renamed by another process: nobody is to use the handle.     *)
TableGone(o) ==
  /\ Under(o, "refreshing") /\ connected /\ gone
  /\ handle' = 0 /\ Ends(o)
  /\ UNCHANGED table

(* The refresh failed for another reason: the old handle, if there is one. *)
RefreshFails(o) ==
  /\ Under(o, "refreshing")
  /\ IF handle = 0 THEN Ends(o) ELSE AttemptOn(o, handle, TRUE)
  /\ UNCHANGED <<table, handle>>

-----------------------------------------------------------------------------
(* withEmbedderReconnect(): one new connection per operation, and what had *)
(* been tried is tried anew.                                               *)

Embedded(o) ==
  /\ Under(o, "embedding")
  /\ Goes(o, "working")
  /\ UNCHANGED <<table, handle, active, own>>

Unreachable(o) ==
  /\ Under(o, "embedding")
  /\ IF reconnected[o] THEN Ends(o) ELSE Goes(o, "reconnecting") /\ UNCHANGED <<active, own>>
  /\ UNCHANGED <<table, handle>>

Reconnected(o) ==
  /\ Under(o, "reconnecting")
  /\ Attempt(o, pinned[o], 0, {}, TRUE, stale[o])
  /\ UNCHANGED <<table, handle>>

(* The embedder's own fault, vectors of the wrong number, width or value,  *)
(* a breaker that is open, an error of the table that is no conflict.      *)
Fails(o) ==
  /\ at[o] \in {"embedding", "reconnecting", "working", "rescanning"} /\ Under(o, at[o])
  /\ Ends(o)
  /\ UNCHANGED <<table, handle>>

-----------------------------------------------------------------------------
(* Writes.                                                                 *)

(* An append may be rebased onto what was committed since; a delete may not.*)
Commit(o, n) ==
  /\ Under(o, "working") /\ connected /\ ~gone /\ Version < MaxCommits
  /\ \/ kind[o] = "add" /\ table' = Append(table, Added(table[Version], n))
     \/ kind[o] = "delete" /\ pinned[o] = Version /\ table' = Append(table, {})
  /\ Ends(o)
  /\ UNCHANGED handle

(* Beaten to it: after a pause, the same again.  A count retries as well.  *)
Conflict(o) ==
  /\ Under(o, "working") /\ kind[o] \in {"add", "delete", "count"} /\ pinned[o] < Version
  /\ IF tries[o] = MaxRetries THEN Ends(o)
     ELSE /\ Goes(o, "backoff")
          /\ tries' = [tries EXCEPT ![o] = @ + 1] /\ beaten' = [beaten EXCEPT ![o] = @ \cup {Version}]
          /\ UNCHANGED <<active, kind, base, pinned, reconnected, stale, served>>
  /\ UNCHANGED <<table, handle>>

RetryOnTheSameHandle(o) ==
  /\ Under(o, "backoff")
  /\ Goes(o, IF kind[o] = "add" THEN "embedding" ELSE "working")
  /\ UNCHANGED <<table, handle, active, own>>

(* ... on a handle of the version it lost to.                              *)
Retry(o) ==
  /\ Under(o, "backoff")
  /\ Goes(o, "refreshing")
  /\ UNCHANGED <<table, handle, active, own>>

-----------------------------------------------------------------------------
(* Reads.                                                                  *)

(* A ranked search, which skips rows it cannot read.                       *)
QueryAnswers(o) ==
  /\ Under(o, "working") /\ kind[o] = "search" /\ connected
  /\ Ends(o)
  /\ UNCHANGED <<table, handle>>

(* Everything stored under a url, or the export of all descriptions.       *)
ReadAnswers(o) ==
  /\ Under(o, "working") /\ kind[o] = "read" /\ connected
  /\ Ends(o)
  /\ UNCHANGED <<table, handle>>

CountAnswers(o) ==
  /\ Under(o, "working") /\ kind[o] = "count" /\ connected
  /\ Ends(o)
  /\ UNCHANGED <<table, handle>>

(* The newest generation, and of that the first chunk; none if it is old.  *)
Chosen(rows) == CHOOSE r \in rows : \A q \in rows : q.gen < r.gen \/ (q.gen = r.gen /\ q.chunk >= r.chunk)

Serve(o, rows) ==
  IF rows = {} \/ Newest(rows) \in TooOld THEN Ends(o) ELSE Answers(o, Chosen(rows))

(* The rows a scan comes upon first, up to its limit.                      *)
Scans(o, cap) == kSubset(Min({cap, Cardinality(table[pinned[o]])}), table[pinned[o]])

ScanOnce(o) ==
  /\ Under(o, "working") /\ kind[o] = "lookup" /\ connected
  /\ \E rows \in Scans(o, SmallCap) : Serve(o, rows)
  /\ UNCHANGED <<table, handle>>

(* A scan that comes back full may have missed the newest generation.      *)
Scan(o) ==
  /\ Under(o, "working") /\ kind[o] = "lookup" /\ connected
  /\ \E rows \in Scans(o, SmallCap) :
       IF Cardinality(rows) < SmallCap THEN Serve(o, rows)
       ELSE Goes(o, "rescanning") /\ UNCHANGED <<active, own>>
  /\ UNCHANGED <<table, handle>>

Rescan(o) ==
  /\ Under(o, "rescanning") /\ connected
  /\ \E rows \in Scans(o, LargeCap) : Serve(o, rows)
  /\ UNCHANGED <<table, handle>>

-----------------------------------------------------------------------------
(* close(): it waits for what is under way, ten seconds at most.           *)

Close ==
  /\ close = "no"
  /\ closing' = TRUE /\ awaited' = active
  /\ close' = "waiting"
  /\ UNCHANGED <<connected, timedOut, table, gone, handle, opVars>>

Disconnect ==
  /\ close' = "closed" /\ handle' = 0 /\ connected' = FALSE
  /\ UNCHANGED <<closing, awaited, table, gone, opVars>>

Settled == close = "waiting" /\ awaited \cap active = {} /\ Disconnect /\ UNCHANGED timedOut

WaitTimesOut == close = "waiting" /\ awaited \cap active # {} /\ Disconnect /\ timedOut' = TRUE

-----------------------------------------------------------------------------
(* The other processes.                                                    *)

PeerCommits(rows) ==
  /\ Version < MaxCommits /\ ~gone /\ rows # table[Version]
  /\ table' = Append(table, rows)
  /\ UNCHANGED <<closeVars, gone, handle, opVars>>

PeerDrops == ~gone /\ gone' = TRUE /\ UNCHANGED <<closeVars, table, handle, opVars>>

PeerCreates ==
  /\ gone /\ Version < MaxCommits
  /\ gone' = FALSE /\ table' = Append(table, {})
  /\ UNCHANGED <<closeVars, handle, opVars>>

Next ==
  \/ \E o \in Op : \E k \in KindsOf[o] : Start(o, k)
  \/ \E o \in Op : Refreshed(o) \/ TableGone(o) \/ RefreshFails(o) \/ Embedded(o) \/ Unreachable(o) \/ Reconnected(o) \/ Fails(o)
  \/ \E o \in Op, n \in Chunks : Commit(o, n)
  \/ \E o \in Op : Conflict(o) \/ Retry(o) \/ QueryAnswers(o) \/ ReadAnswers(o) \/ CountAnswers(o) \/ Scan(o) \/ Rescan(o)
  \/ Close \/ Settled \/ WaitTimesOut
  \/ \E n \in Chunks : PeerCommits(Added(table[Version], n))
  \/ PeerCommits(Pruned(table[Version])) \/ PeerDrops \/ PeerCreates

Spec == Init /\ [][Next]_accessVars

-----------------------------------------------------------------------------

(* Nobody is on the connection when it is closed, but for an operation the *)
(* teardown has waited ten seconds for.                                    *)
QuietAtClose == ~connected /\ ~timedOut => \A o \in Op : at[o] \in {"idle", "over"}

(* A write that gives up for contention lost to another commit each time:  *)
(* no attempt is thrown away on a version already known to be beaten.      *)
EachDefeatIsNew == \A o \in Op : Conflict(o) => stale[o] \/ Version \notin beaten[o]

(* A look-up answers with the newest generation, its first chunk, whatever *)
(* order the rows are scanned in, and with nothing older than what was     *)
(* committed before it began.                                              *)
NewestServed == \A o \in Op : at[o] # "over" /\ served'[o] # NoRow =>
  /\ served'[o].gen = Newest(table[pinned[o]]) /\ served'[o].chunk = 0
  /\ stale[o] \/ pinned[o] >= base[o]

(* What the store promises to those who use it at once.                    *)
StoreIsShared == [][QuietAtClose' /\ EachDefeatIsNew /\ NewestServed]_accessVars

-----------------------------------------------------------------------------
(* What makes it so.                                                       *)
(* What is asked of the parameters.  A document has at most so many chunks,*)
(* and all the rows a page can have had fit the second scan.               *)
AccessSetting ==
  /\ Chunks \subseteq Nat \ {0}
  /\ MaxCommits \in Nat \ {0} /\ SmallCap \in Nat /\ LargeCap \in Nat
  /\ \E most \in Chunks : (\A n \in Chunks : n <= most) /\ (MaxCommits + 1) * most <= LargeCap

Row == [gen : Nat, chunk : Nat]
Waiting == {"embedding", "reconnecting", "working", "rescanning"}  \* with a handle of their own
Places == {"idle", "over", "refreshing", "backoff"} \cup Waiting

TableTyped ==
  /\ table \in Seq(SUBSET Row) /\ Version \in 1 .. MaxCommits /\ handle \in 0 .. Version

OpsTyped ==
  /\ at \in [Op -> Places] /\ pinned \in [Op -> 0 .. Version] /\ base \in [Op -> 0 .. Version]
  /\ beaten \in [Op -> SUBSET Nat] /\ stale \in [Op -> BOOLEAN] /\ served \in [Op -> Row]

(* A version of the table begins every generation with its first chunk,    *)
(* has a newest generation, and grew by one document at most since the     *)
(* version before it.                                                      *)
Sound(rows) ==
  /\ \A r \in rows : [gen |-> r.gen, chunk |-> 0] \in rows
  /\ \E g \in {r.gen : r \in rows} \cup {0} : \A r \in rows : r.gen <= g
Bounded(rows, v) ==
  /\ IsFiniteSet(rows)
  /\ \A most \in Chunks : (\A n \in Chunks : n <= most) => Cardinality(rows) <= (v + 1) * most
TableSound == \A v \in 1 .. Version : Sound(table[v]) /\ Bounded(table[v], v)

(* Whoever is on the connection is awaited by the close, which nobody      *)
(* enters after.                                                           *)
OnlyTheAwaited ==
  /\ closing <=> close # "no"
  /\ connected <=> close # "closed"
  /\ closing => active \subseteq awaited
  /\ close = "closed" /\ ~timedOut => active = {}

(* What an operation that has a handle of its own may rely on.             *)
Holds(o) ==
  /\ at[o] \in Waiting =>
       /\ pinned[o] >= 1
       /\ ~stale[o] => pinned[o] >= base[o] /\ \A v \in beaten[o] : v <= pinned[o]
  /\ \A v \in beaten[o] : v <= Version
  /\ at[o] # "over" => served[o] = NoRow
OpsSound == active = {o \in Op : at[o] \notin {"idle", "over"}} /\ \A o \in Op : Holds(o)

AccessInv == TableTyped /\ OpsTyped /\ TableSound /\ OnlyTheAwaited /\ OpsSound
=============================================================================
