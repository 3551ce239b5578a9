----------------------------- MODULE IngestQueue -----------------------------
(***************************************************************************)
(* Writing a page to the knowledge store: WriterQueue of                   *)
(* knowledge/writer-queue.ts over addDocuments(), deleteByUrlAndType(),    *)
(* touchByUrlAndType(), findByUrl() and close() of knowledge/store.ts.     *)
(* Every process has a queue and a loop that takes one item at a time; the *)
(* processes share the table and no lock.  The module follows one page of  *)
(* one ingestion type: its rows are generations, each written with one     *)
(* time stamp.  A store that is closing turns every operation into a       *)
(* no-op, reads included.                                                  *)
(***************************************************************************)
EXTENDS Integers, FiniteSets, Sequences

CONSTANTS Writer,    \* processes
          Content,   \* contents the page has had
          MaxItems,  \* bound: items ever enqueued
          MaxClock,  \* bound: ticks of Date.now()
          MaxFaults  \* bound: failing operations

VARIABLES rows,      \* the page's generations: [ts, born, content]
          clock,
          line,      \* line[p]: the writer queue of p
          at,        \* at[p]: where its loop is
          job,       \* job[p]: the item in hand and what _ingestInner() has read
          state,     \* state[p]: "open", "draining", "closing", "closed", "dead"
          items, failures,
          raced      \* history: a touch overtook a write that was under way

ingestVars == <<rows, clock, line, at, job, state, items, failures, raced>>

NoJob == [content |-> CHOOSE c \in Content : TRUE, ts |-> 0, mark |-> 0, same |-> FALSE, again |-> FALSE]

(* What a prune that failed in an earlier life of the process left.        *)
LeftOver == {[ts |-> t, born |-> t, content |-> NoJob.content] : t \in {0, 1}}

Init ==
  /\ rows \in {{}, LeftOver} /\ clock = 1
  /\ line = [p \in Writer |-> << >>]
  /\ at = [p \in Writer |-> "idle"] /\ job = [p \in Writer |-> NoJob]
  /\ state = [p \in Writer |-> "open"]
  /\ items = 0 /\ failures = 0 /\ raced = FALSE

Top(gens) == CHOOSE t \in {r.ts : r \in gens} : \A r \in gens : r.ts <= t
Newest(gens) == {r \in gens : r.ts = Top(gens)}
Serving(p) == state[p] \in {"open", "draining"}        \* ~isClosing
Seen(p) == IF Serving(p) THEN rows ELSE {}             \* findByUrl()

Goto(p, pc) == at' = [at EXCEPT ![p] = pc]
Done(p) == Goto(p, "idle") /\ job' = [job EXCEPT ![p] = NoJob]
Fails == failures < MaxFaults /\ failures' = failures + 1
Fine  == UNCHANGED failures
quiet == <<clock, line, state, items>>

Enqueue(p, c) ==
  /\ items < MaxItems /\ items' = items + 1 /\ state[p] # "dead"
  /\ line' = [line EXCEPT ![p] = Append(@, c)]
  /\ UNCHANGED <<rows, clock, at, job, state, failures, raced>>

Take(p) ==
  /\ at[p] = "idle" /\ line[p] # << >> /\ state[p] # "dead"
  /\ line' = [line EXCEPT ![p] = Tail(@)]
  /\ IF Serving(p) THEN Goto(p, "find") /\ job' = [job EXCEPT ![p].content = Head(line[p])]
                   ELSE UNCHANGED <<at, job>>          \* skipped: store is closing
  /\ UNCHANGED <<rows, clock, state, items, failures, raced>>

(* The dedup read, against the newest generation; the stamp of a new one   *)
(* is taken here, before anything is embedded.                             *)
Find(p) ==
  /\ at[p] = "find"
  /\ \/ /\ Fine
        /\ LET gens == Seen(p)
               unchanged == gens # {} /\ \E g \in Newest(gens) : g.content = job[p].content
           IN  \/ /\ unchanged
                  /\ job' = [job EXCEPT ![p].ts = Top(gens)]
                  /\ Goto(p, IF \E g \in gens : g.ts < Top(gens) THEN "sweep" ELSE "recheck")
               \/ /\ gens = {} \/ \E g \in Newest(gens) : g.content # job[p].content
                  /\ job' = [job EXCEPT ![p].ts = clock, ![p].same = gens # {}]
                  /\ Goto(p, "add")
     \/ Fails /\ Done(p)
  /\ UNCHANGED <<rows, quiet, raced>>

(* Mutant: the bound of the delete is inclusive.                           *)
PruneUpTo(p, ts) ==
  \/ Serving(p) /\ Fine /\ rows' = {r \in rows : r.ts > ts}
  \/ ~Serving(p) /\ Fine /\ UNCHANGED rows

PruneBelow(p, ts) ==
  \/ Serving(p) /\ Fine /\ rows' = {r \in rows : r.ts >= ts}
  \/ Serving(p) /\ Fails /\ UNCHANGED rows             \* tolerated: duplicates remain
  \/ ~Serving(p) /\ Fine /\ UNCHANGED rows

Sweep(p) ==
  /\ at[p] = "sweep" /\ Goto(p, "recheck") /\ PruneBelow(p, job[p].ts)
  /\ UNCHANGED <<quiet, job, raced>>

Recheck(p) ==
  /\ at[p] = "recheck"
  /\ LET gens == Seen(p)
     IN  IF gens # {} /\ Top(gens) = job[p].ts
         THEN Goto(p, "touch") /\ job' = [job EXCEPT ![p].mark = clock]
         ELSE Done(p)
  /\ UNCHANGED <<rows, quiet, failures, raced>>

(* UPDATE ... SET timestamp = mark WHERE timestamp = ts.                   *)
Touch(p) ==
  /\ at[p] = "touch" /\ Done(p)
  /\ \/ /\ Serving(p) /\ Fine
        /\ rows' = {IF r.ts = job[p].ts THEN [r EXCEPT !.ts = job[p].mark] ELSE r : r \in rows}
        /\ raced' = (raced \/ \E r \in rows : r.ts > job[p].ts
                           \/ \E o \in Writer \ {p} : at[o] \in {"add", "commit"})
     \/ /\ Fails \/ (~Serving(p) /\ Fine)
        /\ UNCHANGED <<rows, raced>>
  /\ UNCHANGED quiet

(* addDocuments(): once admitted it is waited for by close(), unless that  *)
(* runs out of patience.  A write that a closing store ignores resolves.   *)
Add(p) ==
  /\ at[p] = "add"
  /\ \/ Serving(p) /\ Goto(p, "commit") /\ UNCHANGED job
     \/ ~Serving(p) /\ job[p].same /\ Goto(p, "prune") /\ UNCHANGED job
     \/ ~Serving(p) /\ ~job[p].same /\ Done(p)
  /\ UNCHANGED <<rows, quiet, failures, raced>>

Commit(p) ==
  /\ at[p] = "commit"
  /\ \/ /\ state[p] # "closed" /\ Fine
        /\ rows' = rows \cup {[ts |-> job[p].ts, born |-> job[p].ts, content |-> job[p].content]}
        /\ IF job[p].same THEN Goto(p, "prune") /\ UNCHANGED job ELSE Done(p)
     \/ /\ Fails \/ (state[p] = "closed" /\ Fine)      \* ENOSPC, retries exhausted, closed
        /\ Done(p) /\ UNCHANGED rows
     \/ /\ ~job[p].again /\ Fails                      \* embedder unreachable: once more in 2 s
        /\ Goto(p, "find") /\ job' = [job EXCEPT ![p].again = TRUE] /\ UNCHANGED rows
  /\ UNCHANGED <<quiet, raced>>

Prune(p) ==
  /\ at[p] = "prune" /\ Done(p) /\ PruneBelow(p, job[p].ts)
  /\ UNCHANGED <<quiet, raced>>

-----------------------------------------------------------------------------
(* WriterQueue.dispose(), then KnowledgeStore.close().                     *)

Dispose(p) ==
  /\ state[p] = "open" /\ state' = [state EXCEPT ![p] = "draining"]
  /\ UNCHANGED <<rows, clock, line, at, job, items, failures, raced>>

Drained(p) ==                            \* drain(): empty, or DRAIN_DISPOSE_TIMEOUT_MS
  /\ state[p] = "draining" /\ state' = [state EXCEPT ![p] = "closing"]
  /\ \/ at[p] = "idle" /\ line[p] = << >> /\ Fine
     \/ Fails
  /\ UNCHANGED <<rows, clock, line, at, job, items, raced>>

Close(p) ==                              \* active operations have ended, or 10 s
  /\ state[p] = "closing" /\ state' = [state EXCEPT ![p] = "closed"]
  /\ \/ at[p] # "commit" /\ Fine
     \/ Fails
  /\ UNCHANGED <<rows, clock, line, at, job, items, raced>>

Crash(p) ==
  /\ state[p] # "dead" /\ Fails
  /\ state' = [state EXCEPT ![p] = "dead"] /\ line' = [line EXCEPT ![p] = << >>] /\ Done(p)
  /\ UNCHANGED <<rows, clock, items, raced>>

Tick ==
  /\ clock < MaxClock /\ clock' = clock + 1
  /\ UNCHANGED <<rows, line, at, job, state, items, failures, raced>>

Loop(p) == \/ Take(p) \/ Find(p) \/ Sweep(p) \/ Recheck(p) \/ Touch(p)
           \/ Add(p) \/ Commit(p) \/ Prune(p)
Closing(p) == Drained(p) \/ Close(p)
Next ==
  \/ \E p \in Writer : Loop(p) \/ Closing(p) \/ Dispose(p) \/ Crash(p)
  \/ \E p \in Writer, c \in Content : Enqueue(p, c)
  \/ Tick

Spec == Init /\ [][Next]_ingestVars

-----------------------------------------------------------------------------
(* Properties.                                                             *)

(* Once a page is in the store it stays there: no order of writes, prunes, *)
(* sweeps, touches, failures, closings and deaths of several processes     *)
(* deletes the last generation.  And what is served is what was ingested   *)
(* last, unless a touch met a write of another process on its way.         *)
(* (Generations of one millisecond tie.)                                   *)
PageNeverVanishes ==
  /\ [][rows # {} => rows' # {}]_ingestVars
  /\ [](\A r, q \in rows : r.ts > q.ts => r.born >= q.born \/ raced)

-----------------------------------------------------------------------------
(* What makes it so: the inductive invariant, and what it needs of the     *)
(* parameters.                                                             *)
IngestSetting == Content # {}

Places == {"idle", "find", "sweep", "recheck", "touch", "add", "commit", "prune"}
Generation == [ts : Nat, born : Nat, content : Content]
Job == [content : Content, ts : Nat, mark : Nat, same : BOOLEAN, again : BOOLEAN]

IngestTyped ==
  /\ rows \subseteq Generation /\ clock \in Nat
  /\ line \in [Writer -> Seq(Content)]
  /\ at \in [Writer -> Places] /\ job \in [Writer -> Job]
  /\ state \in [Writer -> {"open", "draining", "closing", "closed", "dead"}]

(* No stamp is ahead of the clock.                                         *)
Stamped ==
  /\ \A r \in rows : r.born =< r.ts /\ r.ts =< clock
  /\ \A p \in Writer : /\ job[p].ts =< clock
                       /\ at[p] = "touch" => job[p].ts =< job[p].mark /\ job[p].mark =< clock

(* What a process will not delete is there.                                *)
Kept ==
  \A p \in Writer : Serving(p) /\ at[p] \in {"sweep", "prune"} => \E r \in rows : r.ts >= job[p].ts

(* The order of the stamps is the order in which generations were born, and *)
(* a generation under way will not disturb it.                             *)
InOrder ==
  /\ \A r, q \in rows : r.ts > q.ts => r.born >= q.born
  /\ \A p \in Writer : at[p] \in {"add", "commit"} => \A r \in rows : r.ts > job[p].ts => r.born >= job[p].ts

IngestInv == IngestTyped /\ Stamped /\ Kept /\ (raced \/ InOrder)

(* What a touch makes of a generation.                                     *)
Moved(p, r) == IF r.ts = job[p].ts THEN [r EXCEPT !.ts = job[p].mark] ELSE r
=============================================================================
