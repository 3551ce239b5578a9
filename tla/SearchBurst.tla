------------------------------- MODULE SearchBurst -------------------------------
(***************************************************************************)
(* One burst of search queries: the search tool (tools/search.ts), search() *)
(* (web-research/search.ts) and performSearch() (browser-search.ts), over  *)
(* the worker's executeSearchTask().  Lanes take the next query when their *)
(* last one has ended.  A query's clock runs only while a worker holds it: *)
(* it is armed by the dispatch, disarmed by the settling of every attempt, *)
(* and an attempt may be followed by another.  An attempt sent to another  *)
(* process's leader (browser-client.ts) is not told of its dispatch; what  *)
(* bounds it is the client's own timer, armed when the request is sent.    *)
(* What becomes of each query is told to a researcher, who rewrites a      *)
(* query that came back empty and must not rewrite one whose search has    *)
(* failed.                                                                 *)
(***************************************************************************)
EXTENDS Integers, FiniteSets

CONSTANTS
  Last,   \* the distinct queries are 1..Last
  Lane,   \* lanes, as many as workers
  Url     \* normalized URLs that searches find

Query == 1..Last

VARIABLES
  next,      \* nextIndex
  lane,      \* of a lane: the query it runs, 0 between two, Last + 1 when it has ended
  status,    \* of a query: none, queued, running, pausing, done
  retried,   \* queries that have had their second attempt
  afar,      \* queries whose last attempt goes through another process's leader
  timer,     \* queries whose clock runs
  results,   \* resultMap
  failure,   \* the failures map: none, all_duplicates, timeout, service_unavailable
  seen,      \* seenUrls
  fate,      \* history: how a query ended: none, found, empty, overrun, outwaited, failed, cancelled
  aborted,   \* the caller's signal
  verdict    \* none, cancelled, failed (thrown), answered

burstVars == <<next, lane, status, retried, afar, timer, results, failure, seen, fate, aborted, verdict>>

Init ==
  /\ next = 1 /\ lane = [l \in Lane |-> 0] /\ status = [q \in Query |-> "none"] /\ retried = {}
  /\ afar = {} /\ timer = {} /\ results = [q \in Query |-> {}] /\ failure = [q \in Query |-> "none"] /\ seen = {}
  /\ fate = [q \in Query |-> "none"] /\ aborted = FALSE /\ verdict = "none"

To(q, s) == status' = [status EXCEPT ![q] = s]

(* The scheduler of the moment, this process's or another's, is given the  *)
(* query (getScheduler()).                                                 *)
Sent(q) == To(q, "queued") /\ afar' \in {afar \ {q}, afar \cup {q}}

(* A lane takes the next query; none is left, or the caller has gone.      *)
Pull(l) ==
  /\ lane[l] = 0 /\ next' = next + 1
  /\ IF next > Last \/ aborted
     THEN lane' = [lane EXCEPT ![l] = Last + 1] /\ UNCHANGED <<status, afar>>
     ELSE lane' = [lane EXCEPT ![l] = next] /\ Sent(next)
  /\ UNCHANGED <<retried, timer, results, failure, seen, fate, aborted, verdict>>

(* The query ends: its lane is free, its clock is off.                     *)
End(q, found, why, how) ==
  /\ To(q, "done") /\ timer' = timer \ {q} /\ lane' = [l \in Lane |-> IF lane[l] = q THEN 0 ELSE lane[l]]
  /\ results' = [results EXCEPT ![q] = found] /\ seen' = seen \cup found
  /\ failure' = [failure EXCEPT ![q] = why] /\ fate' = [fate EXCEPT ![q] = how]

(* The leader's queue hands the query to a worker: a client far from it    *)
(* does not hear of it.                                                    *)
Dispatched(q) ==
  /\ status[q] = "queued" /\ To(q, "running") /\ timer' = timer \cup ({q} \ afar)
  /\ UNCHANGED <<next, lane, retried, afar, results, failure, seen, fate, aborted, verdict>>

(* The worker has read the page, and the next one if it is configured to:  *)
(* what earlier queries found is dropped.                                  *)
Answered(q, found) ==
  /\ status[q] = "running"
  /\ End(q, found \ seen,
         IF found # {} /\ found \subseteq seen THEN "all_duplicates" ELSE "none",
         IF found = {} THEN "empty" ELSE "found")
  /\ UNCHANGED <<next, retried, afar, aborted, verdict>>

(* Mutant: the clock of an attempt that has failed runs on.                *)
RetryClockOn(q) ==
  /\ status[q] \in {"queued", "running"} /\ q \notin retried /\ ~aborted
  /\ To(q, "pausing") /\ retried' = retried \cup {q}
  /\ UNCHANGED <<next, lane, afar, timer, results, failure, seen, fate, aborted, verdict>>

(* The attempt fails of a socket or of a pool that goes; it is made again. *)
Retry(q) ==
  /\ status[q] \in {"queued", "running"} /\ q \notin retried /\ ~aborted
  /\ To(q, "pausing") /\ timer' = timer \ {q} /\ retried' = retried \cup {q}
  /\ UNCHANGED <<next, lane, afar, results, failure, seen, fate, aborted, verdict>>

Requeue(q) ==
  /\ status[q] = "pausing"
  /\ IF aborted THEN End(q, {}, "none", "cancelled") /\ UNCHANGED afar
     ELSE Sent(q) /\ UNCHANGED <<lane, timer, results, failure, seen, fate>>
  /\ UNCHANGED <<next, retried, aborted, verdict>>

(* The attempt fails for good, or is cancelled on the other side.          *)
Fails(q) ==
  /\ status[q] \in {"queued", "running"} /\ ~aborted
  /\ End(q, {}, "service_unavailable", "failed")
  /\ UNCHANGED <<next, retried, afar, aborted, verdict>>

(* Either clock runs out: the scheduler's, or this layer's own.            *)
Overruns(q) ==
  /\ status[q] = "running" /\ ~aborted /\ End(q, {}, "timeout", "overrun")
  /\ UNCHANGED <<next, retried, afar, aborted, verdict>>

(* The client has waited long enough for the leader's answer, whether a    *)
(* worker holds the query or it waits its turn in the leader's queue.      *)
Outwaited(q) ==
  /\ q \in afar /\ status[q] \in {"queued", "running"} /\ ~aborted
  /\ End(q, {}, "timeout", "outwaited")
  /\ UNCHANGED <<next, retried, afar, aborted, verdict>>

(* The caller's signal ends what is under way.                             *)
Cancelled(q) ==
  /\ aborted /\ status[q] \in {"queued", "running"} /\ End(q, {}, "none", "cancelled")
  /\ UNCHANGED <<next, retried, afar, aborted, verdict>>

Abort ==
  /\ ~aborted /\ verdict = "none" /\ aborted' = TRUE
  /\ UNCHANGED <<next, lane, status, retried, afar, timer, results, failure, seen, fate, verdict>>

(* All lanes have ended: a cancellation is told from an outage, and an     *)
(* outage from answers.                                                    *)
Finish ==
  /\ verdict = "none" /\ \A l \in Lane : lane[l] = Last + 1
  /\ verdict' = IF aborted THEN "cancelled" ELSE IF seen = {} THEN "failed" ELSE "answered"
  /\ UNCHANGED <<next, lane, status, retried, afar, timer, results, failure, seen, fate, aborted>>

Next ==
  \/ \E l \in Lane : Pull(l)
  \/ \E q \in Query : \/ Dispatched(q) \/ Retry(q) \/ Requeue(q) \/ Fails(q) \/ Overruns(q) \/ Outwaited(q) \/ Cancelled(q)
                      \/ \E found \in SUBSET Url : Answered(q, found)
  \/ Abort \/ Finish

Spec == Init /\ [][Next]_burstVars

-----------------------------------------------------------------------------
(* A researcher is told that a query came back empty only if a worker ran  *)
(* it and found nothing, and that it timed out only if a worker overran    *)
(* ("the same charge-the-wait-to-the-work mistake", browser-search.ts) or, *)
(* for an attempt made through another process, if that process did not    *)
(* answer in time: there the wait is charged to the work, for all that     *)
(* browser-client.ts says of its timer ("work waits, and is not discarded  *)
(* because the pool was busy").  No URL is told twice; and no query of a   *)
(* burst that was not cancelled goes without its turn.                     *)
FailuresAreAttributed ==
  /\ timer \subseteq {q \in Query : status[q] = "running"} \ afar
  /\ \A q, r \in Query : q # r => results[q] \cap results[r] = {}
  /\ verdict \in {"answered", "failed"} => \A q \in Query :
       /\ fate[q] # "none"
       /\ results[q] = {} /\ failure[q] = "none" => fate[q] = "empty"
       /\ failure[q] = "timeout" => fate[q] = "overrun" \/ (fate[q] = "outwaited" /\ q \in afar)

-----------------------------------------------------------------------------
(* What makes it so.                                                       *)
BurstSetting == Last \in Nat /\ Lane # {}

BurstTyped ==
  /\ next \in Nat \ {0} /\ lane \in [Lane -> 0 .. Last + 1] /\ aborted \in BOOLEAN
  /\ status \in [Query -> {"none", "queued", "running", "pausing", "done"}]
  /\ results \in [Query -> SUBSET Url] /\ seen \subseteq Url
  /\ failure \in [Query -> {"none", "all_duplicates", "timeout", "service_unavailable"}]
  /\ fate \in [Query -> {"none", "found", "empty", "overrun", "outwaited", "failed", "cancelled"}]
  /\ afar \subseteq Query

(* What a query that has ended tells, and one that has not.                *)
Tells(q) ==
  /\ results[q] \subseteq seen
  /\ status[q] # "done" => results[q] = {}
  /\ status[q] = "done" =>
       /\ fate[q] # "none"
       /\ results[q] = {} /\ failure[q] = "none" => fate[q] = "empty" \/ aborted
       /\ failure[q] = "timeout" => fate[q] = "overrun" \/ (fate[q] = "outwaited" /\ q \in afar)

(* A query that was taken is in a lane until it has ended, and lanes end   *)
(* when all are taken.                                                     *)
LanesCarry ==
  /\ \A q \in Query : q >= next => status[q] = "none"
  /\ aborted \/ \A q \in Query : q < next => status[q] # "none"
  /\ \A q \in Query : status[q] \in {"queued", "running", "pausing"} => \E l \in Lane : lane[l] = q
  /\ \A l \in Lane : lane[l] = Last + 1 => next > Last \/ aborted

BurstInv ==
  /\ BurstTyped /\ LanesCarry /\ \A q \in Query : Tells(q)
  /\ timer \subseteq {q \in Query : status[q] = "running"} \ afar
  /\ \A q, r \in Query : q # r => results[q] \cap results[r] = {}
  /\ verdict # "none" => \A l \in Lane : lane[l] = Last + 1
  /\ verdict \in {"answered", "failed"} => ~aborted
=============================================================================
