---------------------------- MODULE KnowledgeSearch ----------------------------
(***************************************************************************)
(* The research_knowledge_search tool (tools/research-knowledge-search.ts) *)
(* and the retrieval it drives: is the store up, which pages rank for the  *)
(* queries, which of them does a model find relevant, what do the rebuilt  *)
(* documents say.  The calling agent reads the outcome as an instruction:  *)
(* a miss sends it to live research, so a fault that reads as a miss, or a *)
(* cancellation that reads as one, costs the work the store was to save.   *)
(* Searches run in parallel and share one slot on the screen.              *)
(*                                                                         *)
(* A row of an index hit is its url; a document is its size.               *)
(***************************************************************************)
EXTENDS Integers, Sequences, SequencesExt, FiniteSetsExt, Lists

CONSTANTS
  Search, Headless,           \* calls, and those without a terminal
  QueriesOf, RowsOf,          \* per call: its queries, what the index may rank for one
  MaxCandidates, MaxDocuments, MaxChars, MinRest,
  MaxAttempts,                \* KNOWLEDGE_SYNTHESIS_MAX_ATTEMPTS
  Indices, Sizes              \* what triage may name, how large a document may be

VARIABLES
  at,          \* idle, resolving, querying, routing, triage, rebuilding, extracting, repairing, over; or a backoff
  left,        \* queries to go
  candidates,  \* urls by first appearance
  triage,      \* not run, authoritative, or failed
  chosen,
  garbled,     \* did the extractor's answer have to be repaired
  todo,
  text,        \* the documents put before the extractor: their urls, in order
  chars,       \* how much of the budget they take
  lost,        \* chosen documents the store would not give
  attempts,
  cancelled,
  outcome,     \* what the tool returned
  widgets,     \* knowledgeWidgetRefCount
  panel        \* is the widget on the screen

searchVars == <<at, left, candidates, triage, chosen, garbled, todo, text, chars, lost, attempts, cancelled, outcome, widgets, panel>>
found == <<left, candidates>>
judged == <<triage, chosen, garbled>>
rebuilt == <<todo, text, chars, lost>>
screen == <<widgets, panel>>

Init ==
  /\ at = [s \in Search |-> "idle"] /\ left = QueriesOf /\ candidates = [s \in Search |-> <<>>]
  /\ triage = [s \in Search |-> "not run"] /\ chosen = [s \in Search |-> <<>>] /\ garbled = [s \in Search |-> FALSE]
  /\ todo = [s \in Search |-> <<>>] /\ text = [s \in Search |-> <<>>]
  /\ chars = [s \in Search |-> 0] /\ lost = [s \in Search |-> {}]
  /\ attempts = [s \in Search |-> 0] /\ cancelled = [s \in Search |-> FALSE]
  /\ outcome = [s \in Search |-> "none"] /\ widgets = 0 /\ panel = FALSE

Running(s) == at[s] \notin {"idle", "over"}
Goes(s, where) == at' = [at EXCEPT ![s] = where]
Backoffs == {"triage backoff", "extract backoff"}
Calling == {"triage", "extracting", "repairing"}

-----------------------------------------------------------------------------
(* The indicator.                                                          *)

Show(s) ==
  IF s \in Headless THEN UNCHANGED screen
  ELSE widgets' = widgets + 1 /\ panel' = TRUE

(* The last one out removes it.                                            *)
Hide(s) ==
  IF s \in Headless THEN UNCHANGED screen
  ELSE /\ widgets' = Max({0, widgets - 1})
       /\ panel' = IF widgets' > 0 THEN panel ELSE FALSE

-----------------------------------------------------------------------------
(* Endings.                                                                *)

(* Every return and every throw leaves through the `finally'.              *)
Ends(s, how) ==
  /\ Goes(s, "over") /\ outcome' = [outcome EXCEPT ![s] = how]
  /\ Hide(s)
  /\ UNCHANGED cancelled

Miss(s, reason) == Ends(s, reason)

(* The catch block: a cancellation goes on up, any other error is a miss.  *)
Thrown(s) == Ends(s, IF cancelled[s] THEN "cancelled" ELSE "error")

Steered(s, status) == Ends(s, status)

-----------------------------------------------------------------------------
(* The store.                                                              *)

Begin(s) ==
  /\ at[s] = "idle"
  /\ Goes(s, "resolving") /\ Show(s)
  /\ UNCHANGED <<found, judged, rebuilt, attempts, cancelled, outcome>>

InvalidParams(s) ==
  /\ at[s] = "idle"
  /\ Goes(s, "over") /\ outcome' = [outcome EXCEPT ![s] = "invalid"]
  /\ UNCHANGED <<found, judged, rebuilt, attempts, cancelled, screen>>

(* The mode of the moment, the service, its readiness, and the row count.  *)
NoStore(s, why) ==
  /\ at[s] = "resolving"
  /\ Miss(s, why)
  /\ UNCHANGED <<found, judged, rebuilt, attempts>>

StoreFaults(s) ==
  /\ at[s] = "resolving"
  /\ Thrown(s)
  /\ UNCHANGED <<found, judged, rebuilt, attempts>>

StoreReady(s) ==
  /\ at[s] = "resolving"
  /\ Goes(s, "querying")
  /\ UNCHANGED <<found, judged, rebuilt, attempts, cancelled, outcome, screen>>

-----------------------------------------------------------------------------
(* Retrieval.                                                              *)

(* One entry per page, in the order the index ranked its rows.             *)
Merged(order, rows) == order \o Without(Distinct(rows), ToSet(order))
First(n, seq) == SubSeq(seq, 1, Min({n, Len(seq)}))

(* A query's hits are merged; after the last one the pool is capped.       *)
Collected(s, order) ==
  /\ left' = [left EXCEPT ![s] = @ - 1]
  /\ candidates' = [candidates EXCEPT ![s] = IF left[s] = 1 THEN First(MaxCandidates, order) ELSE order]
  /\ IF left[s] > 1 THEN UNCHANGED <<at, outcome, screen, cancelled>>
     ELSE IF order = <<>> THEN Miss(s, "no_results")
     ELSE Goes(s, "routing") /\ UNCHANGED <<outcome, screen, cancelled>>
  /\ UNCHANGED <<judged, rebuilt, attempts>>

(* An empty table, or a store that is closing, answers with no rows.       *)
QueryAnswers(s, rows) == at[s] = "querying" /\ Collected(s, Merged(candidates[s], rows))

(* The embedder or the index failed: one query less.                       *)
QueryFails(s) == at[s] = "querying" /\ Collected(s, candidates[s])

-----------------------------------------------------------------------------
(* The model, and the triage of the candidates' descriptions.              *)

NoModel(s, why) ==
  /\ at[s] = "routing"
  /\ Miss(s, why)
  /\ UNCHANGED <<found, judged, rebuilt, attempts>>

Ask(s, where) == Goes(s, where) /\ attempts' = [attempts EXCEPT ![s] = 1]

ModelReady(s) ==
  /\ at[s] = "routing"
  /\ Ask(s, "triage")
  /\ UNCHANGED <<found, judged, rebuilt, cancelled, outcome, screen>>

(* What is to be rebuilt: all of it when triage could not run.             *)
Judged(s, verdict, urls) ==
  /\ triage' = [triage EXCEPT ![s] = verdict] /\ chosen' = [chosen EXCEPT ![s] = urls]
  /\ IF urls = <<>>
       THEN Miss(s, "no_results") /\ UNCHANGED todo
       ELSE Goes(s, "rebuilding") /\ todo' = [todo EXCEPT ![s] = First(MaxDocuments, urls)] /\ UNCHANGED <<outcome, screen, cancelled>>
  /\ UNCHANGED <<found, garbled, text, chars, lost, attempts>>

FailOpen(s) == Judged(s, "failed", candidates[s])

(* Indices out of range and repetitions are passed over.                   *)
NamedPages(s, idx) ==
  LET known == Within(idx, DOMAIN candidates[s])
  IN  Distinct([k \in DOMAIN known |-> candidates[s][known[k]]])

TriageAnswers(s, idx) ==
  /\ at[s] = "triage" /\ ~cancelled[s]
  /\ Judged(s, "ran", NamedPages(s, idx))

(* No prompt, no JSON, or JSON of another shape.                           *)
TriageMalformed(s) == at[s] = "triage" /\ ~cancelled[s] /\ FailOpen(s)

-----------------------------------------------------------------------------
(* The documents.                                                          *)

(* The budget is kept by cutting the document that would exceed it, and    *)
(* nothing ranked below is added.                                          *)
Added(s, u, size) ==
  LET rest == MaxChars - chars[s] IN
  IF size <= rest
    THEN /\ text' = [text EXCEPT ![s] = Append(@, u)] /\ chars' = [chars EXCEPT ![s] = @ + size]
         /\ todo' = [todo EXCEPT ![s] = Tail(@)]
    ELSE /\ todo' = [todo EXCEPT ![s] = <<>>]
         /\ IF rest > MinRest
              THEN text' = [text EXCEPT ![s] = Append(@, u)] /\ chars' = [chars EXCEPT ![s] = MaxChars]
              ELSE UNCHANGED <<text, chars>>

Rebuilt(s, size) ==
  /\ at[s] = "rebuilding" /\ todo[s] # <<>>
  /\ Added(s, Head(todo[s]), size)
  /\ UNCHANGED <<at, found, judged, lost, attempts, cancelled, outcome, screen>>

(* Nothing stored, too old to serve, unreadable, or the read failed.       *)
NotRebuilt(s) ==
  /\ at[s] = "rebuilding" /\ todo[s] # <<>>
  /\ lost' = [lost EXCEPT ![s] = @ \cup {Head(todo[s])}] /\ todo' = [todo EXCEPT ![s] = Tail(@)]
  /\ UNCHANGED <<at, found, judged, text, chars, attempts, cancelled, outcome, screen>>

Assembled(s) ==
  /\ at[s] = "rebuilding" /\ todo[s] = <<>>
  /\ IF text[s] = <<>>
       THEN Miss(s, "no_results") /\ UNCHANGED attempts
       ELSE Ask(s, "extracting") /\ UNCHANGED <<outcome, screen, cancelled>>
  /\ UNCHANGED <<found, judged, rebuilt>>

-----------------------------------------------------------------------------
(* The two model calls fail alike, and differ in what a failure means.     *)

Transient(failure) == failure \in {"limit", "timeout"}

GaveUp(s) == IF at[s] = "triage" THEN FailOpen(s)
             ELSE Thrown(s) /\ UNCHANGED <<found, judged, rebuilt, attempts>>

CallFails(s, failure) ==
  /\ at[s] \in {"triage", "extracting"} /\ ~cancelled[s]
  /\ IF attempts[s] < MaxAttempts /\ Transient(failure)
       THEN /\ Goes(s, IF at[s] = "triage" THEN "triage backoff" ELSE "extract backoff")
            /\ UNCHANGED <<found, judged, rebuilt, attempts, cancelled, outcome, screen>>
       ELSE GaveUp(s)

BackoffEnds(s) ==
  /\ at[s] \in Backoffs /\ ~cancelled[s]
  /\ Goes(s, IF at[s] = "triage backoff" THEN "triage" ELSE "extracting")
  /\ attempts' = [attempts EXCEPT ![s] = @ + 1]
  /\ UNCHANGED <<found, judged, rebuilt, cancelled, outcome, screen>>

(* An abort rejects a call under way and the sleep before the next one.    *)
Unwinds(s) ==
  /\ at[s] \in {"triage", "extracting"} \cup Backoffs /\ cancelled[s]
  /\ Thrown(s)
  /\ UNCHANGED <<found, judged, rebuilt, attempts>>

Extracted(s, status) ==
  /\ at[s] \in {"extracting", "repairing"} /\ ~cancelled[s]
  /\ Steered(s, status)
  /\ UNCHANGED <<found, judged, rebuilt, attempts>>

Malformed(s) ==
  /\ at[s] = "extracting" /\ ~cancelled[s]
  /\ Goes(s, "repairing") /\ garbled' = [garbled EXCEPT ![s] = TRUE]
  /\ UNCHANGED <<found, triage, chosen, rebuilt, attempts, cancelled, outcome, screen>>

(* repairJsonWithLlm() answers null when it fails and when it is cancelled:*)
(* either way the tool says "no".                                          *)
RepairFails(s) ==
  /\ at[s] = "repairing"
  /\ Steered(s, "no")
  /\ UNCHANGED <<found, judged, rebuilt, attempts>>

Cancel(s) ==
  /\ Running(s) /\ ~cancelled[s]
  /\ cancelled' = [cancelled EXCEPT ![s] = TRUE]
  /\ UNCHANGED <<at, found, judged, rebuilt, attempts, outcome, screen>>

Off == {"store_disabled", "store_unavailable", "store_packages_missing", "store_not_ready", "store_empty"}

Next == \E s \in Search :
  \/ Begin(s) \/ InvalidParams(s) \/ StoreFaults(s) \/ StoreReady(s)
  \/ \E why \in Off : NoStore(s, why)
  \/ \E rows \in RowsOf[s] : QueryAnswers(s, rows)
  \/ QueryFails(s) \/ ModelReady(s)
  \/ \E why \in {"no_model", "auth_failed"} : NoModel(s, why)
  \/ \E idx \in Indices : TriageAnswers(s, idx)
  \/ TriageMalformed(s)
  \/ \E size \in Sizes : Rebuilt(s, size)
  \/ NotRebuilt(s) \/ Assembled(s)
  \/ \E failure \in {"limit", "hard"} : CallFails(s, failure)
  \/ BackoffEnds(s) \/ Unwinds(s) \/ Malformed(s) \/ RepairFails(s) \/ Cancel(s)
  \/ \E status \in {"yes", "maybe", "no"} : Extracted(s, status)

Spec == Init /\ [][Next]_searchVars

-----------------------------------------------------------------------------

(* The widget is on the screen as long as a search that put it there runs. *)
WidgetMeansSearching == panel = (\E s \in Search \ Headless : Running(s))

(* "Nothing matches" is only said when the index ranked nothing, or triage *)
(* said of everything that it is irrelevant, or not one of the documents   *)
(* chosen could be had: a fault of triage hides nothing.                   *)
MissIsEarned == \A s \in Search : outcome[s] = "no_results" =>
  \/ candidates[s] = <<>>
  \/ triage[s] = "ran" /\ chosen[s] = <<>>
  \/ chosen[s] # <<>> /\ ToSet(First(MaxDocuments, chosen[s])) = lost[s]

(* What the extractor reads is the best ranked of what was chosen: nothing *)
(* it does not see was ranked above something it sees, unless the store    *)
(* would not give it.                                                      *)
BestFirst == \A s \in Search : \A i \in DOMAIN chosen[s] :
  (\E j \in DOMAIN chosen[s] : j >= i /\ chosen[s][j] \in ToSet(text[s])) =>
     chosen[s][i] \in ToSet(text[s]) \cup lost[s]

(* A search that was cancelled before its answer came gives none and blames*)
(* no fault, however far it had come.  The tool means it so ("a CANCELLED  *)
(* search is not an empty store"), but for one that is cancelled while its *)
(* garbled answer is repaired it does not hold: that one answers "no".     *)
NoAnswerOnceCancelled == \A s \in Search : cancelled[s] =>
  outcome[s] \notin {"yes", "maybe", "error"} /\ (outcome[s] = "no" => garbled[s])

(* What a search tells the agent that asked.                               *)
SearchIsTruthful == WidgetMeansSearching /\ MissIsEarned /\ BestFirst /\ NoAnswerOnceCancelled

-----------------------------------------------------------------------------
(* What makes it so.                                                       *)
(* The pages an index may rank.                                            *)
Ranked == UNION {UNION {Range(rows) : rows \in RowsOf[s]} : s \in Search}

SearchSetting ==
  /\ \A s \in Search : \A rows \in RowsOf[s] : rows \in Seq(Range(rows))
  /\ Indices \subseteq Seq(Int) /\ Sizes \subseteq Int
  /\ MaxCandidates \in Nat /\ MaxDocuments \in Nat /\ MaxChars \in Int /\ MinRest \in Nat /\ MinRest < MaxChars

Shape ==
  /\ DOMAIN at = Search /\ DOMAIN candidates = Search /\ DOMAIN triage = Search /\ DOMAIN chosen = Search /\ DOMAIN garbled = Search
  /\ DOMAIN todo = Search /\ DOMAIN text = Search /\ DOMAIN chars = Search /\ DOMAIN lost = Search
  /\ DOMAIN cancelled = Search /\ DOMAIN outcome = Search

Early == {"idle", "resolving", "querying", "routing", "triage", "triage backoff"}

(* The chosen pages were dealt with from the best ranked on: the first d   *)
(* are read or lost, none after them is read, and those to do come next.   *)
DealtWith(s, d) ==
  /\ \A u \in Range(text[s]) : \E i \in 1 .. d : u = chosen[s][i]
  /\ \A i \in 1 .. d : chosen[s][i] \in Range(text[s]) \cup lost[s]
  /\ todo[s] # << >> => Len(todo[s]) + d <= Len(chosen[s]) /\ \A k \in 1 .. Len(todo[s]) : todo[s][k] = chosen[s][d + k]

Kept(s) ==
  /\ candidates[s] \in Seq(Ranked) /\ Differing(candidates[s])
  /\ chosen[s] \in Seq(Ranked) /\ Differing(chosen[s])
  /\ todo[s] \in Seq(Ranked) /\ text[s] \in Seq(Ranked) /\ chars[s] \in Int
  /\ outcome[s] # "none" => at[s] = "over"
  /\ text[s] = << >> => chars[s] = 0
  /\ \E d \in 0 .. Len(chosen[s]) : DealtWith(s, d)
  /\ at[s] \in Early => text[s] = << >> /\ lost[s] = {} /\ todo[s] = << >>
  /\ at[s] = "rebuilding" => /\ chosen[s] # << >>
                             /\ text[s] = << >> => Range(First(MaxDocuments, chosen[s])) = lost[s] \cup Range(todo[s])
  /\ outcome[s] = "no_results" => \/ candidates[s] = << >>
                                  \/ triage[s] = "ran" /\ chosen[s] = << >>
                                  \/ chosen[s] # << >> /\ Range(First(MaxDocuments, chosen[s])) = lost[s]
  /\ at[s] = "repairing" => garbled[s]
  /\ cancelled[s] => outcome[s] \notin {"yes", "maybe", "error"} /\ (outcome[s] = "no" => garbled[s])

(* The searches whose widget is on the screen.                             *)
Shown == {s \in Search \ Headless : Running(s)}
Screen == IsFiniteSet(Shown) /\ widgets = Cardinality(Shown) /\ panel = (Shown # {})

LookKept == Shape /\ Screen /\ \A s \in Search : Kept(s)

(* A step is one of one search, and leaves the others as they are.         *)
Leaves(s) ==
  \A q \in Search : q # s =>
    /\ at'[q] = at[q] /\ candidates'[q] = candidates[q] /\ triage'[q] = triage[q] /\ chosen'[q] = chosen[q]
    /\ garbled'[q] = garbled[q]
    /\ todo'[q] = todo[q] /\ text'[q] = text[q] /\ chars'[q] = chars[q] /\ lost'[q] = lost[q]
    /\ cancelled'[q] = cancelled[q] /\ outcome'[q] = outcome[q]
=============================================================================
