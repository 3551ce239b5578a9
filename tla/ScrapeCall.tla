------------------------------- MODULE ScrapeCall -------------------------------
(***************************************************************************)
(* The scrape tool (tools/scrape.ts) in the hands of the researchers of    *)
(* one session, and scrape() under it (web-research/web-scraper.ts).  A    *)
(* call is gated, sorted against what the session has scraped and what the *)
(* knowledge store holds, and what remains is fetched in sub-batches: one  *)
(* fetch, one more after a transient failure, then the browser.  The pool  *)
(* of scraped URLs and the capped content cache are the session's          *)
(* (utils/shared-links.ts); the budget of calls is the researcher's        *)
(* (utils/tool-usage-tracker.ts).                                          *)
(*                                                                         *)
(* A call may give a URL twice, and nothing removes a repetition: it is    *)
(* fetched, told and counted as often as it is given.  So what a call      *)
(* keeps is kept per entry, the place of a URL in its list.                *)
(***************************************************************************)
EXTENDS Integers, Sequences, SequencesExt, FiniteSets, Lists

CONSTANTS
  Caller,     \* researchers
  Url,        \* normalized URLs
  MaxItems,   \* maxItems of the schema: a call's entries are at most 1..MaxItems
  MaxUrls,    \* maxScrapeUrls: fetched per call
  Limit,      \* the tracker's limit of scrape calls
  Lanes,      \* maxConcurrency: in flight per call
  CacheSize,  \* MAX_CACHED_CONTENT_PER_SESSION
  Blocked     \* URLs that validateUrlForSSRF() refuses or that are no URL

Entry == 1 .. MaxItems

VARIABLES
  pool,      \* sessionLinks
  cache,     \* sessionScrapedContent, in order of insertion
  calls,     \* recorded calls of a researcher
  phase,     \* of its current call: idle, lookup, scraping
  given,     \* the URLs of the call, in order
  queue,     \* entries to look up in the store, then to fetch, in order
  layer,     \* of an entry in flight: none, fetch, backoff, retry, browser
  outcome,   \* of an entry: none, waiting, served, stored, fresh, failed, aborted, skipped
  told,      \* onUrlScrapeResult callbacks of the call
  tally,     \* scrape_results_total entries of the call
  aborted    \* researchers whose signal has fired

callVars == <<pool, cache, calls, phase, given, queue, layer, outcome, told, tally, aborted>>
session == <<pool, cache>>

Each(x) == [e \in Entry |-> x]

Init ==
  /\ pool = {} /\ cache = << >> /\ calls = [c \in Caller |-> 0] /\ aborted = {}
  /\ phase = [c \in Caller |-> "idle"]
  /\ given = [c \in Caller |-> << >>] /\ queue = [c \in Caller |-> << >>] /\ layer = [c \in Caller |-> Each("none")]
  /\ outcome = [c \in Caller |-> Each("none")] /\ told = [c \in Caller |-> Each(0)]
  /\ tally = [c \in Caller |-> Each(0)]

Cached == Range(cache)
InFlight(c) == {e \in Entry : layer[c][e] # "none"}

(* The researcher's budget of scrape calls; a refused call spends none.    *)
MayCall(c) == calls[c] < Limit
RecordCall(c) == calls' = [calls EXCEPT ![c] = @ + 1]

(* What is to be fetched: what the session has not scraped, then what it   *)
(* has scraped and forgotten.                                              *)
At(urls, S) == {e \in DOMAIN urls : urls[e] \in S}
Entries(urls) == [e \in DOMAIN urls |-> e]
Fetchable(urls) ==
  Without(Entries(urls), At(urls, pool)) \o Within(Entries(urls), At(urls, pool \ Cached))

(* cacheScrapedContent(): the oldest entry gives way.                      *)
Remember(u) ==
  cache' = IF u \in Cached THEN cache
           ELSE Append(IF Len(cache) < CacheSize THEN cache ELSE Tail(cache), u)

(* execute() up to its first await.  The limit and the context window may  *)
(* refuse the call.  What exceeds the cap is only named in the answer.     *)
Call(c, urls) ==
  LET fetchable == Fetchable(urls)
      first == SubSeq(fetchable, 1, IF Len(fetchable) < MaxUrls THEN Len(fetchable) ELSE MaxUrls)
  IN  /\ phase[c] = "idle" /\ MayCall(c) /\ RecordCall(c)
      /\ phase' = [phase EXCEPT ![c] = "lookup"]
      /\ given' = [given EXCEPT ![c] = urls] /\ queue' = [queue EXCEPT ![c] = first]
      /\ outcome' = [outcome EXCEPT ![c] = [e \in Entry |->
           IF e \notin DOMAIN urls THEN "none" ELSE IF e \in Range(first) THEN "waiting"
           ELSE IF e \in At(urls, pool \cap Cached) THEN "served" ELSE "skipped"]]
      /\ told' = [told EXCEPT ![c] = [e \in Entry |->
           IF e \in At(urls, pool \cap Cached) THEN 1 ELSE 0]]
      /\ tally' = [tally EXCEPT ![c] = Each(0)]
      /\ UNCHANGED <<session, layer, aborted>>

(* The lookups in the knowledge store: each may hit, and one that throws   *)
(* leaves the rest to be fetched; without a store none hits.  (The code    *)
(* strikes the first entry equal to the one it looked up: two entries that *)
(* are equal are alike.)                                                   *)
LookedUp(c, hits) ==
  /\ phase[c] = "lookup" /\ hits \subseteq Range(queue[c])
  /\ phase' = [phase EXCEPT ![c] = "scraping"]
  /\ queue' = [queue EXCEPT ![c] = Without(@, hits)]
  /\ outcome' = [outcome EXCEPT ![c] = [e \in Entry |-> IF e \in hits THEN "stored" ELSE @[e]]]
  /\ told' = [told EXCEPT ![c] = [e \in Entry |-> IF e \in hits THEN 1 ELSE @[e]]]
  /\ UNCHANGED <<session, calls, given, layer, tally, aborted>>

(* The loop of scrape(): the next sub-batch starts when the last one has   *)
(* settled.  scrapeSingle() refuses what is no URL to fetch at once.       *)
Dispatch(c) ==
  LET batch == Range(SubSeq(queue[c], 1, IF Len(queue[c]) < Lanes THEN Len(queue[c]) ELSE Lanes))
      refused == batch \cap At(given[c], Blocked)
  IN  /\ phase[c] = "scraping" /\ queue[c] # << >> /\ InFlight(c) = {} /\ c \notin aborted
      /\ queue' = [queue EXCEPT ![c] = Without(@, batch)]
      /\ layer' = [layer EXCEPT ![c] = [e \in Entry |-> IF e \in batch \ refused THEN "fetch" ELSE "none"]]
      /\ outcome' = [outcome EXCEPT ![c] = [e \in Entry |-> IF e \in refused THEN "failed" ELSE @[e]]]
      /\ told' = [told EXCEPT ![c] = [e \in Entry |-> IF e \in refused THEN @[e] + 1 ELSE @[e]]]
      /\ tally' = [tally EXCEPT ![c] = [e \in Entry |-> IF e \in refused THEN @[e] + 1 ELSE @[e]]]
      /\ UNCHANGED <<session, calls, phase, given, aborted>>

(* Mutant: what is left is dropped without a word.                         *)
UndispatchedSilent(c) ==
  /\ phase[c] = "scraping" /\ queue[c] # << >> /\ InFlight(c) = {} /\ c \in aborted
  /\ queue' = [queue EXCEPT ![c] = << >>]
  /\ UNCHANGED <<session, calls, phase, given, layer, outcome, told, tally, aborted>>

(* An aborted caller dispatches no more: what is left is reported so.      *)
Undispatched(c) ==
  /\ phase[c] = "scraping" /\ queue[c] # << >> /\ InFlight(c) = {} /\ c \in aborted
  /\ outcome' = [outcome EXCEPT ![c] = [e \in Entry |-> IF e \in Range(queue[c]) THEN "aborted" ELSE @[e]]]
  /\ told' = [told EXCEPT ![c] = [e \in Entry |-> IF e \in Range(queue[c]) THEN @[e] + 1 ELSE @[e]]]
  /\ queue' = [queue EXCEPT ![c] = << >>]
  /\ UNCHANGED <<session, calls, phase, given, layer, tally, aborted>>

-----------------------------------------------------------------------------
(* scrapeSingle().                                                         *)

Settle(c, e, result, counted) ==
  /\ layer' = [layer EXCEPT ![c][e] = "none"] /\ outcome' = [outcome EXCEPT ![c][e] = result]
  /\ told' = [told EXCEPT ![c][e] = @ + 1]
  /\ tally' = [tally EXCEPT ![c][e] = IF counted THEN @ + 1 ELSE @]

Step(c, e, next) ==
  /\ layer' = [layer EXCEPT ![c][e] = next] /\ UNCHANGED <<outcome, told, tally>>

(* A layer yields content: it is cached, the oldest entry giving way, even *)
(* for a caller that has gone.                                             *)
Yields(c, e) ==
  /\ layer[c][e] \in {"fetch", "retry", "browser"} /\ Settle(c, e, "fresh", TRUE)
  /\ Remember(given[c][e])
  /\ UNCHANGED <<pool, calls, phase, given, queue, aborted>>

(* The first fetch fails of something transient: one retry, after a pause. *)
FailsTransiently(c, e) ==
  /\ layer[c][e] = "fetch" /\ c \notin aborted /\ Step(c, e, "backoff")
  /\ UNCHANGED <<session, calls, phase, given, queue, aborted>>

(* A layer fails for good, or an abort ends the fetch, the pause or the    *)
(* browser task.  The last layer to fail is the browser, where there is    *)
(* one; a cancelled URL is no failure and is not counted.                  *)
Fails(c, e, hasBrowser) ==
  /\ (layer[c][e] \in {"fetch", "retry", "browser"} \/ (layer[c][e] = "backoff" /\ c \in aborted))
  /\ IF c \in aborted THEN Settle(c, e, "aborted", FALSE)
     ELSE IF layer[c][e] # "browser" /\ hasBrowser THEN Step(c, e, "browser")
     ELSE Settle(c, e, "failed", TRUE)
  /\ UNCHANGED <<session, calls, phase, given, queue, aborted>>

(* The pool drains or its leader changes: the browser task ends Aborted    *)
(* although its caller never asked.                                        *)
Drained(c, e) ==
  /\ layer[c][e] = "browser" /\ Settle(c, e, "aborted", FALSE)
  /\ UNCHANGED <<session, calls, phase, given, queue, aborted>>

PauseEnds(c, e) ==
  /\ layer[c][e] = "backoff" /\ c \notin aborted /\ Step(c, e, "retry")
  /\ UNCHANGED <<session, calls, phase, given, queue, aborted>>

(* All entries have settled: the URLs that yielded enter the pool, and     *)
(* what the call kept goes with it.                                        *)
Return(c) ==
  /\ phase[c] = "scraping" /\ queue[c] = << >> /\ InFlight(c) = {}
  /\ pool' = pool \cup {given[c][e] : e \in {d \in DOMAIN given[c] : outcome[c][d] = "fresh"}}
  /\ phase' = [phase EXCEPT ![c] = "idle"] /\ given' = [given EXCEPT ![c] = << >>]
  /\ outcome' = [outcome EXCEPT ![c] = Each("none")]
  /\ told' = [told EXCEPT ![c] = Each(0)] /\ tally' = [tally EXCEPT ![c] = Each(0)]
  /\ UNCHANGED <<cache, calls, queue, layer, aborted>>

Abort(c) ==
  /\ phase[c] # "idle" /\ c \notin aborted /\ aborted' = aborted \cup {c}
  /\ UNCHANGED <<session, calls, phase, given, queue, layer, outcome, told, tally>>

Next ==
  \/ \E c \in Caller : \/ Dispatch(c) \/ Undispatched(c) \/ Return(c) \/ Abort(c)
                       \/ \E urls \in SeqOf(Url, MaxItems) : urls # << >> /\ Call(c, urls)
                       \/ \E hits \in SUBSET Entry : LookedUp(c, hits)
                       \/ \E e \in Entry : \/ Yields(c, e) \/ FailsTransiently(c, e) \/ Drained(c, e) \/ PauseEnds(c, e)
                                           \/ \E b \in BOOLEAN : Fails(c, e, b)

Spec == Init /\ [][Next]_callVars

-----------------------------------------------------------------------------
Waiting(c) == Range(queue[c]) \cup InFlight(c)

(* Whatever ends a call, every entry of its list is accounted for in its   *)
(* answer, a repeated URL as often as it was given: reported to the panel  *)
(* exactly once unless it exceeded the cap, and counted exactly once in    *)
(* the run's statistics if it was tried and not cancelled; and nothing is  *)
(* reported that was not asked for.                                        *)
EveryUrlAccountedFor ==
  \A c \in Caller, e \in Entry : phase[c] = "scraping" /\ e \notin Waiting(c) =>
    /\ outcome[c][e] # "waiting" /\ (outcome[c][e] = "none" <=> e \notin DOMAIN given[c])
    /\ told[c][e] = (IF outcome[c][e] \in {"none", "skipped"} THEN 0 ELSE 1)
    /\ tally[c][e] = (IF outcome[c][e] \in {"fresh", "failed"} THEN 1 ELSE 0)

-----------------------------------------------------------------------------
(* What makes it so.                                                       *)
ScrapeSetting == MaxItems \in Nat /\ MaxUrls \in Nat /\ Lanes \in Nat

CallTyped ==
  /\ phase \in [Caller -> {"idle", "lookup", "scraping"}]
  /\ given \in [Caller -> Seq(Url)] /\ queue \in [Caller -> Seq(Entry)]
  /\ layer \in [Caller -> [Entry -> {"none", "fetch", "backoff", "retry", "browser"}]]
  /\ outcome \in [Caller -> [Entry -> {"none", "waiting", "served", "stored", "fresh", "failed", "aborted", "skipped"}]]
  /\ told \in [Caller -> [Entry -> Nat]] /\ tally \in [Caller -> [Entry -> Nat]]

(* An entry waits and nothing was said of it, or it has ended and was      *)
(* reported and counted as its end demands.                                *)
Pending(c, e) == e \in DOMAIN given[c] /\ outcome[c][e] = "waiting" /\ told[c][e] = 0 /\ tally[c][e] = 0
Ended(c, e) ==
  /\ outcome[c][e] # "waiting" /\ (outcome[c][e] = "none" <=> e \notin DOMAIN given[c])
  /\ told[c][e] = (IF outcome[c][e] \in {"none", "skipped"} THEN 0 ELSE 1)
  /\ tally[c][e] = (IF outcome[c][e] \in {"fresh", "failed"} THEN 1 ELSE 0)
Sound(c) ==
  /\ phase[c] # "scraping" => InFlight(c) = {}
  /\ Range(queue[c]) \cap InFlight(c) = {}
  /\ phase[c] # "idle" => \A e \in Entry : IF e \in Waiting(c) THEN Pending(c, e) ELSE Ended(c, e)
CallsSound == CallTyped /\ \A c \in Caller : Sound(c)
=============================================================================
