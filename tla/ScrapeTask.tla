------------------------------- MODULE ScrapeTask -------------------------------
(***************************************************************************)
(* One scrape inside a worker (executeScrapeTask() in thread-worker-       *)
(* messaging.ts).  While the page loads, events of the browser run beside  *)
(* the task: every response is inspected, and one from an address the      *)
(* policy withholds poisons the scrape and closes the page; so does a      *)
(* document that declares itself an oversized PDF; and the task's deadline *)
(* closes the page as well.  A closed page fails whatever awaits it.       *)
(***************************************************************************)
EXTENDS Integers, FiniteSets

CONSTANT Response  \* responses the page may receive; the first document's among them

VARIABLES
  step,      \* new, loading, body, refetch, download, html, challenge, idle, jitter, settling, done
  closed,    \* the page is closed
  late,      \* the task's signal is aborted
  arrived,   \* responses received
  bad,       \* those from a withheld address
  unchecked, \* those whose inspection has not settled (pendingAddrChecks)
  awaited,   \* those the task waits for before it returns
  poisoned,  \* poisonedError
  oversized, \* oversizedPdfError
  seen,      \* responses that the captured content may be made of
  result     \* none, content, or why it failed: poisoned, oversized, http, blocked, size, other

taskVars == <<step, closed, late, arrived, bad, unchecked, awaited, poisoned, oversized, seen, result>>
events == <<arrived, bad, unchecked, poisoned, oversized>>

Init ==
  /\ step = "new" /\ closed = FALSE /\ late = FALSE
  /\ arrived = {} /\ bad = {} /\ unchecked = {} /\ awaited = {}
  /\ poisoned = FALSE /\ oversized = FALSE /\ seen = {} /\ result = "none"

Running == step \notin {"new", "done"}
Go(s) == step' = s

(* createPageSafe() has a page; a signal that is aborted already closes it. *)
Start ==
  /\ step = "new" /\ Go("loading") /\ closed' = late
  /\ UNCHANGED <<late, events, awaited, seen, result>>

-----------------------------------------------------------------------------
(* The events of the page.                                                 *)

Respond(r, withheld) ==
  /\ Running /\ ~closed /\ r \notin arrived
  /\ arrived' = arrived \cup {r} /\ unchecked' = unchecked \cup {r}
  /\ bad' = IF withheld THEN bad \cup {r} ELSE bad
  /\ UNCHANGED <<step, closed, late, awaited, poisoned, oversized, seen, result>>

(* The address is known: a withheld one poisons the scrape.  On a page that *)
(* was closed in between the question itself fails, and is dropped.        *)
Inspect(r) ==
  /\ r \in unchecked /\ unchecked' = unchecked \ {r}
  /\ IF ~closed /\ r \in bad THEN poisoned' = TRUE /\ closed' = TRUE ELSE UNCHANGED <<poisoned, closed>>
  /\ UNCHANGED <<step, late, arrived, bad, awaited, oversized, seen, result>>

(* The headers of a document declare a PDF over the cap.                   *)
DeclaredTooLarge ==
  /\ Running /\ ~closed /\ ~poisoned /\ arrived # {} /\ oversized' = TRUE /\ closed' = TRUE
  /\ UNCHANGED <<step, late, arrived, bad, unchecked, awaited, poisoned, seen, result>>

Deadline ==
  /\ ~late /\ late' = TRUE /\ closed' = (closed \/ Running)
  /\ UNCHANGED <<step, events, awaited, seen, result>>

-----------------------------------------------------------------------------
(* The task.                                                               *)

(* The catch closes the page; what closed it before says why.              *)
Fail(why) ==
  /\ Go("done") /\ closed' = TRUE
  /\ result' = IF oversized THEN "oversized" ELSE IF poisoned THEN "poisoned" ELSE why
  /\ UNCHANGED <<late, events, awaited, seen>>

(* Any await of the page may fail, and does once it is closed.             *)
Rejects ==
  /\ step \in {"loading", "body", "refetch", "download", "html", "challenge"}
  /\ Fail("other")

(* goto() resolves: the address of the document is looked at once more,    *)
(* and a PDF's status and declared length before its body is asked for.    *)
Loaded(k) ==
  /\ step = "loading" /\ ~closed /\ arrived # {}
  /\ Go(IF k = "pdf" THEN "body" ELSE "html")
  /\ UNCHANGED <<closed, late, events, awaited, seen, result>>

LoadedBlocked ==
  /\ step = "loading" /\ ~closed /\ bad # {} /\ Fail("blocked")

(* goto() rejects because a download starts; its event came or comes.      *)
DownloadStarts ==
  /\ step = "loading" /\ ~closed /\ Go("download")
  /\ UNCHANGED <<closed, late, events, awaited, seen, result>>

(* readPdfDownload(): the file is complete, a PDF, below the cap.          *)
Downloaded ==
  /\ step = "download" /\ seen' = arrived /\ awaited' = unchecked /\ Go("settling")
  /\ UNCHANGED <<closed, late, events, result>>

(* The body is there; or Firefox has evicted it and it is asked for again, *)
(* raced against the task's signal.                                        *)
Body ==
  /\ step = "body" /\ ~closed /\ ~oversized /\ seen' = arrived /\ awaited' = unchecked /\ Go("settling")
  /\ UNCHANGED <<closed, late, events, result>>

Evicted ==
  /\ step = "body" /\ ~closed /\ Go("refetch")
  /\ UNCHANGED <<closed, late, events, awaited, seen, result>>

Refetched ==
  /\ step = "refetch" /\ ~late /\ seen' = arrived /\ awaited' = unchecked /\ Go("settling")
  /\ UNCHANGED <<closed, late, events, result>>

(* An error status, a length over the cap, or a file that is no PDF.       *)
Unusable(why) ==
  /\ step \in {"body", "refetch", "download", "html"} /\ Fail(why)

(* page.content(): a challenge page is given five seconds, a thin page     *)
(* waits until the network is idle and is read again, and what is read     *)
(* last is what is returned.                                               *)
Content(next) ==
  /\ step \in {"html", "challenge", "idle"} /\ ~closed /\ seen' = arrived
  /\ \/ /\ step = "html" /\ next \in {"challenge", "idle", "jitter"}
     \/ /\ step = "challenge" /\ next \in {"idle", "jitter"}
     \/ /\ step = "idle" /\ next = "jitter"
  /\ Go(next)
  /\ UNCHANGED <<closed, late, events, awaited, result>>

ChallengeStays == step = "challenge" /\ Fail("blocked")
IdleRejects == step = "idle" /\ closed /\ Fail("other")

(* After the pause: the document's final address, then every inspection    *)
(* begun so far.                                                           *)
JitterEnds ==
  /\ step = "jitter" /\ awaited' = unchecked /\ Go("settling")
  /\ UNCHANGED <<closed, late, events, seen, result>>

JitterEndsBlocked == step = "jitter" /\ ~closed /\ bad # {} /\ Fail("blocked")

(* Mutant: what is still being inspected is not waited for.                *)
SettledEarly ==
  /\ step = "settling"
  /\ IF poisoned THEN Fail("poisoned")
     ELSE /\ Go("done") /\ closed' = TRUE /\ result' = "content"
          /\ UNCHANGED <<late, events, awaited, seen>>

Settled ==
  /\ step = "settling" /\ awaited \cap unchecked = {}
  /\ IF poisoned THEN Fail("poisoned")
     ELSE /\ Go("done") /\ closed' = TRUE /\ result' = "content"
          /\ UNCHANGED <<late, events, awaited, seen>>

Next ==
  \/ \E r \in Response : \/ Inspect(r)
                         \/ \E w \in BOOLEAN : Respond(r, w)
  \/ Start \/ DeclaredTooLarge \/ Deadline \/ Rejects \/ LoadedBlocked \/ DownloadStarts \/ Downloaded
  \/ Body \/ Evicted \/ Refetched \/ ChallengeStays \/ IdleRejects \/ JitterEnds \/ JitterEndsBlocked \/ Settled
  \/ \E k \in {"document", "pdf"} : Loaded(k)
  \/ \E why \in {"http", "size"} : Unusable(why)
  \/ \E next \in {"challenge", "idle", "jitter"} : Content(next)

Spec == Init /\ [][Next]_taskVars

-----------------------------------------------------------------------------
(* Content that is returned of a page nobody else closed is content whose  *)
(* every response was inspected, and none was withheld ("settle every      *)
(* serverAddr() inspection recorded so far and refuse to return the        *)
(* captured HTML", executeScrapeTask); a task that has ended has closed    *)
(* its page, and one that an inspection ended says so.                     *)
ContentIsInspected ==
  step = "done" =>
    /\ closed
    /\ result = "content" /\ ~late /\ ~oversized => seen \cap (bad \cup unchecked) = {}
    /\ poisoned /\ result # "content" => result \in {"poisoned", "oversized"}

-----------------------------------------------------------------------------
(* What makes it so.                                                       *)
(* What is seen has arrived, and what is withheld is known to be or is     *)
(* being inspected, as long as only an inspection closes the page; what is *)
(* still inspected of the content is waited for.                           *)
BrowseInv ==
  /\ bad \subseteq arrived /\ unchecked \subseteq arrived /\ seen \subseteq arrived
  /\ step = "new" => arrived = {} /\ ~closed /\ ~oversized /\ ~poisoned
  /\ step # "done" => result = "none" /\ (closed => late \/ oversized \/ poisoned)
  /\ step # "done" /\ ~late /\ ~oversized /\ ~poisoned => bad \subseteq unchecked
  /\ step = "settling" => seen \cap unchecked \subseteq awaited
  /\ ContentIsInspected
=============================================================================
