-------------------------------- MODULE QuickRun --------------------------------
(***************************************************************************)
(* A quick research run (orchestration/quick-research-orchestrator.ts):    *)
(* one LLM session, created, handed to the cleanup machinery, prompted     *)
(* against a timeout and a cancellation, and turned into a report by the   *)
(* synthesis service (orchestration/research-synthesis-service.ts).  While *)
(* it runs the user may type: what is queued before the session settles is *)
(* forwarded to it by a poller, what comes in the poller's last window is  *)
(* named in the report, and from then on the box is closed.                *)
(*                                                                         *)
(* Of the report only its sources matter here: the list the model wrote,   *)
(* entry by entry, with numbers of its own choosing, and the numbers the   *)
(* text cites.                                                             *)
(***************************************************************************)
EXTENDS Integers, FiniteSets, Sequences, SequencesExt, Lists

CONSTANTS
  Message,  \* steering messages the user may type
  Url,      \* pages, as normalizeUrl() tells them apart
  NoUrl,    \* an entry parseCitations() drops: no URL, or an implausible one
  Cited,    \* numbers in brackets the text may hold
  MaxEntries

NoList == << <<>> >>  \* the text has no CITED LINKS header
Entry == [number : Cited, url : Url \cup {NoUrl}]
Written == {NoList} \cup UNION {[1 .. n -> Entry] : n \in 0 .. MaxEntries}
Pools == {s \in UNION {[1 .. n -> Url] : n \in 0 .. Cardinality(Url)} : Cardinality(ToSet(s)) = Len(s)}

VARIABLES
  phase,    \* idle, checking, preparing, creating, registering, prompting, assembling, storing, failing, cleaning, done
  aborted,  \* the caller's signal has fired
  session,  \* none, unowned, owned, aborted
  box,      \* of a message: unsent, queued, active, fallen (typed when the box was closed)
  heard,    \* of a message: no, prompt, steered, report
  open,     \* the input handler queues what is typed
  written, pool,     \* the list the model wrote; the pages scraped for the run, in order
  links, marks,      \* the delivered list; what each cited number became, 0 when removed
  callbacks, slice   \* terminal callbacks fired, in order; the researcher's box in the panel

quickVars == <<phase, aborted, session, box, heard, open, written, pool, links, marks, callbacks, slice>>
steering == <<box, heard, open>>
report == <<written, pool, links, marks>>
told == <<callbacks, slice>>

Init ==
  /\ phase = "idle" /\ aborted = FALSE /\ session = "none" /\ open = TRUE
  /\ box = [m \in Message |-> "unsent"] /\ heard = [m \in Message |-> "no"]
  /\ written = NoList /\ pool = <<>> /\ links = <<>> /\ marks = [n \in Cited |-> 0]
  /\ callbacks = <<>> /\ slice = "open"

-----------------------------------------------------------------------------
(* Citations.                                                              *)

Parsed(list) == IF list = NoList THEN <<>> ELSE Pick(list, {i \in DOMAIN list : list[i].url # NoUrl})

(* The pages cited, each once, in the order they are first listed, then    *)
(* the pages scraped but not cited.                                        *)
Verified(list, scraped) ==
  LET cited == Distinct([i \in DOMAIN Parsed(list) |-> Parsed(list)[i].url])
  IN cited \o Without(scraped, ToSet(cited))

(* Mutant: a marker is renumbered by its entry's position in the list.     *)
RemapByPosition(list, v) ==
  LET own == Parsed(list) IN [n \in DOMAIN own |-> CHOOSE k \in DOMAIN v : v[k] = own[n].url]

(* By the number the entry was written with; a number written twice stands *)
(* for the later entry.                                                    *)
Remap(list, v) ==
  LET own == Parsed(list)
      last(n) == CHOOSE i \in DOMAIN own : own[i].number = n /\ \A j \in i + 1 .. Len(own) : own[j].number # n
  IN [n \in {own[i].number : i \in DOMAIN own} |-> CHOOSE k \in DOMAIN v : v[k] = own[last(n)].url]

(* ensureCitedLinks(): with a list of its own the text keeps a number that *)
(* no parsed entry has; without one it loses the numbers out of range; and *)
(* with no source at all it is left as it is, under a notice.              *)
Marker(n, list, v) ==
  CASE v = <<>> -> n
    [] v # <<>> /\ list = NoList -> IF n \in DOMAIN v THEN n ELSE 0
    [] OTHER -> IF n \in DOMAIN Remap(list, v) THEN Remap(list, v)[n] ELSE n

-----------------------------------------------------------------------------
(* The run.                                                                *)

Goes(p) == phase' = p
Fires(c, s) == callbacks' = Append(callbacks, c) /\ slice' = s
Consume(how) ==
  /\ box' = [m \in Message |-> IF box[m] = "queued" THEN "active" ELSE box[m]]
  /\ heard' = [m \in Message |-> IF box[m] = "queued" THEN how ELSE heard[m]]

Type(m) ==
  /\ phase \notin {"idle", "done"} /\ box[m] = "unsent"
  /\ box' = [box EXCEPT ![m] = IF open THEN "queued" ELSE "fallen"]
  /\ UNCHANGED <<phase, aborted, session, heard, open, report, told>>

(* The signal is listened to in the health check and while prompting.      *)
Abort ==
  /\ phase \notin {"idle", "done"} /\ ~aborted /\ aborted' = TRUE
  /\ Goes(CASE phase = "checking" -> "failing" [] phase = "prompting" -> "failing" [] OTHER -> phase)
  /\ session' = IF phase = "prompting" THEN "aborted" ELSE session
  /\ UNCHANGED <<steering, report, told>>

Start == phase = "idle" /\ Goes("checking") /\ UNCHANGED <<aborted, session, steering, report, told>>

(* A pool that is merely busy does not stop the run.                       *)
Healthy == phase = "checking" /\ Goes("preparing") /\ UNCHANGED <<aborted, session, steering, report, told>>

(* The knowledge store may contribute or not; then the prompt is built.    *)
Prepared ==
  /\ phase = "preparing" /\ Goes("creating") /\ Consume("prompt")
  /\ UNCHANGED <<aborted, session, open, report, told>>

Created ==
  /\ phase = "creating" /\ Goes("registering") /\ session' = "unowned"
  /\ UNCHANGED <<aborted, steering, report, told>>

(* Mutant: a session that cannot be registered is not aborted.             *)
UnregisteredAndLive ==
  /\ phase = "registering" /\ Goes("failing") /\ UNCHANGED <<aborted, session, steering, report, told>>

Unregistered ==
  /\ phase = "registering" /\ Goes("failing") /\ session' = "aborted"
  /\ UNCHANGED <<aborted, steering, report, told>>

(* A signal that fired while nobody listened takes effect at once.         *)
Registered ==
  /\ phase = "registering" /\ Goes(IF aborted THEN "failing" ELSE "prompting")
  /\ session' = IF aborted THEN "aborted" ELSE "owned"
  /\ UNCHANGED <<aborted, steering, report, told>>

Poll ==
  /\ phase = "prompting" /\ Consume("steered")
  /\ UNCHANGED <<phase, aborted, session, open, report, told>>

TimesOut ==
  /\ phase = "prompting" /\ Goes("failing") /\ session' = "aborted"
  /\ UNCHANGED <<aborted, steering, report, told>>

(* The health check, the session's creation, the prompt or the synthesis   *)
(* service fails, or there is no answer in the session: none of it leaves  *)
(* anything to salvage.                                                    *)
Fails ==
  /\ phase \in {"checking", "creating", "prompting", "assembling"} /\ Goes("failing")
  /\ UNCHANGED <<aborted, session, steering, report, told>>

(* Mutant: the box stays open after its last reading.                      *)
SettlesOpen ==
  /\ phase = "prompting" /\ Goes("assembling") /\ Consume("report") /\ open' = open
  /\ written' \in Written /\ pool' \in Pools
  /\ UNCHANGED <<aborted, session, links, marks, told>>

(* The session has answered: the box is closed, then read a last time.     *)
Settles ==
  /\ phase = "prompting" /\ Goes("assembling") /\ open' = FALSE /\ Consume("report")
  /\ written' \in Written /\ pool' \in Pools
  /\ UNCHANGED <<aborted, session, links, marks, told>>

(* One step: stored, stripped of its digest and its preamble, its sources  *)
(* rebuilt, and the messages that were taken from the box appended.        *)
Assemble ==
  /\ phase = "assembling" /\ Goes("storing")
  /\ links' = Verified(written, pool) /\ marks' = [n \in Cited |-> Marker(n, written, links')]
  /\ UNCHANGED <<aborted, session, steering, written, pool, told>>

(* The descriptions are stored, or not; the run completes either way, a    *)
(* late cancellation included.                                             *)
Complete ==
  /\ phase = "storing" /\ Goes("cleaning") /\ Fires("complete", "done")
  /\ UNCHANGED <<aborted, session, steering, report>>

(* A cancellation is no failure of the researcher.                         *)
Fail ==
  /\ phase = "failing" /\ Goes("cleaning") /\ Fires("error", IF aborted THEN slice ELSE "failed")
  /\ UNCHANGED <<aborted, session, steering, report>>

CleanUp ==
  /\ phase = "cleaning" /\ Goes("done") /\ session' = IF session = "owned" THEN "aborted" ELSE session
  /\ UNCHANGED <<aborted, steering, report, told>>

Next ==
  \/ Start \/ Healthy \/ Prepared \/ Created \/ Unregistered \/ Registered \/ Poll \/ TimesOut \/ Fails
  \/ Settles \/ Assemble \/ Complete \/ Fail \/ CleanUp \/ Abort
  \/ \E m \in Message : Type(m)

Spec == Init /\ [][Next]_quickVars

-----------------------------------------------------------------------------
Delivered == phase \in {"storing", "cleaning", "done"} /\ callbacks # <<"error">>
Meant(n) == IF written = NoList THEN {} ELSE {written[i].url : i \in {j \in DOMAIN written : written[j].number = n}}

(* A run tells its end exactly once, a failure is blamed on the researcher *)
(* unless the user cancelled, no session outlives it ("would leak          *)
(* unaborted"), nothing the box accepted is stranded in it ("so there is   *)
(* no window where a new message can be queued ... and then stranded"),    *)
(* and the report lists every page cited or scraped once and cites, under  *)
(* a number its list gave to one page, that page.                          *)
QuickRunAccounts ==
  /\ phase = "done" => /\ Len(callbacks) = 1 /\ session \in {"none", "aborted"}
                       /\ slice = "done" <=> callbacks = <<"complete">>
                       /\ slice = "open" => aborted
  /\ Len(callbacks) <= 1
  /\ Delivered => /\ \A m \in Message : box[m] # "queued" /\ (box[m] = "active" <=> heard[m] # "no")
                  /\ ToSet(links) = ToSet(pool) \cup {Parsed(written)[i].url : i \in DOMAIN Parsed(written)}
                  /\ Cardinality(ToSet(links)) = Len(links)
                  /\ \A n \in Cited, u \in Url : Meant(n) = {u} => marks[n] \in DOMAIN links /\ links[marks[n]] = u

-----------------------------------------------------------------------------
(* What makes it so.                                                       *)
QuickSetting == IsFiniteSet(Url) /\ NoUrl \notin Url /\ MaxEntries \in Nat

Sourced == [number : Cited, url : Url]

(* What is delivered: the sources, each once, and the numbers in the text. *)
Rebuilt ==
  /\ written \in Written /\ pool \in Pools
  /\ links = Verified(written, pool) /\ marks = [n \in Cited |-> Marker(n, written, links)]

(* The run: the session belongs to somebody until it is aborted, the end   *)
(* is told when the run cleans up, and nothing is queued once it settled.  *)
Told == phase \in {"cleaning", "done"}
QuickInv ==
  /\ box \in [Message -> {"unsent", "queued", "active", "fallen"}] /\ heard \in [Message -> {"no", "prompt", "steered", "report"}]
  /\ phase \in {"idle", "checking", "preparing", "creating", "registering", "prompting", "assembling", "storing", "failing",
                "cleaning", "done"}
  /\ session \in {"none", "unowned", "owned", "aborted"} /\ (session = "unowned" => phase = "registering")
  /\ phase = "done" => session # "owned"
  /\ phase = "idle" => session = "none"
  /\ ~Told => callbacks = <<>> /\ slice = "open"
  /\ Told => \/ callbacks = <<"complete">> /\ slice = "done"
             \/ callbacks = <<"error">> /\ (slice = "failed" \/ (slice = "open" /\ aborted))
  /\ \A m \in Message : box[m] = "active" <=> heard[m] # "no"
  /\ phase \in {"assembling", "storing"} \/ (Told /\ callbacks = <<"complete">>) =>
       /\ ~open /\ \A m \in Message : box[m] # "queued"
       /\ written \in Written /\ pool \in Pools
  /\ phase = "storing" \/ (Told /\ callbacks = <<"complete">>) => Rebuilt
=============================================================================
