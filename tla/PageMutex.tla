------------------------------- MODULE PageMutex -------------------------------
(***************************************************************************)
(* createPageSafe() of thread-worker-messaging.ts and the tasks that call  *)
(* it.  Firefox may deadlock when one context is asked for two pages at    *)
(* the same time, so newPage() is serialized over all contexts of a worker *)
(* by a chain of promises.  A caller gives up after a minute, its call     *)
(* does not; a call without an answer for five minutes loses the mutex and *)
(* marks its context, which is refused pages until the call settles.  A    *)
(* task has one context; a health check asks it for up to three pages.     *)
(***************************************************************************)
EXTENDS Integers, Sequences

CONSTANTS Task,    \* the tasks of a worker: each its context
          Probe    \* those that are health checks

NoCall == << >>

VARIABLES
  at,        \* of a task: new, queued, paging, working, done
  attempt,   \* pages it has asked for
  late,      \* its signal is aborted
  open,      \* open pages, each named by its call <<task, attempt>>
  line,      \* the calls in line for the mutex, first its holder if it has one
  holder,    \* the call that holds it, or NoCall
  pending,   \* newPage() calls that have not settled
  wedged,    \* wedgedContext: one context at most
  unmarked   \* history: contexts whose mark another one's overwrote

mutexVars == <<at, attempt, late, open, line, holder, pending, wedged, unmarked>>

Init ==
  /\ at = [t \in Task |-> "new"] /\ attempt = [t \in Task |-> 0] /\ late = {} /\ open = {}
  /\ line = << >> /\ holder = NoCall /\ pending = {} /\ wedged = {} /\ unmarked = {}

Call(t) == <<t, attempt[t]>>
Go(t, place) == at' = [at EXCEPT ![t] = place]
Waits(c) == at[c[1]] = "paging" /\ Call(c[1]) = c
First(c) == holder = NoCall /\ line # << >> /\ Head(line) = c

(* A task's first createPageSafe() joins the chain.                        *)
Ask(t) ==
  /\ at[t] = "new" /\ Go(t, "queued")
  /\ attempt' = [attempt EXCEPT ![t] = 1] /\ line' = Append(line, <<t, 1>>)
  /\ UNCHANGED <<late, open, holder, pending, wedged, unmarked>>

(* executeHealthCheck(): a second page after any failure, a third for the  *)
(* fallback endpoint unless the second timed out.  A search or a scrape    *)
(* fails with its page.  `rest' is the chain as the failure left it.       *)
Failed(t, timedOut, rest) ==
  IF t \in Probe /\ (attempt[t] = 1 \/ (attempt[t] = 2 /\ ~timedOut))
  THEN /\ Go(t, "queued") /\ attempt' = [attempt EXCEPT ![t] = @ + 1]
       /\ line' = Append(rest, <<t, attempt[t] + 1>>)
  ELSE /\ Go(t, "done") /\ line' = rest /\ UNCHANGED attempt

(* The first in line takes the mutex and calls newPage() ...               *)
Create(t) ==
  /\ at[t] = "queued" /\ First(Call(t)) /\ t \notin wedged
  /\ Go(t, "paging") /\ holder' = Call(t) /\ pending' = pending \cup {Call(t)}
  /\ line' = Tail(line)
  /\ UNCHANGED <<attempt, late, open, wedged, unmarked>>

(* ... or is refused at once: its context has a call that hangs.           *)
Refuse(t) ==
  /\ at[t] = "queued" /\ First(Call(t)) /\ t \in wedged
  /\ Failed(t, FALSE, Tail(line))
  /\ UNCHANGED <<late, open, holder, pending, wedged, unmarked>>

(* newPage() settles: it lifts its own context's mark and lets the mutex   *)
(* go unless the hard timer has.  A page nobody waits for any more is      *)
(* closed, and so is, by the bound signal, that of a task past its         *)
(* deadline.                                                               *)
Settle(c, created) ==
  LET t == c[1]
  IN  /\ c \in pending /\ pending' = pending \ {c}
      /\ wedged' = wedged \ {t}
      /\ holder' = IF holder = c THEN NoCall ELSE holder
      /\ IF Waits(c) /\ created /\ t \notin late
         THEN Go(t, "working") /\ open' = open \cup {c} /\ UNCHANGED <<attempt, line>>
         ELSE /\ UNCHANGED open
              /\ IF Waits(c) THEN Failed(t, FALSE, line) ELSE UNCHANGED <<at, attempt, line>>
      /\ UNCHANGED <<late, unmarked>>

(* Mutant: the mutex is free as soon as its caller gives up.               *)
GiveUpTheMutex(t) ==
  /\ at[t] = "paging" /\ Failed(t, TRUE, line) /\ holder' = NoCall
  /\ UNCHANGED <<late, open, pending, wedged, unmarked>>

(* A minute without a page: the caller gives up.                           *)
GiveUp(t) ==
  /\ at[t] = "paging" /\ Failed(t, TRUE, line)
  /\ UNCHANGED <<late, open, holder, pending, wedged, unmarked>>

(* Five minutes without an answer, four after the caller gave up.          *)
HardRelease ==
  /\ holder # NoCall /\ ~Waits(holder)
  /\ wedged' = {holder[1]} /\ holder' = NoCall
  /\ unmarked' = unmarked \cup (wedged \ {holder[1]})
  /\ UNCHANGED <<at, attempt, late, open, line, pending>>

(* The work on a page ends, well or not; the page is closed either way.    *)
WorkEnds(t) ==
  /\ at[t] = "working" /\ Go(t, "done") /\ open' = open \ {Call(t)}
  /\ UNCHANGED <<attempt, late, line, holder, pending, wedged, unmarked>>

WorkFails(t, timedOut) ==
  /\ at[t] = "working" /\ open' = open \ {Call(t)} /\ Failed(t, timedOut, line)
  /\ UNCHANGED <<late, holder, pending, wedged, unmarked>>

(* The task's deadline: its signal closes the page it has.                 *)
Deadline(t) ==
  /\ at[t] \in {"queued", "paging", "working"} /\ t \notin late /\ late' = late \cup {t}
  /\ IF at[t] = "working" THEN open' = open \ {Call(t)} /\ Failed(t, FALSE, line)
     ELSE UNCHANGED <<at, attempt, line, open>>
  /\ UNCHANGED <<holder, pending, wedged, unmarked>>

Next ==
  \/ \E t \in Task : \/ Ask(t) \/ Create(t) \/ Refuse(t) \/ GiveUp(t) \/ WorkEnds(t) \/ Deadline(t)
                     \/ \E f \in BOOLEAN : WorkFails(t, f)
  \/ \E c \in pending, f \in BOOLEAN : Settle(c, f)
  \/ HardRelease

Spec == Init /\ [][Next]_mutexVars

-----------------------------------------------------------------------------
(* A context is never asked for two pages at the same time, whatever hangs *)
(* and whoever gives up, unless a second context hung and took the only    *)
(* mark; and a task that has ended has left no page open.                  *)
OnePageAtATime ==
  /\ \A c, d \in pending : c[1] = d[1] /\ c # d => c[1] \in unmarked
  /\ \A c \in open : at[c[1]] = "working"

-----------------------------------------------------------------------------
(* What makes it so.                                                       *)
PageTyped ==
  /\ at \in [Task -> {"new", "queued", "paging", "working", "done"}] /\ attempt \in [Task -> Nat]
  /\ open \subseteq Task \X Nat /\ pending \subseteq Task \X Nat
  /\ wedged \subseteq Task /\ unmarked \subseteq Task

(* A call that hangs without the mutex has left its context's mark, unless *)
(* another's took its place; and a page that is open is the one its task   *)
(* works on.                                                               *)
PageInv ==
  /\ PageTyped /\ OnePageAtATime
  /\ \A c \in pending : c = holder \/ c[1] \in wedged \cup unmarked
  /\ holder \in pending \cup {NoCall}
  /\ \A c \in open : at[c[1]] = "working" /\ Call(c[1]) = c
=============================================================================
