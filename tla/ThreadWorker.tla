------------------------------ MODULE ThreadWorker ------------------------------
(***************************************************************************)
(* One worker process of the browser pool (infrastructure/browser/thread-  *)
(* worker*.ts): the tasks it runs at the same time, the browser they share *)
(* and how the process ends.  Every task has a browser context of its own, *)
(* the browser is the module's.  A task whose failure looks like a crash   *)
(* resets the browser or, when siblings are at work, leaves the reset to   *)
(* whichever task finishes last.                                           *)
(***************************************************************************)
EXTENDS Integers

CONSTANTS
  Task,          \* tasks, each run once by this worker
  MaxBrowsers    \* bound: browser launches

Browser == 1..MaxBrowsers

VARIABLES
  phase,      \* of a task: idle, starting, opening, working, failing, settling, done
  home,       \* the browser a task's context lives on, 0 before it has one
  proc,       \* of a browser: none, launching, overdue, up, down
  browser,    \* the module variable, 0 for null
  pending,    \* resetPending: a reset was left to the last task
  pendingFor, \* resetPendingForBrowser
  resets,     \* history: the resets that closed a browser
  life        \* of this worker: running, cleaning, exited

workerVars == <<phase, home, proc, browser, pending, pendingFor, resets, life>>
deferred == <<pending, pendingFor>>

Active == {t \in Task : phase[t] \notin {"idle", "done"}}
Running == life # "exited"

Init ==
  /\ phase = [t \in Task |-> "idle"] /\ home = [t \in Task |-> 0]
  /\ proc = [b \in Browser |-> "none"] /\ browser = 0 /\ pending = FALSE /\ pendingFor = 0
  /\ resets = {} /\ life = "running"

Connected(b) == b # 0 /\ proc[b] = "up"
Launching == {b \in Browser : proc[b] = "launching"}
Unused == {b \in Browser : proc[b] = "none"}
Go(t, p) == phase' = [phase EXCEPT ![t] = p]

-----------------------------------------------------------------------------
(* The browser.                                                            *)

(* runTask up to initBrowser(): a connected browser is used, a launch under *)
(* way is joined, otherwise one is started.                                *)
StartTask(t) ==
  /\ life = "running" /\ phase[t] = "idle"
  /\ \/ /\ Connected(browser) /\ Go(t, "opening")
        /\ home' = [home EXCEPT ![t] = browser] /\ UNCHANGED proc
     \/ /\ ~Connected(browser) /\ Launching # {} /\ Go(t, "starting") /\ UNCHANGED <<home, proc>>
     \/ /\ ~Connected(browser) /\ Launching = {} /\ Go(t, "starting") /\ UNCHANGED home
        /\ \E b \in Unused : /\ \A c \in Unused : b <= c
                             /\ proc' = [proc EXCEPT ![b] = "launching"]
  /\ UNCHANGED <<browser, deferred, resets, life>>

(* The launch resolves in time; every task that waited for it opens its    *)
(* context on it.                                                          *)
Launched(b) ==
  /\ Running /\ proc[b] = "launching"
  /\ proc' = [proc EXCEPT ![b] = "up"] /\ browser' = b
  /\ phase' = [t \in Task |-> IF phase[t] = "starting" THEN "opening" ELSE phase[t]]
  /\ home' = [t \in Task |-> IF phase[t] = "starting" THEN b ELSE home[t]]
  /\ UNCHANGED <<deferred, resets, life>>

(* The launch fails, or its deadline passes and it goes on without an      *)
(* owner.  The catch closes what the module variable still holds.          *)
LaunchFails(b, outcome) ==
  /\ Running /\ proc[b] = "launching"
  /\ proc' = [c \in Browser |-> IF c = b THEN outcome ELSE IF c = browser THEN "down" ELSE proc[c]]
  /\ browser' = 0
  /\ phase' = [t \in Task |-> IF phase[t] = "starting" THEN "failing" ELSE phase[t]]
  /\ UNCHANGED <<home, deferred, resets, life>>

(* An overdue launch resolves: nobody holds the result, so it is closed.   *)
LateLaunch(b) ==
  /\ Running /\ proc[b] = "overdue" /\ proc' = [proc EXCEPT ![b] = "down"]
  /\ UNCHANGED <<phase, home, browser, deferred, resets, life>>

(* The browser dies by itself.  The module learns of it at the next        *)
(* isConnected().                                                          *)
BrowserCrashes(b) ==
  /\ proc[b] = "up" /\ proc' = [proc EXCEPT ![b] = "down"]
  /\ UNCHANGED <<phase, home, browser, deferred, resets, life>>

-----------------------------------------------------------------------------
(* A task.                                                                 *)

(* acquireTaskContext() resolves; or it rejects or outlives its deadline,  *)
(* and a context that opens later is closed.                               *)
ContextOpens(t) ==
  /\ Running /\ phase[t] = "opening" /\ Connected(home[t]) /\ Go(t, "working")
  /\ UNCHANGED <<home, proc, browser, deferred, resets, life>>

(* The work, pages and all, ends well; or it, or the context, fails, on    *)
(* its own or because the task's deadline closes the page.                 *)
WorkEnds(t) ==
  /\ Running /\ phase[t] = "working" /\ Connected(home[t]) /\ Go(t, "settling")
  /\ UNCHANGED <<home, proc, browser, deferred, resets, life>>

Fails(t) ==
  /\ Running /\ phase[t] \in {"opening", "working"} /\ Go(t, "failing")
  /\ UNCHANGED <<home, proc, browser, deferred, resets, life>>

(* doResetBrowser(), called in the last moment of task t, on behalf of the *)
(* instance that was asked for.                                            *)
DoReset(t, asked) ==
  /\ proc' = [b \in Browser |-> IF b = browser THEN "down" ELSE proc[b]]
  /\ browser' = 0
  /\ resets' = IF browser = 0 THEN resets
               ELSE resets \cup {[closed |-> browser, asked |-> asked,
                                  under |-> {s \in Active \ {t} : home[s] = browser}]}

NoReset == UNCHANGED <<proc, browser, resets>>

(* Mutant: the last task applies a deferred reset whatever the browser is by *)
(* now.                                                                    *)
FinishStale(t, crashed) ==
  /\ Running /\ (phase[t] = "failing" \/ (phase[t] = "settling" /\ ~crashed))
  /\ Go(t, "done")
  /\ IF Active = {t}
     THEN /\ pending' = FALSE /\ pendingFor' = 0
          /\ IF crashed THEN DoReset(t, browser) ELSE IF pending THEN DoReset(t, pendingFor) ELSE NoReset
     ELSE /\ NoReset
          /\ IF crashed THEN pending' = TRUE /\ pendingFor' = browser ELSE UNCHANGED deferred
  /\ UNCHANGED <<home, life>>

(* The catch and the finally of runTask, one synchronous stretch.  A       *)
(* failure that looks like a crash and is not the task's own deadline      *)
(* resets the browser if this is the only task, and otherwise marks the    *)
(* browser of this moment; the last task to finish applies the mark if     *)
(* that browser is still the module's.                                     *)
Finish(t, crashed) ==
  LET last == Active = {t}
  IN  /\ Running
      /\ (phase[t] = "failing" \/ (phase[t] = "settling" /\ ~crashed))
      /\ Go(t, "done")
      /\ IF last
         THEN /\ pending' = FALSE /\ pendingFor' = 0
              /\ IF crashed THEN DoReset(t, browser)
                 ELSE IF pending /\ browser = pendingFor THEN DoReset(t, pendingFor)
                 ELSE NoReset
         ELSE /\ NoReset
              /\ IF crashed THEN pending' = TRUE /\ pendingFor' = browser ELSE UNCHANGED deferred
      /\ UNCHANGED <<home, life>>

-----------------------------------------------------------------------------
(* The end of the process.                                                 *)

(* The pool's kill message; or the check every ten seconds, which finds    *)
(* that the worker was re-parented or that its parent is no more.          *)
Stop ==
  /\ life = "running" /\ life' = "cleaning"
  /\ UNCHANGED <<phase, home, proc, browser, deferred, resets>>

(* cleanupBrowser() closes the browser, or its two seconds pass; either    *)
(* way the variable is cleared and the process exits.                      *)
Exit(closed) ==
  /\ life = "cleaning" /\ life' = "exited"
  /\ proc' = IF closed THEN [b \in Browser |-> IF b = browser THEN "down" ELSE proc[b]] ELSE proc
  /\ browser' = 0
  /\ UNCHANGED <<phase, home, deferred, resets>>

Next ==
  \/ \E t \in Task : StartTask(t) \/ ContextOpens(t) \/ WorkEnds(t) \/ Fails(t)
  \/ \E t \in Task, f \in BOOLEAN : Finish(t, f)
  \/ \E b \in Browser : Launched(b) \/ LateLaunch(b) \/ BrowserCrashes(b)
  \/ \E b \in Browser, o \in {"down", "overdue"} : LaunchFails(b, o)
  \/ Stop \/ \E f \in BOOLEAN : Exit(f)

Spec == Init /\ [][Next]_workerVars

-----------------------------------------------------------------------------
(* A reset, at once or deferred, never closes the browser under a task     *)
(* that is at work on it ("collaterally fails the sibling's perfectly      *)
(* healthy work", thread-worker-browser.ts), and a deferred one closes     *)
(* only the very instance it was asked for: one launched since stays.      *)
SiblingsUndisturbed == \A r \in resets : r.under = {} /\ r.closed = r.asked
=============================================================================
