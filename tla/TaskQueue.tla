------------------------------ MODULE TaskQueue ------------------------------
(***************************************************************************)
(* The leader's browser tasks: runSearch(), runScrape() and                *)
(* runHealthCheck() of infrastructure/browser/browser-task-scheduler.ts    *)
(* over the PriorityTaskQueue of infrastructure/browser/                   *)
(* priority-task-queue.ts.  A call waits for the pool, is queued by class, *)
(* runs on a worker while it holds one of the queue's slots, and is        *)
(* answered by whichever comes first: the worker, its deadline, its        *)
(* caller's abort or the queue's shutdown.  Worker jobs outlive the answer *)
(* given to their caller, and a worker that dies never answers.            *)
(*                                                                         *)
(* Time is counted in ticks; a timer that has run out fires before the     *)
(* next tick.                                                              *)
(***************************************************************************)
EXTENDS Integers, Sequences, SequencesExt, FiniteSetTheorems, TLAPS

CONSTANTS Task,        \* calls, each made once
          Mixes,       \* assignments of a class to every call: sets of [Task -> Class]
          Limit,       \* [Class -> ticks a dispatched task may run]
          Grace,       \* WORKER_DEATH_BACKSTOP_GRACE_MS
          Idle,        \* IDLE_TIMEOUT_MS
          Capacities,  \* values WORKER_THREADS * WORKER_CONCURRENCY takes
          MaxDepth,    \* maxQueueDepth
          Cancels,     \* calls whose caller may abort
          Stops,       \* may the leader be shut down for other reasons?
          Off          \* a timer that is not armed

Class == {"healthcheck", "search", "scrape"}
Rank  == [healthcheck |-> 1, search |-> 2, scrape |-> 3]

ASSUME TasksHaveAClass == IsFiniteSet(Task) /\ Mixes \subseteq [Task -> Class]
ASSUME Budgets == /\ Limit \in [Class -> Nat \ {0}]
                  /\ Grace \in Nat \ {0} /\ Idle \in Nat \ {0} /\ Off \notin Nat
ASSUME QueueBounds == Capacities \subseteq Nat \ {0} /\ MaxDepth \in Nat \ {0}
ASSUME Callers == Cancels \subseteq Task /\ Stops \in BOOLEAN

VARIABLES classOf,   \* classOf[t]: the class of t
          phase,     \* phase[t]: how far the call of t is
          result,    \* result[t]: what its caller was told
          queue,     \* the three FIFO queues
          active,    \* activeCount
          capacity,  \* maxTotalConcurrency
          due,       \* is a process() pending on process.nextTick?
          timer,     \* timer[t]: ticks left of the deadline of t
          job,       \* job[t]: the closure dispatched to a worker
          backstop,  \* backstop[t]: ticks left of its dead-worker backstop
          aborted,   \* callers' signals that have fired
          mode,      \* the scheduler: "open", "closing", "closed"
          idle,      \* ticks left of the idle timer
          ran        \* history: ticks t has held a slot

vars == <<classOf, phase, result, queue, active, capacity, due, timer, job, backstop,
          aborted, mode, idle, ran>>

Queued == {t \in Task : phase[t] = "queued"}

Init ==
  /\ classOf \in Mixes
  /\ phase = [t \in Task |-> "new"]
  /\ result = [t \in Task |-> "none"]
  /\ queue = [c \in Class |-> << >>]
  /\ active = 0
  /\ capacity \in Capacities
  /\ due = FALSE
  /\ timer = [t \in Task |-> Off]
  /\ job = [t \in Task |-> "none"]
  /\ backstop = [t \in Task |-> Off]
  /\ aborted = {}
  /\ mode = "open"
  /\ idle = Idle
  /\ ran = [t \in Task |-> 0]

Free(used, cap) == IF cap > used THEN cap - used ELSE 0

(* The loop of process() over the queues q with n free slots: the tasks it  *)
(* starts, and what is left.  A queued task is never aborted here: its      *)
(* abort listener has already taken it out.                                 *)
Started(q, n) ==
  LET line == q["healthcheck"] \o q["search"] \o q["scrape"]
  IN  {line[k] : k \in 1 .. (IF n < Len(line) THEN n ELSE Len(line))}
Rest(q, n) ==
  LET Left(c, ahead) == SubSeq(q[c], 1 + (IF n > ahead THEN n - ahead ELSE 0), Len(q[c]))
  IN  [healthcheck |-> Left("healthcheck", 0),
       search |-> Left("search", Len(q["healthcheck"])),
       scrape |-> Left("scrape", Len(q["healthcheck"]) + Len(q["search"]))]

(* The push of enqueue() on the queue of the task's class.                  *)
Pushed(q, t) == [q EXCEPT ![classOf[t]] = Append(@, t)]

(* removeFromQueue(): the task leaves its queue, if it is in it.            *)
Unqueued(t) ==
  LET line == queue[classOf[t]]
  IN  IF t \in ToSet(line)
      THEN [queue EXCEPT ![classOf[t]] = RemoveAt(line, CHOOSE i \in DOMAIN line : line[i] = t)]
      ELSE queue

(* Mutants of Dispatch: a probe keeps the timer of its wait; the closure has *)
(* no backstop.                                                             *)
DispatchOnWaitTimer(started, rest, calls, wait) ==
  /\ queue' = rest
  /\ active' = active + Cardinality(started)
  /\ phase' = [t \in Task |-> IF t \in started THEN "running" ELSE calls[t]]
  /\ timer' = [t \in Task |-> IF t \in started /\ wait[t] = Off
                              THEN Limit[classOf[t]] ELSE wait[t]]
  /\ job' = [t \in Task |-> IF t \in started THEN "onWorker" ELSE job[t]]
  /\ backstop' = [t \in Task |-> IF t \in started THEN Limit[classOf[t]] + Grace ELSE backstop[t]]
DispatchUnguarded(started, rest, calls, wait) ==
  /\ queue' = rest
  /\ active' = active + Cardinality(started)
  /\ phase' = [t \in Task |-> IF t \in started THEN "running" ELSE calls[t]]
  /\ timer' = [t \in Task |-> IF t \in started THEN Limit[classOf[t]] ELSE wait[t]]
  /\ job' = [t \in Task |-> IF t \in started THEN "onWorker" ELSE job[t]]
  /\ UNCHANGED backstop

(* runTask() of each started task takes a slot and calls the closure, which *)
(* arms the deadline (startDeadline) and the backstop; rest is what is left *)
(* queued, calls and wait where the calls and the timers stand otherwise.   *)
(* A healthcheck's run timer replaces its wait timer.                       *)
Dispatch(started, rest, calls, wait) ==
  /\ queue' = rest
  /\ active' = active + Cardinality(started)
  /\ phase' = [t \in Task |-> IF t \in started THEN "running" ELSE calls[t]]
  /\ timer' = [t \in Task |-> IF t \in started THEN Limit[classOf[t]] ELSE wait[t]]
  /\ job' = [t \in Task |-> IF t \in started THEN "onWorker" ELSE job[t]]
  /\ backstop' = [t \in Task |-> IF t \in started THEN Limit[classOf[t]] + Grace ELSE backstop[t]]

(* runSearch(), runScrape() or runHealthCheck() is called.                  *)
Call(t) ==
  /\ phase[t] = "new"
  /\ IF mode = "open"
     THEN /\ phase' = [phase EXCEPT ![t] = "ensuring"] /\ idle' = Idle
          /\ UNCHANGED result
     ELSE /\ phase' = [phase EXCEPT ![t] = "answered"]
          /\ result' = [result EXCEPT ![t] = "closed"]
          /\ UNCHANGED idle
  /\ UNCHANGED <<classOf, queue, active, capacity, due, timer, job, backstop, aborted, mode, ran>>

(* ensurePool() throws; it always does once the pool manager is shut down.  *)
EnsureFails(t) ==
  /\ phase[t] = "ensuring"
  /\ phase' = [phase EXCEPT ![t] = "answered"]
  /\ result' = [result EXCEPT ![t] = IF mode = "closed" THEN "closed" ELSE "error"]
  /\ UNCHANGED <<classOf, queue, active, capacity, due, timer, job, backstop, aborted, mode, idle, ran>>

Depth(q) == Len(q["healthcheck"]) + Len(q["search"]) + Len(q["scrape"])

(* Mutant of Enqueue: a newcomer that finds a slot free takes it at once.   *)
EnqueueJumps(t) ==
  /\ phase[t] = "ensuring" /\ mode # "closed"
  /\ \E cap \in Capacities :
       /\ capacity' = cap
       /\ IF active < cap
          THEN Dispatch({t}, queue, phase, timer)
          ELSE Dispatch({}, Pushed(queue, t), [phase EXCEPT ![t] = "queued"], timer)
  /\ UNCHANGED <<classOf, result, due, aborted, mode, idle, ran>>

(* ensurePool() returns.  The queue takes the capacity of this call's       *)
(* config and processes; then enqueue() turns the task away or queues it    *)
(* and processes again.  A healthcheck's wait timer starts here.            *)
Enqueue(t) ==
  /\ phase[t] = "ensuring" /\ mode # "closed"
  /\ \E cap \in Capacities :
       LET first == Started(queue, Free(active, cap))     \* updateConcurrency()
           rest == Rest(queue, Free(active, cap))
           joins == t \notin aborted /\ Depth(rest) < MaxDepth
           longer == Pushed(rest, t)
           free == Free(active + Cardinality(first), cap)
           wait == [timer EXCEPT ![t] = IF classOf[t] = "healthcheck"
                                        THEN Limit["healthcheck"] ELSE Off]
       IN
       /\ capacity' = cap
       /\ IF joins
          THEN /\ Dispatch(first \cup Started(longer, free), Rest(longer, free),
                        [phase EXCEPT ![t] = "queued"], wait)
               /\ UNCHANGED result
          ELSE /\ Dispatch(first, rest, [phase EXCEPT ![t] = "answered"], timer)
               /\ result' = [result EXCEPT ![t] = IF t \in aborted THEN "cancelled" ELSE "full"]
  /\ UNCHANGED <<classOf, due, aborted, mode, idle, ran>>

(* The nextTick that runTask()'s finally schedules.                         *)
Process ==
  /\ due
  /\ LET free == Free(active, capacity)
     IN  Dispatch(Started(queue, free), Rest(queue, free), phase, timer)
  /\ due' = FALSE
  /\ UNCHANGED <<classOf, result, capacity, aborted, mode, idle, ran>>

(* Mutant of Settle: an answered task keeps its slot.                       *)
SettleKeepsSlot(t, why) ==
  /\ phase' = [phase EXCEPT ![t] = "answered"]
  /\ result' = [result EXCEPT ![t] = why]
  /\ timer' = [timer EXCEPT ![t] = Off]
  /\ queue' = Unqueued(t)
  /\ active' = active - (IF phase[t] = "running" /\ why = "done" THEN 1 ELSE 0)
  /\ due' = (due \/ phase[t] = "running")
(* The call of t is answered: its timer is cleared and settled.abort()      *)
(* gives up its claim on the queue, a place in line or a running slot.      *)
Settle(t, why) ==
  /\ phase' = [phase EXCEPT ![t] = "answered"]
  /\ result' = [result EXCEPT ![t] = why]
  /\ timer' = [timer EXCEPT ![t] = Off]
  /\ queue' = Unqueued(t)
  /\ active' = active - (IF phase[t] = "running" THEN 1 ELSE 0)
  /\ due' = (due \/ phase[t] = "running")

(* The dispatched closure settles.  Its slot went with the caller's answer  *)
(* if that came first.                                                      *)
JobEnds(t, why) ==
  /\ job[t] = "onWorker"
  /\ job' = [job EXCEPT ![t] = "settled"]
  /\ backstop' = [backstop EXCEPT ![t] = Off]
  /\ IF phase[t] = "running" THEN Settle(t, why)
     ELSE UNCHANGED <<phase, result, timer, queue, active, due>>
  /\ UNCHANGED <<classOf, capacity, aborted, mode, idle, ran>>

(* The worker settles execute(), with results or an in-band error.          *)
WorkerAnswers(t) == JobEnds(t, "done")

(* The worker died with the job: nothing is left to answer.                 *)
BackstopFires(t) ==
  /\ backstop[t] = 0
  /\ JobEnds(t, "error")

(* The deadline of t: of its run, or of a healthcheck's wait.               *)
Deadline(t) ==
  /\ timer[t] = 0
  /\ Settle(t, IF phase[t] = "queued" THEN "unreached" ELSE "timeout")
  /\ UNCHANGED <<classOf, capacity, job, backstop, aborted, mode, idle, ran>>

(* The caller's signal fires: a queued task leaves the queue, a running one *)
(* frees its slot while its job goes on.                                    *)
Cancel(t) ==
  /\ t \in Cancels \ aborted
  /\ aborted' = aborted \cup {t}
  /\ \/ phase[t] \in {"new", "ensuring"}
        /\ UNCHANGED <<phase, result, timer, queue, active, due>>
     \/ phase[t] \in {"queued", "running"} /\ Settle(t, "cancelled")
  /\ UNCHANGED <<classOf, capacity, job, backstop, mode, idle, ran>>

(* shutdown(): by the idle timer, or for leadership lost or disposal.       *)
IdleShutdown == idle = 0
BeginShutdown ==
  /\ mode = "open"
  /\ IdleShutdown \/ Stops
  /\ mode' = "closing"
  /\ idle' = Off
  /\ UNCHANGED <<classOf, phase, result, queue, active, capacity, due, timer, job, backstop, aborted, ran>>

(* Several awaits later the queue is shut down: whoever is queued is        *)
(* rejected, running tasks are left to their deadlines, and the pool        *)
(* manager refuses from here on.                                            *)
CloseQueue ==
  /\ mode = "closing"
  /\ mode' = "closed"
  /\ phase' = [t \in Task |-> IF t \in Queued THEN "answered" ELSE phase[t]]
  /\ result' = [t \in Task |-> IF t \in Queued THEN "closed" ELSE result[t]]
  /\ timer' = [t \in Task |-> IF t \in Queued THEN Off ELSE timer[t]]
  /\ queue' = [c \in Class |-> << >>]
  /\ UNCHANGED <<classOf, active, capacity, due, job, backstop, aborted, idle, ran>>

Pass(n) == IF n = Off THEN Off ELSE n - 1

Tick ==
  /\ ~due
  /\ \A t \in Task : timer[t] # 0 /\ backstop[t] # 0
  /\ idle # 0
  /\ \/ idle # Off
     \/ \E t \in Task : timer[t] # Off \/ backstop[t] # Off
  /\ timer' = [t \in Task |-> Pass(timer[t])]
  /\ backstop' = [t \in Task |-> Pass(backstop[t])]
  /\ idle' = Pass(idle)
  /\ ran' = [t \in Task |-> IF phase[t] = "running" THEN ran[t] + 1 ELSE ran[t]]
  /\ UNCHANGED <<classOf, phase, result, queue, active, capacity, due, job, aborted, mode>>

Next == \/ \E t \in Task : \/ Call(t) \/ EnsureFails(t) \/ Enqueue(t)
                           \/ WorkerAnswers(t) \/ BackstopFires(t)
                           \/ Deadline(t) \/ Cancel(t)
        \/ Process \/ BeginShutdown \/ CloseQueue \/ Tick

Spec == Init /\ [][Next]_vars

(* The event loop turns: pending callbacks run, timers fire, time passes,   *)
(* and ensurePool() settles.  No worker is assumed to answer.               *)
FairSpec ==
  /\ Spec
  /\ WF_vars(Process) /\ WF_vars(Tick) /\ WF_vars(CloseQueue) /\ WF_vars(IdleShutdown /\ BeginShutdown)
  /\ \A t \in Task : /\ WF_vars(Deadline(t)) /\ WF_vars(BackstopFires(t))
                     /\ WF_vars(EnsureFails(t) \/ Enqueue(t))

-----------------------------------------------------------------------------

(* The slot counter is exact: however tasks end, in whatever order answers, *)
(* aborts, deadlines and dead workers come, no slot leaks and none is       *)
(* returned twice; and none stays free with work in line: once the pending  *)
(* process() has run, tasks wait only behind a full set of slots.           *)
SlotsBalance ==
  /\ active = Cardinality({t \in Task : phase[t] = "running"})
  /\ ~due /\ Queued # {} => active >= capacity

(* A task starts only ahead of those of a lower class and of its own class  *)
(* that came later: nobody already in line is overtaken.                    *)
NobodyIsOvertaken ==
  [][\A t, u \in Task :
       phase[t] # "running" /\ phase'[t] = "running" /\ phase[u] = "queued" /\ phase'[u] = "queued"
         => \/ Rank[classOf[t]] < Rank[classOf[u]]
            \/ /\ classOf[t] = classOf[u]
               /\ \E i, j \in 1 .. Len(queue[classOf[t]]) :
                     i < j /\ queue[classOf[t]][i] = t /\ queue[classOf[t]][j] = u]_vars

(* "A task that does get dispatched always gets its full budget" (lines     *)
(* 288-299): a deadline charges execution only, never queue wait, and no    *)
(* task runs past it.                                                       *)
FullBudget ==
  \A t \in Task : /\ result[t] = "timeout" => ran[t] = Limit[classOf[t]]
                  /\ result[t] = "unreached" => ran[t] = 0 /\ classOf[t] = "healthcheck"
                  /\ ran[t] =< Limit[classOf[t]]

(* Every call is answered and every dispatched job settles, whichever comes *)
(* first, with workers that never answer, aborts, and a shutdown at any     *)
(* moment.                                                                  *)
EverythingSettles ==
  \A t \in Task : /\ phase[t] \in {"ensuring", "queued", "running"} ~> phase[t] = "answered"
                  /\ job[t] = "onWorker" ~> job[t] = "settled"

-----------------------------------------------------------------------------
(* Values for a run: a probe behind a research round, and a burst without   *)
(* one.  The budgets keep the order the code gives them:                    *)
(* scrape < search < healthcheck.                                           *)
Trios == { [t1 |-> "healthcheck", t2 |-> "search", t3 |-> "scrape"],
           [t1 |-> "scrape", t2 |-> "search", t3 |-> "scrape"] }
Limits == [healthcheck |-> 3, search |-> 2, scrape |-> 1]

-----------------------------------------------------------------------------
(* The proofs of SlotsBalance, NobodyIsOvertaken and FullBudget, for any     *)
(* number of calls, any classes, budgets and capacities.                    *)
Phases == {"new", "ensuring", "queued", "running", "answered"}

At(q, t, i) == i \in 1 .. Len(q[classOf[t]]) /\ q[classOf[t]][i] = t
InLine(q, t) == \E i \in Nat : At(q, t, i)

(* Every task in line is in the queue of its class, once.                   *)
Orderly(q) ==
  /\ q \in [Class -> Seq(Task)]
  /\ \A c \in Class : \A i \in 1 .. Len(q[c]) : classOf[q[c][i]] = c
  /\ \A c \in Class : \A i, j \in 1 .. Len(q[c]) : q[c][i] = q[c][j] => i = j

Running == {t \in Task : phase[t] = "running"}

QueueTypeOK ==
  /\ classOf \in [Task -> Class] /\ phase \in [Task -> Phases]
  /\ active \in Nat /\ capacity \in Nat /\ due \in BOOLEAN

(* What makes SlotsBalance so: the queues hold just the calls that wait.    *)
QueueInv ==
  /\ QueueTypeOK
  /\ Orderly(queue)
  /\ \A t \in Task : phase[t] = "queued" <=> InLine(queue, t)
  /\ active = Cardinality(Running)
  /\ ~due /\ Queued # {} => active >= capacity

(* How many tasks are shifted off a queue with `ahead' tasks before it.     *)
Before(q) == [c \in Class |-> IF c = "healthcheck" THEN 0
                              ELSE IF c = "search" THEN Len(q["healthcheck"])
                              ELSE Len(q["healthcheck"]) + Len(q["search"])]
Cut(q, n) == [c \in Class |-> IF n > Before(q)[c] THEN n - Before(q)[c] ELSE 0]

LEMMA Lengths ==
  ASSUME NEW q \in [Class -> Seq(Task)], NEW n \in Nat
  PROVE  /\ \A c \in Class : q[c] \in Seq(Task) /\ Len(q[c]) \in Nat
         /\ \A c \in Class : Before(q)[c] \in Nat /\ Cut(q, n)[c] \in Nat
         /\ Before(q)["healthcheck"] = 0
         /\ Before(q)["search"] = Len(q["healthcheck"])
         /\ Before(q)["scrape"] = Len(q["healthcheck"]) + Len(q["search"])
<1>1. \A c \in Class : q[c] \in Seq(Task) /\ Len(q[c]) \in Nat
  OBVIOUS
<1>2. Len(q["healthcheck"]) \in Nat /\ Len(q["search"]) \in Nat
  BY <1>1 DEF Class
<1>3. \A c \in Class : Before(q)[c] \in Nat
  BY <1>2 DEF Before, Class
<1>4. \A c \in Class : Cut(q, n)[c] \in Nat
  BY <1>3 DEF Cut
<1>5. /\ Before(q)["healthcheck"] = 0
      /\ Before(q)["search"] = Len(q["healthcheck"])
      /\ Before(q)["scrape"] = Len(q["healthcheck"]) + Len(q["search"])
  BY DEF Before, Class
<1>6. QED  BY <1>1, <1>3, <1>4, <1>5

(* The line of all queued tasks, and the place of each class in it.         *)
Line(q) == q["healthcheck"] \o q["search"] \o q["scrape"]

LEMMA LinePlaces ==
  ASSUME NEW q \in [Class -> Seq(Task)]
  PROVE  /\ Line(q) \in Seq(Task)
         /\ Len(Line(q)) = Len(q["healthcheck"]) + Len(q["search"]) + Len(q["scrape"])
         /\ \A c \in Class : \A i \in 1 .. Len(q[c]) :
              /\ Before(q)[c] + i \in 1 .. Len(Line(q))
              /\ Line(q)[Before(q)[c] + i] = q[c][i]
         /\ \A k \in 1 .. Len(Line(q)) : \E c \in Class : \E i \in 1 .. Len(q[c]) :
              k = Before(q)[c] + i
<1> DEFINE H == q["healthcheck"]  S == q["search"]  P == q["scrape"]
<1>1. H \in Seq(Task) /\ S \in Seq(Task) /\ P \in Seq(Task)
  BY DEF Class
<1> HIDE DEF H, S, P
<1>2. /\ Len(H) \in Nat /\ Len(S) \in Nat /\ Len(P) \in Nat
  BY <1>1
<1>3. /\ H \o S \in Seq(Task) /\ Len(H \o S) = Len(H) + Len(S)
      /\ \A i \in 1 .. Len(H) : (H \o S)[i] = H[i]
      /\ \A i \in 1 .. Len(S) : (H \o S)[Len(H) + i] = S[i]
  BY <1>1, <1>2
<1>4. Line(q) = (H \o S) \o P
  BY DEF Line, H, S, P
<1>5. /\ Line(q) \in Seq(Task) /\ Len(Line(q)) = Len(H) + Len(S) + Len(P)
      /\ \A i \in 1 .. Len(H) + Len(S) : Line(q)[i] = (H \o S)[i]
      /\ \A i \in 1 .. Len(P) : Line(q)[Len(H) + Len(S) + i] = P[i]
  BY <1>1, <1>2, <1>3, <1>4
<1>6. /\ Before(q)["healthcheck"] = 0 /\ Before(q)["search"] = Len(H)
      /\ Before(q)["scrape"] = Len(H) + Len(S)
  BY DEF Before, Class, H, S, P
<1>7. ASSUME NEW c \in Class, NEW i \in 1 .. Len(q[c])
      PROVE  /\ Before(q)[c] + i \in 1 .. Len(Line(q))
             /\ Line(q)[Before(q)[c] + i] = q[c][i]
  <2>1. CASE c = "healthcheck"
    <3>1. i \in 1 .. Len(H) /\ q[c][i] = H[i] /\ Before(q)[c] = 0
      BY <1>6, <1>7, <2>1 DEF H
    <3>2. 0 + i = i /\ i \in 1 .. Len(H) + Len(S)
      BY <1>2, <3>1
    <3>3. QED  BY <1>2, <1>3, <1>5, <3>1, <3>2
  <2>2. CASE c = "search"
    <3>1. i \in 1 .. Len(S) /\ q[c][i] = S[i] /\ Before(q)[c] = Len(H)
      BY <1>6, <1>7, <2>2 DEF S
    <3>2. Len(H) + i \in 1 .. Len(H) + Len(S) /\ Len(H) + i \in 1 .. Len(Line(q))
      BY <1>2, <1>5, <3>1
    <3>3. Line(q)[Len(H) + i] = S[i]
      BY <1>3, <1>5, <3>1, <3>2
    <3>4. QED  BY <3>1, <3>2, <3>3
  <2>3. CASE c = "scrape"
    <3>1. i \in 1 .. Len(P) /\ q[c][i] = P[i] /\ Before(q)[c] = Len(H) + Len(S)
      BY <1>6, <1>7, <2>3 DEF P
    <3>2. QED  BY <1>2, <1>5, <3>1
  <2>4. QED  BY <2>1, <2>2, <2>3 DEF Class
<1>8. ASSUME NEW k \in 1 .. Len(Line(q))
      PROVE  \E c \in Class : \E i \in 1 .. Len(q[c]) : k = Before(q)[c] + i
  <2>1. CASE k <= Len(H)
    <3>1. k \in 1 .. Len(q["healthcheck"]) /\ k = Before(q)["healthcheck"] + k
      BY <1>2, <1>6, <2>1 DEF H
    <3>2. QED  BY <3>1 DEF Class
  <2>2. CASE k > Len(H) /\ k <= Len(H) + Len(S)
    <3>1. k - Len(H) \in 1 .. Len(q["search"]) /\ k = Before(q)["search"] + (k - Len(H))
      BY <1>2, <1>6, <2>2 DEF S
    <3>2. QED  BY <3>1 DEF Class
  <2>3. CASE k > Len(H) + Len(S)
    <3>1. k \in 1 .. Len(H) + Len(S) + Len(P)
      BY <1>5
    <3>2. k - (Len(H) + Len(S)) \in 1 .. Len(P)
      BY <1>2, <2>3, <3>1
    <3>3. k = Before(q)["scrape"] + (k - (Len(H) + Len(S)))
      BY <1>2, <1>6, <3>1
    <3>4. QED  BY <3>2, <3>3 DEF Class, P
  <2>4. QED  BY <1>2, <2>1, <2>2, <2>3
<1>9. QED  BY <1>5, <1>7, <1>8 DEF H, S, P

(* The tasks started are those before the cut of their queue.               *)
LEMMA StartedCut ==
  ASSUME QueueTypeOK, NEW q, Orderly(q), NEW n \in Nat
  PROVE  /\ Started(q, n) \subseteq Task
         /\ \A t \in Task : t \in Started(q, n) <=>
              \E i \in Nat : At(q, t, i) /\ i <= Cut(q, n)[classOf[t]]
<1>1. q \in [Class -> Seq(Task)]
  BY DEF Orderly
<1> DEFINE m == IF n < Len(Line(q)) THEN n ELSE Len(Line(q))
<1>2. Started(q, n) = {Line(q)[k] : k \in 1 .. m}
  BY DEF Started, Line
<1>3. Len(Line(q)) \in Nat /\ m \in Nat /\ m <= n /\ m <= Len(Line(q))
  BY <1>1, LinePlaces
<1> HIDE DEF m
<1>4. \A k \in 1 .. m : Line(q)[k] \in Task
  <2>1. Line(q) \in Seq(Task)
    BY <1>1, LinePlaces
  <2>2. QED  BY <1>3, <2>1
<1>5. ASSUME NEW t \in Task, t \in Started(q, n)
      PROVE  \E i \in Nat : At(q, t, i) /\ i <= Cut(q, n)[classOf[t]]
  <2>1. PICK k \in 1 .. m : t = Line(q)[k]
    BY <1>2, <1>5
  <2>2. k \in 1 .. Len(Line(q))
    BY <1>3
  <2>3. PICK c \in Class : \E i \in 1 .. Len(q[c]) : k = Before(q)[c] + i
    BY <1>1, <2>2, LinePlaces
  <2>4. PICK i \in 1 .. Len(q[c]) : k = Before(q)[c] + i
    BY <2>3
  <2>5. t = q[c][i]
    BY <1>1, <2>1, <2>4, LinePlaces
  <2>6. classOf[t] = c
    BY <2>5 DEF Orderly
  <2>7. Len(q[c]) \in Nat /\ Before(q)[c] \in Nat
    BY <1>1, Lengths
  <2>8. i \in Nat /\ i >= 1 /\ Before(q)[c] + i <= n
    BY <1>3, <2>4, <2>7
  <2>9. i <= Cut(q, n)[c]
    BY <2>7, <2>8 DEF Cut
  <2>10. QED  BY <2>5, <2>6, <2>8, <2>9 DEF At
<1>6. ASSUME NEW t \in Task, NEW i \in Nat, At(q, t, i), i <= Cut(q, n)[classOf[t]]
      PROVE  t \in Started(q, n)
  <2> DEFINE c == classOf[t]
  <2>1. c \in Class
    BY DEF QueueTypeOK
  <2> HIDE DEF c
  <2>2. i \in 1 .. Len(q[c]) /\ q[c][i] = t /\ i <= Cut(q, n)[c]
    BY <1>6 DEF At, c
  <2>3. Before(q)[c] \in Nat
    BY <1>1, <2>1, Lengths
  <2>4. Before(q)[c] + i <= n
    BY <2>1, <2>2, <2>3 DEF Cut
  <2>5. Before(q)[c] + i \in 1 .. Len(Line(q)) /\ Line(q)[Before(q)[c] + i] = t
    BY <1>1, <2>1, <2>2, LinePlaces
  <2>6. Before(q)[c] + i \in 1 .. m
    BY <1>3, <2>3, <2>4, <2>5 DEF m
  <2>7. QED  BY <1>2, <2>5, <2>6
<1>7. Started(q, n) \subseteq Task
  BY <1>2, <1>4
<1>8. QED  BY <1>5, <1>6, <1>7

(* What is left of a queue is what comes after the cut.                     *)
LEMMA RestCut ==
  ASSUME NEW q \in [Class -> Seq(Task)], NEW n \in Nat, NEW c \in Class
  PROVE  /\ Rest(q, n)[c] \in Seq(Task)
         /\ Len(Rest(q, n)[c]) = (IF Cut(q, n)[c] < Len(q[c]) THEN Len(q[c]) - Cut(q, n)[c] ELSE 0)
         /\ \A i \in 1 .. Len(Rest(q, n)[c]) : Rest(q, n)[c][i] = q[c][Cut(q, n)[c] + i]
<1>1. q[c] \in Seq(Task) /\ Len(q[c]) \in Nat /\ Cut(q, n)[c] \in Nat
  BY Lengths
<1>2. Rest(q, n)[c] = SubSeq(q[c], 1 + Cut(q, n)[c], Len(q[c]))
  <2>1. CASE c = "healthcheck"
    BY <2>1, Lengths DEF Rest, Cut
  <2>2. CASE c = "search"
    BY <2>2, Lengths DEF Rest, Cut
  <2>3. CASE c = "scrape"
    BY <2>3, Lengths DEF Rest, Cut
  <2>4. QED  BY <2>1, <2>2, <2>3 DEF Class
<1>3. QED
  <2> DEFINE s == q[c]  k == Cut(q, n)[c]
  <2>1. s \in Seq(Task) /\ Len(s) \in Nat /\ k \in Nat
    BY <1>1
  <2>2. Rest(q, n)[c] = SubSeq(s, 1 + k, Len(s))
    BY <1>2
  <2> HIDE DEF s, k
  <2>3. /\ SubSeq(s, 1 + k, Len(s)) \in Seq(Task)
        /\ Len(SubSeq(s, 1 + k, Len(s))) = (IF k < Len(s) THEN Len(s) - k ELSE 0)
        /\ \A i \in 1 .. Len(SubSeq(s, 1 + k, Len(s))) : SubSeq(s, 1 + k, Len(s))[i] = s[k + i]
    BY <2>1
  <2>4. QED  BY <2>2, <2>3 DEF s, k

(* What the loop of process() does: with n free slots it starts n tasks, or *)
(* every task there is, and leaves the others in order.                     *)
LEMMA LoopStarts ==
  ASSUME QueueTypeOK, NEW q, Orderly(q), NEW n \in Nat
  PROVE  /\ Started(q, n) \in SUBSET Task
         /\ Orderly(Rest(q, n))
         /\ \A t \in Task : t \in Started(q, n) => InLine(q, t)
         /\ \A t \in Task : InLine(Rest(q, n), t) <=> (InLine(q, t) /\ t \notin Started(q, n))
<1>1. q \in [Class -> Seq(Task)]
  BY DEF Orderly
<1>2. Rest(q, n) \in [Class -> Seq(Task)]
  <2>1. Rest(q, n) = [c \in Class |-> Rest(q, n)[c]]
    BY DEF Rest, Class
  <2>2. QED  BY <1>1, <2>1, RestCut
<1>3. ASSUME NEW c \in Class
      PROVE  /\ Len(q[c]) \in Nat /\ Cut(q, n)[c] \in Nat
             /\ \A i \in 1 .. Len(Rest(q, n)[c]) :
                  /\ Cut(q, n)[c] + i \in 1 .. Len(q[c])
                  /\ Rest(q, n)[c][i] = q[c][Cut(q, n)[c] + i]
             /\ \A i \in 1 .. Len(q[c]) : i > Cut(q, n)[c] =>
                  i - Cut(q, n)[c] \in 1 .. Len(Rest(q, n)[c])
  <2>1. Len(q[c]) \in Nat /\ Cut(q, n)[c] \in Nat
    BY <1>1, Lengths
  <2>2. Len(Rest(q, n)[c]) = (IF Cut(q, n)[c] < Len(q[c]) THEN Len(q[c]) - Cut(q, n)[c] ELSE 0)
    BY <1>1, RestCut
  <2>3. \A i \in 1 .. Len(Rest(q, n)[c]) : Rest(q, n)[c][i] = q[c][Cut(q, n)[c] + i]
    BY <1>1, RestCut
  <2>4. ASSUME NEW i \in 1 .. Len(Rest(q, n)[c])  PROVE  Cut(q, n)[c] + i \in 1 .. Len(q[c])
    BY <2>1, <2>2
  <2>5. ASSUME NEW i \in 1 .. Len(q[c]), i > Cut(q, n)[c]
        PROVE  i - Cut(q, n)[c] \in 1 .. Len(Rest(q, n)[c])
    BY <2>1, <2>2, <2>5
  <2>6. QED  BY <2>1, <2>3, <2>4, <2>5
<1>4. Orderly(Rest(q, n))
  <2>1. ASSUME NEW c \in Class, NEW i \in 1 .. Len(Rest(q, n)[c])
        PROVE  classOf[Rest(q, n)[c][i]] = c
    <3>1. /\ Cut(q, n)[c] + i \in 1 .. Len(q[c])
          /\ Rest(q, n)[c][i] = q[c][Cut(q, n)[c] + i]
      BY <1>3
    <3>2. QED  BY <3>1 DEF Orderly
  <2>2. ASSUME NEW c \in Class, NEW i \in 1 .. Len(Rest(q, n)[c]),
               NEW j \in 1 .. Len(Rest(q, n)[c]), Rest(q, n)[c][i] = Rest(q, n)[c][j]
        PROVE  i = j
    <3>0. /\ Cut(q, n)[c] + i \in 1 .. Len(q[c]) /\ Cut(q, n)[c] + j \in 1 .. Len(q[c])
          /\ q[c][Cut(q, n)[c] + i] = q[c][Cut(q, n)[c] + j]
      BY <1>3, <2>2
    <3>1. Cut(q, n)[c] + i = Cut(q, n)[c] + j
      BY <3>0 DEF Orderly
    <3>2. i \in Int /\ j \in Int /\ Cut(q, n)[c] \in Int
      BY <1>3
    <3>3. QED  BY <3>1, <3>2
  <2>3. QED  BY <1>2, <2>1, <2>2 DEF Orderly
<1>5. ASSUME NEW t \in Task
      PROVE  /\ t \in Started(q, n) => InLine(q, t)
             /\ InLine(Rest(q, n), t) <=> (InLine(q, t) /\ t \notin Started(q, n))
  <2> DEFINE c == classOf[t]
  <2>1. c \in Class
    BY DEF QueueTypeOK
  <2>2. t \in Started(q, n) => InLine(q, t)
    BY StartedCut DEF InLine
  <2>3. ASSUME InLine(Rest(q, n), t)  PROVE  InLine(q, t) /\ t \notin Started(q, n)
    <3>1. PICK i \in 1 .. Len(Rest(q, n)[c]) : Rest(q, n)[c][i] = t
      BY <2>3 DEF InLine, At
    <3>2. /\ Cut(q, n)[c] + i \in 1 .. Len(q[c]) /\ q[c][Cut(q, n)[c] + i] = t
      BY <1>3, <2>1, <3>1
    <3>3. Cut(q, n)[c] + i \in Nat
      BY <3>2
    <3>4. At(q, t, Cut(q, n)[c] + i)
      BY <3>2 DEF At
    <3>5. ASSUME NEW j \in Nat, At(q, t, j), j <= Cut(q, n)[c]  PROVE  FALSE
      <4>1. j = Cut(q, n)[c] + i
        BY <2>1, <3>2, <3>5 DEF At, Orderly
      <4>2. QED  BY <1>3, <2>1, <3>1, <3>5, <4>1
    <3>6. QED  BY <3>3, <3>4, <3>5, StartedCut DEF InLine
  <2>4. ASSUME InLine(q, t), t \notin Started(q, n)  PROVE  InLine(Rest(q, n), t)
    <3>1. PICK i \in Nat : At(q, t, i)
      BY <2>4 DEF InLine
    <3>2. i > Cut(q, n)[c]
      BY <1>3, <2>1, <2>4, <3>1, StartedCut
    <3>3. i \in 1 .. Len(q[c]) /\ q[c][i] = t
      BY <3>1 DEF At
    <3>4. i - Cut(q, n)[c] \in 1 .. Len(Rest(q, n)[c])
      BY <1>3, <2>1, <3>2, <3>3
    <3>5. Cut(q, n)[c] + (i - Cut(q, n)[c]) = i
      BY <1>3, <2>1
    <3>6. Rest(q, n)[c][i - Cut(q, n)[c]] = t
      BY <1>3, <2>1, <3>3, <3>4, <3>5
    <3>7. i - Cut(q, n)[c] \in Nat
      BY <1>3, <2>1, <3>2
    <3>8. QED  BY <3>4, <3>6, <3>7 DEF InLine, At
  <2>5. QED  BY <2>2, <2>3, <2>4
<1>6. QED  BY <1>4, <1>5, StartedCut

(* Where something is left, every free slot is taken.                       *)
LEMMA LoopFills ==
  ASSUME QueueTypeOK, NEW q, Orderly(q), NEW n \in Nat, NEW t \in Task, InLine(Rest(q, n), t)
  PROVE  Cardinality(Started(q, n)) = n
<1> DEFINE c == classOf[t]
<1>1. q \in [Class -> Seq(Task)] /\ c \in Class
  BY DEF Orderly, QueueTypeOK
<1> HIDE DEF c
<1>2. Len(q[c]) \in Nat /\ Before(q)[c] \in Nat /\ Len(Line(q)) \in Nat /\ Line(q) \in Seq(Task)
  <2>1. Len(q[c]) \in Nat /\ Before(q)[c] \in Nat
    BY <1>1, Lengths
  <2>2. Line(q) \in Seq(Task)
    BY <1>1, LinePlaces
  <2>3. QED  BY <2>1, <2>2
<1>3. n <= Len(Line(q))
  <2>1. PICK i \in Nat : At(q, t, i)
    BY LoopStarts DEF InLine
  <2>2. i > Cut(q, n)[c]
    <3>1. t \notin Started(q, n)
      BY LoopStarts
    <3>2. ~(i <= Cut(q, n)[c])
      BY <2>1, <3>1, StartedCut DEF c
    <3>3. Cut(q, n)[c] \in Nat
      BY <1>1, Lengths
    <3>4. QED  BY <3>2, <3>3
  <2>3. i \in 1 .. Len(q[c])
    BY <2>1 DEF At, c
  <2>4. Before(q)[c] + i \in 1 .. Len(Line(q))
    BY <1>1, <2>3, LinePlaces
  <2>5. Before(q)[c] + i > n
    BY <1>1, <1>2, <2>2, <2>3 DEF Cut
  <2>6. QED  BY <1>2, <2>4, <2>5
<1>4. Started(q, n) = {Line(q)[k] : k \in 1 .. n}
  <2>1. Started(q, n) = {Line(q)[k] : k \in 1 .. (IF n < Len(Line(q)) THEN n ELSE Len(Line(q)))}
    BY DEF Started, Line
  <2>2. (IF n < Len(Line(q)) THEN n ELSE Len(Line(q))) = n
    BY <1>2, <1>3
  <2>3. QED  BY <2>1, <2>2
<1>5. ASSUME NEW k \in 1 .. n, NEW l \in 1 .. n, Line(q)[k] = Line(q)[l]  PROVE  k = l
  <2>1. k \in 1 .. Len(Line(q)) /\ l \in 1 .. Len(Line(q))
    BY <1>2, <1>3
  <2>2. PICK d \in Class : \E i \in 1 .. Len(q[d]) : k = Before(q)[d] + i
    BY <1>1, <2>1, LinePlaces
  <2>3. PICK i \in 1 .. Len(q[d]) : k = Before(q)[d] + i
    BY <2>2
  <2>4. PICK e \in Class : \E j \in 1 .. Len(q[e]) : l = Before(q)[e] + j
    BY <1>1, <2>1, LinePlaces
  <2>5. PICK j \in 1 .. Len(q[e]) : l = Before(q)[e] + j
    BY <2>4
  <2>6. q[d][i] = q[e][j]
    BY <1>1, <1>5, <2>3, <2>5, LinePlaces
  <2>7. d = e
    BY <2>6 DEF Orderly
  <2>8. i = j
    BY <2>6, <2>7 DEF Orderly
  <2>9. QED  BY <2>3, <2>5, <2>7, <2>8
<1>6. Cardinality({Line(q)[k] : k \in 1 .. n}) = n
  <2> DEFINE f == [k \in 1 .. n |-> Line(q)[k]]  T == {Line(q)[k] : k \in 1 .. n}
  <2>1. f \in Bijection(1 .. n, T)
    BY <1>5 DEF Bijection, Injection, Surjection, IsInjective
  <2>2. ExistsBijection(1 .. n, T)
    BY <2>1 DEF ExistsBijection
  <2>3. QED  BY <2>2, FS_CountingElements
<1>7. QED  BY <1>4, <1>6

(* A task that joins the queue of its class is the last in it.              *)
LEMMA Joined ==
  ASSUME QueueTypeOK, NEW q, Orderly(q), NEW t \in Task, ~InLine(q, t)
  PROVE  /\ Orderly(Pushed(q, t))
         /\ \A u \in Task : InLine(Pushed(q, t), u) <=> InLine(q, u) \/ u = t
<1> DEFINE c == classOf[t]  r == Pushed(q, t)
<1>1. q \in [Class -> Seq(Task)] /\ c \in Class
  BY DEF Orderly, QueueTypeOK
<1>2. q[c] \in Seq(Task) /\ Len(q[c]) \in Nat
  BY <1>1
<1>3. \A d \in Class : d # c => r[d] = q[d]
  BY <1>1 DEF Pushed
<1>4. r[c] = Append(q[c], t)
  BY <1>1 DEF Pushed
<1>5. /\ r[c] \in Seq(Task) /\ Len(r[c]) = Len(q[c]) + 1 /\ r[c][Len(q[c]) + 1] = t
      /\ \A i \in 1 .. Len(q[c]) : r[c][i] = q[c][i]
  BY <1>2, <1>4
<1>6. r \in [Class -> Seq(Task)]
  BY <1>1, <1>2 DEF Pushed
<1> HIDE DEF c, r
<1>7. \A i \in 1 .. Len(q[c]) : q[c][i] # t
  BY <1>2 DEF InLine, At, c
<1>8. \A d \in Class : \A i \in 1 .. Len(r[d]) : classOf[r[d][i]] = d
  <2>1. SUFFICES ASSUME NEW d \in Class, NEW i \in 1 .. Len(r[d])  PROVE  classOf[r[d][i]] = d
    OBVIOUS
  <2>2. CASE d # c
    BY <1>3, <2>2 DEF Orderly
  <2>3. CASE d = c /\ i <= Len(q[c])
    BY <1>1, <1>2, <1>5, <2>3 DEF Orderly
  <2>4. CASE d = c /\ i > Len(q[c])
    BY <1>2, <1>5, <2>4 DEF c
  <2>5. QED  BY <1>2, <2>2, <2>3, <2>4
<1>9. \A d \in Class : \A i, j \in 1 .. Len(r[d]) : r[d][i] = r[d][j] => i = j
  <2>1. SUFFICES ASSUME NEW d \in Class, NEW i \in 1 .. Len(r[d]), NEW j \in 1 .. Len(r[d]),
                        r[d][i] = r[d][j]
                 PROVE  i = j
    OBVIOUS
  <2>2. CASE d # c
    BY <1>3, <2>1, <2>2 DEF Orderly
  <2>3. CASE d = c
    <3>1. i \in 1 .. Len(q[c]) \/ i = Len(q[c]) + 1
      BY <1>2, <1>5, <2>3
    <3>2. j \in 1 .. Len(q[c]) \/ j = Len(q[c]) + 1
      BY <1>2, <1>5, <2>3
    <3>3. CASE i \in 1 .. Len(q[c]) /\ j \in 1 .. Len(q[c])
      BY <1>1, <1>5, <2>1, <2>3, <3>3 DEF Orderly
    <3>4. CASE i = Len(q[c]) + 1 /\ j \in 1 .. Len(q[c])
      BY <1>5, <1>7, <2>1, <2>3, <3>4
    <3>5. CASE i \in 1 .. Len(q[c]) /\ j = Len(q[c]) + 1
      BY <1>5, <1>7, <2>1, <2>3, <3>5
    <3>6. QED  BY <3>1, <3>2, <3>3, <3>4, <3>5
  <2>4. QED  BY <2>2, <2>3
<1>10. ASSUME NEW u \in Task  PROVE  InLine(r, u) <=> InLine(q, u) \/ u = t
  <2>1. CASE classOf[u] # c
    <3>1. classOf[u] \in Class /\ u # t
      BY <2>1 DEF QueueTypeOK, c
    <3>2. r[classOf[u]] = q[classOf[u]]
      BY <1>3, <2>1, <3>1
    <3>3. QED  BY <3>1, <3>2 DEF InLine, At
  <2>2. CASE classOf[u] = c
    <3>1. ASSUME NEW i \in Nat, i \in 1 .. Len(r[c]), r[c][i] = u
          PROVE  u = t \/ (i \in 1 .. Len(q[c]) /\ q[c][i] = u)
      <4>1. i \in 1 .. Len(q[c]) \/ i = Len(q[c]) + 1
        BY <1>2, <1>5, <3>1
      <4>2. QED  BY <1>5, <3>1, <4>1
    <3>2. InLine(r, u) => InLine(q, u) \/ u = t
      BY <2>2, <3>1 DEF InLine, At
    <3>3. ASSUME NEW i \in Nat, i \in 1 .. Len(q[c]), q[c][i] = u
          PROVE  i \in 1 .. Len(r[c]) /\ r[c][i] = u
      BY <1>2, <1>5, <3>3
    <3>4. InLine(q, u) => InLine(r, u)
      BY <2>2, <3>3 DEF InLine, At
    <3>5. Len(q[c]) + 1 \in Nat /\ Len(q[c]) + 1 \in 1 .. Len(r[c])
      BY <1>2, <1>5
    <3>6. u = t => InLine(r, u)
      BY <1>5, <2>2, <3>5 DEF InLine, At
    <3>7. QED  BY <3>2, <3>4, <3>6
  <2>3. QED  BY <2>1, <2>2
<1>11. QED  BY <1>6, <1>8, <1>9, <1>10 DEF Orderly, r

(* One queue after another.                                                 *)
LEMMA Concat ==
  ASSUME NEW a \in Seq(Task), NEW b \in Seq(Task)
  PROVE  /\ Len(a) \in Nat /\ Len(b) \in Nat
         /\ a \o b \in Seq(Task) /\ Len(a \o b) = Len(a) + Len(b)
         /\ \A i \in 1 .. Len(a) : (a \o b)[i] = a[i]
         /\ \A i \in 1 .. Len(b) : (a \o b)[Len(a) + i] = b[i]
OBVIOUS

LEMMA RemovedAt ==
  ASSUME NEW s \in Seq(Task), NEW k \in 1 .. Len(s)
  PROVE  /\ RemoveAt(s, k) \in Seq(Task) /\ Len(RemoveAt(s, k)) = Len(s) - 1
         /\ \A i \in 1 .. Len(s) - 1 : RemoveAt(s, k)[i] = IF i < k THEN s[i] ELSE s[i + 1]
<1>1. Len(s) \in Nat /\ k \in Nat /\ k >= 1 /\ k <= Len(s)
  OBVIOUS
<1> DEFINE a == SubSeq(s, 1, k - 1)  b == SubSeq(s, k + 1, Len(s))
<1>2. /\ a \in Seq(Task) /\ Len(a) = k - 1
      /\ \A i \in 1 .. k - 1 : a[i] = s[i]
  BY <1>1
<1>3. /\ b \in Seq(Task) /\ Len(b) = Len(s) - k
      /\ \A i \in 1 .. Len(s) - k : b[i] = s[k + i]
  BY <1>1
<1>4. RemoveAt(s, k) = a \o b
  BY DEF RemoveAt
<1> HIDE DEF a, b
<1>5. /\ a \o b \in Seq(Task) /\ Len(a \o b) = Len(s) - 1
      /\ \A i \in 1 .. k - 1 : (a \o b)[i] = a[i]
      /\ \A i \in 1 .. Len(s) - k : (a \o b)[k - 1 + i] = b[i]
  <2>1. /\ a \o b \in Seq(Task) /\ Len(a \o b) = Len(a) + Len(b)
        /\ \A i \in 1 .. Len(a) : (a \o b)[i] = a[i]
        /\ \A i \in 1 .. Len(b) : (a \o b)[Len(a) + i] = b[i]
    BY <1>2, <1>3, Concat
  <2>2. Len(a) + Len(b) = Len(s) - 1
    BY <1>1, <1>2, <1>3
  <2>3. QED  BY <1>2, <1>3, <2>1, <2>2
<1>6. ASSUME NEW i \in 1 .. Len(s) - 1  PROVE  (a \o b)[i] = IF i < k THEN s[i] ELSE s[i + 1]
  <2>1. CASE i < k
    BY <1>1, <1>2, <1>5, <2>1
  <2>2. CASE ~(i < k)
    <3>1. i - (k - 1) \in 1 .. Len(s) - k /\ k - 1 + (i - (k - 1)) = i /\ k + (i - (k - 1)) = i + 1
      BY <1>1, <2>2
    <3>2. (a \o b)[k - 1 + (i - (k - 1))] = s[k + (i - (k - 1))]
      BY <1>3, <1>5, <3>1
    <3>3. QED  BY <2>2, <3>1, <3>2
  <2>3. QED  BY <2>1, <2>2
<1>7. QED  BY <1>4, <1>5, <1>6

(* A task that leaves the queues leaves the others in order.                *)
LEMMA Removed ==
  ASSUME QueueTypeOK, Orderly(queue), NEW t \in Task
  PROVE  /\ Orderly(Unqueued(t))
         /\ \A u \in Task : InLine(Unqueued(t), u) <=> InLine(queue, u) /\ u # t
<1> DEFINE c == classOf[t]  s == queue[c]  r == Unqueued(t)
<1>1. queue \in [Class -> Seq(Task)] /\ c \in Class
  BY DEF Orderly, QueueTypeOK
<1>2. s \in Seq(Task) /\ Len(s) \in Nat /\ DOMAIN s = 1 .. Len(s)
  BY <1>1
<1>3. InLine(queue, t) <=> t \in ToSet(s)
  BY <1>2 DEF InLine, At, ToSet
<1>4. CASE t \notin ToSet(s)
  <2>1. r = queue
    BY <1>4 DEF Unqueued
  <2>2. QED  BY <1>3, <1>4, <2>1
<1>5. CASE t \in ToSet(s)
  <2> DEFINE k == CHOOSE i \in DOMAIN s : s[i] = t
  <2>1. k \in 1 .. Len(s) /\ s[k] = t
    BY <1>2, <1>5 DEF ToSet
  <2>2. r = [queue EXCEPT ![c] = RemoveAt(s, k)]
    BY <1>5 DEF Unqueued
  <2> HIDE DEF k
  <2>3. r[c] = RemoveAt(s, k) /\ \A d \in Class : d # c => r[d] = queue[d]
    BY <1>1, <2>2
  <2>4. /\ r[c] \in Seq(Task) /\ Len(r[c]) = Len(s) - 1
        /\ \A i \in 1 .. Len(s) - 1 : r[c][i] = IF i < k THEN s[i] ELSE s[i + 1]
    BY <1>2, <2>1, <2>3, RemovedAt
  <2>5. r \in [Class -> Seq(Task)]
    <3>1. RemoveAt(s, k) \in Seq(Task)
      BY <2>3, <2>4
    <3>2. QED  BY <1>1, <2>2, <3>1
  <2> HIDE DEF r
  <2>6. /\ \A i \in 1 .. Len(s) : classOf[s[i]] = c
        /\ \A i, j \in 1 .. Len(s) : s[i] = s[j] => i = j
    BY <1>1 DEF Orderly
  <2> HIDE DEF s
  <2>7. \A i \in 1 .. Len(r[c]) : \E j \in 1 .. Len(s) :
           /\ r[c][i] = s[j] /\ j # k
           /\ j = IF i < k THEN i ELSE i + 1
    <3>1. SUFFICES ASSUME NEW i \in 1 .. Len(r[c])
                   PROVE  \E j \in 1 .. Len(s) :
                            r[c][i] = s[j] /\ j # k /\ j = IF i < k THEN i ELSE i + 1
      OBVIOUS
    <3>0. i \in 1 .. Len(s) - 1
      BY <2>4
    <3>2. i \in 1 .. Len(s) - 1 /\ i \in 1 .. Len(s) /\ i + 1 \in 1 .. Len(s)
      BY <1>2, <3>0
    <3>3. CASE i < k
      BY <2>4, <3>2, <3>3
    <3>4. CASE ~(i < k)
      <4>1. i + 1 # k
        BY <1>2, <2>1, <3>2, <3>4
      <4>2. QED  BY <2>4, <3>2, <3>4, <4>1
    <3>5. QED  BY <3>3, <3>4
  <2>8. \A j \in 1 .. Len(s) : j # k => \E i \in 1 .. Len(r[c]) : r[c][i] = s[j]
    <3>1. SUFFICES ASSUME NEW j \in 1 .. Len(s), j # k
                   PROVE  \E i \in 1 .. Len(r[c]) : r[c][i] = s[j]
      OBVIOUS
    <3>2. CASE j < k
      <4>1. j \in 1 .. Len(s) - 1
        BY <1>2, <2>1, <3>2
      <4>2. QED  BY <2>4, <3>2, <4>1
    <3>3. CASE j > k
      <4>1. j - 1 \in 1 .. Len(s) - 1 /\ ~(j - 1 < k) /\ (j - 1) + 1 = j
        BY <1>2, <2>1, <3>3
      <4>2. r[c][j - 1] = s[(j - 1) + 1]
        BY <2>4, <4>1
      <4>3. QED  BY <2>4, <4>1, <4>2
    <3>4. QED  BY <1>2, <2>1, <3>1, <3>2, <3>3
  <2>9. Orderly(r)
    <3>1. ASSUME NEW d \in Class, NEW i \in 1 .. Len(r[d])  PROVE  classOf[r[d][i]] = d
      <4>1. CASE d = c
        BY <2>6, <2>7, <4>1
      <4>2. CASE d # c
        BY <2>3, <4>2 DEF Orderly
      <4>3. QED  BY <4>1, <4>2
    <3>2. ASSUME NEW d \in Class, NEW i \in 1 .. Len(r[d]), NEW j \in 1 .. Len(r[d]),
                 r[d][i] = r[d][j]
          PROVE  i = j
      <4>1. CASE d = c
        <5>1. (IF i < k THEN i ELSE i + 1) = (IF j < k THEN j ELSE j + 1)
          BY <2>6, <2>7, <3>2, <4>1
        <5>2. Len(r[d]) = Len(s) - 1 /\ k \in Int
          BY <2>1, <2>4, <4>1
        <5>3. i \in Int /\ j \in Int
          BY <3>2
        <5>4. QED  BY <5>1, <5>2, <5>3
      <4>2. CASE d # c
        BY <2>3, <3>2, <4>2 DEF Orderly
      <4>3. QED  BY <4>1, <4>2
    <3>3. QED  BY <2>5, <3>1, <3>2 DEF Orderly
  <2>10. ASSUME NEW u \in Task  PROVE  InLine(r, u) <=> InLine(queue, u) /\ u # t
    <3>1. CASE classOf[u] # c
      <4>1. u # t /\ classOf[u] \in Class
        BY <3>1 DEF QueueTypeOK
      <4>2. r[classOf[u]] = queue[classOf[u]]
        BY <2>3, <3>1, <4>1
      <4>3. QED  BY <4>1, <4>2 DEF InLine, At
    <3>2. CASE classOf[u] = c
      <4>1. InLine(queue, u) <=> \E j \in 1 .. Len(s) : s[j] = u
        BY <1>2, <3>2 DEF InLine, At, s
      <4>2. InLine(r, u) <=> \E i \in 1 .. Len(r[c]) : r[c][i] = u
        <5>1. Len(r[c]) \in Nat
          BY <2>4
        <5>2. QED  BY <3>2, <5>1 DEF InLine, At
      <4>3. ASSUME NEW i \in 1 .. Len(r[c]), r[c][i] = u  PROVE  InLine(queue, u) /\ u # t
        <5>1. PICK j \in 1 .. Len(s) : r[c][i] = s[j] /\ j # k
          BY <2>7
        <5>2. s[j] = u /\ s[j] # s[k]
          BY <2>1, <2>6, <4>3, <5>1
        <5>3. QED  BY <2>1, <4>1, <5>2
      <4>4. ASSUME NEW j \in 1 .. Len(s), s[j] = u, u # t  PROVE  InLine(r, u)
        BY <2>1, <2>8, <4>2, <4>4
      <4>5. QED  BY <4>1, <4>2, <4>3, <4>4
    <3>3. QED  BY <3>1, <3>2
  <2>11. QED  BY <2>9, <2>10 DEF r
<1>6. QED  BY <1>4, <1>5

-----------------------------------------------------------------------------
(* A run of process(): the calls stand as `calls' but for those it starts.  *)
Loop(started, rest, calls, wait) ==
  /\ Dispatch(started, rest, calls, wait)
  /\ started \in SUBSET Task /\ Orderly(rest) /\ calls \in [Task -> Phases]
  /\ \A u \in Task : calls[u] = "running" <=> phase[u] = "running"
  /\ \A u \in started : calls[u] = "queued"
  /\ \A u \in Task : InLine(rest, u) <=> calls[u] = "queued" /\ u \notin started
  /\ \A u \in Task : InLine(rest, u) => active + Cardinality(started) >= capacity'

LEMMA FreeSlots ==
  ASSUME NEW used \in Nat, NEW cap \in Nat
  PROVE  Free(used, cap) \in Nat /\ used + Free(used, cap) >= cap
BY DEF Free

LEMMA FiniteTasks ==
  ASSUME NEW S \in SUBSET Task
  PROVE  IsFiniteSet(S) /\ Cardinality(S) \in Nat
BY TasksHaveAClass, FS_Subset, FS_CardinalityType

LEMMA ProcessLoops ==
  ASSUME QueueInv, Process
  PROVE  Loop(Started(queue, Free(active, capacity)), Rest(queue, Free(active, capacity)),
              phase, timer)
<1> DEFINE n == Free(active, capacity)
<1>1. n \in Nat /\ active + n >= capacity
  BY FreeSlots DEF QueueInv, QueueTypeOK
<1>2. Dispatch(Started(queue, n), Rest(queue, n), phase, timer) /\ capacity' = capacity
  BY DEF Process
<1> HIDE DEF n
<1>3. /\ Started(queue, n) \in SUBSET Task /\ Orderly(Rest(queue, n))
      /\ \A u \in Task : u \in Started(queue, n) => InLine(queue, u)
      /\ \A u \in Task : InLine(Rest(queue, n), u) <=> InLine(queue, u) /\ u \notin Started(queue, n)
  BY <1>1, LoopStarts DEF QueueInv
<1>4. \A u \in Task : InLine(Rest(queue, n), u) => Cardinality(Started(queue, n)) = n
  BY <1>1, LoopFills DEF QueueInv
<1>5. phase \in [Task -> Phases] /\ \A u \in Task : phase[u] = "queued" <=> InLine(queue, u)
  BY DEF QueueInv, QueueTypeOK
<1>6. Loop(Started(queue, n), Rest(queue, n), phase, timer)
  BY <1>1, <1>2, <1>3, <1>4, <1>5 DEF Loop
<1>7. QED  BY <1>6 DEF n

(* How the other calls stand, and their timers, once t has been enqueued.   *)
Enqueued(t, joins) == [phase EXCEPT ![t] = IF joins THEN "queued" ELSE "answered"]
Waits(t, joins) ==
  IF joins THEN [timer EXCEPT ![t] = IF classOf[t] = "healthcheck" THEN Limit["healthcheck"] ELSE Off]
  ELSE timer

LEMMA EnqueueLoops ==
  ASSUME QueueInv, NEW t \in Task, Enqueue(t)
  PROVE  \E joins \in BOOLEAN : \E started, rest :
           /\ Loop(started, rest, Enqueued(t, joins), Waits(t, joins))
           /\ result' = IF joins THEN result
                        ELSE [result EXCEPT ![t] = IF t \in aborted THEN "cancelled" ELSE "full"]
<1>1. PICK cap \in Capacities :
        LET first == Started(queue, Free(active, cap))
            rest == Rest(queue, Free(active, cap))
            joins == t \notin aborted /\ Depth(rest) < MaxDepth
            longer == Pushed(rest, t)
            free == Free(active + Cardinality(first), cap)
            wait == [timer EXCEPT ![t] = IF classOf[t] = "healthcheck"
                                         THEN Limit["healthcheck"] ELSE Off]
        IN
        /\ capacity' = cap
        /\ IF joins
           THEN /\ Dispatch(first \cup Started(longer, free), Rest(longer, free),
                            [phase EXCEPT ![t] = "queued"], wait)
                /\ UNCHANGED result
           ELSE /\ Dispatch(first, rest, [phase EXCEPT ![t] = "answered"], timer)
                /\ result' = [result EXCEPT ![t] = IF t \in aborted THEN "cancelled" ELSE "full"]
  BY DEF Enqueue
<1> DEFINE n == Free(active, cap)
           first == Started(queue, n)
           rest == Rest(queue, n)
           joins == t \notin aborted /\ Depth(rest) < MaxDepth
           longer == Pushed(rest, t)
           free == Free(active + Cardinality(first), cap)
           second == Started(longer, free)
<1>2. cap \in Nat /\ capacity' = cap
  BY <1>1, QueueBounds
<1>3. active \in Nat /\ phase \in [Task -> Phases] /\ QueueTypeOK /\ Orderly(queue)
  BY DEF QueueInv, QueueTypeOK
<1>4. n \in Nat /\ active + n >= cap
  BY <1>2, <1>3, FreeSlots
<1>5. phase[t] = "ensuring" /\ \A u \in Task : phase[u] = "queued" <=> InLine(queue, u)
  BY DEF Enqueue, QueueInv
<1>6. /\ joins => /\ Dispatch(first \cup second, Rest(longer, free), Enqueued(t, TRUE), Waits(t, TRUE))
                  /\ result' = result
      /\ ~joins => /\ Dispatch(first, rest, Enqueued(t, FALSE), Waits(t, FALSE))
                   /\ result' = [result EXCEPT ![t] = IF t \in aborted THEN "cancelled" ELSE "full"]
  BY <1>1 DEF Enqueued, Waits
<1>7. /\ first \in SUBSET Task /\ Orderly(rest)
      /\ \A u \in Task : u \in first => InLine(queue, u)
      /\ \A u \in Task : InLine(rest, u) <=> InLine(queue, u) /\ u \notin first
  <2> HIDE DEF n
  <2>1. QED  BY <1>3, <1>4, LoopStarts
<1>8. \A u \in Task : InLine(rest, u) => Cardinality(first) = n
  <2> HIDE DEF n
  <2>1. QED  BY <1>3, <1>4, LoopFills
<1>9. IsFiniteSet(first) /\ Cardinality(first) \in Nat
  BY <1>7, FiniteTasks
<1> HIDE DEF n, first, rest, joins
<1>10. CASE ~joins
  <2> DEFINE calls == Enqueued(t, FALSE)
  <2>1. /\ calls \in [Task -> Phases] /\ calls[t] = "answered"
        /\ \A u \in Task : u # t => calls[u] = phase[u]
    BY <1>3 DEF Enqueued, Phases
  <2> HIDE DEF calls
  <2>2. Dispatch(first, rest, calls, Waits(t, FALSE))
    BY <1>6, <1>10 DEF calls
  <2>3. Loop(first, rest, calls, Waits(t, FALSE))
    BY <1>2, <1>4, <1>5, <1>7, <1>8, <2>1, <2>2 DEF Loop
  <2>4. QED  BY <1>6, <1>10, <2>3 DEF calls
<1>11. CASE joins
  <2> DEFINE calls == Enqueued(t, TRUE)
  <2>1. /\ calls \in [Task -> Phases] /\ calls[t] = "queued"
        /\ \A u \in Task : u # t => calls[u] = phase[u]
    BY <1>3 DEF Enqueued, Phases
  <2> HIDE DEF calls
  <2>2. ~InLine(rest, t)
    BY <1>5, <1>7
  <2>3. Orderly(longer) /\ \A u \in Task : InLine(longer, u) <=> InLine(rest, u) \/ u = t
    BY <1>3, <1>7, <2>2, Joined
  <2>4. free \in Nat /\ active + Cardinality(first) + free >= cap
    <3>1. active + Cardinality(first) \in Nat
      BY <1>3, <1>9
    <3>2. QED  BY <1>2, <3>1, FreeSlots
  <2> HIDE DEF longer, free
  <2>5. /\ second \in SUBSET Task /\ Orderly(Rest(longer, free))
        /\ \A u \in Task : u \in second => InLine(longer, u)
        /\ \A u \in Task : InLine(Rest(longer, free), u) <=> InLine(longer, u) /\ u \notin second
    BY <1>3, <2>3, <2>4, LoopStarts
  <2>6. \A u \in Task : InLine(Rest(longer, free), u) => Cardinality(second) = free
    BY <1>3, <2>3, <2>4, LoopFills
  <2> HIDE DEF second
  <2>7. first \cap second = {}
    BY <1>5, <1>7, <2>3, <2>5
  <2>8. Cardinality(first \cup second) = Cardinality(first) + Cardinality(second)
    <3>1. IsFiniteSet(second) /\ Cardinality(second) \in Nat
      BY <2>5, FiniteTasks
    <3>2. Cardinality(first \cup second)
            = Cardinality(first) + Cardinality(second) - Cardinality(first \cap second)
      BY <1>9, <3>1, FS_Union
    <3>3. Cardinality(first \cap second) = 0
      BY <2>7, FS_EmptySet
    <3>4. QED  BY <1>9, <3>1, <3>2, <3>3
  <2>9. \A u \in Task : InLine(Rest(longer, free), u)
          => active + Cardinality(first \cup second) >= capacity'
    BY <1>2, <1>3, <1>9, <2>4, <2>6, <2>8
  <2>10. /\ \A u \in Task : calls[u] = "running" <=> phase[u] = "running"
         /\ \A u \in first \cup second : calls[u] = "queued"
         /\ \A u \in Task : InLine(Rest(longer, free), u)
                              <=> calls[u] = "queued" /\ u \notin first \cup second
    <3>1. ASSUME NEW u \in Task
          PROVE  InLine(longer, u) <=> calls[u] = "queued" /\ u \notin first
      BY <1>5, <1>7, <2>1, <2>3
    <3>2. \A u \in first : calls[u] = "queued"
      BY <1>5, <1>7, <2>1
    <3>3. \A u \in second : calls[u] = "queued"
      BY <2>5, <3>1
    <3>4. \A u \in Task : calls[u] = "running" <=> phase[u] = "running"
      BY <1>5, <2>1
    <3>5. QED  BY <2>5, <3>1, <3>2, <3>3, <3>4
  <2>11. Dispatch(first \cup second, Rest(longer, free), calls, Waits(t, TRUE))
    BY <1>6, <1>11 DEF calls, longer, free, second
  <2>12. Loop(first \cup second, Rest(longer, free), calls, Waits(t, TRUE))
    BY <1>7, <2>1, <2>5, <2>9, <2>10, <2>11 DEF Loop
  <2>13. QED  BY <1>6, <1>11, <2>12 DEF calls
<1>12. QED  BY <1>10, <1>11

-----------------------------------------------------------------------------
(* How the steps keep QueueInv.                                             *)

(* A run of process() turns what it starts into running tasks.              *)
LEMMA LoopKeeps ==
  ASSUME QueueInv, NEW started, NEW rest, NEW calls, NEW wait,
         Loop(started, rest, calls, wait), classOf' = classOf, capacity' \in Nat,
         due' \in BOOLEAN
  PROVE  QueueInv'
<1>1. /\ classOf \in [Task -> Class] /\ phase \in [Task -> Phases] /\ active \in Nat
      /\ active = Cardinality(Running)
  BY DEF QueueInv, QueueTypeOK
<1>2. /\ queue' = rest /\ active' = active + Cardinality(started)
      /\ phase' = [u \in Task |-> IF u \in started THEN "running" ELSE calls[u]]
  BY DEF Loop, Dispatch
<1>3. /\ started \in SUBSET Task /\ Orderly(rest) /\ calls \in [Task -> Phases]
      /\ \A u \in Task : calls[u] = "running" <=> phase[u] = "running"
      /\ \A u \in started : calls[u] = "queued"
      /\ \A u \in Task : InLine(rest, u) <=> calls[u] = "queued" /\ u \notin started
      /\ \A u \in Task : InLine(rest, u) => active + Cardinality(started) >= capacity'
  BY DEF Loop
<1>4. IsFiniteSet(started) /\ Cardinality(started) \in Nat
  BY <1>3, FiniteTasks
<1>5. QueueTypeOK'
  <2>1. phase' \in [Task -> Phases]
    BY <1>2, <1>3 DEF Phases
  <2>2. active' \in Nat
    BY <1>1, <1>2, <1>4
  <2>3. QED  BY <1>1, <2>1, <2>2 DEF QueueTypeOK
<1>6. Orderly(queue)'
  BY <1>2, <1>3 DEF Orderly
<1>7. \A u \in Task : InLine(queue, u)' <=> InLine(rest, u)
  BY <1>2 DEF InLine, At
<1>8. \A u \in Task : phase'[u] = "queued" <=> InLine(rest, u)
  BY <1>2, <1>3
<1>9. active' = Cardinality(Running')
  <2>1. Running' = Running \cup started
    BY <1>2, <1>3 DEF Running
  <2>2. Running \cap started = {}
    BY <1>3 DEF Running
  <2>3. IsFiniteSet(Running) /\ Cardinality(Running) \in Nat
    BY FiniteTasks DEF Running
  <2>4. Cardinality(Running \cup started)
          = Cardinality(Running) + Cardinality(started) - Cardinality(Running \cap started)
    BY <1>4, <2>3, FS_Union
  <2>5. Cardinality(Running \cap started) = 0
    BY <2>2, FS_EmptySet
  <2>6. QED  BY <1>1, <1>2, <1>4, <2>1, <2>3, <2>4, <2>5
<1>10. (Queued # {})' => active' >= capacity'
  BY <1>2, <1>3, <1>8 DEF Queued
<1>11. QED  BY <1>5, <1>6, <1>7, <1>8, <1>9, <1>10 DEF QueueInv

(* An answer gives back the place or the slot its task has, and asks for a  *)
(* process() when that was a slot.                                          *)
LEMMA SettleKeeps ==
  ASSUME QueueInv, NEW t \in Task, NEW why, Settle(t, why), UNCHANGED <<classOf, capacity>>
  PROVE  QueueInv'
<1>1. /\ QueueTypeOK /\ Orderly(queue) /\ phase \in [Task -> Phases] /\ active \in Nat
      /\ classOf \in [Task -> Class] /\ capacity \in Nat /\ due \in BOOLEAN
      /\ active = Cardinality(Running)
      /\ \A u \in Task : phase[u] = "queued" <=> InLine(queue, u)
  BY DEF QueueInv, QueueTypeOK
<1>2. /\ phase' = [phase EXCEPT ![t] = "answered"]
      /\ queue' = Unqueued(t)
      /\ active' = active - (IF phase[t] = "running" THEN 1 ELSE 0)
      /\ due' = (due \/ phase[t] = "running")
  BY DEF Settle
<1>3. /\ phase' \in [Task -> Phases] /\ phase'[t] = "answered"
      /\ \A u \in Task : u # t => phase'[u] = phase[u]
  BY <1>1, <1>2 DEF Phases
<1>4. /\ Orderly(Unqueued(t))
      /\ \A u \in Task : InLine(Unqueued(t), u) <=> InLine(queue, u) /\ u # t
  BY <1>1, Removed
<1>5. IsFiniteSet(Running) /\ Cardinality(Running) \in Nat
  BY FiniteTasks DEF Running
<1>6. active' = Cardinality(Running') /\ active' \in Nat
  <2>1. CASE phase[t] = "running"
    <3>1. t \in Running /\ Running' = Running \ {t}
      BY <1>3, <2>1 DEF Running
    <3>2. Cardinality(Running \ {t}) = Cardinality(Running) - 1
      BY <1>5, <3>1, FS_RemoveElement
    <3>3. IsFiniteSet(Running') /\ Cardinality(Running') \in Nat
      BY <3>1, FiniteTasks DEF Running
    <3>4. QED  BY <1>1, <1>2, <2>1, <3>1, <3>2, <3>3
  <2>2. CASE phase[t] # "running"
    <3>1. Running' = Running
      BY <1>3, <2>2 DEF Running
    <3>2. active' = active
      BY <1>1, <1>2, <2>2
    <3>3. QED  BY <1>1, <3>1, <3>2
  <2>3. QED  BY <2>1, <2>2
<1>7. due' \in BOOLEAN
  BY <1>1, <1>2, ZenonT(30)
<1>8. QueueTypeOK'
  BY <1>1, <1>3, <1>6, <1>7 DEF QueueTypeOK
<1>9. Orderly(queue)'
  BY <1>2, <1>4 DEF Orderly
<1>10. \A u \in Task : InLine(queue, u)' <=> InLine(Unqueued(t), u)
  <2> DEFINE r == Unqueued(t)
  <2>1. queue' = r
    BY <1>2
  <2> HIDE DEF r
  <2>2. \A u \in Task : InLine(queue, u)' <=> InLine(r, u)
    BY <2>1 DEF InLine, At
  <2>3. QED  BY <2>2 DEF r
<1>11. \A u \in Task : phase'[u] = "queued" <=> InLine(queue, u)'
  BY <1>1, <1>3, <1>4, <1>10
<1>12. (~due /\ Queued # {})' => (active >= capacity)'
  <2>1. SUFFICES ASSUME ~due', Queued' # {}  PROVE  active' >= capacity'
    OBVIOUS
  <2>2. ~due /\ phase[t] # "running"
    BY <1>2, <2>1, Zenon
  <2>3. active' = active
    BY <1>1, <1>2, <2>2
  <2>4. Queued # {}
    BY <1>3, <2>1 DEF Queued
  <2>5. QED  BY <2>2, <2>3, <2>4 DEF QueueInv
<1>13. QED  BY <1>6, <1>8, <1>9, <1>11, <1>12 DEF QueueInv

(* A step that queues nothing, starts nothing and answers nobody in line or *)
(* running.                                                                 *)
LEMMA StillKeeps ==
  ASSUME QueueInv, UNCHANGED <<classOf, queue, active, capacity, due>>, phase' \in [Task -> Phases],
         \A u \in Task : /\ phase'[u] = "queued" <=> phase[u] = "queued"
                         /\ phase'[u] = "running" <=> phase[u] = "running"
  PROVE  QueueInv'
<1>1. Running' = Running /\ Queued' = Queued
  BY DEF Running, Queued
<1>2. QueueTypeOK'
  BY DEF QueueInv, QueueTypeOK
<1>3. Orderly(queue)'
  BY DEF QueueInv, Orderly
<1>4. \A u \in Task : phase'[u] = "queued" <=> InLine(queue, u)'
  BY DEF QueueInv, InLine, At
<1>5. QED  BY <1>1, <1>2, <1>3, <1>4 DEF QueueInv

LEMMA CloseKeeps ==
  ASSUME QueueInv, CloseQueue
  PROVE  QueueInv'
<1>1. /\ phase' = [t \in Task |-> IF t \in Queued THEN "answered" ELSE phase[t]]
      /\ queue' = [c \in Class |-> << >>]
      /\ UNCHANGED <<classOf, active, capacity, due>>
  BY DEF CloseQueue
<1>2. /\ phase \in [Task -> Phases] /\ classOf \in [Task -> Class]
      /\ QueueTypeOK /\ active = Cardinality(Running)
  BY DEF QueueInv, QueueTypeOK
<1>3. phase' \in [Task -> Phases] /\ \A u \in Task : phase'[u] # "queued"
  BY <1>1, <1>2 DEF Phases, Queued
<1>4. Running' = Running /\ Queued' = {}
  BY <1>1, <1>3 DEF Running, Queued
<1>5. QueueTypeOK'
  BY <1>1, <1>2, <1>3 DEF QueueTypeOK
<1>6. \A c \in Class : queue'[c] = << >> /\ Len(queue'[c]) = 0
  BY <1>1
<1>7. queue' \in [Class -> Seq(Task)]
  <2>1. << >> \in Seq(Task)
    OBVIOUS
  <2>2. QED  BY <1>1, <2>1, Zenon
<1>8. Orderly(queue)'
  BY <1>6, <1>7 DEF Orderly
<1>9. \A u \in Task : ~InLine(queue, u)'
  BY <1>1, <1>2, <1>6 DEF InLine, At
<1>10. QED  BY <1>1, <1>2, <1>3, <1>4, <1>5, <1>8, <1>9 DEF QueueInv

LEMMA QueueInit ==
  ASSUME Init
  PROVE  QueueInv
<1>1. /\ classOf \in [Task -> Class] /\ phase = [t \in Task |-> "new"]
      /\ queue = [c \in Class |-> << >>] /\ active = 0 /\ capacity \in Nat /\ due = FALSE
  BY TasksHaveAClass, QueueBounds DEF Init
<1>2. QueueTypeOK
  BY <1>1 DEF QueueTypeOK, Phases
<1>3. \A c \in Class : queue[c] = << >> /\ Len(queue[c]) = 0
  BY <1>1
<1>4. queue \in [Class -> Seq(Task)]
  <2>1. << >> \in Seq(Task)
    OBVIOUS
  <2>2. QED  BY <1>1, <2>1, Zenon
<1>5. Orderly(queue)
  BY <1>3, <1>4 DEF Orderly
<1>6. \A u \in Task : ~InLine(queue, u)
  BY <1>1, <1>3 DEF InLine, At
<1>7. Running = {} /\ Queued = {}
  BY <1>1 DEF Running, Queued
<1>8. QED  BY <1>1, <1>2, <1>5, <1>6, <1>7, FS_EmptySet DEF QueueInv, Queued

LEMMA QueueStep ==
  ASSUME QueueInv, [Next]_vars
  PROVE  QueueInv'
<1>1. phase \in [Task -> Phases] /\ capacity \in Nat /\ due \in BOOLEAN
  BY DEF QueueInv, QueueTypeOK
<1>2. ASSUME NEW t \in Task, Call(t)  PROVE  QueueInv'
  <2>1. /\ phase[t] = "new" /\ UNCHANGED <<classOf, queue, active, capacity, due>>
        /\ \/ phase' = [phase EXCEPT ![t] = "ensuring"]
           \/ phase' = [phase EXCEPT ![t] = "answered"]
    BY <1>2 DEF Call
  <2>2. QED  BY <1>1, <2>1, StillKeeps DEF Phases
<1>3. ASSUME NEW t \in Task, EnsureFails(t)  PROVE  QueueInv'
  <2>1. /\ phase[t] = "ensuring" /\ UNCHANGED <<classOf, queue, active, capacity, due>>
        /\ phase' = [phase EXCEPT ![t] = "answered"]
    BY <1>3 DEF EnsureFails
  <2>2. QED  BY <1>1, <2>1, StillKeeps DEF Phases
<1>4. ASSUME NEW t \in Task, Enqueue(t)  PROVE  QueueInv'
  <2>1. classOf' = classOf /\ due' = due /\ capacity' \in Nat
    BY <1>4, QueueBounds DEF Enqueue
  <2>2. PICK joins \in BOOLEAN : \E started, rest :
          Loop(started, rest, Enqueued(t, joins), Waits(t, joins))
    BY <1>4, EnqueueLoops
  <2>3. PICK started, rest : Loop(started, rest, Enqueued(t, joins), Waits(t, joins))
    BY <2>2
  <2>4. QED  BY <1>1, <2>1, <2>3, LoopKeeps
<1>5. ASSUME NEW t \in Task, NEW why, JobEnds(t, why)  PROVE  QueueInv'
  <2>1. UNCHANGED <<classOf, capacity>>
    BY <1>5 DEF JobEnds
  <2>2. CASE phase[t] = "running"
    <3>1. Settle(t, why)
      BY <1>5, <2>2 DEF JobEnds
    <3>2. QED  BY <2>1, <3>1, SettleKeeps
  <2>3. CASE phase[t] # "running"
    <3>1. UNCHANGED <<phase, queue, active, due>>
      BY <1>5, <2>3 DEF JobEnds
    <3>2. QED  BY <1>1, <2>1, <3>1, StillKeeps
  <2>4. QED  BY <2>2, <2>3
<1>6. ASSUME NEW t \in Task, Deadline(t)  PROVE  QueueInv'
  <2>1. UNCHANGED <<classOf, capacity>> /\ \E why : Settle(t, why)
    BY <1>6 DEF Deadline
  <2>2. QED  BY <2>1, SettleKeeps
<1>7. ASSUME NEW t \in Task, Cancel(t)  PROVE  QueueInv'
  <2>1. UNCHANGED <<classOf, capacity>>
    BY <1>7 DEF Cancel
  <2>2. CASE UNCHANGED <<phase, result, timer, queue, active, due>>
    BY <1>1, <2>1, <2>2, StillKeeps
  <2>3. CASE Settle(t, "cancelled")
    BY <2>1, <2>3, SettleKeeps
  <2>4. QED  BY <1>7, <2>2, <2>3 DEF Cancel
<1>8. CASE Process
  <2>1. UNCHANGED <<classOf, capacity>> /\ due' = FALSE
    BY <1>8 DEF Process
  <2>2. Loop(Started(queue, Free(active, capacity)), Rest(queue, Free(active, capacity)),
             phase, timer)
    BY <1>8, ProcessLoops
  <2>3. PICK started, rest : Loop(started, rest, phase, timer)
    BY <2>2
  <2>4. QED  BY <1>1, <2>1, <2>3, LoopKeeps
<1>9. CASE BeginShutdown
  BY <1>1, <1>9, StillKeeps DEF BeginShutdown
<1>10. CASE CloseQueue
  BY <1>10, CloseKeeps
<1>11. CASE Tick
  BY <1>1, <1>11, StillKeeps DEF Tick
<1>12. CASE UNCHANGED vars
  BY <1>1, <1>12, StillKeeps DEF vars
<1>13. QED
  BY <1>2, <1>3, <1>4, <1>5, <1>6, <1>7, <1>8, <1>9, <1>10, <1>11, <1>12
  DEF Next, WorkerAnswers, BackstopFires

(* However tasks end, the slot counter is exact, and no slot stays free     *)
(* with work in line once the pending process() has run.                    *)
THEOREM Balance == Spec => []SlotsBalance
<1>1. Init => QueueInv
  BY QueueInit
<1>2. QueueInv /\ [Next]_vars => QueueInv'
  BY QueueStep
<1>3. QueueInv => SlotsBalance
  BY DEF QueueInv, SlotsBalance, Running
<1>4. QED  BY <1>1, <1>2, <1>3, PTL DEF Spec

-----------------------------------------------------------------------------
(* Why nobody is overtaken: the loop of process() takes the queues in the   *)
(* order of the classes and each from its head.                             *)
Ahead(q, t, u) ==
  \/ Rank[classOf[t]] < Rank[classOf[u]]
  \/ classOf[t] = classOf[u] /\ \E i, j \in Nat : i < j /\ At(q, t, i) /\ At(q, u, j)

LEMMA LoopInOrder ==
  ASSUME QueueTypeOK, NEW q, Orderly(q), NEW n \in Nat, NEW t \in Started(q, n), NEW u \in Task,
         InLine(q, u), u \notin Started(q, n)
  PROVE  Ahead(q, t, u)
<1> DEFINE c == classOf[t]  d == classOf[u]
<1>1. /\ q \in [Class -> Seq(Task)] /\ t \in Task /\ c \in Class /\ d \in Class
  BY StartedCut DEF Orderly, QueueTypeOK
<1>2. PICK i \in Nat : At(q, t, i) /\ i <= Cut(q, n)[c]
  BY <1>1, StartedCut
<1>3. PICK j \in Nat : At(q, u, j) /\ ~(j <= Cut(q, n)[d])
  BY StartedCut DEF InLine
<1>4. /\ Len(q["healthcheck"]) \in Nat /\ Len(q["search"]) \in Nat /\ Len(q["scrape"]) \in Nat
      /\ Before(q)["healthcheck"] = 0
      /\ Before(q)["search"] = Len(q["healthcheck"])
      /\ Before(q)["scrape"] = Len(q["healthcheck"]) + Len(q["search"])
  BY <1>1, Lengths DEF Class
<1>5. /\ 1 <= i /\ i <= (IF n > Before(q)[c] THEN n - Before(q)[c] ELSE 0)
      /\ j <= Len(q[d]) /\ ~(j <= (IF n > Before(q)[d] THEN n - Before(q)[d] ELSE 0))
  BY <1>1, <1>2, <1>3 DEF At, Cut
<1>6. CASE c = d
  <2>1. Cut(q, n)[c] \in Nat
    BY <1>1, Lengths
  <2>2. i < j
    BY <1>2, <1>3, <1>6, <2>1
  <2>3. At(q, t, i) /\ At(q, u, j)
    BY <1>2, <1>3
  <2>4. QED  BY <1>6, <2>2, <2>3 DEF Ahead
<1>7. CASE c # d
  <2>1. n > Before(q)[c] /\ n < Before(q)[d] + Len(q[d])
    <3>1. Before(q)[c] \in Nat /\ Before(q)[d] \in Nat /\ Len(q[d]) \in Nat
      BY <1>1, Lengths
    <3>2. QED  BY <1>5, <3>1
  <2>2. Rank[c] < Rank[d]
    <3>1. CASE c = "healthcheck"
      BY <1>1, <1>7, <3>1 DEF Rank, Class
    <3>2. CASE c = "search"
      BY <1>1, <1>4, <1>7, <2>1, <3>2 DEF Rank, Class
    <3>3. CASE c = "scrape"
      BY <1>1, <1>4, <1>7, <2>1, <3>3 DEF Rank, Class
    <3>4. QED  BY <1>1, <3>1, <3>2, <3>3 DEF Class
  <2>3. QED  BY <2>2 DEF Ahead
<1>8. QED  BY <1>6, <1>7

LEMMA RestInOrder ==
  ASSUME QueueTypeOK, NEW q, Orderly(q), NEW n \in Nat, NEW t \in Task, NEW u \in Task,
         Ahead(Rest(q, n), t, u)
  PROVE  Ahead(q, t, u)
<1>1. CASE Rank[classOf[t]] < Rank[classOf[u]]
  BY <1>1 DEF Ahead
<1>2. CASE ~(Rank[classOf[t]] < Rank[classOf[u]])
  <2> DEFINE c == classOf[t]  r == Rest(q, n)[c]  k == Cut(q, n)[c]
  <2>1. c \in Class /\ q \in [Class -> Seq(Task)]
    BY DEF Orderly, QueueTypeOK
  <2>2. /\ r \in Seq(Task) /\ Len(q[c]) \in Nat /\ k \in Nat
        /\ Len(r) = (IF k < Len(q[c]) THEN Len(q[c]) - k ELSE 0)
        /\ \A i \in 1 .. Len(r) : r[i] = q[c][k + i]
    BY <2>1, RestCut, Lengths
  <2>3. PICK i, j \in Nat : i < j /\ At(Rest(q, n), t, i) /\ At(Rest(q, n), u, j) /\ classOf[u] = c
    BY <1>2 DEF Ahead
  <2>4. i \in 1 .. Len(r) /\ j \in 1 .. Len(r) /\ r[i] = t /\ r[j] = u
    BY <2>3 DEF At
  <2> HIDE DEF r, k, c
  <2>5. /\ k + i \in 1 .. Len(q[c]) /\ q[c][k + i] = t
        /\ k + j \in 1 .. Len(q[c]) /\ q[c][k + j] = u /\ k + i < k + j
    BY <2>2, <2>3, <2>4
  <2>6. At(q, t, k + i) /\ At(q, u, k + j) /\ classOf[t] = classOf[u]
    BY <2>3, <2>5 DEF At, c
  <2>7. k + i \in Nat /\ k + j \in Nat
    BY <2>2
  <2>8. \E a, b \in Nat : a < b /\ At(q, t, a) /\ At(q, u, b)
    BY <2>5, <2>6, <2>7
  <2>9. QED  BY <2>6, <2>8 DEF Ahead
<1>3. QED  BY <1>1, <1>2

LEMMA PushedInOrder ==
  ASSUME QueueTypeOK, NEW q, Orderly(q), NEW t \in Task, ~InLine(q, t),
         NEW w \in Task, NEW u \in Task, u # t, Ahead(Pushed(q, t), w, u)
  PROVE  IF w = t THEN Rank[classOf[w]] < Rank[classOf[u]] ELSE Ahead(q, w, u)
<1>1. CASE Rank[classOf[w]] < Rank[classOf[u]]
  BY <1>1 DEF Ahead
<1>2. CASE ~(Rank[classOf[w]] < Rank[classOf[u]])
  <2> DEFINE c == classOf[w]  r == Pushed(q, t)
  <2>1. /\ c \in Class /\ q \in [Class -> Seq(Task)] /\ q[c] \in Seq(Task) /\ Len(q[c]) \in Nat
        /\ \A k \in 1 .. Len(q[classOf[t]]) : q[classOf[t]][k] # t
    BY DEF Orderly, QueueTypeOK, InLine, At
  <2>2. PICK i, j \in Nat : i < j /\ At(r, w, i) /\ At(r, u, j) /\ classOf[u] = c
    BY <1>2 DEF Ahead
  <2>3. i \in 1 .. Len(r[c]) /\ j \in 1 .. Len(r[c]) /\ r[c][i] = w /\ r[c][j] = u
    BY <2>2 DEF At
  <2>4. CASE classOf[t] # c
    <3>1. r[c] = q[c] /\ w # t
      BY <2>1, <2>4 DEF Pushed
    <3>2. At(q, w, i) /\ At(q, u, j)
      BY <2>2, <2>3, <3>1 DEF At
    <3>3. QED  BY <2>2, <3>1, <3>2 DEF Ahead
  <2>5. CASE classOf[t] = c
    <3>1. r[c] = Append(q[c], t)
      BY <2>1, <2>5 DEF Pushed
    <3> HIDE DEF r, c
    <3>2. /\ Len(r[c]) = Len(q[c]) + 1 /\ r[c][Len(q[c]) + 1] = t
          /\ \A k \in 1 .. Len(q[c]) : r[c][k] = q[c][k]
      BY <2>1, <3>1
    <3>3. j \in 1 .. Len(q[c]) /\ i \in 1 .. Len(q[c])
      BY <2>1, <2>2, <2>3, <3>2
    <3>4. q[c][i] = w /\ q[c][j] = u /\ w # t
      BY <2>1, <2>3, <2>5, <3>2, <3>3
    <3>5. At(q, w, i) /\ At(q, u, j) /\ classOf[w] = classOf[u]
      BY <2>2, <3>3, <3>4 DEF At, c
    <3>6. QED  BY <2>2, <3>4, <3>5 DEF Ahead
  <2>6. QED  BY <2>4, <2>5
<1>3. QED  BY <1>1, <1>2

LEMMA EnqueueInOrder ==
  ASSUME QueueInv, NEW t \in Task, Enqueue(t), NEW w \in Task, NEW u \in Task,
         phase[w] # "running", phase'[w] = "running", phase[u] = "queued", phase'[u] = "queued"
  PROVE  \/ Rank[classOf[w]] < Rank[classOf[u]]
         \/ phase[w] = "queued" /\ Ahead(queue, w, u)
<1>1. PICK cap \in Capacities :
        LET first == Started(queue, Free(active, cap))
            rest == Rest(queue, Free(active, cap))
            joins == t \notin aborted /\ Depth(rest) < MaxDepth
            longer == Pushed(rest, t)
            free == Free(active + Cardinality(first), cap)
        IN
        IF joins
        THEN phase' = [x \in Task |-> IF x \in first \cup Started(longer, free) THEN "running"
                                      ELSE [phase EXCEPT ![t] = "queued"][x]]
        ELSE phase' = [x \in Task |-> IF x \in first THEN "running"
                                      ELSE [phase EXCEPT ![t] = "answered"][x]]
  BY DEF Enqueue, Dispatch
<1> DEFINE n == Free(active, cap)
           first == Started(queue, n)
           rest == Rest(queue, n)
           longer == Pushed(rest, t)
           free == Free(active + Cardinality(first), cap)
           second == Started(longer, free)
<1>2. /\ QueueTypeOK /\ Orderly(queue) /\ phase \in [Task -> Phases] /\ active \in Nat /\ cap \in Nat
      /\ phase[t] = "ensuring" /\ t # u
      /\ \A x \in Task : phase[x] = "queued" <=> InLine(queue, x)
  BY QueueBounds DEF QueueInv, QueueTypeOK, Enqueue
<1>3. n \in Nat
  BY <1>2, FreeSlots
<1>4. w \in first \/ (w \in second /\ w \notin first)
  BY <1>1, <1>2
<1>5. u \notin first /\ (w \in second /\ w \notin first => u \notin second)
  BY <1>1, <1>2
<1> HIDE DEF n, first
<1>6. first \in SUBSET Task /\ Orderly(rest)
      /\ (\A x \in Task : x \in first => InLine(queue, x))
      /\ \A x \in Task : InLine(rest, x) <=> InLine(queue, x) /\ x \notin first
  BY <1>2, <1>3, LoopStarts DEF first
<1>7. CASE w \in first
  <2>1. Ahead(queue, w, u)
    BY <1>2, <1>3, <1>5, <1>7, LoopInOrder DEF first
  <2>2. QED  BY <1>2, <1>6, <1>7, <2>1
<1>8. CASE w \in second /\ w \notin first
  <2>1. Cardinality(first) \in Nat
    BY <1>6, FiniteTasks
  <2>2. free \in Nat
    <3>1. active + Cardinality(first) \in Nat
      BY <1>2, <2>1
    <3>2. QED  BY <1>2, <3>1, FreeSlots
  <2> HIDE DEF free, rest
  <2>3. ~InLine(rest, t) /\ InLine(rest, u)
    BY <1>2, <1>5, <1>6
  <2>4. Orderly(longer) /\ \A x \in Task : InLine(longer, x) <=> InLine(rest, x) \/ x = t
    BY <1>2, <1>6, <2>3, Joined
  <2>5. InLine(longer, w) /\ w \in Task
    <3> HIDE DEF longer
    <3>1. QED  BY <1>2, <1>8, <2>2, <2>4, LoopStarts
  <2>6. Ahead(longer, w, u)
    <3> HIDE DEF longer
    <3>1. QED  BY <1>2, <1>5, <1>8, <2>2, <2>3, <2>4, LoopInOrder
  <2>7. IF w = t THEN Rank[classOf[w]] < Rank[classOf[u]] ELSE Ahead(rest, w, u)
    BY <1>2, <1>6, <2>3, <2>6, PushedInOrder
  <2>8. CASE w = t
    BY <2>7, <2>8
  <2>9. CASE w # t
    <3>1. Ahead(queue, w, u)
      BY <1>2, <1>3, <2>7, <2>9, RestInOrder DEF rest
    <3>2. phase[w] = "queued"
      BY <1>2, <1>6, <2>4, <2>5, <2>9
    <3>3. QED  BY <3>1, <3>2
  <2>10. QED  BY <2>8, <2>9
<1>9. QED  BY <1>4, <1>7, <1>8

(* A task starts only ahead of those of a lower class and of its own class  *)
(* that came later, for any calls, classes and capacities.                  *)
THEOREM InOrder == Spec => NobodyIsOvertaken
<1>1. ASSUME QueueInv, [Next]_vars, NEW t \in Task, NEW u \in Task,
             phase[t] # "running", phase'[t] = "running", phase[u] = "queued", phase'[u] = "queued"
      PROVE  \/ Rank[classOf[t]] < Rank[classOf[u]]
             \/ /\ classOf[t] = classOf[u]
                /\ \E i, j \in 1 .. Len(queue[classOf[t]]) :
                      i < j /\ queue[classOf[t]][i] = t /\ queue[classOf[t]][j] = u
  <2>1. Process \/ \E x \in Task : Enqueue(x)
    <3>1. phase \in [Task -> Phases]
      BY <1>1 DEF QueueInv, QueueTypeOK
    <3>2. QED
      BY <1>1, <3>1 DEF Next, Call, EnsureFails, WorkerAnswers, BackstopFires, JobEnds, Settle, Deadline,
         Cancel, BeginShutdown, CloseQueue, Tick, vars
  <2>2. Rank[classOf[t]] < Rank[classOf[u]] \/ Ahead(queue, t, u)
    <3>1. CASE Process
      <4> DEFINE n == Free(active, capacity)
      <4>1. /\ QueueTypeOK /\ Orderly(queue) /\ n \in Nat /\ InLine(queue, u)
        BY <1>1, FreeSlots DEF QueueInv, QueueTypeOK
      <4>2. t \in Started(queue, n) /\ u \notin Started(queue, n)
        BY <1>1, <3>1 DEF Process, Dispatch
      <4> HIDE DEF n
      <4>3. QED  BY <4>1, <4>2, LoopInOrder
    <3>2. ASSUME NEW x \in Task, Enqueue(x) PROVE Rank[classOf[t]] < Rank[classOf[u]] \/ Ahead(queue, t, u)
      BY <1>1, <3>2, EnqueueInOrder
    <3>3. QED  BY <2>1, <3>1, <3>2
  <2>3. QED  BY <2>2 DEF Ahead, At
<1>2. QueueInv /\ [Next]_vars =>
        [\A t, u \in Task :
           phase[t] # "running" /\ phase'[t] = "running" /\ phase[u] = "queued" /\ phase'[u] = "queued"
             => \/ Rank[classOf[t]] < Rank[classOf[u]]
                \/ /\ classOf[t] = classOf[u]
                   /\ \E i, j \in 1 .. Len(queue[classOf[t]]) :
                         i < j /\ queue[classOf[t]][i] = t /\ queue[classOf[t]][j] = u]_vars
  BY <1>1
<1>3. Init => QueueInv
  BY QueueInit
<1>4. QueueInv /\ [Next]_vars => QueueInv'
  BY QueueStep
<1>5. QED  BY <1>2, <1>3, <1>4, PTL DEF Spec, NobodyIsOvertaken

-----------------------------------------------------------------------------
(* Why the budget is whole.  A task that has not started has been charged   *)
(* nothing, one that runs has what is left of its limit on its timer, and   *)
(* an answer takes the timer down.                                          *)
Answers == {"none", "done", "error", "closed", "cancelled", "full", "timeout", "unreached"}

Charged(c, at, left, spent, told) ==
  /\ left \in Nat \cup {Off} /\ spent \in Nat /\ spent <= Limit[c] /\ told \in Answers
  /\ at \in {"new", "ensuring", "queued"} => spent = 0
  /\ at \in {"new", "ensuring", "answered"} => left = Off
  /\ at = "queued" => left = Off \/ c = "healthcheck"
  /\ at = "running" => left \in Nat /\ left + spent = Limit[c]
  /\ told # "none" => at = "answered"
  /\ told = "timeout" => spent = Limit[c]
  /\ told = "unreached" => spent = 0 /\ c = "healthcheck"

BudgetTypeOK ==
  /\ classOf \in [Task -> Class] /\ phase \in [Task -> Phases]
  /\ timer \in [Task -> Nat \cup {Off}] /\ ran \in [Task -> Nat] /\ result \in [Task -> Answers]

BudgetInv ==
  /\ QueueInv
  /\ BudgetTypeOK
  /\ \A t \in Task : Charged(classOf[t], phase[t], timer[t], ran[t], result[t])

LEMMA PositiveLimits ==
  ASSUME NEW c \in Class
  PROVE  Limit[c] \in Nat /\ Limit[c] > 0
BY Budgets

(* A run of process() starts each task with its whole limit on its timer.   *)
LEMMA LoopCharges ==
  ASSUME BudgetInv, NEW started, NEW rest, NEW calls, NEW wait,
         Loop(started, rest, calls, wait), UNCHANGED <<classOf, ran>>,
         wait \in [Task -> Nat \cup {Off}], result' \in [Task -> Answers],
         \A u \in started : result'[u] = "none",
         \A u \in Task : Charged(classOf[u], calls[u], wait[u], ran[u], result'[u])
  PROVE  BudgetTypeOK' /\ \A u \in Task : Charged(classOf[u], phase[u], timer[u], ran[u], result[u])'
<1>1. /\ phase' = [u \in Task |-> IF u \in started THEN "running" ELSE calls[u]]
      /\ timer' = [u \in Task |-> IF u \in started THEN Limit[classOf[u]] ELSE wait[u]]
      /\ calls \in [Task -> Phases] /\ \A u \in started : calls[u] = "queued"
  BY DEF Loop, Dispatch
<1>2. classOf \in [Task -> Class] /\ ran \in [Task -> Nat]
  BY DEF BudgetInv, BudgetTypeOK
<1>3. \A u \in Task : Limit[classOf[u]] \in Nat
  BY <1>2, PositiveLimits
<1>4. BudgetTypeOK'
  <2>1. phase' \in [Task -> Phases]
    BY <1>1 DEF Phases
  <2>2. timer' \in [Task -> Nat \cup {Off}]
    BY <1>1, <1>3
  <2>3. QED  BY <1>2, <2>1, <2>2 DEF BudgetTypeOK
<1>5. ASSUME NEW u \in Task
      PROVE  Charged(classOf[u], phase'[u], timer'[u], ran[u], result'[u])
  <2>1. Charged(classOf[u], calls[u], wait[u], ran[u], result'[u])
    OBVIOUS
  <2>2. CASE u \notin started
    BY <1>1, <2>1, <2>2
  <2>3. CASE u \in started
    <3>1. /\ phase'[u] = "running" /\ timer'[u] = Limit[classOf[u]]
          /\ result'[u] = "none" /\ calls[u] = "queued"
      BY <1>1, <2>3
    <3>2. ran[u] = 0
      BY <2>1, <3>1 DEF Charged
    <3>3. QED  BY <1>3, <3>1, <3>2 DEF Charged, Answers
  <2>4. QED  BY <2>2, <2>3
<1>6. QED  BY <1>4, <1>5

(* An answer takes the timer down; "timeout" and "unreached" are told only  *)
(* to those they are true of.                                               *)
LEMMA SettleCharges ==
  ASSUME BudgetInv, NEW t \in Task, NEW why \in Answers, Settle(t, why), UNCHANGED <<classOf, ran>>,
         why = "timeout" => ran[t] = Limit[classOf[t]],
         why = "unreached" => ran[t] = 0 /\ classOf[t] = "healthcheck"
  PROVE  BudgetTypeOK' /\ \A u \in Task : Charged(classOf[u], phase[u], timer[u], ran[u], result[u])'
<1>1. /\ phase' = [phase EXCEPT ![t] = "answered"]
      /\ result' = [result EXCEPT ![t] = why]
      /\ timer' = [timer EXCEPT ![t] = Off]
  BY DEF Settle
<1>2. /\ phase \in [Task -> Phases] /\ result \in [Task -> Answers]
      /\ timer \in [Task -> Nat \cup {Off}] /\ ran \in [Task -> Nat] /\ classOf \in [Task -> Class]
  BY DEF BudgetInv, BudgetTypeOK
<1>3. BudgetTypeOK'
  BY <1>1, <1>2 DEF BudgetTypeOK, Phases
<1>4. ASSUME NEW u \in Task
      PROVE  Charged(classOf[u], phase'[u], timer'[u], ran[u], result'[u])
  <2>1. Charged(classOf[u], phase[u], timer[u], ran[u], result[u])
    BY DEF BudgetInv
  <2>2. CASE u # t
    BY <1>1, <1>2, <2>1, <2>2
  <2>3. CASE u = t
    <3>1. phase'[u] = "answered" /\ result'[u] = why /\ timer'[u] = Off
      BY <1>1, <1>2, <2>3
    <3>2. ran[u] \in Nat /\ ran[u] <= Limit[classOf[u]]
      BY <2>1 DEF Charged
    <3>3. QED  BY <2>3, <3>1, <3>2 DEF Charged
  <2>4. QED  BY <2>2, <2>3
<1>5. QED  BY <1>3, <1>4

LEMMA EnqueueCharges ==
  ASSUME BudgetInv, NEW t \in Task, Enqueue(t)
  PROVE  BudgetTypeOK' /\ \A u \in Task : Charged(classOf[u], phase[u], timer[u], ran[u], result[u])'
<1>1. /\ phase \in [Task -> Phases] /\ result \in [Task -> Answers] /\ classOf \in [Task -> Class]
      /\ timer \in [Task -> Nat \cup {Off}] /\ ran \in [Task -> Nat] /\ QueueInv
      /\ \A u \in Task : Charged(classOf[u], phase[u], timer[u], ran[u], result[u])
  BY DEF BudgetInv, BudgetTypeOK
<1>2. phase[t] = "ensuring" /\ UNCHANGED <<classOf, ran>>
  BY DEF Enqueue
<1>3. PICK joins \in BOOLEAN : \E started, rest :
        /\ Loop(started, rest, Enqueued(t, joins), Waits(t, joins))
        /\ result' = IF joins THEN result
                     ELSE [result EXCEPT ![t] = IF t \in aborted THEN "cancelled" ELSE "full"]
  BY <1>1, EnqueueLoops
<1>4. PICK started, rest :
        /\ Loop(started, rest, Enqueued(t, joins), Waits(t, joins))
        /\ result' = IF joins THEN result
                     ELSE [result EXCEPT ![t] = IF t \in aborted THEN "cancelled" ELSE "full"]
  BY <1>3
<1> DEFINE calls == Enqueued(t, joins)  wait == Waits(t, joins)
<1>5. Limit["healthcheck"] \in Nat /\ \A c \in Class : Limit[c] \in Nat
  BY PositiveLimits DEF Class
<1>6. /\ wait \in [Task -> Nat \cup {Off}]
      /\ \A u \in Task : u # t => wait[u] = timer[u]
      /\ joins => wait[t] = IF classOf[t] = "healthcheck" THEN Limit["healthcheck"] ELSE Off
      /\ ~joins => wait[t] = timer[t]
  BY <1>1, <1>5 DEF Waits
<1>7. /\ result' \in [Task -> Answers]
      /\ \A u \in Task : u # t => result'[u] = result[u]
      /\ joins => result'[t] = result[t]
      /\ ~joins => result'[t] \in {"cancelled", "full"}
  BY <1>1, <1>4 DEF Answers
<1>8. /\ \A u \in Task : u # t => calls[u] = phase[u]
      /\ joins => calls[t] = "queued"
      /\ ~joins => calls[t] = "answered"
  BY <1>1 DEF Enqueued
<1>9. /\ started \in SUBSET Task /\ \A u \in started : calls[u] = "queued"
      /\ Loop(started, rest, calls, wait)
  BY <1>4 DEF Loop
<1> HIDE DEF calls, wait
<1>10. ran[t] = 0 /\ timer[t] = Off /\ result[t] = "none"
  BY <1>1, <1>2 DEF Charged
<1>11. ASSUME NEW u \in Task
       PROVE  Charged(classOf[u], calls[u], wait[u], ran[u], result'[u])
  <2>1. CASE u # t
    BY <1>1, <1>6, <1>7, <1>8, <2>1
  <2>2. CASE u = t /\ joins
    <3>1. calls[u] = "queued" /\ ran[u] = 0 /\ result'[u] = "none" /\ classOf[u] \in Class
      BY <1>1, <1>7, <1>8, <1>10, <2>2
    <3>2. wait[u] \in Nat \cup {Off} /\ (wait[u] = Off \/ classOf[u] = "healthcheck")
      BY <1>5, <1>6, <2>2
    <3>3. QED  BY <1>5, <3>1, <3>2 DEF Charged, Answers
  <2>3. CASE u = t /\ ~joins
    <3>1. /\ calls[u] = "answered" /\ ran[u] = 0 /\ wait[u] = Off /\ classOf[u] \in Class
          /\ result'[u] \in {"cancelled", "full"}
      BY <1>1, <1>6, <1>7, <1>8, <1>10, <2>3
    <3>2. QED  BY <1>5, <3>1 DEF Charged, Answers
  <2>4. QED  BY <2>1, <2>2, <2>3
<1>12. \A u \in started : result'[u] = "none"
  BY <1>9, <1>11 DEF Charged
<1>13. QED  BY <1>2, <1>6, <1>7, <1>9, <1>11, <1>12, LoopCharges

(* A step that moves one call by an answer, or not at all, and no timer.    *)
LEMMA StillCharges ==
  ASSUME BudgetInv, UNCHANGED <<classOf, timer, ran>>, phase' \in [Task -> Phases],
         result' \in [Task -> Answers],
         \A u \in Task : \/ phase'[u] = phase[u] /\ result'[u] = result[u]
                         \/ /\ phase[u] \in {"new", "ensuring"} /\ phase'[u] = "ensuring"
                            /\ result'[u] = result[u]
                         \/ /\ phase[u] \in {"new", "ensuring"} /\ phase'[u] = "answered"
                            /\ result'[u] \in {"closed", "error"}
  PROVE  BudgetTypeOK' /\ \A u \in Task : Charged(classOf[u], phase[u], timer[u], ran[u], result[u])'
<1>1. BudgetTypeOK'
  BY DEF BudgetInv, BudgetTypeOK
<1>2. ASSUME NEW u \in Task
      PROVE  Charged(classOf[u], phase'[u], timer[u], ran[u], result'[u])
  <2>1. Charged(classOf[u], phase[u], timer[u], ran[u], result[u])
    BY DEF BudgetInv
  <2>2. CASE phase'[u] = phase[u] /\ result'[u] = result[u]
    BY <2>1, <2>2
  <2>3. CASE /\ phase[u] \in {"new", "ensuring"} /\ phase'[u] = "ensuring"
             /\ result'[u] = result[u]
    BY <2>1, <2>3 DEF Charged
  <2>4. CASE /\ phase[u] \in {"new", "ensuring"} /\ phase'[u] = "answered"
             /\ result'[u] \in {"closed", "error"}
    BY <2>1, <2>4 DEF Charged, Answers
  <2>5. QED  BY <2>2, <2>3, <2>4
<1>3. QED  BY <1>1, <1>2

LEMMA CloseCharges ==
  ASSUME BudgetInv, CloseQueue
  PROVE  BudgetTypeOK' /\ \A u \in Task : Charged(classOf[u], phase[u], timer[u], ran[u], result[u])'
<1>1. /\ phase' = [t \in Task |-> IF t \in Queued THEN "answered" ELSE phase[t]]
      /\ result' = [t \in Task |-> IF t \in Queued THEN "closed" ELSE result[t]]
      /\ timer' = [t \in Task |-> IF t \in Queued THEN Off ELSE timer[t]]
      /\ UNCHANGED <<classOf, ran>>
  BY DEF CloseQueue
<1>2. /\ phase \in [Task -> Phases] /\ result \in [Task -> Answers]
      /\ timer \in [Task -> Nat \cup {Off}] /\ ran \in [Task -> Nat] /\ classOf \in [Task -> Class]
  BY DEF BudgetInv, BudgetTypeOK
<1>3. BudgetTypeOK'
  BY <1>1, <1>2 DEF BudgetTypeOK, Phases, Answers
<1>4. ASSUME NEW u \in Task
      PROVE  Charged(classOf[u], phase'[u], timer'[u], ran[u], result'[u])
  <2>1. Charged(classOf[u], phase[u], timer[u], ran[u], result[u])
    BY DEF BudgetInv
  <2>2. CASE phase[u] # "queued"
    BY <1>1, <2>1, <2>2 DEF Queued
  <2>3. CASE phase[u] = "queued"
    <3>1. phase'[u] = "answered" /\ result'[u] = "closed" /\ timer'[u] = Off
      BY <1>1, <2>3 DEF Queued
    <3>2. QED  BY <2>1, <3>1 DEF Charged, Answers
  <2>4. QED  BY <2>2, <2>3
<1>5. QED  BY <1>1, <1>3, <1>4

(* Time is taken off the timer of a running task and put on its account.    *)
LEMMA TickCharges ==
  ASSUME BudgetInv, Tick
  PROVE  BudgetTypeOK' /\ \A u \in Task : Charged(classOf[u], phase[u], timer[u], ran[u], result[u])'
<1>1. /\ timer' = [t \in Task |-> Pass(timer[t])]
      /\ ran' = [t \in Task |-> IF phase[t] = "running" THEN ran[t] + 1 ELSE ran[t]]
      /\ UNCHANGED <<classOf, phase, result>> /\ \A t \in Task : timer[t] # 0
  BY DEF Tick
<1>2. /\ timer \in [Task -> Nat \cup {Off}] /\ ran \in [Task -> Nat] /\ classOf \in [Task -> Class]
  BY DEF BudgetInv, BudgetTypeOK
<1>3. \A t \in Task : Pass(timer[t]) \in Nat \cup {Off}
  BY <1>1, <1>2 DEF Pass
<1>4. BudgetTypeOK'
  BY <1>1, <1>2, <1>3 DEF BudgetInv, BudgetTypeOK
<1>5. ASSUME NEW u \in Task
      PROVE  Charged(classOf[u], phase[u], timer'[u], ran'[u], result[u])
  <2>1. Charged(classOf[u], phase[u], timer[u], ran[u], result[u])
    BY DEF BudgetInv
  <2>2. Limit[classOf[u]] \in Nat /\ timer'[u] = Pass(timer[u]) /\ Pass(timer[u]) \in Nat \cup {Off}
    BY <1>1, <1>2, <1>3, PositiveLimits
  <2>3. CASE phase[u] # "running"
    <3>1. ran'[u] = ran[u] /\ (timer[u] = Off => timer'[u] = Off)
      BY <1>1, <2>2, <2>3 DEF Pass
    <3>2. QED  BY <2>1, <2>2, <2>3, <3>1 DEF Charged
  <2>4. CASE phase[u] = "running"
    <3>1. timer[u] \in Nat /\ timer[u] # 0 /\ timer[u] # Off /\ timer[u] + ran[u] = Limit[classOf[u]]
          /\ ran[u] \in Nat /\ result[u] = "none"
      BY <1>1, <2>1, <2>4, Budgets DEF Charged
    <3>2. timer'[u] = timer[u] - 1 /\ ran'[u] = ran[u] + 1
      BY <1>1, <2>2, <2>4, <3>1 DEF Pass
    <3>3. timer'[u] \in Nat /\ ran'[u] \in Nat /\ timer'[u] + ran'[u] = Limit[classOf[u]]
          /\ ran'[u] <= Limit[classOf[u]]
      BY <2>2, <3>1, <3>2
    <3>4. QED  BY <2>4, <3>1, <3>3 DEF Charged, Answers
  <2>5. QED  BY <2>3, <2>4
<1>6. QED  BY <1>1, <1>4, <1>5

LEMMA BudgetInit ==
  ASSUME Init
  PROVE  BudgetInv
<1>1. /\ classOf \in [Task -> Class] /\ phase = [t \in Task |-> "new"]
      /\ result = [t \in Task |-> "none"] /\ timer = [t \in Task |-> Off]
      /\ ran = [t \in Task |-> 0]
  BY TasksHaveAClass DEF Init
<1>2. BudgetTypeOK
  BY <1>1 DEF BudgetTypeOK, Phases, Answers
<1>3. ASSUME NEW t \in Task
      PROVE  Charged(classOf[t], phase[t], timer[t], ran[t], result[t])
  <2>1. Limit[classOf[t]] \in Nat
    BY <1>1, PositiveLimits
  <2>2. QED  BY <1>1, <2>1 DEF Charged, Answers
<1>4. QED  BY <1>2, <1>3, QueueInit DEF BudgetInv

LEMMA BudgetStep ==
  ASSUME BudgetInv, [Next]_vars
  PROVE  BudgetInv'
<1> DEFINE Kept == BudgetTypeOK' /\ \A u \in Task : Charged(classOf[u], phase[u], timer[u], ran[u], result[u])'
<1>1. /\ phase \in [Task -> Phases] /\ result \in [Task -> Answers] /\ QueueInv
      /\ timer \in [Task -> Nat \cup {Off}] /\ classOf \in [Task -> Class]
      /\ \A u \in Task : Charged(classOf[u], phase[u], timer[u], ran[u], result[u])
  BY DEF BudgetInv, BudgetTypeOK
<1>2. ASSUME NEW t \in Task, Call(t)  PROVE  Kept
  <2>1. /\ phase[t] = "new" /\ UNCHANGED <<classOf, timer, ran>>
        /\ \/ phase' = [phase EXCEPT ![t] = "ensuring"] /\ result' = result
           \/ /\ phase' = [phase EXCEPT ![t] = "answered"]
              /\ result' = [result EXCEPT ![t] = "closed"]
    BY <1>2 DEF Call
  <2>2. phase' \in [Task -> Phases] /\ result' \in [Task -> Answers]
    BY <1>1, <2>1 DEF Phases, Answers
  <2>3. QED  BY <1>1, <2>1, <2>2, StillCharges
<1>3. ASSUME NEW t \in Task, EnsureFails(t)  PROVE  Kept
  <2>1. /\ phase[t] = "ensuring" /\ UNCHANGED <<classOf, timer, ran>>
        /\ phase' = [phase EXCEPT ![t] = "answered"]
        /\ result' = [result EXCEPT ![t] = IF mode = "closed" THEN "closed" ELSE "error"]
    BY <1>3 DEF EnsureFails
  <2>2. phase' \in [Task -> Phases] /\ result' \in [Task -> Answers]
    BY <1>1, <2>1 DEF Phases, Answers
  <2>3. QED  BY <1>1, <2>1, <2>2, StillCharges
<1>4. ASSUME NEW t \in Task, Enqueue(t)  PROVE  Kept
  BY <1>4, EnqueueCharges
<1>5. ASSUME NEW t \in Task, NEW why \in {"done", "error"}, JobEnds(t, why)  PROVE  Kept
  <2>1. UNCHANGED <<classOf, ran>>
    BY <1>5 DEF JobEnds
  <2>2. CASE phase[t] = "running"
    <3>1. Settle(t, why)
      BY <1>5, <2>2 DEF JobEnds
    <3>2. QED  BY <2>1, <3>1, SettleCharges DEF Answers
  <2>3. CASE phase[t] # "running"
    <3>1. UNCHANGED <<phase, result, timer>>
      BY <1>5, <2>3 DEF JobEnds
    <3>2. QED  BY <1>1, <2>1, <3>1, StillCharges
  <2>4. QED  BY <2>2, <2>3
<1>6. ASSUME NEW t \in Task, Deadline(t)  PROVE  Kept
  <2>1. timer[t] = 0 /\ timer[t] # Off /\ UNCHANGED <<classOf, ran>>
    BY <1>6, Budgets DEF Deadline
  <2>2. phase[t] \in {"queued", "running"}
    BY <1>1, <2>1 DEF Charged, Phases
  <2>3. CASE phase[t] = "queued"
    <3>1. Settle(t, "unreached") /\ ran[t] = 0 /\ classOf[t] = "healthcheck"
      BY <1>1, <1>6, <2>1, <2>3 DEF Deadline, Charged
    <3>2. QED  BY <2>1, <3>1, SettleCharges DEF Answers
  <2>4. CASE phase[t] = "running"
    <3>1. Settle(t, "timeout")
      BY <1>6, <2>4 DEF Deadline
    <3>2. ran[t] = Limit[classOf[t]]
      <4>1. ran[t] \in Nat /\ 0 + ran[t] = Limit[classOf[t]]
        BY <1>1, <2>1, <2>4 DEF Charged
      <4>2. QED  BY <4>1
    <3>3. QED  BY <2>1, <3>1, <3>2, SettleCharges DEF Answers
  <2>5. QED  BY <2>2, <2>3, <2>4
<1>7. ASSUME NEW t \in Task, Cancel(t)  PROVE  Kept
  <2>1. UNCHANGED <<classOf, ran>>
    BY <1>7 DEF Cancel
  <2>2. CASE UNCHANGED <<phase, result, timer, queue, active, due>>
    BY <1>1, <2>1, <2>2, StillCharges
  <2>3. CASE Settle(t, "cancelled")
    BY <2>1, <2>3, SettleCharges DEF Answers
  <2>4. QED  BY <1>7, <2>2, <2>3 DEF Cancel
<1>8. ASSUME Process  PROVE  Kept
  <2>1. UNCHANGED <<classOf, result, ran>>
    BY <1>8 DEF Process
  <2>2. Loop(Started(queue, Free(active, capacity)), Rest(queue, Free(active, capacity)),
             phase, timer)
    BY <1>1, <1>8, ProcessLoops
  <2>3. PICK started, rest : Loop(started, rest, phase, timer)
    BY <2>2
  <2>4. \A u \in started : u \in Task /\ phase[u] = "queued"
    BY <2>3 DEF Loop
  <2>5. \A u \in started : result[u] = "none"
    BY <1>1, <2>4 DEF Charged
  <2>6. QED  BY <1>1, <2>1, <2>3, <2>5, LoopCharges
<1>9. ASSUME BeginShutdown  PROVE  Kept
  BY <1>1, <1>9, StillCharges DEF BeginShutdown
<1>10. ASSUME CloseQueue  PROVE  Kept
  BY <1>10, CloseCharges
<1>11. ASSUME Tick  PROVE  Kept
  BY <1>11, TickCharges
<1>12. ASSUME UNCHANGED vars  PROVE  Kept
  BY <1>1, <1>12, StillCharges DEF vars
<1>13. Kept
  <2> HIDE DEF Kept
  <2>1. QED
    BY <1>2, <1>3, <1>4, <1>5, <1>6, <1>7, <1>8, <1>9, <1>10, <1>11, <1>12
    DEF Next, WorkerAnswers, BackstopFires
<1>14. QueueInv'
  BY <1>1, QueueStep
<1>15. QED  BY <1>13, <1>14 DEF BudgetInv

(* A deadline charges execution only, and a task that times out has had its *)
(* whole limit on a worker.                                                 *)
THEOREM Budget == Spec => []FullBudget
<1>1. Init => BudgetInv
  BY BudgetInit
<1>2. BudgetInv /\ [Next]_vars => BudgetInv'
  BY BudgetStep
<1>3. BudgetInv => FullBudget
  <2>1. SUFFICES ASSUME BudgetInv, NEW t \in Task
                 PROVE  /\ result[t] = "timeout" => ran[t] = Limit[classOf[t]]
                        /\ result[t] = "unreached" => ran[t] = 0 /\ classOf[t] = "healthcheck"
                        /\ ran[t] =< Limit[classOf[t]]
    BY DEF FullBudget
  <2>2. Charged(classOf[t], phase[t], timer[t], ran[t], result[t])
    BY <2>1 DEF BudgetInv
  <2>3. QED  BY <2>2 DEF Charged
<1>4. QED  BY <1>1, <1>2, <1>3, PTL DEF Spec
=============================================================================
