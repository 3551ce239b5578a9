----------------------------- MODULE EmbedQueue -----------------------------
(***************************************************************************)
(* The leader's embedding endpoint: SerialQueue and EmbeddingServer of     *)
(* infrastructure/embedding/embedding-server.ts.  Every request, local or  *)
(* remote, runs on one native context; the queue lets one in at a time,    *)
(* answers a caller early when its inference is slow, poisons itself when  *)
(* one hangs for good, and the server waits for it before it disposes of   *)
(* the pipeline.                                                           *)
(***************************************************************************)
EXTENDS Integers, Sequences, SequencesExt

CONSTANTS Request,  \* calls of embed() and embedMany()
          MaxDepth, \* maxDepth of the queue
          Hangs,    \* requests whose inference never returns
          Nobody

VARIABLES tasks, running, currentWork, poisoned,   \* the queue's fields
          inside,      \* requests whose native call is in flight
          answer,      \* answer[r]: "none", "waiting", "refused", "timed out", "done"
          server       \* "serving", "closing", "waiting", "disposing", "gone",
                       \* or "abandoned": shut down without disposal

queueVars == <<tasks, running, currentWork, poisoned, inside, answer, server>>

Init ==
  /\ tasks = << >> /\ running = FALSE /\ currentWork = Nobody /\ poisoned = FALSE
  /\ inside = {} /\ answer = [r \in Request |-> "none"] /\ server = "serving"

Answer(rs, a) == answer' = [r \in Request |-> IF r \in rs THEN a ELSE answer[r]]
Begin(r) == inside' = inside \cup {r} /\ currentWork' = r
Admits == server = "serving" /\ ~poisoned /\ Len(tasks) < MaxDepth

(* assertServing(), enqueue(); an idle pump starts the call at once.       *)
Ask(r) ==
  /\ answer[r] = "none"
  /\ \/ ~Admits /\ Answer({r}, "refused") /\ UNCHANGED <<tasks, running, currentWork, inside>>
     \/ Admits /\ ~running /\ Answer({r}, "waiting") /\ running' = TRUE /\ Begin(r)
          /\ UNCHANGED tasks
     \/ Admits /\ running /\ Answer({r}, "waiting") /\ tasks' = Append(tasks, r)
          /\ UNCHANGED <<running, currentWork, inside>>
  /\ UNCHANGED <<poisoned, server>>

(* The native call returns or throws, which no timeout can make it do.     *)
Settle(r) ==
  /\ r \in inside \ Hangs /\ inside' = inside \ {r}
  /\ currentWork' = IF currentWork = r THEN Nobody ELSE currentWork
  /\ IF answer[r] = "waiting" THEN Answer({r}, "done") ELSE UNCHANGED answer
  /\ UNCHANGED <<tasks, running, poisoned, server>>

(* pump(), some microtasks after run() has unwound.                        *)
Pump ==
  /\ running /\ currentWork = Nobody
  /\ IF tasks = << >> THEN running' = FALSE /\ UNCHANGED <<tasks, currentWork, inside>>
     ELSE Begin(Head(tasks)) /\ tasks' = Tail(tasks) /\ UNCHANGED running
  /\ UNCHANGED <<poisoned, answer, server>>

(* Mutant: a caller that stops waiting gives up its slot.                  *)
SoftTimeoutFrees(r) ==
  /\ currentWork = r /\ answer[r] = "waiting" /\ Answer({r}, "timed out")
  /\ currentWork' = Nobody
  /\ UNCHANGED <<tasks, running, poisoned, inside, server>>

SoftTimeout(r) ==
  /\ currentWork = r /\ answer[r] = "waiting" /\ Answer({r}, "timed out")
  /\ UNCHANGED <<tasks, running, currentWork, poisoned, inside, server>>

(* Mutant: what is queued stays queued.                                    *)
HardDeadlineSilent ==
  /\ currentWork # Nobody /\ answer[currentWork] # "waiting"
  /\ ~poisoned /\ poisoned' = TRUE
  /\ server' = IF server = "serving" THEN "abandoned" ELSE server
  /\ UNCHANGED <<tasks, running, currentWork, inside, answer>>

(* poison(): fails what is queued, and the leader steps down as it is.     *)
HardDeadline ==
  /\ currentWork # Nobody /\ answer[currentWork] # "waiting"   \* the soft timeout comes first
  /\ ~poisoned /\ poisoned' = TRUE
  /\ tasks' = << >> /\ Answer(ToSet(tasks), "refused")
  /\ server' = IF server = "serving" THEN "abandoned" ELSE server
  /\ UNCHANGED <<running, currentWork, inside>>

(* shutdown(): leadership lost, configuration changed, process exit.       *)
Shutdown ==
  /\ server = "serving" /\ server' = "closing"
  /\ UNCHANGED <<tasks, running, currentWork, poisoned, inside, answer>>

Closed ==                    \* deregistered, the sockets closed
  /\ server = "closing" /\ server' = "waiting"
  /\ UNCHANGED <<tasks, running, currentWork, poisoned, inside, answer>>

WaitForIdle ==
  /\ server = "waiting" /\ currentWork = Nobody /\ ~running /\ server' = "disposing"
  /\ UNCHANGED <<tasks, running, currentWork, poisoned, inside, answer>>

Disposed ==
  /\ server = "disposing" /\ server' = "gone"
  /\ UNCHANGED <<tasks, running, currentWork, poisoned, inside, answer>>

Timers == HardDeadline \/ \E r \in Request : SoftTimeout(r)
Next ==
  \/ \E r \in Request : Ask(r) \/ Settle(r)
  \/ Pump \/ Timers \/ Shutdown \/ Closed \/ WaitForIdle \/ Disposed

Spec == Init /\ [][Next]_queueVars
Fairness ==
  /\ \A r \in Request : WF_queueVars(Settle(r))
  /\ WF_queueVars(Pump) /\ WF_queueVars(Timers)
  /\ WF_queueVars(Closed) /\ WF_queueVars(WaitForIdle) /\ WF_queueVars(Disposed)
FairSpec == Spec /\ Fairness

-----------------------------------------------------------------------------
(* One native call at a time, the pipeline's disposal counted as one, even *)
(* after soft timeouts, poison and a shutdown in the middle of a batch.    *)
OneNativeCall ==
  /\ \A r, s \in inside : r = s
  /\ server = "disposing" => inside = {}

(* Every caller gets an answer, those queued behind a call that hangs for  *)
(* good included (their own timers are not armed before they start), and a *)
(* shutdown ends unless a call hangs: then it waits until process exit.    *)
EveryoneAnswered ==
  /\ \A r \in Request : []<>(answer[r] # "waiting")
  /\ []<>(server \in {"serving", "abandoned", "gone"} \/ inside \cap Hangs # {})

-----------------------------------------------------------------------------
(* What makes it so: what is inside is what currentWork names, which only  *)
(* a running queue has, and nothing runs once the disposal has begun.      *)
QueueInv ==
  /\ tasks \in Seq(Request) /\ currentWork \in Request \cup {Nobody}
  /\ inside = (IF currentWork = Nobody THEN {} ELSE {currentWork})
  /\ currentWork # Nobody => running
  /\ server \in {"disposing", "gone"} => ~running
=============================================================================
