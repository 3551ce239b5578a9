------------------------------ MODULE BrowserCalls ------------------------------
(***************************************************************************)
(* Browser tasks of a follower process and the leaders it sends them to:   *)
(* runBrowserTask() and runWorkerSearch() (task-execution-service.ts), the *)
(* HTTP client and the leader's server (browser-client.ts, browser-        *)
(* server.ts).  The process caches one client; a task that meets a leader  *)
(* in handover, or a broken socket, recovers and tries again, each kind    *)
(* from a budget of its own.  A restart within the last ten seconds is not *)
(* repeated while the registered leader is alive, and the answer to that   *)
(* question is shared for a second.                                        *)
(***************************************************************************)
EXTENDS Integers, FiniteSets

CONSTANTS
  Call,        \* tasks of the process
  MaxLeaders,  \* bound: leaders elected; the last of them stays
  Handovers,   \* LEADER_HANDOVER_RETRIES
  Retries      \* retries, 1 in the code

Leader == 1..MaxLeaders

VARIABLES
  leader,     \* of a leader: none, serving, draining, dead
  registered, \* the leader that the state file names, 0 for none
  handle,     \* the cached client's target (of the leader process itself: its own scheduler), 0 for none
  cooling,    \* lastRestartTime is less than RESTART_COOLDOWN_MS ago
  verdict,    \* leaderLivenessProbe: none, alive, gone
  phase,      \* of a call: ready, sent, handover, restart, pause, done
  target,     \* the leader its request went to, or where its last attempt found nobody listening
  spent,      \* of a call: [handovers, retries]
  aborted,    \* calls whose signal fired while they recover
  work,       \* <<call, leader>>: tasks at work on the leader's side
  lost,       \* those whose client has closed its socket
  misled,     \* history: calls that believed a verdict about a leader that was gone
  wasted      \* history: calls sent again to the dead leader they had just met

taskVars == <<leader, registered, handle, cooling, verdict, phase, target, spent, aborted, work, lost, misled, wasted>>
world == <<leader, registered>>
cached == <<handle, cooling, verdict>>
history == <<misled, wasted>>

Zero == [handovers |-> 0, retries |-> 0]

Init ==
  /\ leader = [l \in Leader |-> IF l = 1 THEN "serving" ELSE "none"] /\ registered = 1
  /\ handle = 0 /\ cooling = FALSE /\ verdict = "none"
  /\ phase = [c \in Call |-> "ready"] /\ target = [c \in Call |-> 0]
  /\ spent = [c \in Call |-> Zero] /\ aborted = {}
  /\ work = {} /\ lost = {} /\ misled = {} /\ wasted = {}

Go(c, p) == phase' = [phase EXCEPT ![c] = p]
Alive(l) == l # 0 /\ leader[l] = "serving"
Elected == {l \in Leader : leader[l] = "none" /\ \A k \in Leader : k < l => leader[k] # "none"}

(* The call settles; what it kept is gone.                                 *)
End(c) ==
  /\ Go(c, "done") /\ target' = [target EXCEPT ![c] = 0] /\ spent' = [spent EXCEPT ![c] = Zero]

-----------------------------------------------------------------------------
(* The follower.                                                           *)

(* getScheduler(): the cached client, or the registered leader if it       *)
(* lives, or a fresh election.  The request goes out.                      *)
Send(c) ==
  /\ phase[c] = "ready"
  /\ \E l \in IF handle # 0 THEN {handle} ELSE IF Alive(registered) THEN {registered} ELSE Elected :
       /\ handle' = l /\ target' = [target EXCEPT ![c] = l]
       /\ IF handle = 0 /\ ~Alive(registered)
          THEN leader' = [leader EXCEPT ![l] = "serving"] /\ registered' = l ELSE UNCHANGED world
       /\ wasted' = IF l = target[c] THEN wasted \cup {c} ELSE wasted
       /\ work' = IF leader'[l] = "serving" THEN work \cup {<<c, l>>} ELSE work
  /\ Go(c, "sent")
  /\ UNCHANGED <<cooling, verdict, spent, aborted, lost, misled>>

(* The leader's answer arrives.                                            *)
Answered(c) ==
  /\ phase[c] = "sent" /\ <<c, target[c]>> \in work
  /\ work' = work \ {<<c, target[c]>>} /\ End(c)
  /\ UNCHANGED <<world, cached, aborted, lost, history>>

(* The catch: a handover first, from its own budget; then the one retry of *)
(* anything transient; then the error is the caller's.                     *)
Caught(c, why) ==
  LET again(p, budget) == /\ Go(c, p) /\ spent' = [spent EXCEPT ![c] = budget]
                          /\ target' = [target EXCEPT ![c] = IF why = "corpse" THEN @ ELSE 0]
  IN  IF why = "shutdown" /\ spent[c].handovers < Handovers
      THEN again("handover", [spent[c] EXCEPT !.handovers = @ + 1])
      ELSE IF spent[c].retries < Retries
      THEN again(IF why = "shutdown" THEN "pause" ELSE "restart", [spent[c] EXCEPT !.retries = @ + 1])
      ELSE End(c)

(* The leader refuses (draining), drops the task with its pool (shutdown), *)
(* or its socket is broken or nobody listens.                              *)
Fails(c, why) ==
  LET l == target[c]
  IN  /\ phase[c] = "sent"
      /\ \/ /\ why = "draining" /\ leader[l] = "draining" /\ <<c, l>> \notin work
         \/ /\ why = "shutdown" /\ leader[l] = "draining" /\ <<c, l>> \in work
         \/ /\ why = "socket" /\ leader[l] = "serving" /\ <<c, l>> \in work
         \/ /\ why = "corpse" /\ leader[l] = "dead"
      /\ Caught(c, why)
      /\ work' = IF why = "shutdown" THEN work \ {<<c, l>>} ELSE work
      /\ lost' = IF why = "socket" /\ <<c, l>> \in work THEN lost \cup {<<c, l>>} ELSE lost
      /\ UNCHANGED <<world, cached, aborted, history>>

(* A task's own timeout, or the client's patience with a leader that is    *)
(* silent: never retried; the socket is closed.                            *)
TimesOut(c) ==
  /\ phase[c] = "sent" /\ End(c)
  /\ lost' = IF <<c, target[c]>> \in work THEN lost \cup {<<c, target[c]>>} ELSE lost
  /\ UNCHANGED <<world, cached, aborted, work, history>>

(* The caller's signal: a request under way is dropped at once, a recovery *)
(* is finished first.                                                      *)
Abort(c) ==
  /\ phase[c] # "done" /\ c \notin aborted
  /\ IF phase[c] \in {"ready", "sent"} THEN End(c) /\ UNCHANGED aborted
     ELSE aborted' = aborted \cup {c} /\ UNCHANGED <<phase, target, spent>>
  /\ lost' = IF phase[c] = "sent" /\ <<c, target[c]>> \in work THEN lost \cup {<<c, target[c]>>} ELSE lost
  /\ UNCHANGED <<world, cached, work, history>>

(* recoverFromLeaderHandover(): the cached client is dropped.              *)
Handover(c) ==
  /\ phase[c] = "handover" /\ handle' = 0 /\ Go(c, "pause")
  /\ UNCHANGED <<world, cooling, verdict, target, spent, aborted, work, lost, history>>

(* isRegisteredLeaderAliveUncached(): a leader is registered, it is the    *)
(* one the client aims at, and it lives.                                   *)
Probe == IF Alive(registered) /\ handle \in {0, registered} THEN "alive" ELSE "gone"

(* Mutant: a recent restart is enough, nobody asks whether it came to      *)
(* anything.                                                               *)
RestartUnasked(c) ==
  /\ phase[c] = "restart" /\ Go(c, "pause")
  /\ IF cooling THEN UNCHANGED <<handle, cooling>> ELSE handle' = 0 /\ cooling' = TRUE
  /\ UNCHANGED <<world, verdict, target, spent, aborted, work, lost, history>>

(* restartSchedulerWithHerdGuard().                                        *)
Restart(c) ==
  LET asked == IF verdict = "none" THEN Probe ELSE verdict
  IN  /\ phase[c] = "restart" /\ Go(c, "pause")
      /\ verdict' = IF cooling THEN asked ELSE verdict
      /\ IF cooling /\ asked = "alive" THEN UNCHANGED <<handle, cooling>> ELSE handle' = 0 /\ cooling' = TRUE
      /\ misled' = IF cooling /\ asked = "alive" /\ Probe = "gone" THEN misled \cup {c} ELSE misled
      /\ UNCHANGED <<world, target, spent, aborted, work, lost, wasted>>

(* Where it does restart, and cannot read who is registered, the handle has *)
(* been let go of and the task fails with the error of that read, its       *)
(* retry unused.                                                            *)
RestartFails(c) ==
  LET asked == IF verdict = "none" THEN Probe ELSE verdict
  IN  /\ phase[c] = "restart" /\ ~(cooling /\ asked = "alive") /\ End(c)
      /\ verdict' = IF cooling THEN asked ELSE verdict
      /\ handle' = 0 /\ cooling' = TRUE /\ aborted' = aborted \ {c}
      /\ UNCHANGED <<world, work, lost, history>>

Resume(c) ==
  /\ phase[c] = "pause" /\ aborted' = aborted \ {c}
  /\ IF c \in aborted THEN End(c) ELSE Go(c, "ready") /\ UNCHANGED <<target, spent>>
  /\ UNCHANGED <<world, cached, work, lost, history>>

CooldownEnds ==
  /\ cooling /\ cooling' = FALSE
  /\ UNCHANGED <<world, handle, verdict, phase, target, spent, aborted, work, lost, history>>

VerdictExpires ==
  /\ verdict # "none" /\ verdict' = "none"
  /\ UNCHANGED <<world, handle, cooling, phase, target, spent, aborted, work, lost, history>>

-----------------------------------------------------------------------------
(* The leader.                                                             *)

(* 'close' before the response is complete aborts the task.                *)
Cancel(c, l) ==
  /\ <<c, l>> \in lost /\ lost' = lost \ {<<c, l>>} /\ work' = work \ {<<c, l>>}
  /\ UNCHANGED <<world, cached, phase, target, spent, aborted, history>>

(* beginDrain(): work under way goes on, new requests are refused.         *)
Drain(l) ==
  /\ leader[l] = "serving" /\ l < MaxLeaders /\ leader' = [leader EXCEPT ![l] = "draining"]
  /\ registered' = IF registered = l THEN 0 ELSE registered
  /\ UNCHANGED <<cached, phase, target, spent, aborted, work, lost, history>>

(* It exits, or is killed: its registration stays when it is killed.       *)
Die(l) ==
  /\ leader[l] \in {"serving", "draining"} /\ l < MaxLeaders /\ leader' = [leader EXCEPT ![l] = "dead"]
  /\ work' = {w \in work : w[2] # l} /\ lost' = {w \in lost : w[2] # l}
  /\ UNCHANGED <<registered, cached, phase, target, spent, aborted, history>>

Next ==
  \/ \E c \in Call : \/ Send(c) \/ Answered(c) \/ TimesOut(c) \/ Abort(c) \/ Handover(c)
                     \/ Restart(c) \/ RestartFails(c) \/ Resume(c)
                     \/ \E why \in {"shutdown", "draining", "socket", "corpse"} : Fails(c, why)
  \/ CooldownEnds \/ VerdictExpires
  \/ \E l \in Leader : Drain(l) \/ Die(l)
  \/ \E w \in lost : Cancel(w[1], w[2])

Spec == Init /\ [][Next]_taskVars

-----------------------------------------------------------------------------
(* A retry never goes back to the dead leader that failed the attempt      *)
(* before it ("the exact stale-handle failure"), unless a verdict at most  *)
(* a second old said it was alive; and a leader never works on for a       *)
(* caller that has gone, past the moment it sees the closed socket.        *)
RetriesReachSomebody ==
  /\ wasted \subseteq misled
  /\ \A w \in work : w \in lost \/ (phase[w[1]] = "sent" /\ target[w[1]] = w[2])

-----------------------------------------------------------------------------
(* What makes it so.                                                       *)
CallsSetting == MaxLeaders \in Nat \ {0}

CallsTyped ==
  /\ leader \in [Leader -> {"none", "serving", "draining", "dead"}]
  /\ registered \in 0 .. MaxLeaders /\ handle \in 0 .. MaxLeaders
  /\ phase \in [Call -> {"ready", "sent", "handover", "restart", "pause", "done"}]
  /\ target \in [Call -> 0 .. MaxLeaders] /\ work \subseteq Call \X Leader

(* A call that recovers keeps no leader in mind but a dead one, and once   *)
(* it has asked for a restart the client no longer aims there, unless a    *)
(* verdict misled it.                                                      *)
Recovers(c) ==
  target[c] # 0 =>
    /\ phase[c] \in {"sent", "restart", "pause", "ready"}
    /\ phase[c] # "sent" => leader[target[c]] = "dead"
    /\ phase[c] \in {"pause", "ready"} => handle # target[c] \/ c \in misled

CallsInv ==
  /\ CallsTyped /\ RetriesReachSomebody
  /\ \A c \in Call : Recovers(c) /\ (phase[c] = "sent" => target[c] # 0)
  /\ \A w \in work : leader[w[2]] \in {"serving", "draining"}
=============================================================================
