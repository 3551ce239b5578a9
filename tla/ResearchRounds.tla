---------------------------- MODULE ResearchRounds ----------------------------
(***************************************************************************)
(* DeepResearchOrchestrator.run() of orchestration/deep-research-          *)
(* orchestrator.ts: rounds of planning and research, a budget that queued  *)
(* steering messages extend, a router that may ask to wait, rounds lost to *)
(* a provider's outage, the final synthesis, and the catch that turns what *)
(* was collected into a report.  A run says how it went by events, which   *)
(* SDK consumers count: round_start and exactly one of complete and error. *)
(***************************************************************************)
EXTENDS Integers

CONSTANTS BaseRounds,   \* getMaxRounds(complexity)
          MaxExtra,     \* MAX_EXTRA_ROUNDS_WITH_STEERING
          MaxWaits,     \* MAX_WAIT_RETRIES
          MaxMessages   \* bound: steering messages the user sends

VARIABLES
  doing,       \* "idle", "entering", "deciding", "sleeping", "researching",
               \* "concluding", "writing", "throwing", "over"
  currentRound, maxRounds, waitRetryCount, capacityOnlyRounds,
  extra,       \* totalSteeringExtraRounds
  lastAnnouncedRound, routerChoseSynthesis,
  queued,      \* steering messages not yet consumed
  sent,        \* messages sent so far, to bound them
  hasReports,
  failures,    \* recorded failures: "none", "capacity" only, "quality" too
  cancelled,   \* the run's signal
  starts, lastStart,    \* round_start events, and the number the last one named
  completes, errors,    \* terminal callbacks
  unbuilt      \* history: the report of a run that threw could not be built

roundsVars == <<doing, currentRound, maxRounds, waitRetryCount, capacityOnlyRounds,
                extra, lastAnnouncedRound, routerChoseSynthesis, queued, sent,
                hasReports, failures, cancelled, starts, lastStart, completes, errors,
                unbuilt>>

budget == <<maxRounds, extra>>
events == <<starts, lastStart, completes, errors, unbuilt>>
user == <<queued, sent, cancelled>>
collected == <<hasReports, failures>>
counters == <<waitRetryCount, capacityOnlyRounds>>
Least(m, n) == IF m < n THEN m ELSE n

Init ==
  /\ doing = "idle" /\ currentRound = 0 /\ maxRounds = BaseRounds
  /\ waitRetryCount = 0 /\ capacityOnlyRounds = 0 /\ extra = 0
  /\ lastAnnouncedRound = 0 /\ routerChoseSynthesis = FALSE
  /\ queued = 0 /\ sent = 0 /\ cancelled = FALSE
  /\ hasReports = FALSE /\ failures = "none"
  /\ starts = 0 /\ lastStart = 0 /\ completes = 0 /\ errors = 0 /\ unbuilt = FALSE

-----------------------------------------------------------------------------
Steer ==
  /\ sent < MaxMessages /\ doing # "over" /\ sent' = sent + 1 /\ queued' = queued + 1
  /\ UNCHANGED <<doing, currentRound, budget, counters, lastAnnouncedRound,
                 routerChoseSynthesis, cancelled, collected, events>>

Cancel ==
  /\ ~cancelled /\ doing \notin {"idle", "over"} /\ cancelled' = TRUE
  /\ UNCHANGED <<doing, currentRound, budget, counters, lastAnnouncedRound,
                 routerChoseSynthesis, queued, sent, collected, events>>

(* consumeQueuedMessages(), and the rounds it buys up to the cap.          *)
Consume ==
  LET more == Least(queued, MaxExtra - extra)
  IN queued' = 0 /\ maxRounds' = maxRounds + more /\ extra' = extra + more

Begin ==
  /\ doing = "idle" /\ doing' = "entering" /\ Consume
  /\ UNCHANGED <<currentRound, counters, lastAnnouncedRound, routerChoseSynthesis,
                 sent, cancelled, collected, events>>

Announce(n) ==
  starts' = starts + 1 /\ lastStart' = n /\ UNCHANGED <<completes, errors, unbuilt>>

(* Mutant: every entry of the loop announces its round.                    *)
EnterLoudly ==
  /\ doing = "entering" /\ ~cancelled /\ currentRound < maxRounds
  /\ currentRound' = currentRound + 1 /\ Consume
  /\ doing' = "deciding" /\ Announce(currentRound') /\ lastAnnouncedRound' = currentRound'
  /\ UNCHANGED <<counters, routerChoseSynthesis, sent, cancelled, collected>>

(* The loop's head, to the first await: the round cap, then the event,     *)
(* which a round entered again after a wait does not repeat.  (The loop is *)
(* always left by a break: its own bound is never reached.)                *)
Enter ==
  /\ doing = "entering" /\ ~cancelled /\ currentRound < maxRounds
  /\ currentRound' = currentRound + 1 /\ Consume
  /\ IF currentRound' > 1 /\ currentRound' >= maxRounds'
     THEN doing' = "concluding" /\ UNCHANGED <<lastAnnouncedRound, events>>
     ELSE /\ doing' = "deciding"
          /\ IF currentRound' > lastAnnouncedRound
             THEN Announce(currentRound') /\ lastAnnouncedRound' = currentRound'
             ELSE UNCHANGED <<lastAnnouncedRound, events>>
  /\ UNCHANGED <<counters, routerChoseSynthesis, sent, cancelled, collected>>

(* generatePlan() and updatePlanForRound(): only round 2 and later are     *)
(* routed, the first always delegates.                                     *)
DecidedToFinish ==
  /\ doing = "deciding" /\ currentRound > 1
  /\ routerChoseSynthesis' = TRUE /\ doing' = "concluding"
  /\ UNCHANGED <<currentRound, budget, counters, lastAnnouncedRound, user, collected, events>>

(* Mutant: the router may ask to wait as often as it likes.                *)
DecidedToWaitAgain ==
  /\ doing = "deciding" /\ currentRound > 1 /\ currentRound < maxRounds
  /\ doing' = "sleeping"
  /\ UNCHANGED <<currentRound, budget, counters, lastAnnouncedRound,
                 routerChoseSynthesis, user, collected, events>>

DecidedToWait ==
  /\ doing = "deciding" /\ currentRound > 1 /\ currentRound < maxRounds
  /\ waitRetryCount' = waitRetryCount + 1
  /\ doing' = IF waitRetryCount' > MaxWaits THEN "concluding"
              ELSE IF cancelled THEN "throwing" ELSE "sleeping"
  /\ UNCHANGED <<currentRound, budget, capacityOnlyRounds, lastAnnouncedRound,
                 routerChoseSynthesis, user, collected, events>>

WaitEnds ==                  \* the timer, or the cancel's rejection
  /\ doing = "sleeping"
  /\ IF cancelled THEN doing' = "throwing" /\ UNCHANGED currentRound
     ELSE doing' = "entering" /\ currentRound' = currentRound - 1
  /\ UNCHANGED <<budget, counters, lastAnnouncedRound, routerChoseSynthesis,
                 user, collected, events>>

(* shouldStopResearch() is consulted before the round's search burst.      *)
DecidedToDelegate ==
  /\ doing = "deciding"
  /\ IF currentRound >= maxRounds THEN doing' = "concluding" /\ UNCHANGED waitRetryCount
     ELSE waitRetryCount' = 0
            /\ \/ doing' = "researching"
               \/ failures = "quality" /\ doing' = "throwing"
  /\ UNCHANGED <<currentRound, budget, capacityOnlyRounds, lastAnnouncedRound,
                 routerChoseSynthesis, user, collected, events>>

(* runResearchers() returns: with a report, or after failures of a kind.   *)
(* A second round in a row lost to capacity alone ends the run, and so may *)
(* failures that count: the fast stop throws with what was collected.      *)
Researched(found, failed) ==
  /\ doing = "researching" /\ hasReports' = (hasReports \/ found)
  /\ failures' = IF "quality" \in {failures, failed} THEN "quality"
                 ELSE IF failed = "none" THEN failures ELSE failed
  /\ capacityOnlyRounds' = IF ~found /\ failures' = "capacity" THEN capacityOnlyRounds + 1 ELSE 0
  /\ doing' \in IF cancelled \/ capacityOnlyRounds' > 1 THEN {"throwing"}
                ELSE IF failures' = "quality" THEN {"entering", "throwing"} ELSE {"entering"}
  /\ UNCHANGED <<currentRound, budget, waitRetryCount, lastAnnouncedRound,
                 routerChoseSynthesis, user, events>>

(* The final synthesis is announced at the round the loop stopped on.      *)
Conclude ==
  /\ doing = "concluding"
  /\ IF ~hasReports /\ failures # "none"
     THEN doing' = "throwing" /\ UNCHANGED <<events, queued>>
     ELSE /\ doing' = "writing" /\ queued' = 0
          /\ IF ~routerChoseSynthesis /\ currentRound > lastAnnouncedRound
             THEN Announce(currentRound) ELSE UNCHANGED events
  /\ UNCHANGED <<currentRound, budget, counters, lastAnnouncedRound, routerChoseSynthesis,
                 sent, cancelled, collected>>

Complete == doing' = "over" /\ completes' = completes + 1 /\ UNCHANGED errors
Fail == doing' = "over" /\ errors' = errors + 1 /\ UNCHANGED completes

(* An empty synthesis is made up from the reports; without any it throws.  *)
Written(empty) ==
  /\ doing = "writing"
  /\ IF empty /\ ~hasReports THEN doing' = "throwing" /\ UNCHANGED <<completes, errors>>
     ELSE Complete
  /\ UNCHANGED <<currentRound, budget, counters, lastAnnouncedRound, routerChoseSynthesis,
                 user, collected, starts, lastStart, unbuilt>>

(* Whatever is awaited may reject, and a cancelled run throws at the top.  *)
Throw ==
  /\ \/ doing \in {"deciding", "researching", "concluding", "writing"}
     \/ doing = "entering" /\ cancelled
  /\ doing' = "throwing"
  /\ UNCHANGED <<currentRound, budget, counters, lastAnnouncedRound, routerChoseSynthesis,
                 user, collected, events>>

(* The catch: what was collected is made into a report; a run with nothing *)
(* to show for it fails.                                                   *)
Caught ==
  /\ doing = "throwing" /\ IF hasReports THEN Complete ELSE Fail
  /\ UNCHANGED <<currentRound, budget, counters, lastAnnouncedRound, routerChoseSynthesis,
                 user, collected, starts, lastStart, unbuilt>>

(* The catch in the catch: the synthesis service cannot be had (its        *)
(* container is being disposed) or fails to make a report.                 *)
FallbackFails ==
  /\ doing = "throwing" /\ Fail /\ unbuilt' = TRUE
  /\ UNCHANGED <<currentRound, budget, counters, lastAnnouncedRound, routerChoseSynthesis,
                 user, collected, starts, lastStart>>

Rounds ==
  \/ Enter \/ DecidedToFinish \/ DecidedToWait \/ WaitEnds \/ DecidedToDelegate
  \/ \E found \in BOOLEAN, failed \in {"none", "capacity", "quality"} : Researched(found, failed)
  \/ Conclude \/ (\E empty \in BOOLEAN : Written(empty)) \/ Throw \/ Caught
  \/ FallbackFails
Next == Begin \/ Rounds \/ Steer \/ Cancel

Spec == Init /\ [][Next]_roundsVars
Fairness == WF_roundsVars(Rounds)
FairSpec == Spec /\ Fairness

-----------------------------------------------------------------------------
(* What a run announces adds up: round_start names 1, 2, 3, ... each once, *)
(* through waits, extensions and the synthesis that announces itself; the  *)
(* run ends in one terminal callback, and in onError only when there is    *)
(* nothing to show for it: what was collected is handed over, unless even  *)
(* the fallback report cannot be built, which the catch tries once.        *)
OneOutcome ==
  /\ starts = lastStart
  /\ completes + errors = IF doing = "over" THEN 1 ELSE 0
  /\ errors > 0 => ~hasReports \/ unbuilt

(* A run that has begun ends: a router that keeps asking to wait, a user   *)
(* who keeps steering and a provider that stays down cannot hold it open.  *)
RunEnds == []<>(doing \in {"idle", "over"})

-----------------------------------------------------------------------------
(* What makes it so.  The numbers are numbers, and a round that is under   *)
(* way has been announced: only the one that concludes may be one ahead.   *)
Numbers ==
  /\ currentRound \in Int /\ lastAnnouncedRound \in Int /\ starts \in Int
  /\ completes \in Nat /\ errors \in Nat
Announced ==
  /\ starts = lastStart
  /\ doing \in {"idle", "entering", "deciding", "sleeping", "researching"} =>
       starts = lastAnnouncedRound /\ currentRound <= lastAnnouncedRound
  /\ doing = "concluding" => starts = lastAnnouncedRound /\ currentRound <= starts + 1
OneEnd ==
  /\ doing # "over" => completes = 0 /\ errors = 0
  /\ doing = "over" => completes + errors = 1
  /\ errors > 0 => ~hasReports \/ unbuilt
RoundsInv == Numbers /\ Announced /\ OneEnd
=============================================================================
