---------------------------- MODULE ResearcherRun ----------------------------
(***************************************************************************)
(* One round of a deep research run: runResearchers() of                   *)
(* orchestration/research-orchestration-service.ts launches the planned    *)
(* researchers under a concurrency cap, and stops the run early once too   *)
(* many have failed; runResearcher() of orchestration/researcher-          *)
(* executor.ts searches, builds LLM sessions, retries, and gives up by     *)
(* itself where the stop cannot reach it.  The stop waits for a researcher *)
(* only so long: one that is wedged outlives the run, and the record of    *)
(* failures it consults is freed by endResearchSession() (session-state).  *)
(***************************************************************************)
EXTENDS Integers, FiniteSets, Sequences

CONSTANTS Plan,           \* the round's researchers, in launch order
          Unlinked,       \* those the plan-wide search found no links for
          MaxConcurrent, MaxFailed,
          MaxTries        \* RESEARCHER_MAX_RETRIES + 1

Researcher == {Plan[i] : i \in DOMAIN Plan}

VARIABLES
  stage,      \* per researcher: "planned", "searching", "pausing", "building",
              \* "prompting", "cleaning", "backoff", "gone"
  tries,      \* link attempts or attempts of the present loop
  verdict,    \* what its attempt came to, while "cleaning"
  registered, \* researchers whose session abortAllSessions() would find
  aborted,    \* researchers whose present session was aborted from outside
  failed,     \* recorded failures that count toward the threshold
  reports,    \* researchers with a stored report
  launched,   \* position reached in Plan
  round,      \* "launching", "full", "staggering", "stopping", "awaiting",
              \* "draining", then "stopped" or "returned", "told", "ended"
  signal, disposing

roundVars == <<stage, tries, verdict, registered, aborted, failed, reports,
               launched, round, signal, disposing>>

Init ==
  /\ stage = [r \in Researcher |-> "planned"] /\ tries = [r \in Researcher |-> 0]
  /\ verdict = [r \in Researcher |-> "none"]
  /\ registered = {} /\ aborted = {} /\ failed = {} /\ reports = {}
  /\ launched = 0 /\ round = "launching" /\ signal = FALSE /\ disposing = FALSE

-----------------------------------------------------------------------------
Stop == Cardinality(failed) >= MaxFailed        \* shouldStopResearch()
Active == {r \in Researcher : stage[r] \notin {"planned", "gone"}}
runTerminated == round \in {"stopped", "told", "ended"}

Goes(r, to) == stage' = [stage EXCEPT ![r] = to]
Tries(r, n) == tries' = [tries EXCEPT ![r] = n]
Leaves(r) == Goes(r, "gone") /\ Tries(r, 0)
LauncherIdle == UNCHANGED <<launched, round, signal, disposing>>
SessionsAsTheyWere == UNCHANGED <<verdict, registered, aborted, reports>>

(* The wrapper's catch: a cancelled or torn-down researcher did not fail,  *)
(* and neither did one the run has given up on.                            *)
Record(r, counts) ==
  failed' = IF signal \/ disposing \/ runTerminated \/ ~counts THEN failed
            ELSE failed \cup {r}

-----------------------------------------------------------------------------
(* runResearcher(), link by link and attempt by attempt.                   *)

StartOf(r) == IF Stop \/ (disposing /\ r \in Unlinked) THEN "gone"
              ELSE IF r \in Unlinked THEN "searching" ELSE "building"

(* search() resolves: the loop goes on, ends well, or is out of attempts.  *)
(* That last failure is recorded by the executor itself.                   *)
LinksFound(r) ==
  /\ stage[r] = "searching"
  /\ IF signal \/ disposing \/ Stop THEN Leaves(r) ELSE Goes(r, "building") /\ Tries(r, 0)
  /\ UNCHANGED failed /\ SessionsAsTheyWere /\ LauncherIdle

NoLinks(r) ==
  /\ stage[r] = "searching"
  /\ IF signal \/ disposing \/ Stop THEN Leaves(r) /\ UNCHANGED failed
     ELSE IF tries[r] + 1 < MaxTries
          THEN Goes(r, "pausing") /\ Tries(r, tries[r] + 1) /\ UNCHANGED failed
          ELSE Leaves(r) /\ failed' = failed \cup {r}
  /\ SessionsAsTheyWere /\ LauncherIdle

PauseEnds(r) ==
  /\ stage[r] = "pausing"
  /\ IF signal \/ disposing \/ Stop THEN Leaves(r) ELSE Goes(r, "searching") /\ UNCHANGED tries
  /\ UNCHANGED failed /\ SessionsAsTheyWere /\ LauncherIdle

MayAlwaysPrompt == TRUE      \* mutant: the check after the registration is dropped

(* The session exists: registered, and checked once more before prompt().  *)
MayPrompt == ~signal /\ ~Stop
SessionBuilt(r) ==
  /\ stage[r] = "building" /\ ~disposing
  /\ registered' = registered \cup {r} /\ aborted' = aborted \ {r}
  /\ IF MayPrompt THEN Goes(r, "prompting") /\ UNCHANGED verdict
     ELSE Goes(r, "cleaning") /\ verdict' = [verdict EXCEPT ![r] = "quiet"]
  /\ UNCHANGED <<tries, failed, reports>> /\ LauncherIdle

(* createResearcherSession() or getService() throws, past every retry.     *)
BuildFails(r) ==
  /\ stage[r] = "building" /\ Leaves(r) /\ Record(r, TRUE)
  /\ SessionsAsTheyWere /\ LauncherIdle

Cleans(r, v) == Goes(r, "cleaning") /\ verdict' = [verdict EXCEPT ![r] = v]

(* The prompt ends in a report, or in a timeout or error whose partial     *)
(* text is worth keeping.                                                  *)
Reported(r) ==
  /\ stage[r] = "prompting" /\ Cleans(r, "quiet") /\ reports' = reports \cup {r}
  /\ UNCHANGED <<tries, registered, aborted, failed>> /\ LauncherIdle

(* It ends in nothing usable: an aborted session is not retried, nor is an *)
(* error the account cannot retry its way out of; else the next attempt.   *)
CameToNothing(r, counts) ==
  /\ stage[r] = "prompting"
  /\ Cleans(r, IF r \in aborted \/ signal \/ disposing THEN "quiet"
               ELSE IF tries[r] + 1 < MaxTries THEN "retry"
               ELSE IF counts THEN "failed" ELSE "no capacity")
  /\ UNCHANGED <<tries, registered, aborted, failed, reports>> /\ LauncherIdle

Unretriable(r) ==
  /\ stage[r] = "prompting" /\ r \notin aborted /\ ~signal /\ ~disposing
  /\ Cleans(r, "failed")
  /\ UNCHANGED <<tries, registered, aborted, failed, reports>> /\ LauncherIdle

(* The finally: the bounded abort, the session unregistered, and the next  *)
(* attempt's boundary or the end.                                          *)
Cleaned(r) ==
  /\ stage[r] = "cleaning"
  /\ registered' = registered \ {r} /\ aborted' = aborted \ {r}
  /\ verdict' = [verdict EXCEPT ![r] = "none"]
  /\ IF verdict[r] = "retry" /\ ~signal /\ ~Stop
     THEN Goes(r, "backoff") /\ Tries(r, tries[r] + 1) /\ UNCHANGED failed
     ELSE Leaves(r) /\ Record(r, verdict[r] = "failed")
  /\ UNCHANGED reports /\ LauncherIdle

BackoffEnds(r) ==
  /\ stage[r] = "backoff"
  /\ IF signal \/ disposing \/ Stop THEN Leaves(r) ELSE Goes(r, "building") /\ UNCHANGED tries
  /\ UNCHANGED failed /\ SessionsAsTheyWere /\ LauncherIdle

-----------------------------------------------------------------------------
(* runResearchers(): the launch loop.                                      *)
ResearchersAsTheyWere ==
  UNCHANGED <<tries, verdict, registered, aborted, failed, reports, signal, disposing>>

LaunchNext ==
  LET r == Plan[launched + 1]
  IN Goes(r, StartOf(r)) /\ launched' = launched + 1
       /\ round' = IF launched + 1 = Len(Plan) THEN "draining" ELSE "staggering"

Launch ==
  /\ round = "launching"
  /\ IF signal THEN round' = "draining" /\ UNCHANGED <<stage, launched>>
     ELSE IF Stop THEN round' = "stopping" /\ UNCHANGED <<stage, launched>>
     ELSE IF Cardinality(Active) >= MaxConcurrent
          THEN round' = "full" /\ UNCHANGED <<stage, launched>>
     ELSE LaunchNext
  /\ ResearchersAsTheyWere

SlotFrees ==                  \* Promise.race([...active, abort])
  /\ round = "full"
  /\ IF signal THEN round' = "draining" /\ UNCHANGED <<stage, launched>>
     ELSE Cardinality(Active) < MaxConcurrent /\ LaunchNext
  /\ ResearchersAsTheyWere

StaggerEnds ==
  /\ round = "staggering"
  /\ round' = IF signal THEN "draining" ELSE IF Stop THEN "stopping" ELSE "launching"
  /\ UNCHANGED <<stage, launched>> /\ ResearchersAsTheyWere

(* The fast stop: abortAllSessions(), unless the container is going.       *)
AbortSessions ==
  /\ round = "stopping" /\ round' = "awaiting"
  /\ aborted' = IF disposing THEN aborted ELSE aborted \cup registered
  /\ UNCHANGED <<stage, tries, verdict, registered, failed, reports, launched, signal, disposing>>

(* Both waits are bounded: the stop is thrown with researchers at work.    *)
GiveUp ==
  /\ round = "awaiting" /\ round' = "stopped"
  /\ UNCHANGED <<stage, launched>> /\ ResearchersAsTheyWere

Drain ==
  /\ round = "draining" /\ Active = {} /\ round' = "returned"
  /\ UNCHANGED <<stage, launched>> /\ ResearchersAsTheyWere

(* The run's one terminal callback, then its teardown: the sessions still  *)
(* registered are aborted and the record of its failures is freed.         *)
Tell ==
  /\ round \in {"stopped", "returned"} /\ round' = "told"
  /\ UNCHANGED <<stage, launched>> /\ ResearchersAsTheyWere

End ==
  /\ round = "told" /\ round' = "ended" /\ failed' = {}
  /\ aborted' = aborted \cup registered
  /\ UNCHANGED <<stage, tries, verdict, registered, reports, launched, signal, disposing>>

(* The user cancels: every prompt's race rejects at once.                  *)
Cancel ==
  /\ round # "ended" /\ ~signal /\ signal' = TRUE
  /\ stage' = [r \in Researcher |-> IF stage[r] = "prompting" THEN "cleaning" ELSE stage[r]]
  /\ verdict' = [r \in Researcher |-> IF stage[r] = "prompting" THEN "quiet" ELSE verdict[r]]
  /\ UNCHANGED <<tries, registered, aborted, failed, reports, launched, round, disposing>>

Dispose ==                    \* the service container
  /\ ~disposing /\ disposing' = TRUE
  /\ UNCHANGED <<stage, tries, verdict, registered, aborted, failed, reports, launched, round, signal>>

Research(r) ==
  \/ LinksFound(r) \/ NoLinks(r) \/ PauseEnds(r) \/ SessionBuilt(r) \/ BuildFails(r)
  \/ Reported(r) \/ CameToNothing(r, TRUE) \/ CameToNothing(r, FALSE) \/ Unretriable(r)
  \/ Cleaned(r) \/ BackoffEnds(r)

Next ==
  \/ \E r \in Researcher : Research(r)
  \/ Launch \/ SlotFrees \/ StaggerEnds \/ AbortSessions \/ GiveUp \/ Drain
  \/ Tell \/ End \/ Cancel \/ Dispose

Spec == Init /\ [][Next]_roundVars

-----------------------------------------------------------------------------
(* A run that was stopped for its failures has no live LLM call left by    *)
(* the time it says so, sessions built during the stop included; when the  *)
(* services are going down with it, aborting is the container's business.  *)
StoppedMeansQuiet ==
  round \in {"stopped", "told"} /\ Stop /\ ~disposing
    => \A r \in Researcher : stage[r] = "prompting" => r \in aborted

(* What research-orchestration-service.ts promises of a researcher the     *)
(* fast stop has abandoned: its late failure is not recorded, for that     *)
(* would re-create the session entry the end of the run has freed.         *)
NoFailureAfterTheEnd == round = "ended" => failed = {}

-----------------------------------------------------------------------------
(* What makes it so: the inductive invariant, and what it needs of the     *)
(* parameters.                                                             *)
RoundSetting == IsFiniteSet(Researcher) /\ MaxFailed \in Nat

Stage == {"planned", "searching", "pausing", "building", "prompting", "cleaning", "backoff", "gone"}

RoundTyped ==
  /\ stage \in [Researcher -> Stage]
  /\ registered \subseteq Researcher /\ failed \subseteq Researcher

(* Why the launcher is where it is; recorded failures only grow.           *)
StoppedFor ==
  /\ round \in {"stopping", "awaiting", "stopped"} => Stop
  /\ round = "returned" => Active = {}
  /\ round = "told" => Stop \/ Active = {}

(* abortAllSessions() finds every session that prompts.                    *)
Reached ==
  /\ \A r \in Researcher : stage[r] = "prompting" => r \in registered
  /\ round \in {"awaiting", "stopped", "told"} /\ ~disposing
       => \A r \in Researcher : stage[r] = "prompting" => r \in aborted

QuietInv == RoundTyped /\ StoppedFor /\ Reached

(* The ways one researcher moves: its session is built, it leaves its      *)
(* prompt, or it moves with neither.                                       *)
Moves(r, S) == \E to \in S : Goes(r, to)
=============================================================================
