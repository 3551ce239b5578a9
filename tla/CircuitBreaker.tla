--------------------------- MODULE CircuitBreaker ---------------------------
(***************************************************************************)
(* utils/circuit-breaker.ts, through which the browser tasks, the store,   *)
(* and the clients of the web services make their calls. Calls overlap:    *)
(* one that was admitted in one state of the breaker settles in another.   *)
(***************************************************************************)
EXTENDS Integers, FiniteSets

CONSTANTS Trial,             \* calls of execute() that may overlap
          FailureThreshold,
          HalfOpenMaxCalls

VARIABLES circuit, failureCount, successCount, halfOpenInFlight,
          cooled,    \* nextAttemptTime has passed
          trial,     \* per call: "idle", "plain" or "probe" (admittedAsProbe)
          healthy,   \* the dependency answers from now on
          stragglers \* calls in flight since before that

breakerVars == <<circuit, failureCount, successCount, halfOpenInFlight, cooled, trial, healthy, stragglers>>

Init ==
  /\ circuit = "CLOSED" /\ failureCount = 0 /\ successCount = 0 /\ halfOpenInFlight = 0
  /\ cooled = FALSE /\ trial = [c \in Trial |-> "idle"] /\ healthy = FALSE /\ stragglers = {}

(* The admission of execute(). A call that is refused changes nothing.     *)
Execute(c) ==
  LET opens == circuit = "OPEN" /\ cooled
      now == IF opens THEN "HALF_OPEN" ELSE circuit
      inFlight == IF opens THEN 0 ELSE halfOpenInFlight
  IN /\ trial[c] = "idle" /\ now # "OPEN"
     /\ now = "HALF_OPEN" => inFlight < HalfOpenMaxCalls
     /\ circuit' = now
     /\ successCount' = IF opens THEN 0 ELSE successCount
     /\ halfOpenInFlight' = IF now = "HALF_OPEN" THEN inFlight + 1 ELSE inFlight
     /\ trial' = [trial EXCEPT ![c] = IF now = "HALF_OPEN" THEN "probe" ELSE "plain"]
     /\ UNCHANGED <<failureCount, cooled, healthy, stragglers>>

(* transitionTo() for a call that settles, and its finally.                *)
Trip == circuit' = "OPEN" /\ cooled' = FALSE /\ UNCHANGED successCount
Stay == UNCHANGED <<circuit, cooled, successCount>>
Settle(c) ==
  /\ trial[c] # "idle" /\ trial' = [trial EXCEPT ![c] = "idle"]
  /\ halfOpenInFlight' = IF trial[c] = "probe" /\ halfOpenInFlight > 0
                         THEN halfOpenInFlight - 1 ELSE halfOpenInFlight
  /\ stragglers' = stragglers \ {c} /\ UNCHANGED healthy

(* onSuccess(): a call admitted before the outage is no evidence.          *)
Succeed(c) ==
  /\ Settle(c)
  /\ \/ /\ circuit = "HALF_OPEN" /\ trial[c] = "probe"
        /\ IF successCount + 1 >= HalfOpenMaxCalls
           THEN circuit' = "CLOSED" /\ failureCount' = 0 /\ successCount' = 0
           ELSE successCount' = successCount + 1 /\ UNCHANGED <<circuit, failureCount>>
        /\ UNCHANGED cooled
     \/ circuit = "HALF_OPEN" /\ trial[c] # "probe" /\ Stay /\ UNCHANGED failureCount
     \/ circuit = "CLOSED" /\ failureCount' = 0 /\ Stay
     \/ circuit = "OPEN" /\ Stay /\ UNCHANGED failureCount

MayFail(c) == ~healthy \/ c \in stragglers

(* onFailure(). The count only matters while CLOSED, where it is below the *)
(* threshold: above it is kept at it.                                      *)
Fail(c) ==
  /\ MayFail(c) /\ Settle(c)
  /\ failureCount' = IF failureCount = FailureThreshold THEN failureCount ELSE failureCount + 1
  /\ IF circuit = "HALF_OPEN" \/ (circuit = "CLOSED" /\ failureCount' = FailureThreshold)
     THEN Trip ELSE Stay

(* Mutant: an inconclusive probe leaves the breaker as it is, and its slot *)
(* taken.                                                                  *)
FailUnnoticed(c) ==
  /\ MayFail(c) /\ trial[c] # "idle" /\ trial' = [trial EXCEPT ![c] = "idle"]
  /\ stragglers' = stragglers \ {c}
  /\ UNCHANGED <<circuit, failureCount, successCount, halfOpenInFlight, cooled, healthy>>

(* An error that isTransientError does not count: a draining pool, a block,*)
(* a timeout. From a probe it is inconclusive.                             *)
FailUncounted(c) ==
  /\ MayFail(c) /\ Settle(c)
  /\ IF trial[c] = "probe" /\ circuit = "HALF_OPEN" THEN Trip ELSE Stay
  /\ UNCHANGED failureCount

CoolDown == circuit = "OPEN" /\ ~cooled /\ cooled' = TRUE
            /\ UNCHANGED <<circuit, failureCount, successCount, halfOpenInFlight, trial, healthy, stragglers>>

Reset ==
  /\ ~healthy
  /\ circuit' = "CLOSED" /\ failureCount' = 0 /\ successCount' = 0 /\ halfOpenInFlight' = 0
  /\ cooled' = TRUE /\ UNCHANGED <<trial, healthy, stragglers>>

Heal == ~healthy /\ healthy' = TRUE /\ stragglers' = {c \in Trial : trial[c] # "idle"}
        /\ UNCHANGED <<circuit, failureCount, successCount, halfOpenInFlight, cooled, trial>>

Next ==
  \/ \E c \in Trial : Execute(c) \/ Succeed(c) \/ Fail(c) \/ FailUncounted(c)
  \/ CoolDown \/ Reset \/ Heal

(* Every call settles, the reset timeout passes, and calls keep coming.    *)
Fairness ==
  /\ \A c \in Trial : WF_breakerVars(Succeed(c) \/ Fail(c)) /\ WF_breakerVars(Execute(c))
  /\ WF_breakerVars(CoolDown)

Spec == Init /\ [][Next]_breakerVars
FairSpec == Spec /\ Fairness

-----------------------------------------------------------------------------
(* Once the dependency answers again the breaker closes, and stays closed, *)
(* whatever mix of counted and uncounted failures, probes and stragglers   *)
(* the outage left behind: it is never pinned in HALF_OPEN.                *)
RecoversWhenHealthy == <>[](healthy => circuit = "CLOSED")
=============================================================================
