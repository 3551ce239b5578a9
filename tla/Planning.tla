------------------------------- MODULE Planning -------------------------------
(***************************************************************************)
(* The research lead (core/planning-service.ts): the one component that    *)
(* turns what a model answers into what the run does next.  It is asked    *)
(* for a plan in round 1, for a routing decision in the rounds after it,   *)
(* and for the report at the end; each of these is an LLM call that may be *)
(* retried, rate limited, timed out, cancelled, refused, answered in prose *)
(* or answered with a plan that nobody could run.                          *)
(*                                                                         *)
(* A plan is its action and its team, a researcher an id and a number of   *)
(* queries, a report the round and the id it is filed under.  The corpus   *)
(* of the final synthesis is a sequence of entries, each with its size and *)
(* the set of reports it stands for.                                       *)
(***************************************************************************)
EXTENDS Integers, FiniteSets, Sequences, SequencesExt, FiniteSetsExt, Lists

CONSTANTS
  TeamSize, QueryBudget,      \* getTeamSize(complexity), getQueryBudget(complexity)
  MaxRounds, MaxWaits,        \* the round budget, MAX_WAIT_RETRIES
  LlmRetries, MaxDelay,       \* LLM_MAX_RETRIES, RATE_LIMIT_TOTAL_WAIT_MAX_MS in minutes
  Window, MinCorpus,          \* the model's context, MIN_SYNTHESIS_CORPUS_CHARS
  MinPartial, MaxPasses,      \* MIN_PARTIAL_SYNTHESIS_TOKENS, MAX_SYNTHESIS_REDUCE_PASSES
  Sizes,                      \* of a report
  Offered                     \* the teams a model may propose

(* An id is a name and its suffixes: <<1>> is "1", <<1, 2>> is "1-2".      *)
Solo == <<[id |-> <<1>>, queries |-> QueryBudget]>>

VARIABLES
  mode,       \* plan, route, synth
  phase,      \* asking, calling, backoff, repairing, decided, researching, over
  round, waits,
  attempt, slept, repairs,    \* of the call under way
  cancelled,
  stored,     \* currentPlans[sessionId], which is the next call's previousPlan
  plan,       \* what the last call returned
  thrown,     \* what it threw: nothing, hard, aborted
  reports,    \* filed so far
  entries, todo, next, pass   \* the reduce of the final synthesis

planningVars == <<mode, phase, round, waits, attempt, slept, repairs, cancelled, stored, plan, thrown, reports, entries, todo, next, pass>>
call == <<attempt, slept, repairs>>
corpus == <<entries, todo, next, pass>>
run == <<round, waits, reports>>

Plan(action, team, by) == [action |-> action, team |-> team, prose |-> FALSE, by |-> by]
NoPlan == Plan("none", <<>>, "nobody")

Init ==
  /\ mode = "plan" /\ phase = "asking" /\ round = 1 /\ waits = 0
  /\ attempt = 0 /\ slept = 0 /\ repairs = 0 /\ cancelled = FALSE
  /\ stored = NoPlan /\ plan = NoPlan /\ thrown = "nothing"
  /\ reports = {} /\ entries = <<>> /\ todo = <<>> /\ next = <<>> /\ pass = 0

-----------------------------------------------------------------------------
(* Plans.                                                                  *)

(* Only a synthesis may come without researchers.                          *)
Answers == {a \in [action : {"none", "delegate", "synthesize", "wait"}, team : Offered \cup {<<>>}, prose : BOOLEAN] :
              a.prose => a.action = "synthesize"}

(* A colliding id is renumbered with the first suffix that is free.        *)
FirstFree(id, taken) ==
  CHOOSE n \in 2 .. Cardinality(taken) + 2 : Append(id, n) \notin taken /\ \A k \in 2 .. n - 1 : Append(id, k) \in taken

Renumbered(r, taken) == IF r.id \in taken THEN [r EXCEPT !.id = Append(r.id, FirstFree(r.id, taken))] ELSE r

Joining(done, r) == Append(done, Renumbered(r, {d.id : d \in ToSet(done)}))

Unique(team) ==
  LET upTo[n \in 0 .. Len(team)] == IF n = 0 THEN <<>> ELSE Joining(upTo[n - 1], team[n])
  IN  upTo[Len(team)]

(* capResearcherQueries(): who has no query is dropped, the team and the   *)
(* queries are cut, and a delegation to nobody becomes a synthesis.        *)
Capped(p) ==
  LET runnable == Pick(p.team, {i \in DOMAIN p.team : p.team[i].queries > 0})
      team == SubSeq(runnable, 1, Min({TeamSize, Len(runnable)}))
      cut  == [i \in DOMAIN team |-> [team[i] EXCEPT !.queries = Min({@, QueryBudget})]]
  IN  [p EXCEPT !.team = Unique(cut),
                !.action = IF @ = "delegate" /\ cut = <<>> THEN "synthesize" ELSE @]

Fallback == Capped(Plan("delegate", Solo, "engine"))
Deferred == Plan("synthesize", <<>>, "engine")
Agenda == Capped(Plan("delegate", stored.team, "engine"))

-----------------------------------------------------------------------------
(* The corpus of the synthesis.                                            *)

CorpusBudget == Max({MinCorpus, Window - Cardinality(reports)})
SizeOf(es) == FoldLeft(LAMBDA n, e : n + e.size, 0, es)
Stands(es) == UNION {e.stands : e \in ToSet(es)}

(* A report larger than the whole budget is cut to it.                     *)
Truncated(size) == Min({size, CorpusBudget})

(* Greedy and in order; an entry larger than the budget is by itself.      *)
Filled(acc, e) ==
  IF acc.current # <<>> /\ SizeOf(acc.current) + e.size > CorpusBudget
    THEN [full |-> Append(acc.full, acc.current), current |-> <<e>>]
    ELSE [full |-> acc.full, current |-> Append(acc.current, e)]

Partitioned(es) ==
  LET upTo[n \in 0 .. Len(es)] == IF n = 0 THEN [full |-> <<>>, current |-> <<>>] ELSE Filled(upTo[n - 1], es[n])
      last == upTo[Len(es)]
  IN  IF last.current = <<>> THEN last.full ELSE Append(last.full, last.current)

(* The ceiling on one partial pass among n.                                *)
PartialCap(n) == Max({MinPartial, CorpusBudget \div n})

(* Another pass of partial syntheses, or none: then the next call is final.*)
Reduction(es, p) == IF p < MaxPasses /\ Len(Partitioned(es)) > 1 THEN Partitioned(es) ELSE <<>>

-----------------------------------------------------------------------------
(* One call: transport retries first, then the answer or the catch block.  *)

Retriable(failure) == failure \in {"transient", "limited", "stated"} /\ ~cancelled
Degradable(failure) == Retriable(failure) \/ (failure = "timeout" /\ ~cancelled)

(* What the retry waits: seconds, a minute of a shared pool, or what the   *)
(* provider states.                                                        *)
Delay(failure) == CASE failure = "limited" -> 1 [] failure = "stated" -> 3 [] OTHER -> 0

Throw(what) ==
  /\ phase' = "over" /\ thrown' = what /\ plan' = NoPlan
  /\ UNCHANGED <<stored, corpus, call>>

(* A plan to wait is not stored: it has no agenda.                         *)
Return(p) ==
  /\ phase' = "decided" /\ plan' = p /\ thrown' = "nothing"
  /\ stored' = IF p.action = "wait" THEN stored ELSE p
  /\ attempt' = 0 /\ slept' = 0 /\ repairs' = 0
  /\ UNCHANGED corpus

CaughtPlanning(failure) ==
  IF cancelled THEN Throw("aborted") ELSE IF ~Degradable(failure) THEN Throw("hard") ELSE Return(Fallback)

(* The final synthesis degrades whatever happened: there is no round left  *)
(* to protect and every report to lose.                                    *)
CaughtUpdating(failure) ==
  IF cancelled THEN Throw("aborted")
  ELSE IF mode = "route" /\ ~Degradable(failure) THEN Throw("hard")
  ELSE IF mode = "route" /\ stored.team # <<>> THEN Return(Agenda)
  ELSE Return(Deferred)

Caught(failure) == IF mode = "plan" THEN CaughtPlanning(failure) ELSE CaughtUpdating(failure)

Sent == phase = "asking" /\ phase' = "calling" /\ UNCHANGED <<mode, run, call, cancelled, stored, plan, thrown>>

AskPlan == mode = "plan" /\ Sent /\ UNCHANGED corpus

(* With the reports of the last round in full and digests of the others.   *)
AskRoute == mode = "route" /\ Sent /\ UNCHANGED corpus

(* The corpus is prepared before the first call.                           *)
AskReport ==
  /\ mode = "synth" /\ Sent
  /\ \E size \in [reports -> Sizes] :
       LET order == SetToSeq(reports)
           es == [i \in DOMAIN order |-> [size |-> Truncated(size[order[i]]), stands |-> {order[i]}]]
       IN  entries' = es /\ todo' = Reduction(es, 0) /\ next' = <<>> /\ pass' = 0

(* safeGetApiKeyAndHeaders() has no key.                                   *)
NoKey ==
  /\ phase = "asking" /\ Caught("hard")
  /\ UNCHANGED <<mode, run, cancelled>>

CallFails(failure) ==
  /\ phase = "calling"
  /\ IF Retriable(failure) /\ attempt < LlmRetries /\ slept + Delay(failure) <= MaxDelay
       THEN /\ phase' = "backoff" /\ slept' = slept + Delay(failure)
            /\ UNCHANGED <<attempt, repairs, stored, plan, thrown, corpus>>
       ELSE Caught(failure)
  /\ UNCHANGED <<mode, run, cancelled>>

(* An empty or failed answer; the deadline of withTimeout().               *)
NoAnswer == CallFails("transient")
TimesOut == CallFails("timeout")

BackoffEnds ==
  /\ phase = "backoff" /\ ~cancelled
  /\ phase' = "calling" /\ attempt' = attempt + 1
  /\ UNCHANGED <<mode, run, slept, repairs, cancelled, stored, plan, thrown, corpus>>

(* An aborted wait surfaces the failure it waited for.                     *)
BackoffAborted ==
  /\ phase = "backoff" /\ cancelled /\ Caught("transient")
  /\ UNCHANGED <<mode, run, cancelled>>

-----------------------------------------------------------------------------
(* The answer.  An action left out is a delegation, also of a router.      *)

Planned(a) ==
  LET capped == Capped([a EXCEPT !.action = "delegate"])
  IN  Return(IF capped.team = <<>> THEN Fallback ELSE [capped EXCEPT !.action = "delegate", !.prose = FALSE])

Routed(a) ==
  IF a.action \in {"synthesize", "wait"} THEN Return([a EXCEPT !.prose = FALSE])
  ELSE LET capped == Capped([a EXCEPT !.action = "delegate"])
       IN  IF capped.team # <<>> THEN Return(capped)
           ELSE IF stored.team # <<>> /\ Agenda.team # <<>> THEN Return(Agenda)
           ELSE Return(Deferred)

Synthesized(a) == Return([a EXCEPT !.action = "synthesize"])

Decide(a) ==
  LET p == [action |-> a.action, team |-> a.team, prose |-> a.prose, by |-> "model"]
  IN  CASE mode = "plan" -> Planned(p) [] mode = "route" -> Routed(p) [] OTHER -> Synthesized(p)

(* No plan could be made of it, not even after a repair.                   *)
Unusable ==
  CASE mode = "plan" -> Return(Fallback)
    [] mode = "route" /\ stored.team # <<>> -> Return(Agenda)
    [] OTHER -> Return(Deferred)

Answered(a) ==
  /\ phase = "calling" /\ todo = <<>> /\ Decide(a)
  /\ UNCHANGED <<mode, run, cancelled>>

Garbled ==
  /\ phase = "calling" /\ todo = <<>> /\ phase' = "repairing"
  /\ UNCHANGED <<mode, run, call, cancelled, stored, plan, thrown, corpus>>

(* One partial pass of the reduce: its text stands for its partition.      *)
PartialAnswered(size) ==
  /\ phase = "calling" /\ todo # <<>> /\ size <= PartialCap(Len(todo) + Len(next))
  /\ LET out == Append(next, [size |-> size, stands |-> Stands(Head(todo))])
     IN  IF Len(todo) > 1
           THEN /\ todo' = Tail(todo) /\ next' = out /\ UNCHANGED <<entries, pass>>
           ELSE /\ entries' = out /\ pass' = pass + 1 /\ next' = <<>> /\ todo' = Reduction(out, pass + 1)
  /\ attempt' = 0 /\ slept' = 0
  /\ UNCHANGED <<mode, phase, run, repairs, cancelled, stored, plan, thrown>>

-----------------------------------------------------------------------------
(* The repair of an answer that did not parse: two attempts in the budget  *)
(* of one call, none of them after a timeout or a cancellation.            *)

Repaired(a) ==
  /\ phase = "repairing" /\ Decide(a)
  /\ UNCHANGED <<mode, run, cancelled>>

RepairInvalid ==
  /\ phase = "repairing" /\ repairs < 1 /\ ~cancelled
  /\ repairs' = repairs + 1
  /\ UNCHANGED <<mode, phase, run, attempt, slept, cancelled, stored, plan, thrown, corpus>>

RepairEnds ==
  /\ phase = "repairing" /\ Unusable
  /\ UNCHANGED <<mode, run, cancelled>>

-----------------------------------------------------------------------------
(* The rounds, as far as the lead is concerned.                            *)

(* What the next call does not use is forgotten.                           *)
Goes(m) ==
  /\ mode' = m /\ plan' = NoPlan
  /\ IF m = "synth" THEN stored' = NoPlan ELSE UNCHANGED stored
  /\ phase' = IF m = "synth" /\ reports' = {} THEN "over" ELSE "asking"

Researched ==
  /\ phase = "researching" /\ ~cancelled
  /\ \E done \in SUBSET {plan.team[i].id : i \in DOMAIN plan.team} : reports' = reports \cup {[round |-> round, id |-> i] : i \in done}
  /\ round' = round + 1 /\ waits' = 0
  /\ Goes(IF round + 1 < MaxRounds THEN "route" ELSE "synth")
  /\ UNCHANGED <<call, cancelled, thrown, corpus>>

Delegates ==
  /\ phase = "decided" /\ mode # "synth" /\ plan.action \notin {"synthesize", "wait"} /\ ~cancelled
  /\ phase' = "researching"
  /\ UNCHANGED <<mode, run, call, cancelled, stored, plan, thrown, corpus>>

Waits ==
  /\ phase = "decided" /\ mode = "route" /\ plan.action = "wait" /\ ~cancelled
  /\ waits' = waits + 1
  /\ UNCHANGED <<round, reports, call, cancelled, thrown, corpus>>
  /\ Goes(IF waits < MaxWaits THEN "route" ELSE "synth")

Finishes ==
  /\ phase = "decided" /\ mode = "route" /\ plan.action = "synthesize" /\ ~cancelled
  /\ UNCHANGED <<run, call, cancelled, thrown, corpus>>
  /\ Goes("synth")

Reported ==
  /\ \/ /\ phase = "decided" /\ mode = "synth"
     \/ /\ phase \in {"decided", "researching"} /\ cancelled
  /\ phase' = "over"
  /\ UNCHANGED <<mode, run, call, cancelled, stored, plan, thrown, corpus>>

Cancel ==
  /\ phase # "over" /\ ~cancelled /\ cancelled' = TRUE
  /\ UNCHANGED <<mode, phase, run, call, stored, plan, thrown, corpus>>

Next ==
  \/ AskPlan \/ AskRoute \/ AskReport \/ NoKey \/ NoAnswer \/ TimesOut \/ BackoffEnds \/ BackoffAborted \/ Garbled \/ RepairInvalid \/ RepairEnds
  \/ \E f \in {"limited", "stated", "hard"} : CallFails(f)
  \/ \E a \in Answers : Answered(a) \/ Repaired(a)
  \/ \E n \in 1 .. Window : PartialAnswered(n)
  \/ Researched \/ Delegates \/ Waits \/ Finishes \/ Reported \/ Cancel

Spec == Init /\ [][Next]_planningVars
-----------------------------------------------------------------------------
Runnable(team) ==
  /\ Len(team) \in 1 .. TeamSize
  /\ \A i \in DOMAIN team : team[i].queries \in 1 .. QueryBudget
  /\ \A i, j \in DOMAIN team : team[i].id = team[j].id => i = j

(* Whatever the model answers, what is delegated can be run: a team within *)
(* its size and budget whose reports do not overwrite one another.  Round  *)
(* 1 delegates, the last call synthesizes, and prose of a router, which    *)
(* has not read the findings, is never the report.                         *)
PlansAreRunnable ==
  phase = "decided" =>
    /\ plan.action \notin {"synthesize", "wait"} => Runnable(plan.team)
    /\ mode = "plan" => plan.action = "delegate"
    /\ mode = "route" => ~plan.prose
    /\ mode = "synth" => plan.action = "synthesize"

(* No failure, timeout or useless answer of a router ends the research:    *)
(* there is an agenda to go on with, however many waits, fallbacks and     *)
(* renumbered teams lie behind, and only the model's own word ends it.     *)
NeverCutShort ==
  /\ mode = "route" /\ phase \notin {"researching", "over", "decided"} => Runnable(stored.team)
  /\ mode = "route" /\ phase = "decided" /\ plan.action = "synthesize" => plan.by = "model"

(* The final call stands for every report filed: no order of partial       *)
(* passes, retries and sizes loses a partition on the way.                 *)
EveryFindingReachesTheReport ==
  mode = "synth" /\ phase = "calling" => Stands(next) \cup (UNION {Stands(es) : es \in ToSet(todo)}) \cup (IF todo = <<>> THEN Stands(entries) ELSE {}) = reports

(* What the planner promises the run.                                      *)
LeadKeepsTheRun == PlansAreRunnable /\ NeverCutShort /\ EveryFindingReachesTheReport

-----------------------------------------------------------------------------
(* What makes it so.                                                       *)
Researcher == [id : Seq(Int), queries : Int]

PlanningSetting ==
  /\ TeamSize \in Nat \ {0} /\ QueryBudget \in Nat \ {0}
  /\ Window \in Int /\ MinCorpus \in Int /\ Sizes \subseteq Int
  /\ Offered \subseteq Seq(Researcher)

(* A function from the beginnings of a list can be computed step by step.  *)
Steps(S, T) == [S \X T -> S]
Computable(S, F, a, s) == \E g \in [0 .. Len(s) -> S] : g[0] = a /\ \A n \in 1 .. Len(s) : g[n] = F[<<g[n - 1], s[n]>>]

(* One more researcher: an id nobody has, the queries as they were.        *)
IdsDiffer(team) == \A i, j \in DOMAIN team : team[i].id = team[j].id => i = j

(* What is made of a team can be run, or is no team.                       *)
Team(p) == p.team \in Seq(Researcher)
Actions == {"none", "delegate", "synthesize", "wait"}
Plans == [action : Actions, team : Seq(Researcher), prose : BOOLEAN, by : {"nobody", "engine", "model"}]

(* The parts of a corpus stand for what it stands for.                     *)
Entry == [size : Int, stands : SUBSET ([round : Int, id : Seq(Int)])]
Covers(parts) == UNION {Stands(es) : es \in ToSet(parts)}

Filling == [full : Seq(Seq(Entry)), current : Seq(Entry)]
Held(acc) == Covers(acc.full) \cup Stands(acc.current)

Filed == [round : Int, id : Seq(Int)]
Phases == {"asking", "calling", "backoff", "repairing", "decided", "researching", "over"}

LeadTyped ==
  /\ mode \in {"plan", "route", "synth"} /\ phase \in Phases /\ round \in Int
  /\ stored \in Plans /\ plan \in Plans
  /\ reports \in SUBSET Filed /\ IsFiniteSet(reports)
  /\ entries \in Seq(Entry) /\ next \in Seq(Entry) /\ todo \in Seq(Seq(Entry))

(* There is an agenda to go on with, whenever there may be need of it.     *)
AgendaKept ==
  /\ mode = "route" /\ phase \in {"asking", "calling", "backoff", "repairing"} => Runnable(stored.team)
  /\ phase = "decided" /\ mode # "synth" /\ plan.action # "synthesize" => Runnable(stored.team)
  /\ phase = "researching" => mode # "synth" /\ Runnable(stored.team)

(* What a call may return.                                                 *)
Fit(m, p) ==
  /\ p.action \notin {"synthesize", "wait"} => Runnable(p.team)
  /\ m = "plan" => p.action = "delegate"
  /\ m = "route" => ~ p.prose /\ (p.action = "synthesize" => p.by = "model")
  /\ m = "synth" => p.action = "synthesize"

InHand == Stands(next) \cup Covers(todo) \cup (IF todo = << >> THEN Stands(entries) ELSE {})
CorpusKept == mode = "synth" /\ phase \in {"calling", "backoff"} => InHand = reports

LeadKept == LeadTyped /\ AgendaKept /\ (phase = "decided" => Fit(mode, plan)) /\ CorpusKept
=============================================================================
