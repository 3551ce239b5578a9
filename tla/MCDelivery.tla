----------------------------- MODULE MCDelivery -----------------------------
(***************************************************************************)
(* What happens between a question and its answer, and who may see it:     *)
(* the browser's worker and its pages, the calls for pages and searches,   *)
(* the lead's planning, the quick run, the knowledge store's readers, the  *)
(* front-ends and the settings.  Each keeps its own state and shares none  *)
(* with another; one behaviour is about one of them, its `subject'.  Those *)
(* that keep lists of what they owe an answer for are here, each with what *)
(* holds of it, the others in Workings; what holds of all of them at the   *)
(* end.                                                                    *)
(***************************************************************************)
EXTENDS Workings

CONSTANTS
  TeamSize, QueryBudget, MaxRounds, MaxWaits, LlmRetries, MaxDelay, Window,     \* Planning
  MinCorpus, MinPartial, MaxPasses, ReportSizes, Offered,
  Search, Headless, QueriesOf, RowsOf, MaxCandidates, MaxDocuments, MaxChars,   \* KnowledgeSearch
  MinRest, MaxAttempts, Indices, TextSizes,
  Asker, Link, MaxItems, MaxUrls, ScrapeLimit, ScrapeLanes, CacheSize, Blocked, \* ScrapeCall
  SteeredRun, SteeringMessage, BoxCap,                                          \* Steering
  QuickMessage, Cited, MaxEntries                                               \* QuickRun, of the same links

-----------------------------------------------------------------------------
(* The research lead.                                                      *)
VARIABLES
  leadMode, leadPhase, leadRound, leadWaits, leadAttempt, leadSlept,
  leadRepairs, leadCancelled, leadStored, leadPlan, leadThrown, leadReports,
  leadEntries, leadTodo, leadNext, leadPass
Lead == INSTANCE Planning WITH
  mode <- leadMode, phase <- leadPhase, round <- leadRound,
  waits <- leadWaits, attempt <- leadAttempt, slept <- leadSlept,
  repairs <- leadRepairs, cancelled <- leadCancelled, stored <- leadStored,
  plan <- leadPlan, thrown <- leadThrown, reports <- leadReports,
  entries <- leadEntries, todo <- leadTodo, next <- leadNext,
  pass <- leadPass, TeamSize <- TeamSize, QueryBudget <- QueryBudget,
  MaxRounds <- MaxRounds, MaxWaits <- MaxWaits, LlmRetries <- LlmRetries,
  MaxDelay <- MaxDelay, Window <- Window, MinCorpus <- MinCorpus,
  MinPartial <- MinPartial, MaxPasses <- MaxPasses, Sizes <- ReportSizes,
  Offered <- Offered
leadVars == <<leadMode, leadPhase, leadRound, leadWaits, leadAttempt, leadSlept,
  leadRepairs, leadCancelled, leadStored, leadPlan, leadThrown, leadReports,
  leadEntries, leadTodo, leadNext, leadPass>>

(* What the proofs need of its parameters.                                 *)
ASSUME PlanningSettingHolds == Lead!PlanningSetting

(* Induction over the natural numbers, for a set of them.                  *)
LEMMA SetInduction ==
  ASSUME NEW S, 0 \in S, \A n \in Nat : n \in S => n + 1 \in S
  PROVE  Nat \subseteq S
<1> SUFFICES ASSUME Nat \ S # {} PROVE FALSE
  OBVIOUS
<1>1. PICK x \in Nat \ S : \A y \in Nat \ S : x <= y
  BY Lead!Least
<1>2. x - 1 \in Nat /\ x - 1 \notin S
  BY <1>1
<1> QED
  BY <1>1, <1>2

LEMMA Folding ==
  ASSUME NEW S, NEW T, NEW F \in Lead!Steps(S, T), NEW a \in S, NEW s \in Seq(T)
  PROVE  Lead!Computable(S, F, a, s)
<1> DEFINE Computed(m, g) == g[0] = a /\ \A n \in 1 .. m : g[n] = F[<<g[n - 1], s[n]>>]
           P == {m \in Nat : m <= Len(s) => \E g \in [0 .. m -> S] : Computed(m, g)}
<1>0. Len(s) \in Nat /\ (\A n \in 1 .. Len(s) : s[n] \in T) /\ F \in [S \X T -> S]
  BY DEF Lead!Steps
<1>1. 0 \in P
  <2>1. [n \in 0 .. 0 |-> a] \in [0 .. 0 -> S] /\ Computed(0, [n \in 0 .. 0 |-> a])
    OBVIOUS
  <2> QED
    BY <2>1
<1>2. ASSUME NEW m \in Nat, m \in P PROVE m + 1 \in P
  <2>0. ASSUME m + 1 <= Len(s) PROVE \E g \in [0 .. m + 1 -> S] : Computed(m + 1, g)
    <3>0. m <= Len(s) /\ m + 1 \in 1 .. Len(s) /\ m \in 0 .. m
      BY <1>0, <2>0
    <3> HIDE DEF Computed
    <3>1. PICK g \in [0 .. m -> S] : Computed(m, g)
      BY <1>2, <3>0
    <3>2. s[m + 1] \in T /\ g[m] \in S
      BY <1>0, <3>0, <3>1
    <3>3. F[<<g[m], s[m + 1]>>] \in S
      BY <1>0, <3>2
    <3> DEFINE h == [n \in 0 .. m + 1 |-> IF n = m + 1 THEN F[<<g[m], s[m + 1]>>] ELSE g[n]]
    <3>4. \A n \in 0 .. m + 1 : n = m + 1 \/ (n \in 0 .. m /\ n # m + 1)
      OBVIOUS
    <3>5. h \in [0 .. m + 1 -> S]
      BY <3>1, <3>3, <3>4
    <3>6. g[0] = a /\ \A n \in 1 .. m : g[n] = F[<<g[n - 1], s[n]>>]
      BY <3>1 DEF Computed
    <3>7. h[0] = a
      BY <3>6
    <3>8. ASSUME NEW n \in 1 .. m + 1 PROVE h[n] = F[<<h[n - 1], s[n]>>]
      <4>1. CASE n = m + 1
        <5>1. m \in 0 .. m + 1 /\ m # m + 1 /\ n \in 0 .. m + 1 /\ n - 1 = m
          BY <4>1
        <5>2. h[n] = F[<<g[m], s[m + 1]>>] /\ h[m] = g[m]
          BY <4>1, <5>1
        <5> QED
          BY <4>1, <5>1, <5>2
      <4>2. CASE n # m + 1
        <5>1. n \in 1 .. m /\ n \in 0 .. m + 1 /\ n - 1 \in 0 .. m + 1 /\ n - 1 # m + 1
          BY <4>2
        <5>2. h[n] = g[n] /\ h[n - 1] = g[n - 1]
          BY <4>2, <5>1
        <5> QED
          BY <3>6, <5>1, <5>2
      <4> QED
        BY <4>1, <4>2
    <3>9. Computed(m + 1, h)
      <4> HIDE DEF h
      <4> QED BY <3>7, <3>8 DEF Computed
    <3> HIDE DEF h
    <3> QED
      BY <3>5, <3>9
  <2> HIDE DEF Computed
  <2> QED
    BY <2>0
<1>3. Nat \subseteq P
  <2> HIDE DEF P
  <2> QED BY <1>1, <1>2, SetInduction
<1>4. Len(s) \in P
  BY <1>0, <1>3
<1>5. \E g \in [0 .. Len(s) -> S] : Computed(Len(s), g)
  <2> HIDE DEF Computed
  <2> QED BY <1>0, <1>4
<1> QED
  BY <1>5 DEF Lead!Computable

LEMMA Span ==
  ASSUME NEW n \in Nat
  PROVE  Lead!Cardinality(2 .. n + 2) = n + 1 /\ Lead!IsFiniteSet(2 .. n + 2)
<1>1. 2 \in Int /\ n + 2 \in Int /\ ~ (2 > n + 2)
  OBVIOUS
<1>2. Lead!Cardinality(2 .. n + 2) = (n + 2) - 2 + 1 /\ Lead!IsFiniteSet(2 .. n + 2)
  BY <1>1, Lead!FS_Interval
<1> QED
  BY <1>2

(* A suffix is free: more are tried than there are ids to collide with.    *)
LEMMA FreeSuffix ==
  ASSUME NEW id \in Seq(Int), NEW taken, Lead!IsFiniteSet(taken)
  PROVE  Lead!FirstFree(id, taken) \in Int /\ Append(id, Lead!FirstFree(id, taken)) \notin taken
<1> DEFINE c == Lead!Cardinality(taken)
           N == 2 .. c + 2
           T == {n \in N : Append(id, n) \notin taken}
<1>0. c \in Nat
  BY Lead!FS_CardinalityType
<1>1. T # {}
  <2> SUFFICES ASSUME \A n \in N : Append(id, n) \in taken PROVE FALSE
    OBVIOUS
  <2> DEFINE f == [n \in N |-> Append(id, n)]
  <2>1. \A m, n \in N : Append(id, m) = Append(id, n) => m = n
    <3> SUFFICES ASSUME NEW m \in N, NEW n \in N, Append(id, m) = Append(id, n) PROVE m = n
      OBVIOUS
    <3>1. m \in Int /\ n \in Int
      BY <1>0
    <3>2. Append(id, m)[Len(id) + 1] = m /\ Append(id, n)[Len(id) + 1] = n
      BY <3>1
    <3> QED
      BY <3>2
  <2>2. f \in [N -> taken]
    OBVIOUS
  <2>3. Lead!Cardinality(N) = c + 1 /\ Lead!IsFiniteSet(N)
    <3> HIDE DEF c, f, T
    <3> QED
      BY <1>0, Span
  <2>4. \A m, n \in N : f[m] = f[n] => m = n
    BY <2>1
  <2>5. Lead!Cardinality(taken) < Lead!Cardinality(N)
    BY <1>0, <2>3
  <2> HIDE DEF f, N, c
  <2> QED
    BY <2>2, <2>3, <2>4, <2>5, Lead!FS_PigeonHole
<1>2. PICK x \in T : \A y \in T : x <= y
  <2>1. T \in SUBSET Nat
    BY <1>0
  <2> HIDE DEF T
  <2> QED BY <1>1, <2>1, Lead!Least
<1>3. \A k \in 2 .. x - 1 : Append(id, k) \in taken
  <2> SUFFICES ASSUME NEW k \in 2 .. x - 1, Append(id, k) \notin taken PROVE FALSE
    OBVIOUS
  <2>1. k \in N /\ ~ (x <= k)
    BY <1>0
  <2> QED
    BY <1>2, <2>1
<1>4. x \in N /\ Append(id, x) \notin taken
  BY <1>2
<1>5. Lead!FirstFree(id, taken) \in N /\ Append(id, Lead!FirstFree(id, taken)) \notin taken
  BY <1>3, <1>4 DEF Lead!FirstFree
<1> QED
  BY <1>0, <1>5

LEMMA OneJoins ==
  ASSUME NEW done \in Seq(Lead!Researcher), NEW r \in Lead!Researcher
  PROVE  /\ Lead!Joining(done, r) \in Seq(Lead!Researcher)
               /\ Len(Lead!Joining(done, r)) = Len(done) + 1
         /\ Lead!IdsDiffer(done) => Lead!IdsDiffer(Lead!Joining(done, r))
         /\ \A i \in 1 .. Len(done) : Lead!Joining(done, r)[i] = done[i]
         /\ Lead!Joining(done, r)[Len(done) + 1].queries = r.queries
<1> DEFINE taken == {d.id : d \in Lead!ToSet(done)}
           new == Lead!Renumbered(r, taken)
<1>1. Lead!IsFiniteSet(taken)
  <2>1. Lead!IsFiniteSet(Lead!ToSet(done))
    <3>1. Lead!ToSet(done) = Lead!Range(done)
      BY DEF Lead!ToSet, Lead!Range
    <3> QED
      BY <3>1, Lead!Counted
  <2> DEFINE f == [d \in Lead!ToSet(done) |-> d.id]
  <2>2. f \in Lead!Surjection(Lead!ToSet(done), taken)
    BY DEF Lead!Surjection
  <2> HIDE DEF f, taken
  <2> QED
    BY <2>1, <2>2, Lead!FS_Surjection
<1>2. \A i \in 1 .. Len(done) : done[i].id \in taken
  BY DEF Lead!ToSet
<1> HIDE DEF taken
<1>3. new \in Lead!Researcher /\ new.id \notin taken /\ new.queries = r.queries
  <2>1. r.id \in Seq(Int) /\ r.queries \in Int
    BY DEF Lead!Researcher
  <2>2. CASE r.id \notin taken
    BY <2>2 DEF Lead!Renumbered
  <2>3. CASE r.id \in taken
    <3> DEFINE id == Append(r.id, Lead!FirstFree(r.id, taken))
    <3>1. id \in Seq(Int) /\ id \notin taken
      BY <1>1, <2>1, FreeSuffix
    <3>2. new = [r EXCEPT !.id = id]
      BY <2>3 DEF Lead!Renumbered
    <3> HIDE DEF id, new
    <3>3. new = [id |-> id, queries |-> r.queries]
      BY <3>2 DEF Lead!Researcher
    <3> QED
      BY <2>1, <3>1, <3>3 DEF Lead!Researcher
  <2> QED
    BY <2>2, <2>3
<1>4. Lead!Joining(done, r) = Append(done, new)
  BY DEF Lead!Joining, taken
<1> HIDE DEF new
<1> DEFINE j == Lead!Joining(done, r)
<1>5. /\ j \in Seq(Lead!Researcher) /\ Len(j) = Len(done) + 1 /\ DOMAIN j = 1 .. Len(done) + 1
            /\ Len(done) \in Nat /\ DOMAIN done = 1 .. Len(done)
      /\ \A i \in 1 .. Len(done) : j[i] = done[i]
      /\ j[Len(done) + 1] = new
  BY <1>3, <1>4
<1> HIDE DEF j
<1>6. ASSUME Lead!IdsDiffer(done) PROVE Lead!IdsDiffer(j)
  <2> SUFFICES ASSUME NEW a \in 1 .. Len(done) + 1, NEW b \in 1 .. Len(done) + 1,
     j[a].id = j[b].id PROVE a = b
    BY <1>5 DEF Lead!IdsDiffer
  <2>1. CASE a \in 1 .. Len(done) /\ b \in 1 .. Len(done)
    BY <1>5, <1>6, <2>1 DEF Lead!IdsDiffer
  <2>2. CASE a = Len(done) + 1 /\ b \in 1 .. Len(done)
    BY <1>2, <1>3, <1>5, <2>2
  <2>3. CASE b = Len(done) + 1 /\ a \in 1 .. Len(done)
    BY <1>2, <1>3, <1>5, <2>3
  <2> QED
    BY <1>5, <2>1, <2>2, <2>3
<1> QED
  BY <1>3, <1>5, <1>6 DEF j

LEMMA Uniqueness ==
  ASSUME NEW team \in Seq(Lead!Researcher)
  PROVE  /\ Lead!Unique(team) \in Seq(Lead!Researcher) /\ Len(Lead!Unique(team)) = Len(team)
               /\ Lead!IdsDiffer(Lead!Unique(team))
         /\ \A i \in 1 .. Len(team) : Lead!Unique(team)[i].queries = team[i].queries
<1> DEFINE S == Seq(Lead!Researcher)
           F == [p \in S \X Lead!Researcher |-> Lead!Joining(p[1], p[2])]
           Step(f) == [n \in 0 .. Len(team) |-> IF n = 0 THEN << >>
              ELSE Lead!Joining(f[n - 1], team[n])]
           u == CHOOSE f : f = Step(f)
<1>0. Len(team) \in Nat /\ \A n \in 1 .. Len(team) : team[n] \in Lead!Researcher
  OBVIOUS
<1>1. Lead!Unique(team) = u[Len(team)]
  BY DEF Lead!Unique
<1>2. u = Step(u)
  <2>1. F \in [S \X Lead!Researcher -> S]
    BY OneJoins
  <2>2. << >> \in S
    OBVIOUS
  <2>3. \A d \in S, r \in Lead!Researcher : F[<<d, r>>] = Lead!Joining(d, r)
    OBVIOUS
  <2>4. PICK g \in [0 .. Len(team) -> S] : g[0] = << >>
           /\ \A n \in 1 .. Len(team) : g[n] = F[<<g[n - 1], team[n]>>]
    <3>1. team \in Seq(Lead!Researcher) /\ F \in Lead!Steps(S, Lead!Researcher)
      BY <2>1 DEF Lead!Steps
    <3> HIDE DEF S, F
    <3>2. Lead!Computable(S, F, << >>, team)
      BY <2>2, <3>1, Folding
    <3> QED
      BY <3>2 DEF Lead!Computable
  <2>5. ASSUME NEW n \in 0 .. Len(team)
     PROVE g[n] = IF n = 0 THEN << >> ELSE Lead!Joining(g[n - 1], team[n])
    <3>1. CASE n = 0
      BY <2>4, <3>1
    <3>2. CASE n # 0
      <4>1. n \in 1 .. Len(team) /\ n - 1 \in 0 .. Len(team)
        BY <1>0, <3>2
      <4>2. g[n - 1] \in S /\ team[n] \in Lead!Researcher
        BY <1>0, <2>4, <4>1
      <4> HIDE DEF S, F
      <4> QED
        BY <2>3, <2>4, <3>2, <4>1, <4>2
    <3> QED
      BY <3>1, <3>2
  <2>6. g = [n \in 0 .. Len(team) |-> g[n]]
    BY <2>4
  <2>7. g = Step(g)
    BY <2>5, <2>6
  <2> QED
    BY <2>7
<1> HIDE DEF u
<1>3. u[0] = << >> /\ \A n \in 1 .. Len(team) : u[n] = Lead!Joining(u[n - 1], team[n])
  BY <1>0, <1>2
<1> DEFINE Good(n) == /\ u[n] \in Seq(Lead!Researcher) /\ Len(u[n]) = n /\ Lead!IdsDiffer(u[n])
                      /\ \A i \in 1 .. n : u[n][i].queries = team[i].queries
           P == {n \in Nat : n <= Len(team) => Good(n)}
<1>4. 0 \in P
  <2>1. << >> \in Seq(Lead!Researcher) /\ Len(<< >>) = 0 /\ DOMAIN << >> = {}
    OBVIOUS
  <2>2. \A i \in 1 .. 0 : FALSE
    OBVIOUS
  <2>3. Good(0)
    BY <1>3, <2>1, <2>2 DEF Lead!IdsDiffer
  <2> QED
    BY <2>3
<1>5. ASSUME NEW n \in Nat, n \in P PROVE n + 1 \in P
  <2>0. ASSUME n + 1 <= Len(team) PROVE Good(n + 1)
    <3>1. n + 1 \in 1 .. Len(team) /\ n <= Len(team) /\ n + 1 - 1 = n
      BY <1>0, <2>0
    <3>2. Good(n) /\ u[n + 1] = Lead!Joining(u[n], team[n + 1]) /\ team[n + 1] \in Lead!Researcher
      BY <1>0, <1>3, <1>5, <3>1
    <3>3. /\ u[n + 1] \in Seq(Lead!Researcher) /\ Len(u[n + 1]) = n + 1 /\ Lead!IdsDiffer(u[n + 1])
          /\ \A i \in 1 .. n : u[n + 1][i] = u[n][i]
          /\ u[n + 1][n + 1].queries = team[n + 1].queries
      <4>1. u[n] \in Seq(Lead!Researcher) /\ team[n + 1] \in Lead!Researcher /\ Len(u[n]) = n
               /\ Lead!IdsDiffer(u[n])
        BY <3>2
      <4>2. /\ Lead!Joining(u[n], team[n + 1]) \in Seq(Lead!Researcher)
                  /\ Len(Lead!Joining(u[n], team[n + 1])) = n + 1
                        /\ Lead!IdsDiffer(Lead!Joining(u[n], team[n + 1]))
            /\ \A i \in 1 .. n : Lead!Joining(u[n], team[n + 1])[i] = u[n][i]
            /\ Lead!Joining(u[n], team[n + 1])[n + 1].queries = team[n + 1].queries
        <5> DEFINE d == u[n]
                   r == team[n + 1]
        <5>1. d \in Seq(Lead!Researcher) /\ r \in Lead!Researcher
          BY <4>1
        <5> HIDE DEF d, r
        <5>2. /\ Lead!Joining(d, r) \in Seq(Lead!Researcher) /\ Len(Lead!Joining(d, r)) = Len(d) + 1
              /\ Lead!IdsDiffer(d) => Lead!IdsDiffer(Lead!Joining(d, r))
              /\ \A i \in 1 .. Len(d) : Lead!Joining(d, r)[i] = d[i]
              /\ Lead!Joining(d, r)[Len(d) + 1].queries = r.queries
          BY <5>1, OneJoins
        <5> QED
          BY <4>1, <5>2 DEF d, r
      <4> QED
        BY <3>2, <4>2
    <3>4. \A i \in 1 .. n + 1 : i \in 1 .. n \/ i = n + 1
      OBVIOUS
    <3> QED
      BY <3>2, <3>3, <3>4
  <2> HIDE DEF Good
  <2> QED
    BY <2>0
<1>6. Nat \subseteq P
  <2> HIDE DEF P
  <2> QED BY <1>4, <1>5, SetInduction
<1>7. Good(Len(team))
  <2> HIDE DEF Good
  <2> QED BY <1>0, <1>6
<1> QED
  BY <1>1, <1>7

LEMMA Cutting ==
  ASSUME NEW team \in Seq(Lead!Researcher)
  PROVE  LET runnable == Lead!Pick(team, {i \in DOMAIN team : team[i].queries > 0})
             kept == SubSeq(runnable, 1, Lead!Min({TeamSize, Len(runnable)}))
             cut  == [i \in DOMAIN kept |-> [kept[i] EXCEPT !.queries = Lead!Min({@, QueryBudget})]]
         IN  /\ cut \in Seq(Lead!Researcher) /\ Len(cut) \in 0 .. TeamSize
             /\ \A i \in 1 .. Len(cut) : cut[i].queries \in 1 .. QueryBudget
             /\ (\E i \in DOMAIN team : team[i].queries > 0) => cut # << >>
<1> DEFINE I == {i \in DOMAIN team : team[i].queries > 0}
           runnable == Lead!Pick(team, I)
           n == Lead!Min({TeamSize, Len(runnable)})
           kept == SubSeq(runnable, 1, n)
           cut  == [i \in DOMAIN kept |-> [kept[i] EXCEPT !.queries = Lead!Min({@, QueryBudget})]]
<1>0. TeamSize \in Nat \ {0} /\ QueryBudget \in Nat \ {0}
  BY PlanningSettingHolds DEF Lead!PlanningSetting
<1>1. I \in SUBSET (DOMAIN team)
  OBVIOUS
<1>2. /\ runnable \in Seq(Lead!Researcher) /\ Len(runnable) = Lead!Cardinality(I)
            /\ DOMAIN runnable = 1 .. Lead!Cardinality(I) /\ Lead!Cardinality(I) \in Nat
      /\ \A k \in 1 .. Lead!Cardinality(I) : \E i \in I : Lead!Rank(I, i) = k
            /\ runnable[k] = team[i]
      /\ \A i \in I : \E k \in 1 .. Lead!Cardinality(I) : Lead!Rank(I, i) = k
            /\ runnable[k] = team[i]
  <2> HIDE DEF I
  <2> QED BY <1>1, Lead!Picked
<1>3. \A i \in I : team[i].queries > 0
  OBVIOUS
<1> HIDE DEF I, runnable
<1>4. \A k \in 1 .. Len(runnable) : runnable[k] \in Lead!Researcher /\ runnable[k].queries > 0
  BY <1>2, <1>3
<1>5. n \in 0 .. Len(runnable) /\ n <= TeamSize /\ (Len(runnable) > 0 => n > 0)
  <2>1. \E x \in {TeamSize, Len(runnable)} : \A y \in {TeamSize, Len(runnable)} : x <= y
    BY <1>0, <1>2
  <2>2. n \in {TeamSize, Len(runnable)} /\ \A y \in {TeamSize, Len(runnable)} : n <= y
    BY <2>1 DEF Lead!Min
  <2> QED
    BY <1>0, <1>2, <2>2
<1> HIDE DEF n
<1>6. Len(kept) = n /\ DOMAIN kept = 1 .. n /\ \A k \in 1 .. n : kept[k] = runnable[k]
  BY <1>2, <1>5
<1> HIDE DEF kept
<1>7. ASSUME NEW k \in 1 .. n
   PROVE cut[k] \in Lead!Researcher /\ cut[k].queries \in 1 .. QueryBudget
  <2> DEFINE r == kept[k]
             q == Lead!Min({r.queries, QueryBudget})
  <2>1. r \in Lead!Researcher /\ r.queries > 0
    BY <1>2, <1>4, <1>5, <1>6
  <2>2. r.queries \in Int /\ r.id \in Seq(Int) /\ r = [id |-> r.id, queries |-> r.queries]
    BY <2>1 DEF Lead!Researcher
  <2>3. q \in 1 .. QueryBudget
    <3>1. \E x \in {r.queries, QueryBudget} : \A y \in {r.queries, QueryBudget} : x <= y
      BY <1>0, <2>2
    <3>2. q \in {r.queries, QueryBudget} /\ \A y \in {r.queries, QueryBudget} : q <= y
      BY <3>1 DEF Lead!Min
    <3> QED
      BY <1>0, <2>1, <2>2, <3>2
  <2>4. cut[k] = [r EXCEPT !.queries = q]
    BY <1>6
  <2> HIDE DEF r, q
  <2>5. cut[k] = [id |-> r.id, queries |-> q]
    BY <2>2, <2>4
  <2> QED
    BY <2>2, <2>3, <2>5 DEF Lead!Researcher
<1>8. cut \in [1 .. n -> Lead!Researcher]
  <2>1. cut = [k \in 1 .. n |-> cut[k]]
    BY <1>6
  <2> HIDE DEF cut
  <2> QED BY <1>7, <2>1
<1>9. cut \in Seq(Lead!Researcher) /\ Len(cut) = n
  <2>1. n \in Nat
    BY <1>2, <1>5
  <2> HIDE DEF cut
  <2> QED BY <1>8, <2>1
<1>10. ASSUME NEW i \in DOMAIN team, team[i].queries > 0 PROVE cut # << >>
  <2>1. i \in I
    BY <1>10 DEF I
  <2>2. Len(runnable) > 0
    BY <1>2, <2>1
  <2> HIDE DEF cut
  <2> QED
    BY <1>5, <1>9, <2>2
<1>11. \A i \in 1 .. Len(cut) : cut[i].queries \in 1 .. QueryBudget
  <2> HIDE DEF cut
  <2> QED BY <1>7, <1>9
<1>12. Len(cut) \in 0 .. TeamSize
  <2> HIDE DEF cut
  <2> QED BY <1>0, <1>2, <1>5, <1>9
<1> QED
  BY <1>9, <1>10, <1>11, <1>12 DEF I, runnable, n, kept

LEMMA Capping ==
  ASSUME NEW p \in Lead!Plans
  PROVE  /\ Lead!Capped(p) \in Lead!Plans /\ Lead!Capped(p).prose = p.prose
               /\ Lead!Capped(p).by = p.by
         /\ Lead!Capped(p).team # << >> => Lead!Runnable(Lead!Capped(p).team)
               /\ Lead!Capped(p).action = p.action
         /\ (\E i \in DOMAIN p.team : p.team[i].queries > 0) => Lead!Capped(p).team # << >>
<1> DEFINE runnable == Lead!Pick(p.team, {i \in DOMAIN p.team : p.team[i].queries > 0})
           kept == SubSeq(runnable, 1, Lead!Min({TeamSize, Len(runnable)}))
           cut  == [i \in DOMAIN kept |-> [kept[i] EXCEPT !.queries = Lead!Min({@, QueryBudget})]]
           c == Lead!Capped(p)
<1>0. p.team \in Seq(Lead!Researcher) /\ p.action \in Lead!Actions /\ p.prose \in BOOLEAN
         /\ p.by \in {"nobody", "engine", "model"}
  BY DEF Lead!Plans
<1>1. /\ cut \in Seq(Lead!Researcher) /\ Len(cut) \in 0 .. TeamSize
      /\ \A i \in 1 .. Len(cut) : cut[i].queries \in 1 .. QueryBudget
      /\ (\E i \in DOMAIN p.team : p.team[i].queries > 0) => cut # << >>
  BY <1>0, Cutting
<1>2. c = [p EXCEPT !.team = Lead!Unique(cut), !.action = IF @ = "delegate" /\ cut = << >>
         THEN "synthesize" ELSE @]
  BY DEF Lead!Capped
<1> HIDE DEF cut, c
<1>3. c = [action |-> IF p.action = "delegate" /\ cut = << >> THEN "synthesize"
         ELSE p.action, team |-> Lead!Unique(cut), prose |-> p.prose, by |-> p.by]
  BY <1>2 DEF Lead!Plans
<1>4. /\ Lead!Unique(cut) \in Seq(Lead!Researcher) /\ Len(Lead!Unique(cut)) = Len(cut)
            /\ Lead!IdsDiffer(Lead!Unique(cut))
      /\ \A i \in 1 .. Len(cut) : Lead!Unique(cut)[i].queries = cut[i].queries
  BY <1>1, Uniqueness
<1>5. c \in Lead!Plans /\ c.team = Lead!Unique(cut) /\ c.prose = p.prose /\ c.by = p.by
         /\ (cut # << >> => c.action = p.action)
  BY <1>0, <1>3, <1>4 DEF Lead!Plans, Lead!Actions
<1>6. (cut = << >> <=> Len(cut) = 0) /\ (Lead!Unique(cut) = << >> <=> Len(Lead!Unique(cut)) = 0)
  BY <1>1, <1>4
<1>7. ASSUME cut # << >> PROVE Lead!Runnable(Lead!Unique(cut))
  <2>1. DOMAIN Lead!Unique(cut) = 1 .. Len(cut) /\ Len(cut) \in 1 .. TeamSize
    BY <1>1, <1>4, <1>6, <1>7
  <2> QED
    BY <1>1, <1>4, <2>1 DEF Lead!Runnable, Lead!IdsDiffer
<1> QED
  BY <1>1, <1>4, <1>5, <1>6, <1>7 DEF c

LEMMA Falling ==
  /\ Lead!Fallback \in Lead!Plans /\ Lead!Fallback.action = "delegate"
        /\ Lead!Runnable(Lead!Fallback.team)
  /\ Lead!Deferred \in Lead!Plans /\ Lead!Deferred.action = "synthesize"
<1>0. TeamSize \in Nat \ {0} /\ QueryBudget \in Nat \ {0}
  BY PlanningSettingHolds DEF Lead!PlanningSetting
<1> DEFINE p == Lead!Plan("delegate", Lead!Solo, "engine")
<1>1. Lead!Solo \in Seq(Lead!Researcher) /\ 1 \in DOMAIN Lead!Solo /\ Lead!Solo[1].queries > 0
  <2>1. [id |-> <<1>>, queries |-> QueryBudget] \in Lead!Researcher
    BY <1>0 DEF Lead!Researcher
  <2> QED
    BY <1>0, <2>1 DEF Lead!Solo
<1>2. p \in Lead!Plans /\ p.team = Lead!Solo /\ p.action = "delegate"
  BY <1>1 DEF Lead!Plan, Lead!Plans, Lead!Actions
<1> HIDE DEF p
<1>3. \E i \in DOMAIN p.team : p.team[i].queries > 0
  BY <1>1, <1>2
<1>4. Lead!Fallback = Lead!Capped(p)
  BY DEF Lead!Fallback, p
<1>5. Lead!Fallback \in Lead!Plans /\ Lead!Fallback.action = "delegate"
         /\ Lead!Runnable(Lead!Fallback.team)
  BY <1>2, <1>3, <1>4, Capping
<1>6. Lead!Deferred \in Lead!Plans /\ Lead!Deferred.action = "synthesize"
  BY DEF Lead!Deferred, Lead!Plan, Lead!Plans, Lead!Actions
<1> QED
  BY <1>5, <1>6

LEMMA AgendaStands ==
  ASSUME leadStored \in Lead!Plans, Lead!Runnable(leadStored.team)
  PROVE  Lead!Agenda \in Lead!Plans /\ Lead!Agenda.action = "delegate" /\ Lead!Agenda.team # << >>
            /\ Lead!Runnable(Lead!Agenda.team) /\ Lead!Agenda.prose = FALSE
<1> DEFINE p == Lead!Plan("delegate", leadStored.team, "engine")
<1>1. p \in Lead!Plans /\ p.team = leadStored.team /\ p.action = "delegate" /\ p.prose = FALSE
  BY DEF Lead!Plan, Lead!Plans, Lead!Actions
<1>2. 1 \in DOMAIN leadStored.team /\ leadStored.team[1].queries > 0
  <2>1. leadStored.team \in Seq(Lead!Researcher)
    BY DEF Lead!Plans
  <2>2. Len(leadStored.team) \in Nat /\ Len(leadStored.team) > 0
           /\ DOMAIN leadStored.team = 1 .. Len(leadStored.team)
    BY <2>1, PlanningSettingHolds DEF Lead!Runnable, Lead!PlanningSetting
  <2>3. 1 \in DOMAIN leadStored.team
    BY <2>2
  <2>4. leadStored.team[1].queries \in 1 .. QueryBudget
    BY <2>3 DEF Lead!Runnable
  <2> QED
    BY <2>3, <2>4, PlanningSettingHolds DEF Lead!PlanningSetting
<1> HIDE DEF p
<1>3. Lead!Agenda = Lead!Capped(p)
  BY DEF Lead!Agenda, p
<1> QED
  BY <1>1, <1>2, <1>3, Capping

LEMMA StandingFor ==
  ASSUME NEW es \in Seq(Lead!Entry), NEW e \in Lead!Entry
  PROVE  Append(es, e) \in Seq(Lead!Entry)
            /\ Lead!Stands(Append(es, e)) = Lead!Stands(es) \cup e.stands /\ Append(es, e) # << >>
<1>1. Lead!ToSet(es) = Lead!Range(es) /\ Lead!ToSet(Append(es, e)) = Lead!Range(Append(es, e))
  BY DEF Lead!ToSet, Lead!Range
<1>2. Append(es, e) \in Seq(Lead!Entry) /\ Lead!Range(Append(es, e)) = Lead!Range(es) \cup {e}
  BY Lead!Appended
<1>3. Append(es, e) # << >>
  <2> DEFINE v == Append(es, e)
  <2>1. Len(v) = Len(es) + 1 /\ Len(es) \in Nat
    OBVIOUS
  <2> HIDE DEF v
  <2>2. v # << >>
    BY <2>1
  <2> QED
    BY <2>2 DEF v
<1> QED
  BY <1>1, <1>2, <1>3 DEF Lead!Stands

LEMMA CoveringMore ==
  ASSUME NEW parts \in Seq(Seq(Lead!Entry)), NEW es \in Seq(Lead!Entry)
  PROVE  Append(parts, es) \in Seq(Seq(Lead!Entry))
            /\ Lead!Covers(Append(parts, es)) = Lead!Covers(parts) \cup Lead!Stands(es)
                  /\ Append(parts, es) # << >>
<1> DEFINE S == Seq(Lead!Entry)
<1>1. Lead!ToSet(parts) = Lead!Range(parts)
         /\ Lead!ToSet(Append(parts, es)) = Lead!Range(Append(parts, es))
  BY DEF Lead!ToSet, Lead!Range
<1>2. Append(parts, es) \in Seq(S) /\ Lead!Range(Append(parts, es)) = Lead!Range(parts) \cup {es}
         /\ Append(parts, es) # << >>
  <2> HIDE DEF S
  <2>1. parts \in Seq(S) /\ es \in S
    BY DEF S
  <2>2. Append(parts, es) # << >>
    BY <2>1
  <2> QED BY <2>1, <2>2, Lead!Appended
<1> QED
  BY <1>1, <1>2 DEF Lead!Covers

LEMMA CoversNone == Lead!Stands(<< >>) = {} /\ Lead!Covers(<< >>) = {}
<1>1. Lead!ToSet(<< >>) = {}
  BY DEF Lead!ToSet
<1> QED
  BY <1>1 DEF Lead!Stands, Lead!Covers

LEMMA FillsOn ==
  ASSUME NEW acc \in Lead!Filling, NEW e \in Lead!Entry
  PROVE  Lead!Filled(acc, e) \in Lead!Filling
            /\ Lead!Held(Lead!Filled(acc, e)) = Lead!Held(acc) \cup e.stands
<1>0. acc.full \in Seq(Seq(Lead!Entry)) /\ acc.current \in Seq(Lead!Entry)
         /\ << >> \in Seq(Lead!Entry)
  BY DEF Lead!Filling
<1>1. Append(<< >>, e) = <<e>>
  OBVIOUS
<1>2. <<e>> \in Seq(Lead!Entry) /\ Lead!Stands(<<e>>) = e.stands
  <2> DEFINE nil == << >>
  <2>1. nil \in Seq(Lead!Entry) /\ Append(nil, e) = <<e>> /\ Lead!Stands(nil) = {}
    BY <1>0, <1>1, CoversNone
  <2> HIDE DEF nil
  <2>2. Append(nil, e) \in Seq(Lead!Entry)
           /\ Lead!Stands(Append(nil, e)) = Lead!Stands(nil) \cup e.stands
    BY <2>1, StandingFor
  <2> QED
    BY <2>1, <2>2
<1>3. Append(acc.current, e) \in Seq(Lead!Entry)
         /\ Lead!Stands(Append(acc.current, e)) = Lead!Stands(acc.current) \cup e.stands
  BY <1>0, StandingFor
<1>4. Append(acc.full, acc.current) \in Seq(Seq(Lead!Entry))
         /\ Lead!Covers(Append(acc.full, acc.current)) = Lead!Covers(acc.full) \cup Lead!Stands(acc.current)
  BY <1>0, CoveringMore
<1> DEFINE f == Append(acc.full, acc.current)
           c == Append(acc.current, e)
           o == <<e>>
<1>5. f \in Seq(Seq(Lead!Entry)) /\ c \in Seq(Lead!Entry) /\ o \in Seq(Lead!Entry)
         /\ Lead!Covers(f) = Lead!Covers(acc.full) \cup Lead!Stands(acc.current)
      /\ Lead!Stands(c) = Lead!Stands(acc.current) \cup e.stands /\ Lead!Stands(o) = e.stands
  BY <1>2, <1>3, <1>4
<1>6. Lead!Filled(acc, e) \in {[full |-> f, current |-> o], [full |-> acc.full, current |-> c]}
  BY DEF Lead!Filled
<1> HIDE DEF f, c, o
<1>7. [full |-> f, current |-> o] \in Lead!Filling
         /\ Lead!Held([full |-> f, current |-> o]) = Lead!Held(acc) \cup e.stands
  BY <1>5 DEF Lead!Filling, Lead!Held
<1>8. [full |-> acc.full, current |-> c] \in Lead!Filling
         /\ Lead!Held([full |-> acc.full, current |-> c]) = Lead!Held(acc) \cup e.stands
  BY <1>0, <1>5 DEF Lead!Filling, Lead!Held
<1> QED
  BY <1>6, <1>7, <1>8

LEMMA Partitioning ==
  ASSUME NEW es \in Seq(Lead!Entry)
  PROVE  Lead!Partitioned(es) \in Seq(Seq(Lead!Entry))
            /\ Lead!Covers(Lead!Partitioned(es)) = Lead!Stands(es)
<1> DEFINE F == [p \in Lead!Filling \X Lead!Entry |-> Lead!Filled(p[1], p[2])]
           none == [full |-> << >>, current |-> << >>]
           Step(f) == [n \in 0 .. Len(es) |-> IF n = 0 THEN none ELSE Lead!Filled(f[n - 1], es[n])]
           u == CHOOSE f : f = Step(f)
           last == u[Len(es)]
<1>0. Len(es) \in Nat /\ \A n \in 1 .. Len(es) : es[n] \in Lead!Entry
  OBVIOUS
<1>1. Lead!Partitioned(es) = IF last.current = << >> THEN last.full
         ELSE Append(last.full, last.current)
  BY DEF Lead!Partitioned
<1>2. none \in Lead!Filling /\ Lead!Held(none) = {}
  BY CoversNone DEF Lead!Filling, Lead!Held
<1> HIDE DEF none
<1>3. u = Step(u)
  <2>1. F \in Lead!Steps(Lead!Filling, Lead!Entry)
    BY FillsOn DEF Lead!Steps
  <2>2. \A d \in Lead!Filling, e \in Lead!Entry : F[<<d, e>>] = Lead!Filled(d, e)
    OBVIOUS
  <2>3. PICK g \in [0 .. Len(es) -> Lead!Filling] : g[0] = none
           /\ \A n \in 1 .. Len(es) : g[n] = F[<<g[n - 1], es[n]>>]
    <3> HIDE DEF F
    <3>1. Lead!Computable(Lead!Filling, F, none, es)
      BY <1>2, <2>1, Folding
    <3> QED
      BY <3>1 DEF Lead!Computable
  <2>4. ASSUME NEW n \in 0 .. Len(es)
     PROVE g[n] = IF n = 0 THEN none ELSE Lead!Filled(g[n - 1], es[n])
    <3>1. CASE n = 0
      BY <2>3, <3>1
    <3>2. CASE n # 0
      <4>1. n \in 1 .. Len(es) /\ n - 1 \in 0 .. Len(es)
        BY <1>0, <3>2
      <4>2. g[n - 1] \in Lead!Filling /\ es[n] \in Lead!Entry
        BY <1>0, <2>3, <4>1
      <4> HIDE DEF F
      <4> QED
        BY <2>2, <2>3, <3>2, <4>1, <4>2
    <3> QED
      BY <3>1, <3>2
  <2>5. g = [n \in 0 .. Len(es) |-> g[n]]
    BY <2>3
  <2>6. g = Step(g)
    BY <2>4, <2>5
  <2> QED
    BY <2>6
<1> HIDE DEF u
<1>4. u[0] = none /\ \A n \in 1 .. Len(es) : u[n] = Lead!Filled(u[n - 1], es[n])
  BY <1>0, <1>3
<1> DEFINE Good(n) == u[n] \in Lead!Filling /\ Lead!Held(u[n]) = UNION {es[i].stands : i \in 1 .. n}
           P == {n \in Nat : n <= Len(es) => Good(n)}
<1>5. 0 \in P
  <2>1. UNION {es[i].stands : i \in 1 .. 0} = {}
    OBVIOUS
  <2>2. Good(0)
    BY <1>2, <1>4, <2>1
  <2> QED
    BY <2>2
<1>6. ASSUME NEW n \in Nat, n \in P PROVE n + 1 \in P
  <2>0. ASSUME n + 1 <= Len(es) PROVE Good(n + 1)
    <3>1. n + 1 \in 1 .. Len(es) /\ n <= Len(es) /\ n + 1 - 1 = n
      BY <1>0, <2>0
    <3>2. Good(n) /\ u[n + 1] = Lead!Filled(u[n], es[n + 1]) /\ es[n + 1] \in Lead!Entry
      <4>1. Good(n)
        BY <1>6, <3>1
      <4>2. u[n + 1] = Lead!Filled(u[n + 1 - 1], es[n + 1])
        BY <1>4, <3>1
      <4>3. es[n + 1] \in Lead!Entry
        BY <1>0, <3>1
      <4> QED
        BY <3>1, <4>1, <4>2, <4>3
    <3>3. u[n + 1] \in Lead!Filling /\ Lead!Held(u[n + 1]) = Lead!Held(u[n]) \cup es[n + 1].stands
      BY <3>2, FillsOn
    <3>4. UNION {es[i].stands : i \in 1 .. n + 1} = (UNION {es[i].stands : i \in 1 .. n}) \cup es[n + 1].stands
      <4>1. \A i : i \in 1 .. n + 1 <=> i \in 1 .. n \/ i = n + 1
        OBVIOUS
      <4>2. {es[i].stands : i \in 1 .. n + 1} = {es[i].stands : i \in 1 .. n} \cup {es[n + 1].stands}
        BY <4>1
      <4>3. \A A, x : UNION (A \cup {x}) = (UNION A) \cup x
        OBVIOUS
      <4> DEFINE A == {es[i].stands : i \in 1 .. n}
                 B == {es[i].stands : i \in 1 .. n + 1}
                 x == es[n + 1].stands
      <4>4. B = A \cup {x}
        BY <4>2
      <4> HIDE DEF A, B, x
      <4>5. UNION B = (UNION A) \cup x
        BY <4>3, <4>4
      <4> QED
        BY <4>5 DEF A, B, x
    <3> QED
      BY <3>2, <3>3, <3>4
  <2> HIDE DEF Good
  <2> QED
    BY <2>0
<1>7. Nat \subseteq P
  <2> HIDE DEF P
  <2> QED BY <1>5, <1>6, SetInduction
<1>8. Good(Len(es))
  <2> HIDE DEF Good
  <2> QED BY <1>0, <1>7
<1>9. last \in Lead!Filling /\ Lead!Held(last) = Lead!Stands(es)
  <2>1. Lead!Stands(es) = UNION {es[i].stands : i \in 1 .. Len(es)}
    BY DEF Lead!Stands, Lead!ToSet
  <2> QED
    BY <1>8, <2>1
<1> HIDE DEF last
<1>10. last.full \in Seq(Seq(Lead!Entry)) /\ last.current \in Seq(Lead!Entry)
  BY <1>9 DEF Lead!Filling
<1>11. CASE last.current = << >>
  BY <1>1, <1>9, <1>10, <1>11, CoversNone DEF Lead!Held
<1>12. CASE last.current # << >>
  BY <1>1, <1>9, <1>10, <1>12, CoveringMore DEF Lead!Held
<1> QED
  BY <1>11, <1>12

LEMMA LeadTruths == Lead!LeadKept => Lead!LeadKeepsTheRun
<1> SUFFICES ASSUME Lead!LeadKept PROVE Lead!LeadKeepsTheRun
  OBVIOUS
<1>1. Lead!PlansAreRunnable
  BY DEF Lead!LeadKept, Lead!Fit, Lead!PlansAreRunnable
<1>2. Lead!NeverCutShort
  BY DEF Lead!LeadKept, Lead!LeadTyped, Lead!Phases, Lead!AgendaKept, Lead!Fit,
     Lead!NeverCutShort
<1>3. Lead!EveryFindingReachesTheReport
  BY DEF Lead!LeadKept, Lead!CorpusKept, Lead!InHand, Lead!Covers,
     Lead!EveryFindingReachesTheReport
<1> QED
  BY <1>1, <1>2, <1>3 DEF Lead!LeadKeepsTheRun

LEMMA NoPlanFits == Lead!NoPlan \in Lead!Plans
  BY DEF Lead!NoPlan, Lead!Plan, Lead!Plans, Lead!Actions

LEMMA LeadFirst == Lead!Init => Lead!LeadKept
<1> SUFFICES ASSUME Lead!Init PROVE Lead!LeadKept
  OBVIOUS
<1>1. Lead!LeadTyped
  BY NoPlanFits, Lead!FS_EmptySet DEF Lead!Init, Lead!LeadTyped, Lead!Phases
<1> QED
  BY <1>1 DEF Lead!Init, Lead!LeadKept, Lead!AgendaKept, Lead!CorpusKept

(* A call returns or throws.                                               *)
LEMMA LeadReturns ==
  ASSUME Lead!LeadKept, NEW p \in Lead!Plans, Lead!Return(p),
         UNCHANGED <<leadMode, Lead!run, leadCancelled>>, Lead!Fit(leadMode, p),
         leadMode = "route" => Lead!Runnable(leadStored.team)
  PROVE  Lead!LeadKept'
<1>1. /\ leadPhase' = "decided" /\ leadPlan' = p
            /\ leadStored' = (IF p.action = "wait" THEN leadStored ELSE p)
      /\ UNCHANGED <<leadMode, leadRound, leadReports, leadEntries, leadTodo, leadNext>>
  BY DEF Lead!Return, Lead!corpus, Lead!run
<1>2. Lead!LeadTyped'
  BY <1>1 DEF Lead!LeadKept, Lead!LeadTyped, Lead!Phases
<1>3. leadMode # "synth" /\ p.action # "synthesize" => Lead!Runnable(leadStored'.team)
  BY <1>1 DEF Lead!LeadKept, Lead!LeadTyped, Lead!Fit
<1> QED
  BY <1>1, <1>2, <1>3 DEF Lead!LeadKept, Lead!AgendaKept, Lead!CorpusKept

LEMMA LeadThrows ==
  ASSUME Lead!LeadKept, NEW what, Lead!Throw(what),
         UNCHANGED <<leadMode, Lead!run, leadCancelled>>
  PROVE  Lead!LeadKept'
<1>1. leadPhase' = "over" /\ leadPlan' = Lead!NoPlan
         /\ UNCHANGED <<leadMode, leadRound, leadReports, leadStored, leadEntries, leadTodo,
                        leadNext>>
  BY DEF Lead!Throw, Lead!corpus, Lead!run
<1>2. Lead!LeadTyped'
  BY <1>1, NoPlanFits DEF Lead!LeadKept, Lead!LeadTyped, Lead!Phases
<1> QED
  BY <1>1, <1>2 DEF Lead!LeadKept, Lead!AgendaKept, Lead!CorpusKept

LEMMA LeadResorts ==
  ASSUME Lead!LeadKept, UNCHANGED <<leadMode, Lead!run, leadCancelled>>,
         leadMode = "route" => Lead!Runnable(leadStored.team),
         \/ leadMode = "plan" /\ Lead!Return(Lead!Fallback)
         \/ leadMode = "route" /\ leadStored.team # << >> /\ Lead!Return(Lead!Agenda)
         \/ ~ (leadMode = "route" /\ leadStored.team # << >>) /\ leadMode # "plan"
               /\ Lead!Return(Lead!Deferred)
  PROVE  Lead!LeadKept'
<1>0. leadStored \in Lead!Plans /\ leadMode \in {"plan", "route", "synth"}
  BY DEF Lead!LeadKept, Lead!LeadTyped
<1>1. CASE leadMode = "plan" /\ Lead!Return(Lead!Fallback)
  <2>1. Lead!Fit(leadMode, Lead!Fallback)
    BY <1>1, Falling DEF Lead!Fit
  <2> QED
    BY <1>1, <2>1, Falling, LeadReturns
<1>2. CASE leadMode = "route" /\ Lead!Return(Lead!Agenda)
  <2>1. Lead!Agenda \in Lead!Plans /\ Lead!Agenda.action = "delegate"
           /\ Lead!Runnable(Lead!Agenda.team) /\ Lead!Agenda.prose = FALSE
    BY <1>0, <1>2, AgendaStands
  <2>2. Lead!Fit(leadMode, Lead!Agenda)
    BY <1>2, <2>1 DEF Lead!Fit
  <2> QED
    BY <1>2, <2>1, <2>2, LeadReturns
<1>3. CASE leadMode = "synth" /\ Lead!Return(Lead!Deferred)
  <2>1. Lead!Fit(leadMode, Lead!Deferred)
    BY <1>3, Falling DEF Lead!Fit
  <2> QED
    BY <1>3, <2>1, Falling, LeadReturns
<1>4. leadMode = "route" => leadStored.team # << >>
  BY <1>0, PlanningSettingHolds DEF Lead!Runnable, Lead!PlanningSetting
<1> QED
  BY <1>0, <1>1, <1>2, <1>3, <1>4

LEMMA LeadCatches ==
  ASSUME Lead!LeadKept, leadPhase \in {"asking", "calling", "backoff"}, NEW failure,
         Lead!Caught(failure), UNCHANGED <<leadMode, Lead!run, leadCancelled>>
  PROVE  Lead!LeadKept'
<1>0. (leadMode = "route" => Lead!Runnable(leadStored.team))
         /\ leadMode \in {"plan", "route", "synth"}
  BY DEF Lead!LeadKept, Lead!LeadTyped, Lead!AgendaKept
<1>1. \/ Lead!Throw("aborted") \/ Lead!Throw("hard")
      \/ leadMode = "plan" /\ Lead!Return(Lead!Fallback)
      \/ leadMode = "route" /\ leadStored.team # << >> /\ Lead!Return(Lead!Agenda)
      \/ ~ (leadMode = "route" /\ leadStored.team # << >>) /\ leadMode # "plan"
            /\ Lead!Return(Lead!Deferred)
  <2>1. CASE leadMode = "plan"
    BY <2>1 DEF Lead!Caught, Lead!CaughtPlanning
  <2>2. CASE leadMode # "plan"
    BY <2>2 DEF Lead!Caught, Lead!CaughtUpdating
  <2> QED
    BY <2>1, <2>2
<1>2. CASE Lead!Throw("aborted") \/ Lead!Throw("hard")
  BY <1>2, LeadThrows
<1> QED
  BY <1>0, <1>1, <1>2, LeadResorts

LEMMA LeadUnusable ==
  ASSUME Lead!LeadKept, leadPhase = "repairing", Lead!Unusable,
         UNCHANGED <<leadMode, Lead!run, leadCancelled>>
  PROVE  Lead!LeadKept'
<1>0. (leadMode = "route" => Lead!Runnable(leadStored.team))
         /\ leadMode \in {"plan", "route", "synth"}
  BY DEF Lead!LeadKept, Lead!LeadTyped, Lead!AgendaKept
<1>1. \/ leadMode = "plan" /\ Lead!Return(Lead!Fallback)
      \/ leadMode = "route" /\ leadStored.team # << >> /\ Lead!Return(Lead!Agenda)
      \/ ~ (leadMode = "route" /\ leadStored.team # << >>) /\ leadMode # "plan"
            /\ Lead!Return(Lead!Deferred)
  BY <1>0 DEF Lead!Unusable
<1> QED
  BY <1>0, <1>1, LeadResorts

LEMMA Redirected ==
  ASSUME NEW c \in Lead!Plans
  PROVE  LET e == [c EXCEPT !.action = "delegate", !.prose = FALSE]
         IN  e \in Lead!Plans /\ e.action = "delegate" /\ e.team = c.team /\ e.prose = FALSE
BY DEF Lead!Plans, Lead!Actions

(* An answer becomes a plan.                                               *)
LEMMA LeadDecides ==
  ASSUME Lead!LeadKept, leadPhase \in {"calling", "repairing"}, NEW a \in Lead!Answers,
         Lead!Decide(a), UNCHANGED <<leadMode, Lead!run, leadCancelled>>
  PROVE  Lead!LeadKept'
<1>0. (leadMode = "route" => Lead!Runnable(leadStored.team))
         /\ leadMode \in {"plan", "route", "synth"} /\ leadStored \in Lead!Plans
  BY DEF Lead!LeadKept, Lead!LeadTyped, Lead!AgendaKept
<1> DEFINE p == [action |-> a.action, team |-> a.team, prose |-> a.prose, by |-> "model"]
<1>1. /\ a.action \in Lead!Actions /\ a.team \in Seq(Lead!Researcher) /\ a.prose \in BOOLEAN
      /\ a.prose => a.action = "synthesize"
  <2>1. a.action \in Lead!Actions /\ a.team \in Offered \cup {<< >>} /\ a.prose \in BOOLEAN
           /\ (a.prose => a.action = "synthesize")
    BY DEF Lead!Answers, Lead!Actions
  <2>2. << >> \in Seq(Lead!Researcher)
    OBVIOUS
  <2>3. Offered \subseteq Seq(Lead!Researcher)
    BY PlanningSettingHolds DEF Lead!PlanningSetting
  <2> QED
    BY <2>1, <2>2, <2>3
<1>2. /\ p \in Lead!Plans /\ p.by = "model" /\ p.action = a.action /\ p.prose = a.prose
      /\ \A what \in Lead!Actions : [p EXCEPT !.action = what] \in Lead!Plans
            /\ [p EXCEPT !.action = what].action = what
                               /\ [p EXCEPT !.action = what].prose = a.prose
                                     /\ [p EXCEPT !.action = what].by = "model"
      /\ [p EXCEPT !.prose = FALSE] \in Lead!Plans /\ [p EXCEPT !.prose = FALSE].prose = FALSE
      /\ [p EXCEPT !.prose = FALSE].action = a.action /\ [p EXCEPT !.prose = FALSE].by = "model"
  BY <1>1 DEF Lead!Plans
<1>3. "delegate" \in Lead!Actions /\ "synthesize" \in Lead!Actions
  BY DEF Lead!Actions
<1>4. \/ leadMode = "plan" /\ Lead!Planned(p)
      \/ leadMode = "route" /\ Lead!Routed(p)
      \/ leadMode = "synth" /\ Lead!Synthesized(p)
  BY <1>0 DEF Lead!Decide
<1> HIDE DEF p
<1> DEFINE d == [p EXCEPT !.action = "delegate"]
           c == Lead!Capped(d)
<1>5. d \in Lead!Plans /\ d.action = "delegate" /\ d.prose = a.prose /\ d.by = "model"
  BY <1>2, <1>3
<1> HIDE DEF d
<1>6. c \in Lead!Plans /\ c.prose = a.prose /\ c.by = "model"
         /\ (c.team # << >> => Lead!Runnable(c.team) /\ c.action = "delegate")
  BY <1>5, Capping
<1> HIDE DEF c
<1>7. CASE leadMode = "plan" /\ Lead!Planned(p)
  <2>1. \/ c.team = << >> /\ Lead!Return(Lead!Fallback)
        \/ c.team # << >> /\ Lead!Return([c EXCEPT !.action = "delegate", !.prose = FALSE])
    BY <1>7 DEF Lead!Planned, c, d
  <2>2. CASE Lead!Return(Lead!Fallback)
    BY <1>0, <1>7, <2>2, LeadResorts
  <2>3. CASE c.team # << >> /\ Lead!Return([c EXCEPT !.action = "delegate", !.prose = FALSE])
    <3> DEFINE e == [c EXCEPT !.action = "delegate", !.prose = FALSE]
    <3>3. e \in Lead!Plans /\ e.action = "delegate" /\ e.team = c.team /\ e.prose = FALSE
      BY <1>6, Redirected
    <3> HIDE DEF e
    <3>4. Lead!Fit(leadMode, e)
      BY <1>6, <1>7, <2>3, <3>3 DEF Lead!Fit
    <3> QED
      BY <1>7, <2>3, <3>3, <3>4, LeadReturns DEF e
  <2> QED
    BY <2>1, <2>2, <2>3
<1>8. CASE leadMode = "route" /\ Lead!Routed(p)
  <2>1. Lead!Agenda \in Lead!Plans /\ Lead!Agenda.team # << >> /\ leadStored.team # << >>
    <3>1. leadStored.team # << >>
      BY <1>0, <1>8, PlanningSettingHolds DEF Lead!Runnable, Lead!PlanningSetting
    <3> QED
      BY <1>0, <1>8, <3>1, AgendaStands
  <2>2. \/ a.action \in {"synthesize", "wait"} /\ Lead!Return([p EXCEPT !.prose = FALSE])
        \/ a.action \notin {"synthesize", "wait"} /\ c.team # << >> /\ Lead!Return(c)
        \/ Lead!Return(Lead!Agenda)
    BY <1>2, <1>8, <2>1 DEF Lead!Routed, c, d
  <2>3. CASE a.action \in {"synthesize", "wait"} /\ Lead!Return([p EXCEPT !.prose = FALSE])
    <3>1. Lead!Fit(leadMode, [p EXCEPT !.prose = FALSE])
      BY <1>2, <1>8, <2>3 DEF Lead!Fit
    <3> QED
      BY <1>0, <1>2, <2>3, <3>1, LeadReturns
  <2>4. CASE a.action \notin {"synthesize", "wait"} /\ c.team # << >> /\ Lead!Return(c)
    <3>1. Lead!Fit(leadMode, c)
      BY <1>1, <1>6, <1>8, <2>4 DEF Lead!Fit
    <3> QED
      BY <1>0, <1>6, <2>4, <3>1, LeadReturns
  <2>5. CASE Lead!Return(Lead!Agenda)
    BY <1>0, <1>8, <2>1, <2>5, LeadResorts
  <2> QED
    BY <2>2, <2>3, <2>4, <2>5
<1>9. CASE leadMode = "synth" /\ Lead!Synthesized(p)
  <2> DEFINE e == [p EXCEPT !.action = "synthesize"]
  <2>1. e \in Lead!Plans /\ e.action = "synthesize" /\ Lead!Return(e)
    BY <1>2, <1>3, <1>9 DEF Lead!Synthesized
  <2> HIDE DEF e
  <2>2. Lead!Fit(leadMode, e)
    BY <1>9, <2>1 DEF Lead!Fit
  <2> QED
    BY <1>9, <2>1, <2>2, LeadReturns
<1> QED
  BY <1>4, <1>7, <1>8, <1>9

(* Another pass of partial syntheses loses nothing, and none does not.     *)
LEMMA Reducing ==
  ASSUME NEW es \in Seq(Lead!Entry), NEW p
  PROVE  /\ Lead!Reduction(es, p) \in Seq(Seq(Lead!Entry))
         /\ Lead!Covers(Lead!Reduction(es, p)) \cup (IF Lead!Reduction(es, p) = << >>
               THEN Lead!Stands(es) ELSE {}) = Lead!Stands(es)
<1> DEFINE r == Lead!Reduction(es, p)
           t == Lead!Partitioned(es)
<1>1. t \in Seq(Seq(Lead!Entry)) /\ Lead!Covers(t) = Lead!Stands(es)
  BY Partitioning
<1>2. r = t \/ r = << >>
  BY DEF Lead!Reduction
<1> HIDE DEF r, t
<1>3. << >> \in Seq(Seq(Lead!Entry)) /\ Lead!Covers(<< >>) = {}
  BY CoversNone
<1>4. CASE r = << >>
  BY <1>3, <1>4 DEF r
<1>5. CASE r # << >> /\ r = t
  BY <1>1, <1>5 DEF r
<1> QED
  BY <1>2, <1>4, <1>5

LEMMA Extremes ==
  ASSUME NEW a \in Int, NEW b \in Int
  PROVE  Lead!Min({a, b}) \in Int /\ Lead!Max({a, b}) \in Int
<1>1. \E x \in {a, b} : \A y \in {a, b} : x <= y
  BY a <= b \/ b <= a
<1>2. \E x \in {a, b} : \A y \in {a, b} : x >= y
  BY a <= b \/ b <= a
<1>3. Lead!Min({a, b}) \in {a, b}
  BY <1>1 DEF Lead!Min
<1>4. Lead!Max({a, b}) \in {a, b}
  BY <1>2 DEF Lead!Max
<1> QED
  BY <1>3, <1>4

(* The corpus of the first call stands for the reports, one entry each.    *)
LEMMA CorpusStarts ==
  ASSUME NEW R \in SUBSET Lead!Filed, Lead!IsFiniteSet(R), NEW cut,
         \A r \in R : cut[r] \in Int
  PROVE  LET order == Lead!SetToSeq(R)
             es == [i \in DOMAIN order |-> [size |-> cut[order[i]], stands |-> {order[i]}]]
         IN  es \in Seq(Lead!Entry) /\ Lead!Stands(es) = R
<1> DEFINE order == Lead!SetToSeq(R)
           es == [i \in DOMAIN order |-> [size |-> cut[order[i]], stands |-> {order[i]}]]
           n == Lead!Cardinality(R)
<1>1. n \in Nat /\ Lead!ExistsBijection(1 .. n, R)
  BY Lead!FS_CardinalityType
<1>2. \E f \in [1 .. n -> R] : Lead!IsInjective(f)
  BY <1>1 DEF Lead!ExistsBijection, Lead!Bijection, Lead!Injection
<1>3. order \in [1 .. n -> R] /\ Lead!IsInjective(order)
  BY <1>2 DEF Lead!SetToSeq
<1> HIDE DEF order
<1>4. order \in Lead!Injection(1 .. n, R)
  BY <1>3 DEF Lead!Injection
<1>5. Lead!Cardinality(1 .. n) = n
  <2> HIDE DEF n
  <2>1. 1 \in Int /\ n \in Int /\ Lead!Cardinality(1 .. n) = IF 1 > n THEN 0 ELSE n - 1 + 1
    BY <1>1, Lead!FS_Interval
  <2> QED
    BY <1>1, <2>1
<1>6. order \in Lead!Surjection(1 .. n, R)
  BY <1>4, <1>5, Lead!FS_Injection
<1> HIDE DEF n
<1>7. DOMAIN order = 1 .. n /\ (\A i \in 1 .. n : order[i] \in R)
         /\ \A r \in R : \E i \in 1 .. n : order[i] = r
  BY <1>3, <1>6 DEF Lead!Surjection
<1>8. \A i \in 1 .. n : es[i] \in Lead!Entry /\ es[i].stands = {order[i]}
  BY <1>7 DEF Lead!Entry, Lead!Filed
<1>9. es \in [1 .. n -> Lead!Entry]
  BY <1>7, <1>8
<1>10. es \in Seq(Lead!Entry)
  BY <1>1, <1>9, SeqDef
<1>11. DOMAIN es = 1 .. n
  BY <1>7
<1> HIDE DEF es
<1>12. Lead!Stands(es) = UNION {{order[i]} : i \in 1 .. n}
  BY <1>8, <1>11 DEF Lead!Stands, Lead!ToSet
<1>13. Lead!Stands(es) = R
  BY <1>7, <1>12
<1> QED
  BY <1>10, <1>13 DEF order, es

LEMMA LeadAsksReport ==
  ASSUME Lead!LeadKept, Lead!AskReport
  PROVE  Lead!LeadKept'
<1>1. /\ leadMode = "synth" /\ leadPhase' = "calling"
            /\ UNCHANGED <<leadMode, leadRound, leadReports, leadStored, leadPlan>>
      /\ \E size \in [leadReports -> ReportSizes] :
           LET order == Lead!SetToSeq(leadReports)
               es == [i \in DOMAIN order |-> [size |-> Lead!Truncated(size[order[i]]), stands |-> {order[i]}]]
           IN  leadEntries' = es /\ leadTodo' = Lead!Reduction(es, 0) /\ leadNext' = << >>
  BY DEF Lead!AskReport, Lead!Sent, Lead!run
<1>2. leadReports \in SUBSET Lead!Filed /\ Lead!IsFiniteSet(leadReports) /\ Lead!LeadTyped
  BY DEF Lead!LeadKept, Lead!LeadTyped
<1>3. Lead!CorpusBudget \in Int
  <2>1. Lead!Cardinality(leadReports) \in Nat
    BY <1>2, Lead!FS_CardinalityType
  <2>2. MinCorpus \in Int /\ Window - Lead!Cardinality(leadReports) \in Int
    BY <2>1, PlanningSettingHolds DEF Lead!PlanningSetting
  <2> QED
    BY <2>2, Extremes DEF Lead!CorpusBudget
<1>4. PICK size \in [leadReports -> ReportSizes] :
           LET order == Lead!SetToSeq(leadReports)
               es == [i \in DOMAIN order |-> [size |-> Lead!Truncated(size[order[i]]), stands |-> {order[i]}]]
           IN  leadEntries' = es /\ leadTodo' = Lead!Reduction(es, 0) /\ leadNext' = << >>
  BY <1>1
<1> DEFINE cut == [r \in leadReports |-> Lead!Truncated(size[r])]
           order == Lead!SetToSeq(leadReports)
           es == [i \in DOMAIN order |-> [size |-> cut[order[i]], stands |-> {order[i]}]]
<1>5. \A r \in leadReports : cut[r] \in Int
  <2>1. \A r \in leadReports : size[r] \in Int
    BY PlanningSettingHolds DEF Lead!PlanningSetting
  <2>2. \A r \in leadReports : Lead!Truncated(size[r]) \in Int
    BY <1>3, <2>1, Extremes DEF Lead!Truncated
  <2> QED
    BY <2>2
<1>6. \A i \in DOMAIN order : order[i] \in leadReports
  <2>1. Lead!ExistsBijection(1 .. Lead!Cardinality(leadReports), leadReports)
    BY <1>2, Lead!FS_CardinalityType
  <2>2. \E f \in [1 .. Lead!Cardinality(leadReports) -> leadReports] : Lead!IsInjective(f)
    BY <2>1 DEF Lead!ExistsBijection, Lead!Bijection, Lead!Injection
  <2>3. order \in [1 .. Lead!Cardinality(leadReports) -> leadReports]
    BY <2>2 DEF Lead!SetToSeq
  <2> QED
    BY <2>3
<1>7. [i \in DOMAIN order |-> [size |-> Lead!Truncated(size[order[i]]), stands |-> {order[i]}]] = es
  BY <1>6
<1>8. leadEntries' = es /\ leadTodo' = Lead!Reduction(es, 0) /\ leadNext' = << >>
  BY <1>4, <1>7
<1> HIDE DEF cut
<1>9. es \in Seq(Lead!Entry) /\ Lead!Stands(es) = leadReports
  BY <1>2, <1>5, CorpusStarts
<1> HIDE DEF es
<1>10. /\ Lead!Reduction(es, 0) \in Seq(Seq(Lead!Entry))
       /\ Lead!Covers(Lead!Reduction(es, 0)) \cup (IF Lead!Reduction(es, 0) = << >>
             THEN Lead!Stands(es) ELSE {}) = Lead!Stands(es)
  BY <1>9, Reducing
<1>11. Lead!InHand' = leadReports
  BY <1>8, <1>9, <1>10, CoversNone DEF Lead!InHand, Lead!Stands, Lead!Covers
<1>12. Lead!LeadTyped'
  <2>1. << >> \in Seq(Lead!Entry)
    OBVIOUS
  <2> QED
    BY <1>1, <1>2, <1>8, <1>9, <1>10, <2>1 DEF Lead!LeadTyped, Lead!Phases
<1> QED
  BY <1>1, <1>11, <1>12 DEF Lead!LeadKept, Lead!AgendaKept, Lead!CorpusKept

(* A partial pass stands for its partition.                                *)
LEMMA LeadReduces ==
  ASSUME Lead!LeadKept, NEW n \in 1 .. Window, Lead!PartialAnswered(n)
  PROVE  Lead!LeadKept'
<1> DEFINE e == [size |-> n, stands |-> Lead!Stands(Head(leadTodo))]
           out == Append(leadNext, e)
<1>0. Lead!LeadTyped /\ leadEntries \in Seq(Lead!Entry) /\ leadNext \in Seq(Lead!Entry)
         /\ leadTodo \in Seq(Seq(Lead!Entry)) /\ leadPhase = "calling" /\ leadTodo # << >>
  BY DEF Lead!LeadKept, Lead!LeadTyped, Lead!PartialAnswered
<1>1. /\ \/ Len(leadTodo) > 1 /\ leadTodo' = Tail(leadTodo) /\ leadNext' = out
               /\ leadEntries' = leadEntries
         \/ ~ (Len(leadTodo) > 1) /\ leadEntries' = out /\ leadNext' = << >>
               /\ leadTodo' = Lead!Reduction(out, leadPass + 1)
      /\ UNCHANGED <<leadMode, leadPhase, leadRound, leadReports, leadStored, leadPlan>>
  BY DEF Lead!PartialAnswered, Lead!run
<1> DEFINE S == Seq(Lead!Entry)
<1>2. Head(leadTodo) \in Seq(Lead!Entry) /\ Tail(leadTodo) \in Seq(Seq(Lead!Entry))
         /\ Lead!Range(leadTodo) = {Head(leadTodo)} \cup Lead!Range(Tail(leadTodo))
  <2> HIDE DEF S
  <2>1. leadTodo \in Seq(S) /\ leadTodo # << >>
    BY <1>0 DEF S
  <2>2. Head(leadTodo) \in S /\ Tail(leadTodo) \in Seq(S)
           /\ Lead!Range(leadTodo) = {Head(leadTodo)} \cup Lead!Range(Tail(leadTodo))
    BY <2>1, Lead!Halved
  <2> QED
    BY <2>2 DEF S
<1> HIDE DEF S
<1>3. Lead!Covers(leadTodo) = Lead!Stands(Head(leadTodo)) \cup Lead!Covers(Tail(leadTodo))
  <2>1. Lead!ToSet(leadTodo) = Lead!Range(leadTodo)
           /\ Lead!ToSet(Tail(leadTodo)) = Lead!Range(Tail(leadTodo))
    BY DEF Lead!ToSet, Lead!Range
  <2> QED
    BY <1>2, <2>1 DEF Lead!Covers
<1>4. e \in Lead!Entry /\ e.stands = Lead!Stands(Head(leadTodo))
  <2>1. Head(leadTodo) \in Seq(Lead!Entry)
    BY <1>2
  <2>2. \A i \in DOMAIN Head(leadTodo) : Head(leadTodo)[i] \in Lead!Entry
    BY <2>1
  <2>3. Lead!Stands(Head(leadTodo)) \in SUBSET ([round : Int, id : Seq(Int)])
    BY <2>2 DEF Lead!Stands, Lead!ToSet, Lead!Entry
  <2>4. n \in Int
    OBVIOUS
  <2> QED
    BY <2>3, <2>4 DEF Lead!Entry
<1> HIDE DEF e
<1>5. out \in Seq(Lead!Entry)
         /\ Lead!Stands(out) = Lead!Stands(leadNext) \cup Lead!Stands(Head(leadTodo)) /\ out # << >>
  BY <1>0, <1>4, StandingFor
<1> HIDE DEF out
<1>6. CASE Len(leadTodo) > 1 /\ leadTodo' = Tail(leadTodo) /\ leadNext' = out
              /\ leadEntries' = leadEntries
  <2>1. Tail(leadTodo) # << >>
    <3> HIDE DEF S
    <3>1. leadTodo \in Seq(S) /\ Len(leadTodo) \in Nat
      BY <1>0 DEF S
    <3>2. Len(Tail(leadTodo)) = Len(leadTodo) - 1
      BY <1>0, <3>1, HeadTailProperties
    <3>3. Len(Tail(leadTodo)) # 0
      BY <1>6, <3>1, <3>2
    <3>4. Len(<< >>) = 0
      OBVIOUS
    <3> DEFINE u == Tail(leadTodo)
    <3>5. Len(u) # 0
      BY <3>3
    <3> HIDE DEF u
    <3>6. u # << >>
      BY <3>4, <3>5
    <3> QED
      BY <3>6 DEF u
  <2>2. Lead!InHand' = Lead!InHand
    BY <1>0, <1>3, <1>5, <1>6, <2>1 DEF Lead!InHand, Lead!Stands, Lead!Covers
  <2>3. Lead!LeadTyped'
    BY <1>0, <1>1, <1>2, <1>5, <1>6 DEF Lead!LeadTyped
  <2> QED
    BY <1>0, <1>1, <2>2, <2>3 DEF Lead!LeadKept, Lead!AgendaKept, Lead!CorpusKept
<1>7. CASE ~ (Len(leadTodo) > 1) /\ leadEntries' = out /\ leadNext' = << >>
              /\ leadTodo' = Lead!Reduction(out, leadPass + 1)
  <2>1. Tail(leadTodo) = << >>
    BY <1>0, <1>7
  <2> DEFINE r == Lead!Reduction(out, leadPass + 1)
  <2>2. r \in Seq(Seq(Lead!Entry)) /\ Lead!Covers(r) \cup (IF r = << >> THEN Lead!Stands(out)
           ELSE {}) = Lead!Stands(out)
    BY <1>5, Reducing
  <2>3. leadTodo' = r
    BY <1>7
  <2> HIDE DEF r
  <2>4. Lead!InHand = Lead!Stands(leadNext) \cup Lead!Stands(Head(leadTodo))
    BY <1>0, <1>3, <2>1, CoversNone DEF Lead!InHand
  <2>5. Lead!InHand' = Lead!Stands(<< >>) \cup Lead!Covers(r) \cup (IF r = << >>
           THEN Lead!Stands(out) ELSE {})
    BY <1>7, <2>3 DEF Lead!InHand, Lead!Stands, Lead!Covers
  <2>6. Lead!InHand' = Lead!InHand
    BY <1>5, <2>2, <2>4, <2>5, CoversNone
  <2>7. Lead!LeadTyped'
    <3>1. << >> \in Seq(Lead!Entry)
      OBVIOUS
    <3> QED
      BY <1>0, <1>1, <1>5, <1>7, <2>2, <2>3, <3>1 DEF Lead!LeadTyped
  <2> QED
    BY <1>0, <1>1, <2>6, <2>7 DEF Lead!LeadKept, Lead!AgendaKept, Lead!CorpusKept
<1> QED
  BY <1>1, <1>6, <1>7

(* The call moves on within itself.                                        *)
LEMMA LeadCalls ==
  ASSUME Lead!LeadKept,
         Lead!AskPlan \/ Lead!AskRoute \/ Lead!BackoffEnds \/ Lead!Garbled \/ Lead!RepairInvalid
  PROVE  Lead!LeadKept'
<1>1. /\ UNCHANGED <<leadMode, leadRound, leadReports, leadStored, leadPlan, leadEntries, leadTodo,
                     leadNext>>
      /\ \/ leadPhase = "asking" /\ leadMode # "synth" /\ leadPhase' = "calling"
         \/ leadPhase = "backoff" /\ leadPhase' = "calling"
         \/ leadPhase \in {"calling", "repairing"} /\ leadPhase' = "repairing"
  BY DEF Lead!AskPlan, Lead!AskRoute, Lead!BackoffEnds, Lead!Garbled, Lead!RepairInvalid,
     Lead!Sent, Lead!run, Lead!call, Lead!corpus
<1>2. Lead!LeadTyped' /\ Lead!InHand' = Lead!InHand
  BY <1>1
     DEF Lead!LeadKept, Lead!LeadTyped, Lead!Phases, Lead!InHand, Lead!Stands, Lead!Covers
<1> QED
  BY <1>1, <1>2 DEF Lead!LeadKept, Lead!AgendaKept, Lead!CorpusKept

LEMMA LeadRetries ==
  ASSUME Lead!LeadKept, NEW f, Lead!CallFails(f)
  PROVE  Lead!LeadKept'
<1>1. /\ leadPhase = "calling"
      /\ UNCHANGED <<leadMode, Lead!run, leadCancelled>>
      /\ \/ leadPhase' = "backoff" /\ UNCHANGED <<leadStored, leadPlan, leadEntries, leadTodo,
                                                  leadNext>>
         \/ Lead!Caught(f)
  BY DEF Lead!CallFails, Lead!corpus
<1>2. CASE Lead!Caught(f)
  BY <1>1, <1>2, LeadCatches
<1>3. CASE leadPhase' = "backoff" /\ UNCHANGED <<leadStored, leadPlan, leadEntries, leadTodo,
                                                 leadNext>>
  <2>1. UNCHANGED <<leadMode, leadRound, leadReports>>
    BY <1>1 DEF Lead!run
  <2>2. Lead!LeadTyped' /\ Lead!InHand' = Lead!InHand
    BY <1>3, <2>1
       DEF Lead!LeadKept, Lead!LeadTyped, Lead!Phases, Lead!InHand, Lead!Stands, Lead!Covers
  <2> QED
    BY <1>1, <1>3, <2>1, <2>2 DEF Lead!LeadKept, Lead!AgendaKept, Lead!CorpusKept
<1> QED
  BY <1>1, <1>2, <1>3

(* The rounds.                                                             *)
LEMMA LeadGoes ==
  ASSUME Lead!LeadKept, NEW m \in {"route", "synth"}, Lead!Goes(m), UNCHANGED Lead!corpus,
         Lead!Runnable(leadStored.team) \/ m = "synth", leadRound' \in Int,
         leadReports' \in SUBSET Lead!Filed, Lead!IsFiniteSet(leadReports')
  PROVE  Lead!LeadKept'
<1>1. /\ leadMode' = m /\ leadPlan' = Lead!NoPlan
            /\ (leadStored' = leadStored \/ (m = "synth" /\ leadStored' = Lead!NoPlan))
      /\ leadPhase' \in {"asking", "over"} /\ UNCHANGED <<leadEntries, leadTodo, leadNext>>
      /\ m # "synth" => leadStored' = leadStored
  BY DEF Lead!Goes, Lead!corpus
<1>2. Lead!LeadTyped'
  BY <1>1, NoPlanFits DEF Lead!LeadKept, Lead!LeadTyped, Lead!Phases
<1>3. m = "route" => Lead!Runnable(leadStored'.team)
  BY <1>1
<1> QED
  BY <1>1, <1>2, <1>3 DEF Lead!LeadKept, Lead!AgendaKept, Lead!CorpusKept

LEMMA LeadFiles ==
  ASSUME Lead!LeadKept, Lead!Researched
  PROVE  Lead!LeadKept'
<1>1. PICK done \in SUBSET {leadPlan.team[i].id : i \in DOMAIN leadPlan.team} : leadReports' = leadReports \cup {[round |-> leadRound, id |-> i] : i \in done}
  BY DEF Lead!Researched
<1>2. leadReports \in SUBSET Lead!Filed /\ Lead!IsFiniteSet(leadReports)
         /\ leadPlan.team \in Seq(Lead!Researcher) /\ leadRound \in Int
  BY DEF Lead!LeadKept, Lead!LeadTyped, Lead!Plans
<1> DEFINE n == Len(leadPlan.team)
           R == {[round |-> leadRound, id |-> leadPlan.team[i].id] : i \in 1 .. n}
           f == [i \in 1 .. n |-> [round |-> leadRound, id |-> leadPlan.team[i].id]]
<1>3. n \in Nat /\ DOMAIN leadPlan.team = 1 .. n
         /\ \A i \in 1 .. n : leadPlan.team[i].id \in Seq(Int)
  <2>1. n \in Nat /\ DOMAIN leadPlan.team = 1 .. n
    BY <1>2
  <2>2. \A i \in DOMAIN leadPlan.team : leadPlan.team[i] \in Lead!Researcher
    BY <1>2
  <2>3. \A r \in Lead!Researcher : r.id \in Seq(Int)
    BY DEF Lead!Researcher
  <2> QED
    BY <2>1, <2>2, <2>3
<1>4. R \subseteq Lead!Filed
  BY <1>2, <1>3 DEF Lead!Filed
<1>5. f \in Lead!Surjection(1 .. n, R)
  BY DEF Lead!Surjection
<1>6. Lead!IsFiniteSet(1 .. n)
  BY <1>3, Lead!FS_Interval
<1> HIDE DEF n, R, f
<1>7. Lead!IsFiniteSet(R)
  BY <1>5, <1>6, Lead!FS_Surjection
<1>8. {[round |-> leadRound, id |-> i] : i \in done} \subseteq R
  BY <1>3 DEF R, n
<1>9. Lead!IsFiniteSet(leadReports \cup R) /\ leadReports' \subseteq leadReports \cup R
  BY <1>1, <1>2, <1>7, <1>8, Lead!FS_Union
<1>10. leadReports' \in SUBSET Lead!Filed /\ Lead!IsFiniteSet(leadReports')
  BY <1>2, <1>4, <1>9, Lead!FS_Subset
<1>11. leadPhase = "researching" /\ leadRound' = leadRound + 1 /\ UNCHANGED Lead!corpus
          /\ Lead!Runnable(leadStored.team)
       /\ \E m \in {"route", "synth"} : Lead!Goes(m)
  <2>1. leadPhase = "researching" /\ leadRound' = leadRound + 1 /\ UNCHANGED Lead!corpus
    BY DEF Lead!Researched
  <2>2. Lead!Goes("route") \/ Lead!Goes("synth")
    BY DEF Lead!Researched
  <2> QED
    BY <2>1, <2>2 DEF Lead!LeadKept, Lead!AgendaKept
<1>12. leadRound' \in Int
  BY <1>2, <1>11
<1> QED
  BY <1>10, <1>11, <1>12, LeadGoes

LEMMA LeadWaits ==
  ASSUME Lead!LeadKept, Lead!Waits \/ Lead!Finishes
  PROVE  Lead!LeadKept'
<1>1. /\ leadPhase = "decided" /\ leadMode = "route" /\ UNCHANGED Lead!corpus
            /\ UNCHANGED <<leadRound, leadReports>>
      /\ (leadPlan.action = "wait" /\ \E m \in {"route", "synth"} : Lead!Goes(m))
            \/ Lead!Goes("synth")
  BY DEF Lead!Waits, Lead!Finishes, Lead!run
<1>2. leadPlan.action = "wait" => Lead!Runnable(leadStored.team)
  BY <1>1 DEF Lead!LeadKept, Lead!AgendaKept
<1>3. leadRound' \in Int /\ leadReports' \in SUBSET Lead!Filed /\ Lead!IsFiniteSet(leadReports')
  BY <1>1 DEF Lead!LeadKept, Lead!LeadTyped
<1>4. CASE leadPlan.action = "wait" /\ \E m \in {"route", "synth"} : Lead!Goes(m)
  BY <1>1, <1>2, <1>3, <1>4, LeadGoes
<1>5. CASE Lead!Goes("synth")
  BY <1>1, <1>3, <1>5, LeadGoes
<1> QED
  BY <1>1, <1>4, <1>5

LEMMA LeadMoves ==
  ASSUME Lead!LeadKept,
         Lead!Delegates \/ Lead!Reported \/ Lead!Cancel \/ UNCHANGED Lead!planningVars
  PROVE  Lead!LeadKept'
<1>1. /\ UNCHANGED <<leadMode, leadRound, leadReports, leadStored, leadPlan, leadEntries, leadTodo,
                     leadNext>>
      /\ \/ leadPhase' = leadPhase
         \/ leadPhase' = "over"
         \/ leadPhase = "decided" /\ leadMode # "synth"
               /\ leadPlan.action \notin {"synthesize", "wait"} /\ leadPhase' = "researching"
  BY DEF Lead!Delegates, Lead!Reported, Lead!Cancel, Lead!planningVars, Lead!run,
     Lead!call, Lead!corpus
<1>2. Lead!LeadTyped' /\ Lead!InHand' = Lead!InHand
  BY <1>1
     DEF Lead!LeadKept, Lead!LeadTyped, Lead!Phases, Lead!InHand, Lead!Stands, Lead!Covers
<1> QED
  BY <1>1, <1>2 DEF Lead!LeadKept, Lead!AgendaKept, Lead!CorpusKept

LEMMA LeadStep == Lead!LeadKept /\ [Lead!Next]_Lead!planningVars => Lead!LeadKept'
<1> SUFFICES ASSUME Lead!LeadKept, [Lead!Next]_Lead!planningVars PROVE Lead!LeadKept'
  OBVIOUS
<1>1. ASSUME Lead!AskPlan \/ Lead!AskRoute \/ Lead!BackoffEnds \/ Lead!Garbled
                \/ Lead!RepairInvalid PROVE Lead!LeadKept'
  BY <1>1, LeadCalls
<1>2. ASSUME Lead!AskReport PROVE Lead!LeadKept'
  BY <1>2, LeadAsksReport
<1>3. ASSUME Lead!NoKey PROVE Lead!LeadKept'
  BY <1>3, LeadCatches DEF Lead!NoKey
<1>4. ASSUME Lead!NoAnswer \/ Lead!TimesOut PROVE Lead!LeadKept'
  BY <1>4, LeadRetries DEF Lead!NoAnswer, Lead!TimesOut
<1>5. ASSUME Lead!BackoffAborted PROVE Lead!LeadKept'
  BY <1>5, LeadCatches DEF Lead!BackoffAborted
<1>6. ASSUME Lead!RepairEnds PROVE Lead!LeadKept'
  BY <1>6, LeadUnusable DEF Lead!RepairEnds
<1>7. ASSUME NEW f \in {"limited", "stated", "hard"}, Lead!CallFails(f) PROVE Lead!LeadKept'
  BY <1>7, LeadRetries
<1>8. ASSUME NEW a \in Lead!Answers, Lead!Answered(a) \/ Lead!Repaired(a)
   PROVE Lead!LeadKept'
  <2>1. leadPhase \in {"calling", "repairing"} /\ Lead!Decide(a)
           /\ UNCHANGED <<leadMode, Lead!run, leadCancelled>>
    BY <1>8 DEF Lead!Answered, Lead!Repaired
  <2> QED
    BY <2>1, LeadDecides
<1>9. ASSUME NEW n \in 1 .. Window, Lead!PartialAnswered(n) PROVE Lead!LeadKept'
  BY <1>9, LeadReduces
<1>10. ASSUME Lead!Researched PROVE Lead!LeadKept'
  BY <1>10, LeadFiles
<1>11. ASSUME Lead!Waits \/ Lead!Finishes PROVE Lead!LeadKept'
  BY <1>11, LeadWaits
<1>12. ASSUME Lead!Delegates \/ Lead!Reported \/ Lead!Cancel \/ UNCHANGED Lead!planningVars
   PROVE Lead!LeadKept'
  BY <1>12, LeadMoves
<1> QED
  BY <1>1, <1>2, <1>3, <1>4, <1>5, <1>6, <1>7, <1>8, <1>9, <1>10, <1>11, <1>12 DEF Lead!Next

(* Whatever the model answers, for teams and budgets of any size: a team   *)
(* that is delegated to can be run, no failure of a router ends the        *)
(* research or leaves it without an agenda, and the final call stands for  *)
(* every report filed.                                                     *)
THEOREM LeadSound == Lead!Spec => []Lead!LeadKeepsTheRun
BY LeadFirst, LeadStep, LeadTruths, PTL DEF Lead!Spec

-----------------------------------------------------------------------------
(* The knowledge search.                                                   *)
VARIABLES
  lookupAt, lookupLeft, lookupCandidates, lookupTriage, lookupChosen,
  lookupGarbled, lookupTodo, lookupText, lookupChars, lookupLost, lookupAttempts,
  lookupCancelled, lookupOutcome, lookupWidgets, lookupPanel
Lookup == INSTANCE KnowledgeSearch WITH
  at <- lookupAt, left <- lookupLeft, candidates <- lookupCandidates,
  triage <- lookupTriage, chosen <- lookupChosen, garbled <- lookupGarbled, todo <- lookupTodo,
  text <- lookupText, chars <- lookupChars, lost <- lookupLost,
  attempts <- lookupAttempts, cancelled <- lookupCancelled,
  outcome <- lookupOutcome, widgets <- lookupWidgets, panel <- lookupPanel,
  Search <- Search, Headless <- Headless, QueriesOf <- QueriesOf,
  RowsOf <- RowsOf, MaxCandidates <- MaxCandidates,
  MaxDocuments <- MaxDocuments, MaxChars <- MaxChars, MinRest <- MinRest,
  MaxAttempts <- MaxAttempts, Indices <- Indices, Sizes <- TextSizes
lookupVars == <<lookupAt, lookupLeft, lookupCandidates, lookupTriage, lookupChosen,
  lookupGarbled, lookupTodo, lookupText, lookupChars, lookupLost, lookupAttempts,
  lookupCancelled, lookupOutcome, lookupWidgets, lookupPanel>>

(* What the proofs need of its parameters.                                 *)
ASSUME SearchSettingHolds == Lookup!SearchSetting

LEMMA RowsAreLists ==
  ASSUME NEW s \in Search, NEW rows \in RowsOf[s]
  PROVE  rows \in Seq(Lookup!Ranked)
<1>1. rows \in Seq(Lookup!Range(rows)) /\ Lookup!Range(rows) \subseteq Lookup!Ranked
  BY SearchSettingHolds DEF Lookup!SearchSetting, Lookup!Ranked
<1> QED
  BY <1>1

(* The beginning of a list.                                                *)
LEMMA Beginning ==
  ASSUME NEW X, NEW seq \in Seq(X), NEW n \in Nat
  PROVE  /\ Lookup!First(n, seq) \in Seq(X) /\ Len(Lookup!First(n, seq)) \in 0 .. Len(seq)
         /\ \A i \in 1 .. Len(Lookup!First(n, seq)) : Lookup!First(n, seq)[i] = seq[i]
         /\ Lookup!Differing(seq) => Lookup!Differing(Lookup!First(n, seq))
         /\ seq = << >> => Lookup!First(n, seq) = << >>
<1> DEFINE m == Lookup!Min({n, Len(seq)})
<1>1. m \in 0 .. Len(seq)
  <2>1. \E x \in {n, Len(seq)} : \A y \in {n, Len(seq)} : x <= y
    BY Len(seq) \in Nat
  <2>2. m \in {n, Len(seq)} /\ \A y \in {n, Len(seq)} : m <= y
    BY <2>1 DEF Lookup!Min
  <2> QED
    BY <2>2
<1>2. Lookup!First(n, seq) = SubSeq(seq, 1, m)
  BY DEF Lookup!First
<1> HIDE DEF m
<1>3. Lookup!First(n, seq) \in Seq(X) /\ Len(Lookup!First(n, seq)) = m
         /\ \A i \in 1 .. m : Lookup!First(n, seq)[i] = seq[i]
  BY <1>1, <1>2
<1>4. DOMAIN Lookup!First(n, seq) = 1 .. m /\ DOMAIN seq = 1 .. Len(seq) /\ Len(seq) \in Nat
  BY <1>3
<1>5. Lookup!Differing(seq) => Lookup!Differing(Lookup!First(n, seq))
  BY <1>1, <1>3, <1>4 DEF Lookup!Differing
<1>6. seq = << >> => Lookup!First(n, seq) = << >>
  BY <1>1, <1>3
<1> QED
  BY <1>1, <1>3, <1>5, <1>6

(* What is found, and what triage names, are lists without repetitions.    *)
LEMMA Merging ==
  ASSUME NEW order \in Seq(Lookup!Ranked), Lookup!Differing(order),
         NEW rows \in Seq(Lookup!Ranked)
  PROVE  Lookup!Merged(order, rows) \in Seq(Lookup!Ranked)
            /\ Lookup!Differing(Lookup!Merged(order, rows))
<1> DEFINE d == Lookup!Distinct(rows)
           w == Lookup!Without(d, Lookup!ToSet(order))
<1>1. d \in Seq(Lookup!Ranked) /\ Lookup!Differing(d)
  BY Lookup!Deduplicated
<1> HIDE DEF d
<1>2. w \in Seq(Lookup!Ranked) /\ Lookup!Range(w) = Lookup!Range(d) \ Lookup!ToSet(order)
         /\ Lookup!Differing(w)
  BY <1>1, Lookup!Filters
<1>3. Lookup!Merged(order, rows) = order \o w
  BY DEF Lookup!Merged, d
<1>4. Lookup!ToSet(order) = Lookup!Range(order)
  BY DEF Lookup!ToSet, Lookup!Range
<1> HIDE DEF w
<1>5. Lookup!Range(order) \cap Lookup!Range(w) = {}
  BY <1>2, <1>4
<1> QED
  BY <1>2, <1>3, <1>5, Lookup!Joined

LEMMA Naming ==
  ASSUME NEW s, lookupCandidates[s] \in Seq(Lookup!Ranked), NEW idx \in Indices
  PROVE  Lookup!NamedPages(s, idx) \in Seq(Lookup!Ranked) /\ Lookup!Differing(Lookup!NamedPages(s, idx))
<1> DEFINE known == Lookup!Within(idx, DOMAIN lookupCandidates[s])
           urls == [k \in DOMAIN known |-> lookupCandidates[s][known[k]]]
<1>1. known \in Seq(Int) /\ Lookup!Range(known) \subseteq DOMAIN lookupCandidates[s]
  BY SearchSettingHolds, Lookup!Filters DEF Lookup!SearchSetting
<1> HIDE DEF known
<1>2. \A k \in DOMAIN known : known[k] \in DOMAIN lookupCandidates[s]
  BY <1>1 DEF Lookup!Range
<1>3. Len(known) \in Nat /\ DOMAIN known = 1 .. Len(known)
  BY <1>1
<1>4. urls \in [1 .. Len(known) -> Lookup!Ranked]
  BY <1>2, <1>3
<1>5. urls \in Seq(Lookup!Ranked)
  BY <1>3, <1>4
<1>6. Lookup!NamedPages(s, idx) = Lookup!Distinct(urls)
  BY DEF Lookup!NamedPages, known
<1> HIDE DEF urls
<1> QED
  BY <1>5, <1>6, Lookup!Deduplicated

LEMMA LookTruths == Lookup!LookKept => Lookup!SearchIsTruthful
<1> SUFFICES ASSUME Lookup!LookKept PROVE Lookup!SearchIsTruthful
  OBVIOUS
<1>0. \A seq : Lookup!ToSet(seq) = Lookup!Range(seq)
  BY DEF Lookup!ToSet, Lookup!Range
<1>1. Lookup!WidgetMeansSearching
  BY DEF Lookup!LookKept, Lookup!Screen, Lookup!Shown, Lookup!WidgetMeansSearching
<1>2. Lookup!MissIsEarned
  BY <1>0 DEF Lookup!LookKept, Lookup!Kept, Lookup!MissIsEarned
<1>3. ASSUME NEW s \in Search, NEW i \in DOMAIN lookupChosen[s],
             NEW j \in DOMAIN lookupChosen[s], j >= i,
             lookupChosen[s][j] \in Lookup!Range(lookupText[s])
      PROVE  lookupChosen[s][i] \in Lookup!Range(lookupText[s]) \cup lookupLost[s]
  <2>1. Lookup!Kept(s) /\ DOMAIN lookupChosen[s] = 1 .. Len(lookupChosen[s])
           /\ Len(lookupChosen[s]) \in Nat
    BY DEF Lookup!LookKept, Lookup!Kept
  <2>2. PICK d \in 0 .. Len(lookupChosen[s]) : Lookup!DealtWith(s, d)
    BY <2>1 DEF Lookup!Kept
  <2>3. PICK k \in 1 .. d : lookupChosen[s][j] = lookupChosen[s][k]
    BY <1>3, <2>2 DEF Lookup!DealtWith
  <2>4. k \in DOMAIN lookupChosen[s]
    BY <2>1, <2>2
  <2>5. k = j
    BY <2>1, <2>3, <2>4 DEF Lookup!Kept, Lookup!Differing
  <2>6. i \in 1 .. d
    BY <1>3, <2>1, <2>2, <2>5
  <2> QED
    BY <2>2, <2>6 DEF Lookup!DealtWith
<1>4. Lookup!BestFirst
  BY <1>0, <1>3 DEF Lookup!BestFirst
<1>5. Lookup!NoAnswerOnceCancelled
  BY DEF Lookup!LookKept, Lookup!Kept, Lookup!NoAnswerOnceCancelled
<1> QED
  BY <1>1, <1>2, <1>4, <1>5 DEF Lookup!SearchIsTruthful

LEMMA LookFirst == Lookup!Init => Lookup!LookKept
<1> SUFFICES ASSUME Lookup!Init PROVE Lookup!LookKept
  OBVIOUS
<1>1. Lookup!Shape
  BY DEF Lookup!Init, Lookup!Shape
<1>2. Lookup!Shown = {}
  BY DEF Lookup!Init, Lookup!Shown, Lookup!Running
<1>3. Lookup!Screen
  BY <1>2, Lookup!FS_EmptySet DEF Lookup!Init, Lookup!Screen
<1>4. ASSUME NEW s \in Search PROVE Lookup!Kept(s)
  <2>1. /\ lookupCandidates[s] = << >> /\ lookupChosen[s] = << >> /\ lookupTodo[s] = << >>
              /\ lookupText[s] = << >> /\ lookupChars[s] = 0 /\ lookupLost[s] = {}
        /\ lookupOutcome[s] = "none" /\ lookupAt[s] = "idle"
    BY DEF Lookup!Init
  <2>2. << >> \in Seq(Lookup!Ranked) /\ Len(<< >>) = 0 /\ Lookup!Differing(<< >>)
           /\ Lookup!Range(<< >>) = {}
    BY DEF Lookup!Differing, Lookup!Range
  <2>3. Lookup!DealtWith(s, 0)
    BY <2>1, <2>2 DEF Lookup!DealtWith
  <2>4. \E d \in 0 .. Len(lookupChosen[s]) : Lookup!DealtWith(s, d)
    BY <2>1, <2>2, <2>3
  <2> QED
    BY <2>1, <2>2, <2>4 DEF Lookup!Kept
<1> QED
  BY <1>1, <1>3, <1>4 DEF Lookup!LookKept

(* The screen.                                                             *)
LEMMA SameScreen ==
  ASSUME Lookup!Screen, UNCHANGED Lookup!screen,
         \A q \in Search : Lookup!Running(q)' <=> Lookup!Running(q)
  PROVE  Lookup!Screen'
<1>1. Lookup!Shown' = Lookup!Shown
  BY DEF Lookup!Shown
<1> QED
  BY <1>1 DEF Lookup!Screen, Lookup!screen

LEMMA ShownOnScreen ==
  ASSUME Lookup!Screen, NEW s \in Search, Lookup!Show(s), ~ Lookup!Running(s),
         Lookup!Running(s)',
         \A q \in Search : q # s => (Lookup!Running(q)' <=> Lookup!Running(q))
  PROVE  Lookup!Screen'
<1>1. CASE s \in Headless
  <2>1. Lookup!Shown' = Lookup!Shown /\ UNCHANGED Lookup!screen
    BY <1>1 DEF Lookup!Shown, Lookup!Show
  <2> QED
    BY <2>1 DEF Lookup!Screen, Lookup!screen
<1>2. CASE s \notin Headless
  <2>1. Lookup!Shown' = Lookup!Shown \cup {s} /\ s \notin Lookup!Shown
    BY <1>2 DEF Lookup!Shown
  <2>2. lookupWidgets' = lookupWidgets + 1 /\ lookupPanel' = TRUE
    BY <1>2 DEF Lookup!Show
  <2> QED
    BY <2>1, <2>2, Lookup!FS_AddElement DEF Lookup!Screen
<1> QED
  BY <1>1, <1>2

LEMMA HiddenFromScreen ==
  ASSUME Lookup!Screen, NEW s \in Search, Lookup!Hide(s), Lookup!Running(s),
         ~ Lookup!Running(s)',
            \A q \in Search : q # s => (Lookup!Running(q)' <=> Lookup!Running(q))
  PROVE  Lookup!Screen'
<1>1. CASE s \in Headless
  <2>1. Lookup!Shown' = Lookup!Shown /\ UNCHANGED Lookup!screen
    BY <1>1 DEF Lookup!Shown, Lookup!Hide
  <2> QED
    BY <2>1 DEF Lookup!Screen, Lookup!screen
<1>2. CASE s \notin Headless
  <2>1. Lookup!Shown' = Lookup!Shown \ {s} /\ s \in Lookup!Shown
    BY <1>2 DEF Lookup!Shown
  <2>2. lookupWidgets' = Lookup!Max({0, lookupWidgets - 1}) /\ lookupPanel' = IF lookupWidgets' > 0
           THEN lookupPanel ELSE FALSE
    BY <1>2 DEF Lookup!Hide
  <2>3. Lookup!IsFiniteSet(Lookup!Shown')
           /\ Lookup!Cardinality(Lookup!Shown') = Lookup!Cardinality(Lookup!Shown) - 1
                 /\ Lookup!Cardinality(Lookup!Shown') \in Nat
                       /\ Lookup!Cardinality(Lookup!Shown) \in Nat
    BY <2>1, Lookup!FS_RemoveElement, Lookup!FS_CardinalityType DEF Lookup!Screen
  <2>4. lookupWidgets' = lookupWidgets - 1
    <3>1. lookupWidgets - 1 \in Nat
      BY <2>3 DEF Lookup!Screen
    <3>2. \E x \in {0, lookupWidgets - 1} : \A y \in {0, lookupWidgets - 1} : x >= y
      BY <3>1
    <3>3. Lookup!Max({0, lookupWidgets - 1}) \in {0, lookupWidgets - 1}
             /\ \A y \in {0, lookupWidgets - 1} : Lookup!Max({0, lookupWidgets - 1}) >= y
      BY <3>2 DEF Lookup!Max
    <3> QED
      BY <2>2, <3>1, <3>3
  <2>5. Lookup!Shown' = {} <=> Lookup!Cardinality(Lookup!Shown') = 0
    BY <2>3, Lookup!FS_EmptySet
  <2>6. lookupPanel = TRUE
    BY <2>1 DEF Lookup!Screen
  <2>7. lookupWidgets' = Lookup!Cardinality(Lookup!Shown') /\ lookupWidgets' \in Nat
    BY <2>3, <2>4 DEF Lookup!Screen
  <2>8. lookupPanel' = (Lookup!Shown' # {})
    <3>1. CASE Lookup!Shown' = {}
      <4>1. ~ (lookupWidgets' > 0)
        BY <2>5, <2>7, <3>1
      <4> QED
        BY <2>2, <3>1, <4>1
    <3>2. CASE Lookup!Shown' # {}
      <4>1. lookupWidgets' > 0
        BY <2>5, <2>7, <3>2
      <4> QED
        BY <2>2, <2>6, <3>2, <4>1
    <3> QED
      BY <3>1, <3>2
  <2> QED
    BY <2>3, <2>7, <2>8 DEF Lookup!Screen
<1> QED
  BY <1>1, <1>2

LEMMA OneSearch ==
  ASSUME Lookup!LookKept, NEW s \in Search, Lookup!Shape', Lookup!Screen',
         Lookup!Leaves(s), Lookup!Kept(s)'
  PROVE  Lookup!LookKept'
<1>1. ASSUME NEW q \in Search, q # s PROVE Lookup!Kept(q)'
  <2>1. Lookup!Kept(q)
    BY DEF Lookup!LookKept
  <2>2. /\ lookupAt'[q] = lookupAt[q] /\ lookupCandidates'[q] = lookupCandidates[q]
              /\ lookupTriage'[q] = lookupTriage[q] /\ lookupChosen'[q] = lookupChosen[q]
        /\ lookupGarbled'[q] = lookupGarbled[q]
        /\ lookupTodo'[q] = lookupTodo[q] /\ lookupText'[q] = lookupText[q]
              /\ lookupChars'[q] = lookupChars[q] /\ lookupLost'[q] = lookupLost[q]
        /\ lookupCancelled'[q] = lookupCancelled[q] /\ lookupOutcome'[q] = lookupOutcome[q]
    BY <1>1 DEF Lookup!Leaves
  <2>3. \A d : Lookup!DealtWith(q, d)' <=> Lookup!DealtWith(q, d)
    BY <2>2 DEF Lookup!DealtWith
  <2> QED
    BY <2>1, <2>2, <2>3 DEF Lookup!Kept
<1> QED
  BY <1>1 DEF Lookup!LookKept

(* An ending, with what was found as it was before or as it is now.        *)
LEMMA EndsOff ==
  ASSUME Lookup!LookKept, NEW s \in Search, NEW how, Lookup!Ends(s, how), Lookup!Running(s)
  PROVE  /\ lookupAt' = [lookupAt EXCEPT ![s] = "over"]
               /\ lookupOutcome' = [lookupOutcome EXCEPT ![s] = how]
                     /\ lookupCancelled' = lookupCancelled
         /\ Lookup!Screen'
<1>1. lookupAt' = [lookupAt EXCEPT ![s] = "over"]
         /\ lookupOutcome' = [lookupOutcome EXCEPT ![s] = how]
               /\ lookupCancelled' = lookupCancelled /\ Lookup!Hide(s)
  BY DEF Lookup!Ends, Lookup!Goes
<1>2. \A q \in Search : lookupAt'[q] = IF q = s THEN "over" ELSE lookupAt[q]
  BY <1>1 DEF Lookup!LookKept, Lookup!Shape
<1>3. ~ Lookup!Running(s)' /\ \A q \in Search : q # s => (Lookup!Running(q)' <=> Lookup!Running(q))
  BY <1>2 DEF Lookup!Running
<1> QED
  BY <1>1, <1>3, HiddenFromScreen DEF Lookup!LookKept

(* A step that leaves what was found, chosen and read.                     *)
LEMMA MovesOn ==
  ASSUME Lookup!LookKept, NEW s \in Search,
         UNCHANGED <<lookupCandidates, lookupTriage, lookupChosen, Lookup!rebuilt>>,
         UNCHANGED lookupGarbled \/ lookupGarbled' = [lookupGarbled EXCEPT ![s] = TRUE],
         NEW where, lookupAt' = [lookupAt EXCEPT ![s] = where],
         UNCHANGED <<lookupCancelled, lookupOutcome>>, lookupOutcome[s] = "none",
         where = "repairing" => lookupGarbled' = [lookupGarbled EXCEPT ![s] = TRUE],
         where # "rebuilding", where \in Lookup!Early => lookupAt[s] \in Lookup!Early,
            Lookup!Screen'
  PROVE  Lookup!LookKept'
<1>0. Lookup!Shape
  BY DEF Lookup!LookKept
<1>1. /\ Lookup!Shape' /\ Lookup!Leaves(s) /\ lookupAt'[s] = where
  <2>1. Lookup!Shape'
    BY <1>0 DEF Lookup!Shape, Lookup!rebuilt
  <2>2. Lookup!Leaves(s) /\ lookupAt'[s] = where
    BY <1>0 DEF Lookup!Shape, Lookup!Leaves, Lookup!rebuilt
  <2> QED
    BY <2>1, <2>2
<1>2. Lookup!Kept(s)
  BY DEF Lookup!LookKept
<1>3. \A d : Lookup!DealtWith(s, d)' <=> Lookup!DealtWith(s, d)
  BY DEF Lookup!DealtWith, Lookup!rebuilt
<1>5. where = "repairing" => lookupGarbled'[s]
  BY <1>0 DEF Lookup!Shape
<1>4. Lookup!Kept(s)'
  BY <1>1, <1>2, <1>3, <1>5 DEF Lookup!Kept, Lookup!rebuilt
<1> QED
  BY <1>1, <1>4, OneSearch

LEMMA Concludes ==
  ASSUME Lookup!LookKept, NEW s \in Search,
         UNCHANGED <<lookupCandidates, Lookup!judged, Lookup!rebuilt>>, Lookup!Screen',
         NEW how, lookupAt' = [lookupAt EXCEPT ![s] = "over"],
         lookupOutcome' = [lookupOutcome EXCEPT ![s] = how],
            lookupCancelled' = lookupCancelled,
         how # "no_results",
            lookupCancelled[s] => how \notin {"yes", "maybe", "error"} /\ (how = "no" => lookupGarbled[s])
  PROVE  Lookup!LookKept'
<1>0. Lookup!Shape
  BY DEF Lookup!LookKept
<1>1. /\ Lookup!Shape' /\ Lookup!Leaves(s) /\ lookupAt'[s] = "over" /\ lookupOutcome'[s] = how
  <2>1. Lookup!Shape'
    BY <1>0 DEF Lookup!Shape, Lookup!judged, Lookup!rebuilt
  <2>2. Lookup!Leaves(s) /\ lookupAt'[s] = "over" /\ lookupOutcome'[s] = how
    BY <1>0 DEF Lookup!Shape, Lookup!Leaves, Lookup!judged, Lookup!rebuilt
  <2> QED
    BY <2>1, <2>2
<1>2. Lookup!Kept(s)
  BY DEF Lookup!LookKept
<1>3. \A d : Lookup!DealtWith(s, d)' <=> Lookup!DealtWith(s, d)
  BY DEF Lookup!DealtWith, Lookup!judged, Lookup!rebuilt
<1>4. Lookup!Kept(s)'
  BY <1>1, <1>2, <1>3 DEF Lookup!Kept, Lookup!judged, Lookup!rebuilt, Lookup!Early
<1> QED
  BY <1>1, <1>4, OneSearch

(* The steps that touch no page.                                           *)
LEMMA LookMoves ==
  ASSUME Lookup!LookKept, NEW s \in Search,
         \/ Lookup!Begin(s) \/ Lookup!StoreReady(s) \/ Lookup!ModelReady(s)
               \/ Lookup!BackoffEnds(s) \/ Lookup!Malformed(s)
  PROVE  Lookup!LookKept'
<1>1. /\ UNCHANGED <<lookupCandidates, lookupTriage, lookupChosen, Lookup!rebuilt, lookupCancelled,
                     lookupOutcome>> /\ lookupAt[s] # "over"
      /\ UNCHANGED lookupGarbled \/ lookupGarbled' = [lookupGarbled EXCEPT ![s] = TRUE]
      /\ \/ lookupAt[s] = "idle" /\ lookupAt' = [lookupAt EXCEPT ![s] = "resolving"]
               /\ Lookup!Show(s)
         \/ lookupAt[s] = "resolving" /\ lookupAt' = [lookupAt EXCEPT ![s] = "querying"]
               /\ UNCHANGED Lookup!screen
         \/ lookupAt[s] = "routing" /\ lookupAt' = [lookupAt EXCEPT ![s] = "triage"]
               /\ UNCHANGED Lookup!screen
         \/ lookupAt[s] = "triage backoff" /\ lookupAt' = [lookupAt EXCEPT ![s] = "triage"]
               /\ UNCHANGED Lookup!screen
         \/ lookupAt[s] = "extract backoff" /\ lookupAt' = [lookupAt EXCEPT ![s] = "extracting"]
               /\ UNCHANGED Lookup!screen
         \/ lookupAt[s] = "extracting" /\ lookupAt' = [lookupAt EXCEPT ![s] = "repairing"]
               /\ UNCHANGED Lookup!screen /\ lookupGarbled' = [lookupGarbled EXCEPT ![s] = TRUE]
  <2>1. CASE Lookup!Begin(s)
    BY <2>1 DEF Lookup!Begin, Lookup!Goes, Lookup!found, Lookup!judged
  <2>2. CASE Lookup!StoreReady(s)
    BY <2>2 DEF Lookup!StoreReady, Lookup!Goes, Lookup!found, Lookup!judged
  <2>3. CASE Lookup!ModelReady(s)
    BY <2>3 DEF Lookup!ModelReady, Lookup!Ask, Lookup!Goes, Lookup!found, Lookup!judged
  <2>4. CASE Lookup!BackoffEnds(s)
    BY <2>4 DEF Lookup!BackoffEnds, Lookup!Goes, Lookup!found, Lookup!judged, Lookup!Backoffs
  <2>5. CASE Lookup!Malformed(s)
    BY <2>5 DEF Lookup!Malformed, Lookup!Goes, Lookup!found
  <2> QED
    BY <2>1, <2>2, <2>3, <2>4, <2>5
<1>2. lookupOutcome[s] = "none" /\ DOMAIN lookupAt = Search /\ Lookup!Screen
  BY <1>1 DEF Lookup!LookKept, Lookup!Kept, Lookup!Shape
<1>3. PICK where : /\ lookupAt' = [lookupAt EXCEPT ![s] = where] /\ where # "rebuilding"
                         /\ (where \in Lookup!Early => lookupAt[s] \in Lookup!Early)
                   /\ (where = "repairing" => lookupGarbled' = [lookupGarbled EXCEPT ![s] = TRUE])
                   /\ where \notin {"idle", "over"}
                         /\ ((lookupAt[s] = "idle" /\ Lookup!Show(s))
                               \/ (lookupAt[s] \notin {"idle", "over"} /\ UNCHANGED Lookup!screen))
  BY <1>1 DEF Lookup!Early
<1>4. \A q \in Search : lookupAt'[q] = IF q = s THEN where ELSE lookupAt[q]
  BY <1>2, <1>3
<1>5. Lookup!Running(s)' /\ \A q \in Search : q # s => (Lookup!Running(q)' <=> Lookup!Running(q))
  BY <1>3, <1>4 DEF Lookup!Running
<1>6. Lookup!Screen'
  <2>1. CASE lookupAt[s] = "idle" /\ Lookup!Show(s)
    BY <1>2, <1>5, <2>1, ShownOnScreen DEF Lookup!Running
  <2>2. CASE lookupAt[s] \notin {"idle", "over"} /\ UNCHANGED Lookup!screen
    <3>1. \A q \in Search : Lookup!Running(q)' <=> Lookup!Running(q)
      BY <1>5, <2>2 DEF Lookup!Running
    <3> QED
      BY <1>2, <2>2, <3>1, SameScreen
  <2> QED
    BY <1>3, <2>1, <2>2
<1> QED
  BY <1>1, <1>2, <1>3, <1>6, MovesOn

LEMMA LookBacksOff ==
  ASSUME Lookup!LookKept, NEW s \in Search, lookupAt[s] \in {"triage", "extracting"},
         NEW where,
         where = (IF lookupAt[s] = "triage" THEN "triage backoff" ELSE "extract backoff"),
         lookupAt' = [lookupAt EXCEPT ![s] = where],
            UNCHANGED <<lookupCandidates, Lookup!judged, Lookup!rebuilt, lookupCancelled,
                        lookupOutcome, Lookup!screen>>
  PROVE  Lookup!LookKept'
<1>1. lookupOutcome[s] = "none" /\ DOMAIN lookupAt = Search /\ Lookup!Screen
  BY DEF Lookup!LookKept, Lookup!Kept, Lookup!Shape
<1>2. where # "rebuilding" /\ (where \in Lookup!Early => lookupAt[s] \in Lookup!Early)
         /\ where \notin {"idle", "over"}
  BY DEF Lookup!Early
<1>3. \A q \in Search : lookupAt'[q] = IF q = s THEN where ELSE lookupAt[q]
  BY <1>1
<1>4. \A q \in Search : Lookup!Running(q)' <=> Lookup!Running(q)
  BY <1>2, <1>3 DEF Lookup!Running
<1>5. Lookup!Screen'
  BY <1>1, <1>4, SameScreen
<1> QED
  BY <1>1, <1>2, <1>5, MovesOn DEF Lookup!judged

LEMMA LookEnds ==
  ASSUME Lookup!LookKept, NEW s \in Search,
         UNCHANGED <<lookupCandidates, Lookup!judged, Lookup!rebuilt>>, Lookup!Running(s),
         NEW how, Lookup!Ends(s, how), how # "no_results",
         lookupCancelled[s] => how \notin {"yes", "maybe", "error"} /\ (how = "no" => lookupGarbled[s])
  PROVE  Lookup!LookKept'
BY EndsOff, Concludes

LEMMA LookInvalid ==
  ASSUME Lookup!LookKept, NEW s \in Search, Lookup!InvalidParams(s)
  PROVE  Lookup!LookKept'
<1>1. /\ UNCHANGED <<lookupCandidates, Lookup!judged, Lookup!rebuilt, lookupCancelled,
                     Lookup!screen>> /\ lookupAt[s] = "idle"
      /\ lookupAt' = [lookupAt EXCEPT ![s] = "over"]
            /\ lookupOutcome' = [lookupOutcome EXCEPT ![s] = "invalid"]
  BY DEF Lookup!InvalidParams, Lookup!Goes, Lookup!found
<1>2. DOMAIN lookupAt = Search /\ Lookup!Screen
  BY DEF Lookup!LookKept, Lookup!Shape
<1>3. \A q \in Search : Lookup!Running(q)' <=> Lookup!Running(q)
  BY <1>1, <1>2 DEF Lookup!Running
<1>4. Lookup!Screen'
  BY <1>1, <1>2, <1>3, SameScreen
<1> QED
  BY <1>1, <1>4, Concludes

LEMMA LookCancels ==
  ASSUME Lookup!LookKept, NEW s \in Search, Lookup!Cancel(s)
  PROVE  Lookup!LookKept'
<1>1. /\ UNCHANGED <<lookupAt, lookupCandidates, Lookup!judged, Lookup!rebuilt, lookupOutcome,
                     Lookup!screen>> /\ Lookup!Running(s)
                        /\ lookupCancelled' = [lookupCancelled EXCEPT ![s] = TRUE]
  BY DEF Lookup!Cancel, Lookup!found
<1>2. Lookup!Kept(s) /\ Lookup!Shape /\ Lookup!Screen
  BY DEF Lookup!LookKept
<1>3. Lookup!Shape' /\ Lookup!Leaves(s)
  BY <1>1, <1>2 DEF Lookup!Shape, Lookup!Leaves, Lookup!judged, Lookup!rebuilt
<1>4. Lookup!Screen'
  BY <1>1, <1>2, SameScreen DEF Lookup!Running
<1>5. lookupOutcome[s] = "none"
  BY <1>1, <1>2 DEF Lookup!Kept, Lookup!Running
<1>6. \A d : Lookup!DealtWith(s, d)' <=> Lookup!DealtWith(s, d)
  BY <1>1 DEF Lookup!DealtWith, Lookup!judged, Lookup!rebuilt
<1>7. Lookup!Kept(s)'
  BY <1>1, <1>2, <1>5, <1>6 DEF Lookup!Kept, Lookup!judged, Lookup!rebuilt
<1> QED
  BY <1>3, <1>4, <1>7, OneSearch

(* The pages that are found.                                               *)
LEMMA LookCollects ==
  ASSUME Lookup!LookKept, NEW s \in Search, lookupAt[s] = "querying",
         NEW order \in Seq(Lookup!Ranked), Lookup!Differing(order),
         Lookup!Collected(s, order)
  PROVE  Lookup!LookKept'
<1>1. /\ lookupCandidates' = [lookupCandidates EXCEPT ![s] = IF lookupLeft[s] = 1
            THEN Lookup!First(MaxCandidates, order) ELSE order]
      /\ UNCHANGED <<Lookup!judged, Lookup!rebuilt>>
      /\ \/ UNCHANGED <<lookupAt, lookupOutcome, Lookup!screen, lookupCancelled>>
         \/ order = << >> /\ Lookup!Ends(s, "no_results")
         \/ lookupAt' = [lookupAt EXCEPT ![s] = "routing"]
               /\ UNCHANGED <<lookupOutcome, Lookup!screen, lookupCancelled>>
  BY DEF Lookup!Collected, Lookup!Miss, Lookup!Goes
<1>2. Lookup!Kept(s) /\ Lookup!Shape /\ Lookup!Screen
  BY DEF Lookup!LookKept
<1>3. lookupCandidates'[s] \in Seq(Lookup!Ranked) /\ Lookup!Differing(lookupCandidates'[s])
         /\ (order = << >> => lookupCandidates'[s] = << >>)
  <2>1. lookupCandidates'[s] = IF lookupLeft[s] = 1 THEN Lookup!First(MaxCandidates, order)
           ELSE order
    BY <1>1, <1>2 DEF Lookup!Shape
  <2>2. MaxCandidates \in Nat
    BY SearchSettingHolds DEF Lookup!SearchSetting
  <2>3. Lookup!First(MaxCandidates, order) \in Seq(Lookup!Ranked)
           /\ Lookup!Differing(Lookup!First(MaxCandidates, order))
                 /\ (order = << >> => Lookup!First(MaxCandidates, order) = << >>)
    BY <2>2, Beginning
  <2> QED
    BY <2>1, <2>3
<1>4. \A d : Lookup!DealtWith(s, d)' <=> Lookup!DealtWith(s, d)
  BY <1>1 DEF Lookup!DealtWith, Lookup!judged, Lookup!rebuilt
<1>5. lookupAt[s] \in Lookup!Early /\ lookupOutcome[s] = "none" /\ Lookup!Running(s)
  BY <1>2 DEF Lookup!Early, Lookup!Kept, Lookup!Running
<1>6. CASE order = << >> /\ Lookup!Ends(s, "no_results")
  <2>1. Lookup!Screen' /\ lookupAt' = [lookupAt EXCEPT ![s] = "over"]
           /\ lookupOutcome' = [lookupOutcome EXCEPT ![s] = "no_results"]
                 /\ lookupCancelled' = lookupCancelled
    BY <1>5, <1>6, EndsOff
  <2>2. Lookup!Shape' /\ Lookup!Leaves(s) /\ lookupAt'[s] = "over"
           /\ lookupOutcome'[s] = "no_results"
    BY <1>1, <1>2, <2>1 DEF Lookup!Shape, Lookup!Leaves, Lookup!judged, Lookup!rebuilt
  <2>3. Lookup!Kept(s)'
    BY <1>1, <1>2, <1>3, <1>4, <1>6, <2>1, <2>2
       DEF Lookup!Kept, Lookup!judged, Lookup!rebuilt, Lookup!Early
  <2> QED
    BY <2>1, <2>2, <2>3, OneSearch
<1>7. CASE UNCHANGED <<lookupOutcome, Lookup!screen,
                       lookupCancelled>>
                          /\ (lookupAt' = lookupAt
                                \/ lookupAt' = [lookupAt EXCEPT ![s] = "routing"])
  <2>1. Lookup!Shape' /\ Lookup!Leaves(s) /\ lookupAt'[s] \in {"querying", "routing"}
           /\ lookupOutcome'[s] = "none"
    BY <1>1, <1>2, <1>5, <1>7 DEF Lookup!Shape, Lookup!Leaves, Lookup!judged, Lookup!rebuilt
  <2>2. \A q \in Search : Lookup!Running(q)' <=> Lookup!Running(q)
    BY <1>2, <1>7, <2>1 DEF Lookup!Running, Lookup!Shape, Lookup!Leaves
  <2>3. Lookup!Screen'
    BY <1>2, <1>7, <2>2, SameScreen
  <2>4. Lookup!Kept(s)'
    BY <1>1, <1>2, <1>3, <1>4, <1>5, <1>7, <2>1
       DEF Lookup!Kept, Lookup!judged, Lookup!rebuilt, Lookup!Early
  <2> QED
    BY <2>1, <2>3, <2>4, OneSearch
<1> QED
  BY <1>1, <1>6, <1>7

(* The pages that are chosen.                                              *)
LEMMA LookJudges ==
  ASSUME Lookup!LookKept, NEW s \in Search, lookupAt[s] = "triage",
         NEW urls \in Seq(Lookup!Ranked), Lookup!Differing(urls),
         NEW verdict, Lookup!Judged(s, verdict, urls),
         verdict = "ran" \/ urls = lookupCandidates[s]
  PROVE  Lookup!LookKept'
<1>1. /\ lookupTriage' = [lookupTriage EXCEPT ![s] = verdict]
            /\ lookupChosen' = [lookupChosen EXCEPT ![s] = urls]
      /\ UNCHANGED <<lookupCandidates, lookupGarbled, lookupText, lookupChars, lookupLost>>
      /\ \/ urls = << >> /\ Lookup!Ends(s, "no_results") /\ lookupTodo' = lookupTodo
         \/ /\ urls # << >> /\ lookupAt' = [lookupAt EXCEPT ![s] = "rebuilding"]
                  /\ lookupTodo' = [lookupTodo EXCEPT ![s] = Lookup!First(MaxDocuments, urls)]
            /\ UNCHANGED <<lookupOutcome, Lookup!screen, lookupCancelled>>
  BY DEF Lookup!Judged, Lookup!Miss, Lookup!Goes, Lookup!found
<1>2. Lookup!Kept(s) /\ Lookup!Shape /\ Lookup!Screen
  BY DEF Lookup!LookKept
<1>3. lookupAt[s] \in Lookup!Early /\ lookupOutcome[s] = "none" /\ Lookup!Running(s)
         /\ lookupText[s] = << >> /\ lookupLost[s] = {} /\ lookupTodo[s] = << >>
  BY <1>2 DEF Lookup!Early, Lookup!Kept, Lookup!Running
<1>4. lookupChosen'[s] = urls /\ lookupTriage'[s] = verdict /\ lookupText'[s] = << >>
         /\ lookupLost'[s] = {} /\ Lookup!Range(<< >>) = {}
  BY <1>1, <1>2, <1>3 DEF Lookup!Shape, Lookup!Range
<1>5. CASE urls = << >> /\ Lookup!Ends(s, "no_results") /\ lookupTodo' = lookupTodo
  <2>1. Lookup!Screen' /\ lookupAt' = [lookupAt EXCEPT ![s] = "over"]
           /\ lookupOutcome' = [lookupOutcome EXCEPT ![s] = "no_results"]
                 /\ lookupCancelled' = lookupCancelled
    BY <1>3, <1>5, EndsOff
  <2>2. Lookup!Shape' /\ Lookup!Leaves(s) /\ lookupAt'[s] = "over"
           /\ lookupOutcome'[s] = "no_results"
    BY <1>1, <1>2, <1>5, <2>1 DEF Lookup!Shape, Lookup!Leaves
  <2>3. Lookup!DealtWith(s, 0)'
    BY <1>3, <1>4, <1>5 DEF Lookup!DealtWith
  <2>4. \E d \in 0 .. Len(lookupChosen'[s]) : Lookup!DealtWith(s, d)'
    BY <1>4, <2>3
  <2>5. Lookup!Kept(s)'
    BY <1>1, <1>2, <1>3, <1>4, <1>5, <2>1, <2>2, <2>4 DEF Lookup!Kept, Lookup!Early
  <2> QED
    BY <2>1, <2>2, <2>5, OneSearch
<1>6. CASE /\ urls # << >> /\ lookupAt' = [lookupAt EXCEPT ![s] = "rebuilding"]
                 /\ lookupTodo' = [lookupTodo EXCEPT ![s] = Lookup!First(MaxDocuments, urls)]
           /\ UNCHANGED <<lookupOutcome, Lookup!screen, lookupCancelled>>
  <2>1. Lookup!Shape' /\ Lookup!Leaves(s) /\ lookupAt'[s] = "rebuilding"
           /\ lookupOutcome'[s] = "none" /\ lookupTodo'[s] = Lookup!First(MaxDocuments, urls)
    BY <1>1, <1>2, <1>3, <1>6 DEF Lookup!Shape, Lookup!Leaves
  <2>2. \A q \in Search : Lookup!Running(q)' <=> Lookup!Running(q)
    BY <1>3, <2>1 DEF Lookup!Running, Lookup!Leaves
  <2>3. Lookup!Screen'
    BY <1>2, <1>6, <2>2, SameScreen
  <2>4. MaxDocuments \in Nat
    BY SearchSettingHolds DEF Lookup!SearchSetting
  <2>5. /\ lookupTodo'[s] \in Seq(Lookup!Ranked) /\ Len(lookupTodo'[s]) \in 0 .. Len(urls)
              /\ \A i \in 1 .. Len(lookupTodo'[s]) : lookupTodo'[s][i] = urls[i]
    BY <2>1, <2>4, Beginning
  <2>6. Lookup!DealtWith(s, 0)'
    BY <1>4, <2>5 DEF Lookup!DealtWith
  <2>7. \E d \in 0 .. Len(lookupChosen'[s]) : Lookup!DealtWith(s, d)'
    BY <1>4, <2>6
  <2>8. Lookup!Kept(s)'
    BY <1>1, <1>2, <1>3, <1>4, <1>6, <2>1, <2>5, <2>7 DEF Lookup!Kept, Lookup!Early
  <2> QED
    BY <2>1, <2>3, <2>8, OneSearch
<1> QED
  BY <1>1, <1>5, <1>6
(* The next of the chosen pages is dealt with.                             *)
LEMMA Dealing ==
  ASSUME NEW s \in Search, Lookup!Kept(s), lookupTodo[s] # << >>,
         lookupChosen'[s] = lookupChosen[s],
         NEW u, u = Head(lookupTodo[s]), NEW read, NEW gone,
         Lookup!Range(lookupText'[s]) = Lookup!Range(lookupText[s]) \cup read,
         lookupLost'[s] = lookupLost[s] \cup gone, read \cup gone = {u},
         lookupTodo'[s] = Tail(lookupTodo[s]) \/ lookupTodo'[s] = << >>
  PROVE  \E d \in 0 .. Len(lookupChosen[s]) : Lookup!DealtWith(s, d)'
<1>1. lookupChosen[s] \in Seq(Lookup!Ranked) /\ lookupTodo[s] \in Seq(Lookup!Ranked)
         /\ Len(lookupChosen[s]) \in Nat /\ Len(lookupTodo[s]) \in Nat \ {0}
  BY DEF Lookup!Kept
<1>2. PICK d \in 0 .. Len(lookupChosen[s]) : Lookup!DealtWith(s, d)
  BY DEF Lookup!Kept
<1>3. d + 1 \in 0 .. Len(lookupChosen[s]) /\ u = lookupChosen[s][d + 1]
  BY <1>1, <1>2 DEF Lookup!DealtWith
<1>4. \A i \in 1 .. d + 1 : i \in 1 .. d \/ i = d + 1
  BY <1>2
<1>5. \A i \in 1 .. d : i \in 1 .. d + 1
  BY <1>2
<1>6. d + 1 \in 1 .. d + 1
  BY <1>2
<1>7. \A v \in Lookup!Range(lookupText'[s]) : \E i \in 1 .. d + 1 : v = lookupChosen'[s][i]
  BY <1>2, <1>3, <1>5, <1>6 DEF Lookup!DealtWith
<1>8. \A i \in 1 .. d + 1 : lookupChosen'[s][i] \in Lookup!Range(lookupText'[s]) \cup lookupLost'[s]
  BY <1>2, <1>3, <1>4 DEF Lookup!DealtWith
<1>9. ASSUME lookupTodo'[s] # << >>
   PROVE Len(lookupTodo'[s]) + (d + 1) <= Len(lookupChosen'[s])
            /\ \A k \in 1 .. Len(lookupTodo'[s]) : lookupTodo'[s][k] = lookupChosen'[s][d + 1 + k]
  <2>0. Len(Tail(lookupTodo[s])) = Len(lookupTodo[s]) - 1
           /\ \A k \in 1 .. Len(lookupTodo[s]) - 1 : Tail(lookupTodo[s])[k] = lookupTodo[s][k + 1]
    BY <1>1
  <2>1. Len(lookupTodo'[s]) = Len(lookupTodo[s]) - 1
           /\ \A k \in 1 .. Len(lookupTodo[s]) - 1 : lookupTodo'[s][k] = lookupTodo[s][k + 1]
    BY <1>9, <2>0
  <2>2. \A k \in 1 .. Len(lookupTodo[s]) - 1 : k + 1 \in 1 .. Len(lookupTodo[s])
           /\ d + (k + 1) = d + 1 + k
    BY <1>1, <1>2
  <2>3. Len(lookupTodo[s]) + d <= Len(lookupChosen[s])
           /\ \A k \in 1 .. Len(lookupTodo[s]) : lookupTodo[s][k] = lookupChosen[s][d + k]
    BY <1>2 DEF Lookup!DealtWith
  <2>4. Len(lookupTodo[s]) - 1 + (d + 1) <= Len(lookupChosen[s])
    <3>1. Len(lookupTodo[s]) \in Int /\ d \in Int /\ Len(lookupChosen[s]) \in Int
      BY <1>1, <1>2
    <3>2. \A a, b, e \in Int : a + b <= e => a - 1 + (b + 1) <= e
      OBVIOUS
    <3> QED
      BY <2>3, <3>1, <3>2
  <2>5. \A k \in 1 .. Len(lookupTodo[s]) - 1 : lookupTodo'[s][k] = lookupChosen[s][d + 1 + k]
    BY <2>1, <2>2, <2>3
  <2> QED
    BY <2>1, <2>4, <2>5
<1>10. Lookup!DealtWith(s, d + 1)'
  BY <1>7, <1>8, <1>9 DEF Lookup!DealtWith
<1> QED
  BY <1>3, <1>10

LEMMA LookRebuilds ==
  ASSUME Lookup!LookKept, NEW s \in Search, NEW size \in TextSizes, Lookup!Rebuilt(s, size)
  PROVE  Lookup!LookKept'
<1> DEFINE u == Head(lookupTodo[s])
           rest == MaxChars - lookupChars[s]
<1>1. /\ lookupAt[s] = "rebuilding" /\ lookupTodo[s] # << >>
      /\ UNCHANGED <<lookupAt, lookupCandidates, Lookup!judged, lookupLost, lookupCancelled,
                     lookupOutcome, Lookup!screen>>
      /\ Lookup!Added(s, u, size)
  BY DEF Lookup!Rebuilt, Lookup!found
<1>2. Lookup!Kept(s) /\ Lookup!Shape /\ Lookup!Screen
  BY DEF Lookup!LookKept
<1>3. size \in Int /\ MaxChars \in Int /\ MinRest \in Nat /\ MinRest < MaxChars
         /\ lookupChars[s] \in Int
  BY <1>2, SearchSettingHolds DEF Lookup!SearchSetting, Lookup!Kept
<1>4. u \in Lookup!Ranked /\ Tail(lookupTodo[s]) \in Seq(Lookup!Ranked)
  BY <1>1, <1>2, Lookup!Halved DEF Lookup!Kept
<1>5. Append(lookupText[s], u) \in Seq(Lookup!Ranked) /\ Append(lookupText[s], u) # << >>
         /\ Lookup!Range(Append(lookupText[s], u)) = Lookup!Range(lookupText[s]) \cup {u}
  <2>1. lookupText[s] \in Seq(Lookup!Ranked)
    BY <1>2 DEF Lookup!Kept
  <2> HIDE DEF u
  <2>2. Append(lookupText[s], u) # << >>
    BY <1>4, <2>1
  <2> QED
    BY <1>4, <2>1, <2>2, Lookup!Appended
<1>6. CASE lookupText' = [lookupText EXCEPT ![s] = Append(@, u)]
              /\ \E n \in Int : lookupChars' = [lookupChars EXCEPT ![s] = n]
      /\ \E t \in {Tail(lookupTodo[s]), << >>} : lookupTodo' = [lookupTodo EXCEPT ![s] = t]
  <2>1. Lookup!Shape' /\ Lookup!Leaves(s) /\ lookupText'[s] = Append(lookupText[s], u)
           /\ lookupChars'[s] \in Int /\ lookupTodo'[s] \in {Tail(lookupTodo[s]), << >>}
    BY <1>1, <1>2, <1>6 DEF Lookup!Shape, Lookup!Leaves, Lookup!judged
  <2>2. lookupChosen'[s] = lookupChosen[s] /\ lookupLost'[s] = lookupLost[s] \cup {}
           /\ Lookup!Range(lookupText'[s]) = Lookup!Range(lookupText[s]) \cup {u}
                 /\ {u} \cup {} = {u}
    BY <1>1, <1>5, <2>1 DEF Lookup!judged
  <2>3. \E d \in 0 .. Len(lookupChosen[s]) : Lookup!DealtWith(s, d)'
    BY <1>1, <1>2, <2>1, <2>2, Dealing
  <2>4. lookupTodo'[s] \in Seq(Lookup!Ranked)
    <3>1. << >> \in Seq(Lookup!Ranked)
      OBVIOUS
    <3> QED
      BY <1>4, <2>1, <3>1
  <2>5. Lookup!Kept(s)'
    BY <1>1, <1>2, <1>5, <2>1, <2>2, <2>3, <2>4 DEF Lookup!Kept, Lookup!judged, Lookup!Early
  <2>6. Lookup!Screen'
    BY <1>1, <1>2, SameScreen DEF Lookup!Running
  <2> QED
    BY <2>1, <2>5, <2>6, OneSearch
<1>7. CASE UNCHANGED <<lookupText, lookupChars>> /\ lookupTodo' = [lookupTodo EXCEPT ![s] = << >>]
              /\ ~ (rest > MinRest)
  <2>1. Lookup!Shape' /\ Lookup!Leaves(s) /\ lookupText'[s] = lookupText[s]
           /\ lookupChars'[s] = lookupChars[s] /\ lookupTodo'[s] = << >>
                 /\ lookupChosen'[s] = lookupChosen[s] /\ lookupLost'[s] = lookupLost[s]
    BY <1>1, <1>2, <1>7 DEF Lookup!Shape, Lookup!Leaves, Lookup!judged
  <2>2. lookupText[s] # << >>
    BY <1>2, <1>3, <1>7 DEF Lookup!Kept
  <2>3. \A d : Lookup!DealtWith(s, d) => Lookup!DealtWith(s, d)'
    BY <2>1 DEF Lookup!DealtWith
  <2>6. << >> \in Seq(Lookup!Ranked)
    OBVIOUS
  <2> HIDE DEF u, rest
  <2>7. \E d \in 0 .. Len(lookupChosen'[s]) : Lookup!DealtWith(s, d)'
    BY <1>2, <2>1, <2>3 DEF Lookup!Kept
  <2>4. Lookup!Kept(s)'
    BY <1>1, <1>2, <2>1, <2>2, <2>6, <2>7 DEF Lookup!Kept, Lookup!judged, Lookup!Early
  <2>5. Lookup!Screen'
    BY <1>1, <1>2, SameScreen DEF Lookup!Running
  <2> QED
    BY <2>1, <2>4, <2>5, OneSearch
<1>8. \/ /\ lookupText' = [lookupText EXCEPT ![s] = Append(@, u)]
            /\ lookupChars' = [lookupChars EXCEPT ![s] = @ + size]
                  /\ lookupTodo' = [lookupTodo EXCEPT ![s] = Tail(@)]
      \/ /\ lookupText' = [lookupText EXCEPT ![s] = Append(@, u)]
            /\ lookupChars' = [lookupChars EXCEPT ![s] = MaxChars]
                  /\ lookupTodo' = [lookupTodo EXCEPT ![s] = << >>]
      \/ /\ UNCHANGED <<lookupText, lookupChars>> /\ lookupTodo' = [lookupTodo EXCEPT ![s] = << >>]
            /\ ~ (rest > MinRest)
  BY <1>1 DEF Lookup!Added
<1>9. lookupChars[s] + size \in Int
  BY <1>3
<1>10. \/ /\ lookupText' = [lookupText EXCEPT ![s] = Append(@, u)]
                /\ lookupChars' = [lookupChars EXCEPT ![s] = lookupChars[s] + size]
                      /\ lookupTodo' = [lookupTodo EXCEPT ![s] = Tail(lookupTodo[s])]
       \/ /\ lookupText' = [lookupText EXCEPT ![s] = Append(@, u)]
                /\ lookupChars' = [lookupChars EXCEPT ![s] = MaxChars]
                      /\ lookupTodo' = [lookupTodo EXCEPT ![s] = << >>]
       \/ /\ UNCHANGED <<lookupText, lookupChars>>
                /\ lookupTodo' = [lookupTodo EXCEPT ![s] = << >>] /\ ~ (rest > MinRest)
  BY <1>8
<1> HIDE DEF u, rest
<1>11. \/ /\ lookupText' = [lookupText EXCEPT ![s] = Append(@, u)]
                /\ \E n \in Int : lookupChars' = [lookupChars EXCEPT ![s] = n]
          /\ \E t \in {Tail(lookupTodo[s]), << >>} : lookupTodo' = [lookupTodo EXCEPT ![s] = t]
       \/ /\ UNCHANGED <<lookupText, lookupChars>>
             /\ lookupTodo' = [lookupTodo EXCEPT ![s] = << >>] /\ ~ (rest > MinRest)
  BY <1>3, <1>9, <1>10
<1> QED
  BY <1>6, <1>7, <1>11

LEMMA LookMisses ==
  ASSUME Lookup!LookKept, NEW s \in Search, Lookup!NotRebuilt(s)
  PROVE  Lookup!LookKept'
<1> DEFINE u == Head(lookupTodo[s])
<1>1. /\ lookupAt[s] = "rebuilding" /\ lookupTodo[s] # << >>
      /\ UNCHANGED <<lookupAt, lookupCandidates, Lookup!judged, lookupText, lookupChars,
                     lookupCancelled, lookupOutcome, Lookup!screen>>
      /\ lookupLost' = [lookupLost EXCEPT ![s] = @ \cup {u}]
            /\ lookupTodo' = [lookupTodo EXCEPT ![s] = Tail(@)]
  BY DEF Lookup!NotRebuilt, Lookup!found
<1>2. Lookup!Kept(s) /\ Lookup!Shape /\ Lookup!Screen
  BY DEF Lookup!LookKept
<1>3. u \in Lookup!Ranked /\ Tail(lookupTodo[s]) \in Seq(Lookup!Ranked)
         /\ Lookup!Range(lookupTodo[s]) = {u} \cup Lookup!Range(Tail(lookupTodo[s]))
  BY <1>1, <1>2, Lookup!Halved DEF Lookup!Kept
<1>4. Lookup!Shape' /\ Lookup!Leaves(s) /\ lookupText'[s] = lookupText[s]
         /\ lookupChars'[s] = lookupChars[s] /\ lookupTodo'[s] = Tail(lookupTodo[s])
               /\ lookupLost'[s] = lookupLost[s] \cup {u}
  BY <1>1, <1>2 DEF Lookup!Shape, Lookup!Leaves, Lookup!judged
<1>5. lookupChosen'[s] = lookupChosen[s]
         /\ Lookup!Range(lookupText'[s]) = Lookup!Range(lookupText[s]) \cup {} /\ {} \cup {u} = {u}
  BY <1>1, <1>4 DEF Lookup!judged
<1>6. \E d \in 0 .. Len(lookupChosen[s]) : Lookup!DealtWith(s, d)'
  BY <1>1, <1>2, <1>4, <1>5, Dealing
<1>7. Lookup!Screen'
  BY <1>1, <1>2, SameScreen DEF Lookup!Running
<1> HIDE DEF u
<1>8. Lookup!Kept(s)'
  BY <1>1, <1>2, <1>3, <1>4, <1>5, <1>6 DEF Lookup!Kept, Lookup!judged, Lookup!Early
<1> QED
  BY <1>4, <1>7, <1>8, OneSearch

LEMMA LookAssembles ==
  ASSUME Lookup!LookKept, NEW s \in Search, Lookup!Assembled(s)
  PROVE  Lookup!LookKept'
<1>1. /\ lookupAt[s] = "rebuilding" /\ lookupTodo[s] = << >>
            /\ UNCHANGED <<lookupCandidates, Lookup!judged, Lookup!rebuilt>>
      /\ \/ lookupText[s] = << >> /\ Lookup!Ends(s, "no_results")
         \/ lookupAt' = [lookupAt EXCEPT ![s] = "extracting"]
               /\ UNCHANGED <<lookupOutcome, Lookup!screen, lookupCancelled>>
  BY DEF Lookup!Assembled, Lookup!Miss, Lookup!Ask, Lookup!Goes, Lookup!found
<1>2. Lookup!Kept(s) /\ Lookup!Shape /\ Lookup!Screen
  BY DEF Lookup!LookKept
<1>3. lookupOutcome[s] = "none" /\ Lookup!Running(s)
  BY <1>1, <1>2 DEF Lookup!Kept, Lookup!Running
<1>4. CASE lookupText[s] = << >> /\ Lookup!Ends(s, "no_results")
  <2>1. Lookup!Screen' /\ lookupAt' = [lookupAt EXCEPT ![s] = "over"]
           /\ lookupOutcome' = [lookupOutcome EXCEPT ![s] = "no_results"]
                 /\ lookupCancelled' = lookupCancelled
    BY <1>3, <1>4, EndsOff
  <2>2. Lookup!Shape' /\ Lookup!Leaves(s) /\ lookupAt'[s] = "over"
           /\ lookupOutcome'[s] = "no_results"
    BY <1>1, <1>2, <2>1 DEF Lookup!Shape, Lookup!Leaves, Lookup!judged, Lookup!rebuilt
  <2>3. \A d : Lookup!DealtWith(s, d)' <=> Lookup!DealtWith(s, d)
    BY <1>1 DEF Lookup!DealtWith, Lookup!judged, Lookup!rebuilt
  <2>4. lookupChosen[s] # << >>
           /\ Lookup!Range(Lookup!First(MaxDocuments, lookupChosen[s])) = lookupLost[s]
    BY <1>1, <1>2, <1>4 DEF Lookup!Kept, Lookup!Range
  <2>5. Lookup!Kept(s)'
    BY <1>1, <1>2, <2>1, <2>2, <2>3, <2>4
       DEF Lookup!Kept, Lookup!judged, Lookup!rebuilt, Lookup!Early
  <2> QED
    BY <2>1, <2>2, <2>5, OneSearch
<1>5. CASE lookupAt' = [lookupAt EXCEPT ![s] = "extracting"]
              /\ UNCHANGED <<lookupOutcome, Lookup!screen, lookupCancelled>>
  <2>1. \A q \in Search : lookupAt'[q] = IF q = s THEN "extracting" ELSE lookupAt[q]
    BY <1>2, <1>5 DEF Lookup!Shape
  <2>2. \A q \in Search : Lookup!Running(q)' <=> Lookup!Running(q)
    BY <1>3, <2>1 DEF Lookup!Running
  <2>3. Lookup!Screen' /\ "extracting" # "rebuilding" /\ "extracting" \notin Lookup!Early
    BY <1>2, <1>5, <2>2, SameScreen DEF Lookup!Early
  <2> QED
    BY <1>1, <1>3, <1>5, <2>3, MovesOn DEF Lookup!judged
<1> QED
  BY <1>1, <1>4, <1>5

(* The endings that find no page and read none.                            *)
LEMMA LookGivesUp ==
  ASSUME Lookup!LookKept, NEW s \in Search,
         \/ Lookup!StoreFaults(s) \/ Lookup!Unwinds(s) \/ Lookup!RepairFails(s)
         \/ \E why \in Lookup!Off : Lookup!NoStore(s, why)
         \/ \E why \in {"no_model", "auth_failed"} : Lookup!NoModel(s, why)
         \/ \E status \in {"yes", "maybe", "no"} : Lookup!Extracted(s, status)
  PROVE  Lookup!LookKept'
<1> DEFINE Fit(how) == how # "no_results"
       /\ (lookupCancelled[s] => how \notin {"yes", "maybe", "error"} /\ (how = "no" => lookupGarbled[s]))
<1>1. UNCHANGED <<lookupCandidates, Lookup!judged,
                  Lookup!rebuilt>> /\ Lookup!Running(s) /\ \E how : Lookup!Ends(s, how) /\ Fit(how)
  <2>1. CASE Lookup!StoreFaults(s)
    <3>1. UNCHANGED <<lookupCandidates, Lookup!judged,
                      Lookup!rebuilt>> /\ Lookup!Running(s)
                         /\ Lookup!Ends(s, IF lookupCancelled[s] THEN "cancelled" ELSE "error")
      BY <2>1 DEF Lookup!StoreFaults, Lookup!Thrown, Lookup!Running, Lookup!found
    <3>2. Fit(IF lookupCancelled[s] THEN "cancelled" ELSE "error")
      OBVIOUS
    <3> QED
      BY <3>1, <3>2
  <2>2. CASE Lookup!Unwinds(s)
    <3>1. UNCHANGED <<lookupCandidates, Lookup!judged,
                      Lookup!rebuilt>> /\ Lookup!Running(s) /\ Lookup!Ends(s, "cancelled")
      BY <2>2
         DEF Lookup!Unwinds, Lookup!Thrown, Lookup!Running, Lookup!found, Lookup!Backoffs
    <3> QED
      BY <3>1
  <2>3. CASE Lookup!RepairFails(s)
    <3>1. UNCHANGED <<lookupCandidates, Lookup!judged,
                      Lookup!rebuilt>> /\ Lookup!Running(s) /\ Lookup!Ends(s, "no")
                         /\ lookupAt[s] = "repairing"
      BY <2>3 DEF Lookup!RepairFails, Lookup!Steered, Lookup!Running, Lookup!found
    <3>2. lookupGarbled[s]
      BY <3>1 DEF Lookup!LookKept, Lookup!Kept
    <3>3. Fit("no")
      BY <3>2
    <3> QED
      BY <3>1, <3>3
  <2>4. ASSUME NEW why \in Lookup!Off, Lookup!NoStore(s, why)
        PROVE  UNCHANGED <<lookupCandidates, Lookup!judged,
                           Lookup!rebuilt>> /\ Lookup!Running(s) /\ Lookup!Ends(s, why) /\ Fit(why)
    BY <2>4 DEF Lookup!NoStore, Lookup!Miss, Lookup!Running, Lookup!found, Lookup!Off
  <2>5. ASSUME NEW why \in {"no_model", "auth_failed"}, Lookup!NoModel(s, why)
        PROVE  UNCHANGED <<lookupCandidates, Lookup!judged,
                           Lookup!rebuilt>> /\ Lookup!Running(s) /\ Lookup!Ends(s, why) /\ Fit(why)
    BY <2>5 DEF Lookup!NoModel, Lookup!Miss, Lookup!Running, Lookup!found
  <2>6. ASSUME NEW status \in {"yes", "maybe", "no"}, Lookup!Extracted(s, status)
        PROVE  UNCHANGED <<lookupCandidates, Lookup!judged,
                           Lookup!rebuilt>> /\ Lookup!Running(s) /\ Lookup!Ends(s, status)
                              /\ Fit(status)
    BY <2>6 DEF Lookup!Extracted, Lookup!Steered, Lookup!Running, Lookup!found
  <2> HIDE DEF Fit
  <2> QED
    BY <2>1, <2>2, <2>3, <2>4, <2>5, <2>6
<1> QED
  BY <1>1, LookEnds

(* Triage and extraction fail: triage is done without, extraction is not.  *)
LEMMA LookTriages ==
  ASSUME Lookup!LookKept, NEW s \in Search, lookupAt[s] = "triage",
         Lookup!FailOpen(s) \/ \E idx \in Indices : Lookup!Judged(s, "ran", Lookup!NamedPages(s, idx))
  PROVE  Lookup!LookKept'
<1>1. lookupCandidates[s] \in Seq(Lookup!Ranked) /\ Lookup!Differing(lookupCandidates[s])
  BY DEF Lookup!LookKept, Lookup!Kept
<1>2. CASE Lookup!FailOpen(s)
  BY <1>1, <1>2, LookJudges DEF Lookup!FailOpen
<1>3. ASSUME NEW idx \in Indices, Lookup!Judged(s, "ran", Lookup!NamedPages(s, idx))
   PROVE Lookup!LookKept'
  BY <1>1, <1>3, Naming, LookJudges
<1> QED
  BY <1>2, <1>3

LEMMA LookFails ==
  ASSUME Lookup!LookKept, NEW s \in Search, NEW failure, Lookup!CallFails(s, failure)
  PROVE  Lookup!LookKept'
<1>1. /\ lookupAt[s] \in {"triage", "extracting"} /\ ~ lookupCancelled[s]
      /\ \/ /\ lookupAt' = [lookupAt EXCEPT ![s] = IF lookupAt[s] = "triage" THEN "triage backoff"
                  ELSE "extract backoff"]
            /\ UNCHANGED <<lookupCandidates, Lookup!judged, Lookup!rebuilt, lookupCancelled,
                           lookupOutcome, Lookup!screen>>
         \/ lookupAt[s] = "triage" /\ Lookup!FailOpen(s)
         \/ lookupAt[s] # "triage" /\ Lookup!Ends(s, "error")
               /\ UNCHANGED <<lookupCandidates, Lookup!judged, Lookup!rebuilt>>
  BY DEF Lookup!CallFails, Lookup!GaveUp, Lookup!Goes, Lookup!Thrown, Lookup!found
<1>2. CASE /\ lookupAt' = [lookupAt EXCEPT ![s] = IF lookupAt[s] = "triage" THEN "triage backoff"
                 ELSE "extract backoff"]
           /\ UNCHANGED <<lookupCandidates, Lookup!judged, Lookup!rebuilt, lookupCancelled,
                          lookupOutcome, Lookup!screen>>
  BY <1>1, <1>2, LookBacksOff
<1>3. CASE lookupAt[s] = "triage" /\ Lookup!FailOpen(s)
  BY <1>3, LookTriages
<1>4. CASE Lookup!Ends(s, "error") /\ UNCHANGED <<lookupCandidates, Lookup!judged, Lookup!rebuilt>>
  <2>1. Lookup!Running(s)
    BY <1>1 DEF Lookup!Running
  <2> QED
    BY <1>1, <1>4, <2>1, LookEnds
<1> QED
  BY <1>1, <1>2, <1>3, <1>4

LEMMA LookQueries ==
  ASSUME Lookup!LookKept, NEW s \in Search,
         Lookup!QueryFails(s) \/ \E rows \in RowsOf[s] : Lookup!QueryAnswers(s, rows)
  PROVE  Lookup!LookKept'
<1>1. lookupCandidates[s] \in Seq(Lookup!Ranked) /\ Lookup!Differing(lookupCandidates[s])
  BY DEF Lookup!LookKept, Lookup!Kept
<1>2. CASE Lookup!QueryFails(s)
  BY <1>1, <1>2, LookCollects DEF Lookup!QueryFails
<1>3. ASSUME NEW rows \in RowsOf[s], Lookup!QueryAnswers(s, rows) PROVE Lookup!LookKept'
  <2>1. rows \in Seq(Lookup!Ranked)
    BY RowsAreLists
  <2>2. Lookup!Merged(lookupCandidates[s], rows) \in Seq(Lookup!Ranked)
           /\ Lookup!Differing(Lookup!Merged(lookupCandidates[s], rows))
    BY <1>1, <2>1, Merging
  <2> QED
    BY <1>3, <2>2, LookCollects DEF Lookup!QueryAnswers
<1> QED
  BY <1>2, <1>3

LEMMA LookStands == Lookup!LookKept /\ UNCHANGED Lookup!searchVars => Lookup!LookKept'
<1> SUFFICES ASSUME Lookup!LookKept, UNCHANGED Lookup!searchVars PROVE Lookup!LookKept'
  OBVIOUS
<1>1. UNCHANGED <<lookupAt, lookupCandidates, lookupTriage, lookupChosen, lookupGarbled, lookupTodo, lookupText,
                  lookupChars, lookupLost, lookupCancelled, lookupOutcome, lookupWidgets, lookupPanel>>
  BY DEF Lookup!searchVars
<1>2. Lookup!Shape' /\ Lookup!Screen'
  BY <1>1 DEF Lookup!LookKept, Lookup!Shape, Lookup!Screen, Lookup!Shown, Lookup!Running
<1>3. ASSUME NEW s \in Search PROVE Lookup!Kept(s)'
  <2>1. \A d : Lookup!DealtWith(s, d)' <=> Lookup!DealtWith(s, d)
    BY <1>1 DEF Lookup!DealtWith
  <2> QED
    BY <1>1, <2>1 DEF Lookup!LookKept, Lookup!Kept
<1> QED
  BY <1>2, <1>3 DEF Lookup!LookKept

LEMMA LookStep == Lookup!LookKept /\ [Lookup!Next]_Lookup!searchVars => Lookup!LookKept'
<1> SUFFICES ASSUME Lookup!LookKept, [Lookup!Next]_Lookup!searchVars PROVE Lookup!LookKept'
  OBVIOUS
<1>1. ASSUME NEW s \in Search, NEW idx \in Indices, Lookup!TriageAnswers(s, idx)
   PROVE Lookup!LookKept'
  BY <1>1, LookTriages DEF Lookup!TriageAnswers
<1>2. ASSUME NEW s \in Search, Lookup!TriageMalformed(s) PROVE Lookup!LookKept'
  BY <1>2, LookTriages DEF Lookup!TriageMalformed
<1>3. ASSUME NEW s \in Search,
             Lookup!StoreFaults(s) \/ Lookup!Unwinds(s) \/ Lookup!RepairFails(s)
                PROVE Lookup!LookKept'
  BY <1>3, LookGivesUp
<1>4. ASSUME NEW s \in Search, NEW why \in Lookup!Off, Lookup!NoStore(s, why)
   PROVE Lookup!LookKept'
  BY <1>4, LookGivesUp
<1>5. ASSUME NEW s \in Search, NEW why \in {"no_model", "auth_failed"},
             Lookup!NoModel(s, why) PROVE Lookup!LookKept'
  BY <1>5, LookGivesUp
<1>6. ASSUME NEW s \in Search, NEW status \in {"yes", "maybe", "no"},
             Lookup!Extracted(s, status) PROVE Lookup!LookKept'
  BY <1>6, LookGivesUp
<1>7. ASSUME NEW s \in Search,
             Lookup!Begin(s) \/ Lookup!StoreReady(s) \/ Lookup!ModelReady(s)
                \/ Lookup!BackoffEnds(s) \/ Lookup!Malformed(s) PROVE Lookup!LookKept'
  BY <1>7, LookMoves
<1>8. ASSUME NEW s \in Search,
             Lookup!InvalidParams(s) \/ Lookup!Cancel(s) \/ Lookup!NotRebuilt(s)
                \/ Lookup!Assembled(s) PROVE Lookup!LookKept'
  BY <1>8, LookInvalid, LookCancels, LookMisses, LookAssembles
<1>9. ASSUME NEW s \in Search, Lookup!QueryFails(s) PROVE Lookup!LookKept'
  BY <1>9, LookQueries
<1>10. ASSUME NEW s \in Search, NEW rows \in RowsOf[s], Lookup!QueryAnswers(s, rows)
   PROVE Lookup!LookKept'
  BY <1>10, LookQueries
<1>11. ASSUME NEW s \in Search, NEW size \in TextSizes, Lookup!Rebuilt(s, size)
   PROVE Lookup!LookKept'
  BY <1>11, LookRebuilds
<1>12. ASSUME NEW s \in Search, NEW failure, Lookup!CallFails(s, failure)
   PROVE Lookup!LookKept'
  BY <1>12, LookFails
<1> QED
  BY <1>1, <1>2, <1>3, <1>4, <1>5, <1>6, <1>7, <1>8, <1>9, <1>10, <1>11, <1>12, LookStands
     DEF Lookup!Next

(* For any searches over any ranked pages, and texts of any size: the      *)
(* widget is there as long as a search that put it there runs, no search   *)
(* says that nothing matches because triage failed, the extractor reads    *)
(* the best ranked of what could be had, and a cancelled search answers    *)
(* nothing, unless it was its garbled answer that was under repair.        *)
THEOREM LookTruthful == Lookup!Spec => []Lookup!SearchIsTruthful
BY LookFirst, LookStep, LookTruths, PTL DEF Lookup!Spec

-----------------------------------------------------------------------------
(* The scrape call.                                                        *)
VARIABLES
  scrapePool, scrapeCache, scrapeCalls, scrapePhase, scrapeGiven, scrapeQueue,
  scrapeLayer, scrapeOutcome, scrapeTold, scrapeTally, scrapeAborted
Scrape == INSTANCE ScrapeCall WITH
  pool <- scrapePool, cache <- scrapeCache, calls <- scrapeCalls,
  phase <- scrapePhase, given <- scrapeGiven, queue <- scrapeQueue, layer <- scrapeLayer,
  outcome <- scrapeOutcome, told <- scrapeTold, tally <- scrapeTally,
  aborted <- scrapeAborted, Caller <- Asker, Url <- Link, MaxItems <- MaxItems, MaxUrls <- MaxUrls,
  Limit <- ScrapeLimit, Lanes <- ScrapeLanes, CacheSize <- CacheSize,
  Blocked <- Blocked
scrapeVars == <<scrapePool, scrapeCache, scrapeCalls, scrapePhase, scrapeGiven, scrapeQueue,
  scrapeLayer, scrapeOutcome, scrapeTold, scrapeTally, scrapeAborted>>

(* What the proofs need of its parameters.                                 *)
ASSUME ScrapeSettingHolds == Scrape!ScrapeSetting

LEMMA ScrapeFirst == Scrape!Init => Scrape!CallsSound
<1> SUFFICES ASSUME Scrape!Init PROVE Scrape!CallsSound
  OBVIOUS
<1>1. Scrape!CallTyped
  BY DEF Scrape!Init, Scrape!CallTyped, Scrape!Each
<1>2. \A c \in Asker : Scrape!InFlight(c) = {} /\ scrapePhase[c] = "idle"
  BY DEF Scrape!Init, Scrape!InFlight, Scrape!Each
<1> QED
  BY <1>1, <1>2 DEF Scrape!CallsSound, Scrape!Sound

LEMMA SoundAside ==
  ASSUME NEW d, Scrape!Sound(d), scrapePhase'[d] = scrapePhase[d],
         scrapeQueue'[d] = scrapeQueue[d], scrapeLayer'[d] = scrapeLayer[d],
         scrapeOutcome'[d] = scrapeOutcome[d], scrapeTold'[d] = scrapeTold[d],
         scrapeTally'[d] = scrapeTally[d], scrapeGiven'[d] = scrapeGiven[d]
  PROVE  Scrape!Sound(d)'
BY DEF Scrape!Sound, Scrape!InFlight, Scrape!Waiting, Scrape!Pending, Scrape!Ended

LEMMA Batches ==
  ASSUME NEW s \in Seq(Scrape!Entry), NEW n \in Nat
  PROVE  /\ SubSeq(s, 1, IF Len(s) < n THEN Len(s) ELSE n) \in Seq(Scrape!Entry)
         /\ Scrape!Range(SubSeq(s, 1, IF Len(s) < n THEN Len(s) ELSE n)) \subseteq Scrape!Range(s)
<1> DEFINE k == IF Len(s) < n THEN Len(s) ELSE n
<1>1. k \in Nat /\ k <= Len(s)
  OBVIOUS
<1> HIDE DEF k
<1>2. \A i \in 1 .. k : s[i] \in Scrape!Entry /\ s[i] \in Scrape!Range(s)
  BY <1>1 DEF Scrape!Range
<1>3. SubSeq(s, 1, k) \in Seq(Scrape!Entry) /\ SubSeq(s, 1, k) \in Seq(Scrape!Range(s))
  BY <1>1, <1>2, SubSeqProperties
<1> QED
  BY <1>3 DEF Scrape!Range, k

(* What is to be fetched is entries of the call: all but those the session *)
(* can serve.                                                              *)
LEMMA FetchableOnes ==
  ASSUME NEW urls \in Seq(Link), DOMAIN urls \subseteq Scrape!Entry
  PROVE  Scrape!Fetchable(urls) \in Seq(Scrape!Entry)
            /\ Scrape!Range(Scrape!Fetchable(urls))
                  = DOMAIN urls \ Scrape!At(urls, scrapePool \cap Scrape!Cached)
<1> DEFINE all == Scrape!Entries(urls)
           known == Scrape!At(urls, scrapePool)
           gone == Scrape!At(urls, scrapePool \ Scrape!Cached)
           a == Scrape!Without(all, known)
           b == Scrape!Within(all, gone)
<1>0. all \in Seq(Scrape!Entry) /\ Scrape!Range(all) = DOMAIN urls
  <2>1. Len(urls) \in Nat /\ DOMAIN urls = 1 .. Len(urls)
    OBVIOUS
  <2>2. all = [e \in 1 .. Len(urls) |-> e] /\ \A e \in 1 .. Len(urls) : e \in Scrape!Entry
    BY <2>1 DEF Scrape!Entries
  <2> QED
    BY <2>1, <2>2 DEF Scrape!Range
<1> HIDE DEF all
<1>1. a \in Seq(Scrape!Entry) /\ b \in Seq(Scrape!Entry)
         /\ Scrape!Range(a) = DOMAIN urls \ known /\ Scrape!Range(b) = DOMAIN urls \cap gone
  BY <1>0, Scrape!Filters
<1>2. known \ gone = Scrape!At(urls, scrapePool \cap Scrape!Cached) /\ gone \subseteq known
         /\ known \subseteq DOMAIN urls
  BY DEF Scrape!At
<1>3. Scrape!Fetchable(urls) = a \o b
  BY DEF Scrape!Fetchable, all
<1> HIDE DEF a, b, known, gone
<1>4. a \o b \in Seq(Scrape!Entry) /\ Scrape!Range(a \o b) = Scrape!Range(a) \cup Scrape!Range(b)
  BY <1>1, Scrape!Chained
<1> QED
  BY <1>1, <1>2, <1>3, <1>4

LEMMA GivenLists ==
  ASSUME NEW urls \in Scrape!SeqOf(Link, MaxItems)
  PROVE  urls \in Seq(Link) /\ DOMAIN urls \subseteq Scrape!Entry
<1>1. PICK m \in 0 .. MaxItems : urls \in [1 .. m -> Link]
  BY DEF Scrape!SeqOf
<1> QED
  BY <1>1, ScrapeSettingHolds DEF Scrape!Entry, Scrape!ScrapeSetting

LEMMA ScrapeStep == Scrape!CallsSound /\ [Scrape!Next]_Scrape!callVars => Scrape!CallsSound'
<1> SUFFICES ASSUME Scrape!CallsSound, [Scrape!Next]_Scrape!callVars
   PROVE Scrape!CallsSound'
  OBVIOUS
<1>0. Scrape!CallTyped /\ \A c \in Asker : Scrape!Sound(c)
  BY DEF Scrape!CallsSound
<1> USE DEF Scrape!Each
<1>1. ASSUME NEW c \in Asker, NEW urls \in Scrape!SeqOf(Link, MaxItems), Scrape!Call(c, urls)
   PROVE Scrape!CallsSound'
  <2> DEFINE first == SubSeq(Scrape!Fetchable(urls), 1, IF Len(Scrape!Fetchable(urls)) < MaxUrls
         THEN Len(Scrape!Fetchable(urls)) ELSE MaxUrls)
             hit == Scrape!At(urls, scrapePool \cap Scrape!Cached)
  <2>0. urls \in Seq(Link) /\ DOMAIN urls \subseteq Scrape!Entry /\ hit \subseteq DOMAIN urls
    BY GivenLists DEF Scrape!At
  <2>1. first \in Seq(Scrape!Entry) /\ Scrape!Range(first) \subseteq DOMAIN urls \ hit
    BY <2>0, FetchableOnes, Batches, ScrapeSettingHolds DEF Scrape!ScrapeSetting
  <2>2. /\ scrapePhase[c] = "idle" /\ scrapePhase' = [scrapePhase EXCEPT ![c] = "lookup"]
              /\ scrapeQueue' = [scrapeQueue EXCEPT ![c] = first] /\ scrapeLayer' = scrapeLayer
              /\ scrapeGiven' = [scrapeGiven EXCEPT ![c] = urls]
        /\ scrapeOutcome' = [scrapeOutcome EXCEPT ![c] = [u \in Scrape!Entry |->
             IF u \notin DOMAIN urls THEN "none" ELSE IF u \in Scrape!Range(first)
                THEN "waiting"
             ELSE IF u \in hit THEN "served" ELSE "skipped"]]
        /\ scrapeTold' = [scrapeTold EXCEPT ![c] = [u \in Scrape!Entry |-> IF u \in hit THEN 1 ELSE 0]]
        /\ scrapeTally' = [scrapeTally EXCEPT ![c] = [u \in Scrape!Entry |-> 0]]
    BY <1>1 DEF Scrape!Call
  <2> HIDE DEF first, hit
  <2>3. Scrape!CallTyped'
    <3>1. scrapePhase' \in [Asker -> {"idle", "lookup", "scraping"}]
             /\ scrapeQueue' \in [Asker -> Seq(Scrape!Entry)] /\ scrapeGiven' \in [Asker -> Seq(Link)]
      BY <1>0, <2>0, <2>1, <2>2 DEF Scrape!CallTyped
    <3>2. scrapeLayer' \in [Asker -> [Scrape!Entry -> {"none", "fetch", "backoff", "retry", "browser"}]]
      BY <1>0, <2>2 DEF Scrape!CallTyped
    <3>3. scrapeOutcome' \in [Asker -> [Scrape!Entry -> {"none", "waiting", "served", "stored", "fresh", "failed", "aborted", "skipped"}]]
      BY <1>0, <2>2 DEF Scrape!CallTyped
    <3>4. scrapeTold' \in [Asker -> [Scrape!Entry -> Nat]] /\ scrapeTally' \in [Asker -> [Scrape!Entry -> Nat]]
      BY <1>0, <2>2 DEF Scrape!CallTyped
    <3> QED
      BY <3>1, <3>2, <3>3, <3>4 DEF Scrape!CallTyped
  <2>4. \A d \in Asker : d # c => Scrape!Sound(d)'
    BY <1>0, <2>2, SoundAside DEF Scrape!CallTyped
  <2>5. Scrape!Sound(c)'
    <3>1. Scrape!InFlight(c)' = {}
      BY <1>0, <2>2 DEF Scrape!InFlight, Scrape!Sound
    <3>2. scrapeQueue'[c] = first /\ Scrape!Waiting(c)' = Scrape!Range(first)
      BY <1>0, <2>2, <3>1 DEF Scrape!Waiting, Scrape!CallTyped
    <3>3. \A u \in Scrape!Entry :
                          /\ scrapeOutcome'[c][u] = (IF u \notin DOMAIN urls THEN "none"
                                ELSE IF u \in Scrape!Range(first) THEN "waiting"
                                               ELSE IF u \in hit THEN "served" ELSE "skipped")
                          /\ scrapeTold'[c][u] = (IF u \in hit THEN 1 ELSE 0)
                          /\ scrapeTally'[c][u] = 0 /\ scrapeGiven'[c] = urls
      BY <1>0, <2>2 DEF Scrape!CallTyped
    <3>4. \A u \in Scrape!Entry : IF u \in Scrape!Waiting(c)' THEN Scrape!Pending(c, u)'
             ELSE Scrape!Ended(c, u)'
      BY <2>0, <2>1, <3>2, <3>3 DEF Scrape!Pending, Scrape!Ended
    <3> QED
      BY <3>1, <3>4 DEF Scrape!Sound
  <2> QED
    BY <2>3, <2>4, <2>5 DEF Scrape!CallsSound
<1>2. ASSUME NEW c \in Asker, NEW hits \in SUBSET Scrape!Entry, Scrape!LookedUp(c, hits)
   PROVE Scrape!CallsSound'
  <2> DEFINE rest == Scrape!Without(scrapeQueue[c], hits)
  <2>0. scrapeQueue[c] \in Seq(Scrape!Entry)
    BY <1>0 DEF Scrape!CallTyped
  <2>1. rest \in Seq(Scrape!Entry) /\ Scrape!Range(rest) = Scrape!Range(scrapeQueue[c]) \ hits
    BY <2>0, Scrape!Filters
  <2>2. /\ scrapePhase[c] = "lookup" /\ hits \subseteq Scrape!Range(scrapeQueue[c])
              /\ scrapePhase' = [scrapePhase EXCEPT ![c] = "scraping"]
        /\ scrapeQueue' = [scrapeQueue EXCEPT ![c] = rest] /\ scrapeLayer' = scrapeLayer
              /\ scrapeTally' = scrapeTally /\ scrapeGiven' = scrapeGiven
        /\ scrapeOutcome' = [scrapeOutcome EXCEPT ![c] = [u \in Scrape!Entry |-> IF u \in hits
              THEN "stored" ELSE scrapeOutcome[c][u]]]
        /\ scrapeTold' = [scrapeTold EXCEPT ![c] = [u \in Scrape!Entry |-> IF u \in hits THEN 1
              ELSE scrapeTold[c][u]]]
    BY <1>2 DEF Scrape!LookedUp
  <2> HIDE DEF rest
  <2>3. Scrape!CallTyped'
    <3>1. scrapePhase' \in [Asker -> {"idle", "lookup", "scraping"}]
             /\ scrapeQueue' \in [Asker -> Seq(Scrape!Entry)]
      BY <1>0, <2>1, <2>2 DEF Scrape!CallTyped
    <3>3. scrapeOutcome' \in [Asker -> [Scrape!Entry -> {"none", "waiting", "served", "stored", "fresh", "failed", "aborted", "skipped"}]]
      BY <1>0, <2>2 DEF Scrape!CallTyped
    <3>4. scrapeTold' \in [Asker -> [Scrape!Entry -> Nat]]
      BY <1>0, <2>2 DEF Scrape!CallTyped
    <3> QED
      BY <1>0, <2>2, <3>1, <3>3, <3>4 DEF Scrape!CallTyped
  <2>4. \A d \in Asker : d # c => Scrape!Sound(d)'
    BY <1>0, <2>2, SoundAside DEF Scrape!CallTyped
  <2>5. Scrape!Sound(c)'
    <3>1. Scrape!InFlight(c)' = {} /\ Scrape!InFlight(c) = {}
      BY <1>0, <2>2 DEF Scrape!InFlight, Scrape!Sound
    <3>2. scrapeQueue'[c] = rest /\ Scrape!Waiting(c)' = Scrape!Waiting(c) \ hits
             /\ hits \subseteq Scrape!Waiting(c)
      BY <1>0, <2>1, <2>2, <3>1 DEF Scrape!Waiting, Scrape!CallTyped
    <3>3. \A u \in Scrape!Entry :
                          /\ scrapeOutcome'[c][u] = (IF u \in hits THEN "stored"
                                ELSE scrapeOutcome[c][u])
                          /\ scrapeTold'[c][u] = (IF u \in hits THEN 1 ELSE scrapeTold[c][u])
                                /\ scrapeTally'[c][u] = scrapeTally[c][u]
      BY <1>0, <2>2 DEF Scrape!CallTyped
    <3>4. \A u \in Scrape!Entry : IF u \in Scrape!Waiting(c)' THEN Scrape!Pending(c, u)'
             ELSE Scrape!Ended(c, u)'
      BY <1>0, <2>2, <3>2, <3>3 DEF Scrape!Sound, Scrape!Pending, Scrape!Ended
    <3> QED
      BY <3>1, <3>4 DEF Scrape!Sound
  <2> QED
    BY <2>3, <2>4, <2>5 DEF Scrape!CallsSound
<1>3. ASSUME NEW c \in Asker, Scrape!Dispatch(c) PROVE Scrape!CallsSound'
  <2> DEFINE batch == Scrape!Range(SubSeq(scrapeQueue[c], 1, IF Len(scrapeQueue[c]) < ScrapeLanes
         THEN Len(scrapeQueue[c]) ELSE ScrapeLanes))
             rest == Scrape!Without(scrapeQueue[c], batch)
             bad == batch \cap Scrape!At(scrapeGiven[c], Blocked)
  <2>0. scrapeQueue[c] \in Seq(Scrape!Entry)
    BY <1>0 DEF Scrape!CallTyped
  <2>1. batch \subseteq Scrape!Range(scrapeQueue[c])
    BY <2>0, Batches, ScrapeSettingHolds DEF Scrape!ScrapeSetting
  <2> HIDE DEF batch
  <2>2. rest \in Seq(Scrape!Entry) /\ Scrape!Range(rest) = Scrape!Range(scrapeQueue[c]) \ batch
    BY <2>0, Scrape!Filters
  <2>3. /\ scrapePhase[c] = "scraping" /\ Scrape!InFlight(c) = {} /\ scrapePhase' = scrapePhase
              /\ scrapeQueue' = [scrapeQueue EXCEPT ![c] = rest] /\ scrapeGiven' = scrapeGiven
        /\ scrapeLayer' = [scrapeLayer EXCEPT ![c] = [u \in Scrape!Entry |-> IF u \in batch \ bad
              THEN "fetch" ELSE "none"]]
        /\ scrapeOutcome' = [scrapeOutcome EXCEPT ![c] = [u \in Scrape!Entry |-> IF u \in bad THEN "failed"
              ELSE scrapeOutcome[c][u]]]
        /\ scrapeTold' = [scrapeTold EXCEPT ![c] = [u \in Scrape!Entry |-> IF u \in bad
              THEN scrapeTold[c][u] + 1 ELSE scrapeTold[c][u]]]
        /\ scrapeTally' = [scrapeTally EXCEPT ![c] = [u \in Scrape!Entry |-> IF u \in bad
              THEN scrapeTally[c][u] + 1 ELSE scrapeTally[c][u]]]
    BY <1>3 DEF Scrape!Dispatch, batch
  <2>7. bad \subseteq batch
    OBVIOUS
  <2> HIDE DEF rest, bad
  <2>4. Scrape!CallTyped'
    <3>1. scrapeQueue' \in [Asker -> Seq(Scrape!Entry)]
      BY <1>0, <2>2, <2>3 DEF Scrape!CallTyped
    <3>2. scrapeLayer' \in [Asker -> [Scrape!Entry -> {"none", "fetch", "backoff", "retry", "browser"}]]
      BY <1>0, <2>3 DEF Scrape!CallTyped
    <3>3. scrapeOutcome' \in [Asker -> [Scrape!Entry -> {"none", "waiting", "served", "stored", "fresh", "failed", "aborted", "skipped"}]]
      BY <1>0, <2>3 DEF Scrape!CallTyped
    <3>4. scrapeTold' \in [Asker -> [Scrape!Entry -> Nat]] /\ scrapeTally' \in [Asker -> [Scrape!Entry -> Nat]]
      BY <1>0, <2>3 DEF Scrape!CallTyped
    <3> QED
      BY <1>0, <2>3, <3>1, <3>2, <3>3, <3>4 DEF Scrape!CallTyped
  <2>5. \A d \in Asker : d # c => Scrape!Sound(d)'
    BY <1>0, <2>3, SoundAside DEF Scrape!CallTyped
  <2>6. Scrape!Sound(c)'
    <3>1. /\ scrapeQueue'[c] = rest /\ scrapePhase'[c] = "scraping"
          /\ \A u \in Scrape!Entry :
                             /\ scrapeLayer'[c][u] = (IF u \in batch \ bad THEN "fetch"
                                   ELSE "none")
                             /\ scrapeOutcome'[c][u] = (IF u \in bad THEN "failed"
                                   ELSE scrapeOutcome[c][u])
                             /\ scrapeTold'[c][u] = (IF u \in bad THEN scrapeTold[c][u] + 1
                                   ELSE scrapeTold[c][u])
                             /\ scrapeTally'[c][u] = (IF u \in bad THEN scrapeTally[c][u] + 1
                                   ELSE scrapeTally[c][u])
      BY <1>0, <2>3 DEF Scrape!CallTyped
    <3>2. Scrape!Range(scrapeQueue[c]) \subseteq Scrape!Entry
      BY <2>0 DEF Scrape!Range
    <3>3. Scrape!InFlight(c)' = batch \ bad
      BY <2>1, <3>1, <3>2 DEF Scrape!InFlight
    <3>4. Scrape!Waiting(c)' = Scrape!Waiting(c) \ bad /\ bad \subseteq Scrape!Waiting(c)
      BY <2>1, <2>2, <2>3, <2>7, <3>1, <3>3 DEF Scrape!Waiting
    <3>5. \A u \in Scrape!Entry : IF u \in Scrape!Waiting(c)' THEN Scrape!Pending(c, u)'
             ELSE Scrape!Ended(c, u)'
      BY <1>0, <2>3, <3>1, <3>4 DEF Scrape!Sound, Scrape!Pending, Scrape!Ended
    <3>6. Scrape!Range(scrapeQueue'[c]) \cap Scrape!InFlight(c)' = {}
      BY <2>2, <3>1, <3>3
    <3> QED
      BY <3>1, <3>5, <3>6 DEF Scrape!Sound
  <2> QED
    BY <2>4, <2>5, <2>6 DEF Scrape!CallsSound
<1>4. ASSUME NEW c \in Asker, Scrape!Undispatched(c) PROVE Scrape!CallsSound'
  <2> DEFINE left == Scrape!Range(scrapeQueue[c])
  <2>1. /\ scrapePhase[c] = "scraping" /\ Scrape!InFlight(c) = {}
              /\ UNCHANGED <<scrapePhase, scrapeGiven, scrapeLayer, scrapeTally>>
                    /\ scrapeQueue' = [scrapeQueue EXCEPT ![c] = << >>]
        /\ scrapeOutcome' = [scrapeOutcome EXCEPT ![c] = [u \in Scrape!Entry |-> IF u \in left
              THEN "aborted" ELSE scrapeOutcome[c][u]]]
        /\ scrapeTold' = [scrapeTold EXCEPT ![c] = [u \in Scrape!Entry |-> IF u \in left
              THEN scrapeTold[c][u] + 1 ELSE scrapeTold[c][u]]]
    BY <1>4 DEF Scrape!Undispatched
  <2>2. Scrape!CallTyped'
    <3>1. scrapeQueue' \in [Asker -> Seq(Scrape!Entry)]
      BY <1>0, <2>1 DEF Scrape!CallTyped
    <3>3. scrapeOutcome' \in [Asker -> [Scrape!Entry -> {"none", "waiting", "served", "stored", "fresh", "failed", "aborted", "skipped"}]]
      BY <1>0, <2>1 DEF Scrape!CallTyped
    <3>4. scrapeTold' \in [Asker -> [Scrape!Entry -> Nat]]
      BY <1>0, <2>1 DEF Scrape!CallTyped
    <3> QED
      BY <1>0, <2>1, <3>1, <3>3, <3>4 DEF Scrape!CallTyped
  <2>3. \A d \in Asker : d # c => Scrape!Sound(d)'
    BY <1>0, <2>1, SoundAside DEF Scrape!CallTyped
  <2>4. Scrape!Sound(c)'
    <3>1. /\ scrapeQueue'[c] = << >>
          /\ \A u \in Scrape!Entry :
                             /\ scrapeOutcome'[c][u] = (IF u \in left THEN "aborted"
                                   ELSE scrapeOutcome[c][u])
                             /\ scrapeTold'[c][u] = (IF u \in left THEN scrapeTold[c][u] + 1
                                   ELSE scrapeTold[c][u])
      BY <1>0, <2>1 DEF Scrape!CallTyped
    <3>2. Scrape!InFlight(c)' = {} /\ Scrape!Waiting(c)' = {} /\ Scrape!Waiting(c) = left
      BY <2>1, <3>1 DEF Scrape!InFlight, Scrape!Waiting, Scrape!Range
    <3>3. \A u \in Scrape!Entry : Scrape!Ended(c, u)'
      BY <1>0, <2>1, <3>1, <3>2 DEF Scrape!Sound, Scrape!Pending, Scrape!Ended
    <3> QED
      BY <3>2, <3>3 DEF Scrape!Sound
  <2> QED
    BY <2>2, <2>3, <2>4 DEF Scrape!CallsSound
<1>5. ASSUME NEW c \in Asker, Scrape!Return(c) PROVE Scrape!CallsSound'
  <2>1. scrapePhase[c] = "scraping" /\ Scrape!InFlight(c) = {}
        /\ UNCHANGED <<scrapeQueue, scrapeLayer>> /\ scrapePhase' = [scrapePhase EXCEPT ![c] = "idle"]
        /\ scrapeGiven' = [scrapeGiven EXCEPT ![c] = << >>]
        /\ scrapeOutcome' = [scrapeOutcome EXCEPT ![c] = [e \in Scrape!Entry |-> "none"]]
        /\ scrapeTold' = [scrapeTold EXCEPT ![c] = [e \in Scrape!Entry |-> 0]]
        /\ scrapeTally' = [scrapeTally EXCEPT ![c] = [e \in Scrape!Entry |-> 0]]
    BY <1>5 DEF Scrape!Return
  <2>2. Scrape!CallTyped'
    BY <1>0, <2>1 DEF Scrape!CallTyped
  <2>3. \A d \in Asker : d # c => Scrape!Sound(d)'
    BY <1>0, <2>1, SoundAside DEF Scrape!CallTyped
  <2>4. Scrape!Sound(c)'
    BY <1>0, <2>1 DEF Scrape!Sound, Scrape!InFlight, Scrape!CallTyped
  <2> QED
    BY <2>2, <2>3, <2>4 DEF Scrape!CallsSound
<1>6. ASSUME NEW c \in Asker, NEW u \in Scrape!Entry,
             Scrape!Yields(c, u) \/ Scrape!FailsTransiently(c, u) \/ Scrape!Drained(c, u)
                \/ Scrape!PauseEnds(c, u) \/ \E b \in BOOLEAN : Scrape!Fails(c, u, b)
      PROVE Scrape!CallsSound'
  <2>1. /\ UNCHANGED <<scrapePhase, scrapeGiven, scrapeQueue>> /\ scrapeLayer[c][u] # "none"
        /\ \/ \E next \in {"backoff", "retry", "browser"} : Scrape!Step(c, u, next)
           \/ \E result \in {"fresh", "failed"} : Scrape!Settle(c, u, result, TRUE)
           \/ Scrape!Settle(c, u, "aborted", FALSE)
    BY <1>6
       DEF Scrape!Yields, Scrape!FailsTransiently, Scrape!Drained, Scrape!PauseEnds,
           Scrape!Fails
  <2>2. CASE \E next \in {"backoff", "retry", "browser"} : Scrape!Step(c, u, next)
    <3>1. PICK next \in {"backoff", "retry", "browser"} : Scrape!Step(c, u, next)
      BY <2>2
    <3>2. scrapeLayer' = [scrapeLayer EXCEPT ![c][u] = next]
             /\ UNCHANGED <<scrapeOutcome, scrapeTold, scrapeTally>>
      BY <3>1 DEF Scrape!Step
    <3>3. Scrape!CallTyped'
      BY <1>0, <2>1, <3>2 DEF Scrape!CallTyped
    <3>4. \A d \in Asker : d # c => Scrape!Sound(d)'
      BY <1>0, <2>1, <3>2, SoundAside DEF Scrape!CallTyped
    <3>5. \A x \in Scrape!Entry : scrapeLayer'[c][x] = IF x = u THEN next ELSE scrapeLayer[c][x]
      BY <1>0, <3>2 DEF Scrape!CallTyped
    <3>6. Scrape!InFlight(c)' = Scrape!InFlight(c)
      BY <2>1, <3>5 DEF Scrape!InFlight
    <3>7. Scrape!Sound(c)'
      BY <1>0, <2>1, <3>2, <3>6
         DEF Scrape!Sound, Scrape!Waiting, Scrape!Pending, Scrape!Ended
    <3> QED
      BY <3>3, <3>4, <3>7 DEF Scrape!CallsSound
  <2>3. CASE (\E result \in {"fresh", "failed"} : Scrape!Settle(c, u, result, TRUE))
                \/ Scrape!Settle(c, u, "aborted", FALSE)
    <3>1. PICK result \in {"fresh", "failed", "aborted"} :
            /\ scrapeLayer' = [scrapeLayer EXCEPT ![c][u] = "none"]
                  /\ scrapeOutcome' = [scrapeOutcome EXCEPT ![c][u] = result]
            /\ scrapeTold' = [scrapeTold EXCEPT ![c][u] = scrapeTold[c][u] + 1]
            /\ scrapeTally' = [scrapeTally EXCEPT ![c][u] = IF result # "aborted"
                  THEN scrapeTally[c][u] + 1 ELSE scrapeTally[c][u]]
      BY <2>3 DEF Scrape!Settle
    <3>2. Scrape!CallTyped'
      <4>1. scrapeLayer' \in [Asker -> [Scrape!Entry -> {"none", "fetch", "backoff", "retry", "browser"}]]
        BY <1>0, <3>1 DEF Scrape!CallTyped
      <4>2. scrapeOutcome' \in [Asker -> [Scrape!Entry -> {"none", "waiting", "served", "stored", "fresh", "failed", "aborted", "skipped"}]]
        BY <1>0, <3>1 DEF Scrape!CallTyped
      <4>3. scrapeTold' \in [Asker -> [Scrape!Entry -> Nat]] /\ scrapeTally' \in [Asker -> [Scrape!Entry -> Nat]]
        BY <1>0, <3>1 DEF Scrape!CallTyped
      <4> QED
        BY <1>0, <2>1, <4>1, <4>2, <4>3 DEF Scrape!CallTyped
    <3>3. \A d \in Asker : d # c => Scrape!Sound(d)'
      BY <1>0, <2>1, <3>1, SoundAside DEF Scrape!CallTyped
    <3>4. \A x \in Scrape!Entry :
                          /\ scrapeLayer'[c][x] = (IF x = u THEN "none" ELSE scrapeLayer[c][x])
                          /\ scrapeOutcome'[c][x] = (IF x = u THEN result ELSE scrapeOutcome[c][x])
                          /\ scrapeTold'[c][x] = (IF x = u THEN scrapeTold[c][u] + 1
                                ELSE scrapeTold[c][x])
                          /\ scrapeTally'[c][x] = (IF x = u /\ result # "aborted"
                                THEN scrapeTally[c][u] + 1 ELSE scrapeTally[c][x])
      BY <1>0, <3>1 DEF Scrape!CallTyped
    <3>5. u \in Scrape!InFlight(c) /\ Scrape!InFlight(c)' = Scrape!InFlight(c) \ {u}
      BY <2>1, <3>4 DEF Scrape!InFlight
    <3>6. u \notin Scrape!Range(scrapeQueue[c]) /\ scrapePhase[c] # "idle"
      BY <1>0, <3>5 DEF Scrape!Sound
    <3>7. Scrape!Waiting(c)' = Scrape!Waiting(c) \ {u} /\ u \in Scrape!Waiting(c)
      BY <2>1, <3>5, <3>6 DEF Scrape!Waiting
    <3>8. \A x \in Scrape!Entry : IF x \in Scrape!Waiting(c)' THEN Scrape!Pending(c, x)'
             ELSE Scrape!Ended(c, x)'
      BY <1>0, <2>1, <3>4, <3>6, <3>7 DEF Scrape!Sound, Scrape!Pending, Scrape!Ended
    <3> QED
      BY <1>0, <2>1, <3>2, <3>3, <3>5, <3>8 DEF Scrape!CallsSound, Scrape!Sound
  <2> QED
    BY <2>1, <2>2, <2>3
<1>7. ASSUME (\E c \in Asker : Scrape!Abort(c)) \/ UNCHANGED Scrape!callVars
   PROVE Scrape!CallsSound'
  <2>1. UNCHANGED <<scrapePhase, scrapeGiven, scrapeQueue, scrapeLayer, scrapeOutcome, scrapeTold, scrapeTally>>
    BY <1>7 DEF Scrape!Abort, Scrape!callVars
  <2> QED
    BY <1>0, <2>1, SoundAside DEF Scrape!CallsSound, Scrape!CallTyped
<1> QED
  BY <1>1, <1>2, <1>3, <1>4, <1>5, <1>6, <1>7 DEF Scrape!Next

(* Any callers with any URLs, whatever is cached, blocked, retried or      *)
(* aborted: at the end of a scrape call every entry of its list, a URL     *)
(* given twice being two, is in its answer once and under the heading its  *)
(* end demands, and is counted once.                                       *)
THEOREM UrlsReported == Scrape!Spec => []Scrape!EveryUrlAccountedFor
<1>1. Scrape!CallsSound => Scrape!EveryUrlAccountedFor
  BY DEF Scrape!CallsSound, Scrape!Sound, Scrape!Ended, Scrape!EveryUrlAccountedFor
<1> QED
  BY <1>1, ScrapeFirst, ScrapeStep, PTL DEF Scrape!Spec

-----------------------------------------------------------------------------
(* Steering.                                                               *)
VARIABLES
  steerTui, steerPhase, steerAccepting, steerCancelled, steerParent,
  steerDeaf, steerBox, steerStatus, steerMarked, steerPopping, steerSent,
  steerAtPi, steerHeard, steerExcuse
Steer == INSTANCE Steering WITH
  tui <- steerTui, phase <- steerPhase, accepting <- steerAccepting,
  cancelled <- steerCancelled, parent <- steerParent, deaf <- steerDeaf,
  box <- steerBox, status <- steerStatus, marked <- steerMarked,
  popping <- steerPopping, sent <- steerSent, atPi <- steerAtPi,
  heard <- steerHeard, excuse <- steerExcuse, Run <- SteeredRun,
  Message <- SteeringMessage, Cap <- BoxCap
steerVars == <<steerTui, steerPhase, steerAccepting, steerCancelled, steerParent,
  steerDeaf, steerBox, steerStatus, steerMarked, steerPopping, steerSent,
  steerAtPi, steerHeard, steerExcuse>>

LEMMA SteerFirst == Steer!Init => Steer!Steered
<1> SUFFICES ASSUME Steer!Init PROVE Steer!Steered
  OBVIOUS
<1>1. Steer!SteerTyped
  BY DEF Steer!Init, Steer!SteerTyped
<1>2. Steer!Differing(steerBox) /\ Steer!Differing(steerPopping)
  BY DEF Steer!Init, Steer!Differing
<1>3. \A m \in SteeringMessage : Steer!Whereabouts(m)
  BY DEF Steer!Init, Steer!Whereabouts, Steer!Range
<1> QED
  BY <1>1, <1>2, <1>3 DEF Steer!Init, Steer!Steered

LEMMA WhereAside ==
  ASSUME NEW m, Steer!Whereabouts(m), steerStatus'[m] = steerStatus[m],
         steerAtPi'[m] = steerAtPi[m],
            UNCHANGED <<steerBox, steerPopping, steerHeard, steerSent>>,
         m \in steerExcuse => m \in steerExcuse',
            m \in steerMarked => m \in steerMarked' \cup steerExcuse' \/ steerAtPi[m] # "held"
  PROVE  Steer!Whereabouts(m)'
BY DEF Steer!Whereabouts

(* The runs: the clause on those that were told to stop.                   *)
LEMMA SteerRuns ==
  ASSUME Steer!Steered,
         (\E r \in SteeredRun : Steer!Execute(r) \/ Steer!HealthPasses(r) \/ Steer!Accept(r))
            \/ Steer!CtrlC
  PROVE  Steer!Steered'
<1>1. UNCHANGED <<Steer!boxVars, Steer!popVars, steerExcuse, steerParent>>
  BY DEF Steer!Execute, Steer!HealthPasses, Steer!Accept, Steer!CtrlC
<1>2. /\ \/ steerPhase' = steerPhase
         \/ \E r \in SteeredRun : \/ steerPhase' = [steerPhase EXCEPT ![r] = "resolving"]
                          \/ (steerPhase' = [steerPhase EXCEPT ![r] = "running"]
                                /\ (r \in steerParent => r \in steerDeaf'))
      /\ steerCancelled \subseteq steerCancelled' /\ steerDeaf \subseteq steerDeaf'
            /\ steerParent' = steerParent
  BY DEF Steer!Execute, Steer!HealthPasses, Steer!Accept, Steer!CtrlC, Steer!Go
<1>3. Steer!SteerTyped' /\ (Steer!Differing(steerBox) /\ Steer!Differing(steerPopping))'
  BY <1>1, <1>2
     DEF Steer!Steered, Steer!SteerTyped, Steer!boxVars, Steer!popVars, Steer!Differing
<1>4. \A m \in SteeringMessage : Steer!Whereabouts(m)'
  BY <1>1, WhereAside DEF Steer!Steered, Steer!boxVars, Steer!popVars
<1>5. \A q \in steerParent' : steerPhase'[q] = "running" => q \in steerCancelled' \cup steerDeaf'
  <2> SUFFICES ASSUME NEW q \in steerParent, steerPhase'[q] = "running"
     PROVE q \in steerCancelled' \cup steerDeaf'
    BY <1>2
  <2>1. DOMAIN steerPhase = SteeredRun
    BY DEF Steer!Steered, Steer!SteerTyped
  <2>2. steerPhase[q] = "running" \/ q \in steerDeaf'
    <3>1. CASE steerPhase' = steerPhase
      BY <2>1, <3>1
    <3>2. ASSUME NEW r \in SteeredRun, steerPhase' = [steerPhase EXCEPT ![r] = "resolving"]
       PROVE steerPhase[q] = "running"
      BY <2>1, <3>2
    <3>3. ASSUME NEW r \in SteeredRun, steerPhase' = [steerPhase EXCEPT ![r] = "running"],
                 r \in steerParent => r \in steerDeaf'
          PROVE  steerPhase[q] = "running" \/ q \in steerDeaf'
      BY <2>1, <3>3
    <3> QED
      BY <1>2, <3>1, <3>2, <3>3
  <2> QED
    BY <1>2, <2>2 DEF Steer!Steered
<1> QED
  BY <1>3, <1>4, <1>5 DEF Steer!Steered

LEMMA SteerStep == Steer!Steered /\ [Steer!Next]_Steer!steerVars => Steer!Steered'
<1> SUFFICES ASSUME Steer!Steered, [Steer!Next]_Steer!steerVars PROVE Steer!Steered'
  OBVIOUS
<1>0. /\ Steer!SteerTyped /\ Steer!Differing(steerBox) /\ Steer!Differing(steerPopping)
            /\ \A m \in SteeringMessage : Steer!Whereabouts(m)
      /\ DOMAIN steerStatus = SteeringMessage /\ DOMAIN steerAtPi = SteeringMessage
            /\ DOMAIN steerPhase = SteeredRun /\ steerBox \in Seq(SteeringMessage)
                  /\ steerPopping \in Seq(SteeringMessage)
  BY DEF Steer!Steered, Steer!SteerTyped
<1>a. Steer!Range(steerBox) \subseteq SteeringMessage
      /\ Steer!Range(steerPopping) \subseteq SteeringMessage
  BY <1>0 DEF Steer!Range
<1>1. ASSUME NEW r \in SteeredRun, Steer!Register(r) PROVE Steer!Steered'
  <2>1. /\ UNCHANGED <<steerParent, steerBox, steerStatus, steerHeard, steerPopping, steerSent,
                       steerAtPi, steerCancelled>> /\ steerMarked' = {}
        /\ steerExcuse' = steerExcuse \cup {m \in steerMarked : steerAtPi[m] = "held"}
        /\ steerPhase' = [steerPhase EXCEPT ![r] = IF steerTui THEN "checking" ELSE "running"]
        /\ steerDeaf' = IF ~steerTui /\ r \in steerParent THEN steerDeaf \cup {r} ELSE steerDeaf
    BY <1>1 DEF Steer!Register, Steer!popVars, Steer!Go
  <2>2. Steer!SteerTyped' /\ (Steer!Differing(steerBox) /\ Steer!Differing(steerPopping))'
    BY <1>0, <2>1 DEF Steer!SteerTyped, Steer!Differing
  <2>3. \A m \in SteeringMessage : Steer!Whereabouts(m)'
    BY <1>0, <2>1, WhereAside
  <2>4. \A q \in steerParent' : steerPhase'[q] = "running" => q \in steerCancelled' \cup steerDeaf'
    BY <1>0, <2>1 DEF Steer!Steered
  <2> QED
    BY <2>2, <2>3, <2>4 DEF Steer!Steered
<1>2. ASSUME NEW r \in SteeredRun, Steer!Consume(r) PROVE Steer!Steered'
  <2> DEFINE q == Steer!InBox("queued")
  <2>1. /\ UNCHANGED <<steerPhase, steerParent, steerCancelled, steerDeaf, steerBox, steerMarked,
                       steerPopping, steerSent, steerAtPi, steerExcuse>>
                          /\ steerHeard' = steerHeard \cup q
        /\ steerStatus' = [m \in SteeringMessage |-> IF m \in q THEN "active" ELSE steerStatus[m]]
    BY <1>2 DEF Steer!Consume, Steer!runVars, Steer!popVars, Steer!Becomes
  <2>2. \A m \in q : m \in SteeringMessage /\ steerStatus[m] = "queued"
    BY <1>a DEF Steer!InBox
  <2> HIDE DEF q
  <2>3. Steer!SteerTyped' /\ (Steer!Differing(steerBox) /\ Steer!Differing(steerPopping))'
    BY <1>0, <2>1, <2>2 DEF Steer!SteerTyped, Steer!Differing
  <2>4. \A m \in SteeringMessage : Steer!Whereabouts(m)'
    BY <1>0, <2>1, <2>2 DEF Steer!Whereabouts
  <2> QED
    BY <2>1, <2>3, <2>4 DEF Steer!Steered
<1>3. ASSUME NEW r \in SteeredRun, Steer!End(r) PROVE Steer!Steered'
  <2> DEFINE gone == IF Steer!Registered \subseteq {r}
         THEN Steer!Range(steerBox) \ Steer!InBox("queued") ELSE {}
  <2>1. /\ steerPhase' = [steerPhase EXCEPT ![r] = "ended"]
              /\ steerCancelled' = steerCancelled \ {r} /\ steerParent' = steerParent \ {r}
                    /\ steerDeaf' = steerDeaf \ {r}
        /\ UNCHANGED <<steerHeard, steerPopping, steerSent, steerAtPi>>
        /\ \/ /\ steerBox' = Steer!Without(steerBox, gone)
                    /\ steerStatus' = [m \in SteeringMessage |-> IF m \in gone THEN "dropped"
                          ELSE steerStatus[m]]
              /\ steerMarked' = steerMarked \ gone
                    /\ steerExcuse' = steerExcuse \cup {m \in gone : m \in Steer!Range(steerPopping) \/ steerAtPi[m] = "held"}
           \/ UNCHANGED <<steerBox, steerStatus, steerMarked, steerExcuse>>
    BY <1>3 DEF Steer!End, Steer!Go, Steer!Becomes, Steer!popVars
  <2>2. \A m \in gone : m \in Steer!Range(steerBox) /\ steerStatus[m] # "queued"
    BY DEF Steer!InBox
  <2> HIDE DEF gone
  <2>3. /\ Steer!Without(steerBox, gone) \in Seq(SteeringMessage)
              /\ Steer!Range(Steer!Without(steerBox, gone)) = Steer!Range(steerBox) \ gone
        /\ Steer!Differing(Steer!Without(steerBox, gone))
    BY <1>0, Steer!Filters
  <2>4. \A q \in steerParent' : steerPhase'[q] = "running" => q \in steerCancelled' \cup steerDeaf'
    BY <1>0, <2>1 DEF Steer!Steered
  <2>5. CASE UNCHANGED <<steerBox, steerStatus, steerMarked, steerExcuse>>
    <3>1. Steer!SteerTyped' /\ (Steer!Differing(steerBox) /\ Steer!Differing(steerPopping))'
      BY <1>0, <2>1, <2>5 DEF Steer!SteerTyped, Steer!Differing
    <3>2. \A m \in SteeringMessage : Steer!Whereabouts(m)'
      BY <1>0, <2>1, <2>5, WhereAside
    <3> QED
      BY <2>4, <3>1, <3>2 DEF Steer!Steered
  <2>6. CASE /\ steerBox' = Steer!Without(steerBox, gone)
                   /\ steerStatus' = [m \in SteeringMessage |-> IF m \in gone THEN "dropped"
                         ELSE steerStatus[m]]
             /\ steerMarked' = steerMarked \ gone
                   /\ steerExcuse' = steerExcuse \cup {m \in gone : m \in Steer!Range(steerPopping)
                         \/ steerAtPi[m] = "held"}
    <3>1. Steer!SteerTyped' /\ (Steer!Differing(steerBox) /\ Steer!Differing(steerPopping))'
      BY <1>0, <2>1, <2>3, <2>6 DEF Steer!SteerTyped, Steer!Differing
    <3>2. ASSUME NEW m \in SteeringMessage PROVE Steer!Whereabouts(m)'
      <4>1. Steer!Whereabouts(m) /\ (m \in Steer!Range(steerBox') <=> m \in Steer!Range(steerBox)
               /\ m \notin gone)
        BY <1>0, <2>3, <2>6
      <4>2. CASE m \in gone
        <5>1. m \in Steer!Range(steerBox) /\ steerStatus[m] # "queued"
                 /\ steerStatus'[m] = "dropped" /\ m \notin Steer!Range(steerBox')
                       /\ m \notin steerMarked'
          BY <2>2, <2>6, <4>1, <4>2
        <5> QED
          BY <2>1, <2>6, <4>1, <4>2, <5>1 DEF Steer!Whereabouts
      <4>3. CASE m \notin gone
        <5>1. steerStatus'[m] = steerStatus[m]
                 /\ (m \in Steer!Range(steerBox') <=> m \in Steer!Range(steerBox))
                       /\ (m \in steerMarked' <=> m \in steerMarked)
                             /\ (m \in steerExcuse' <=> m \in steerExcuse)
          BY <2>6, <4>1, <4>3
        <5> QED
          BY <2>1, <4>1, <5>1 DEF Steer!Whereabouts
      <4> QED
        BY <4>2, <4>3
    <3> QED
      BY <2>4, <3>1, <3>2 DEF Steer!Steered
  <2> QED
    BY <2>1, <2>5, <2>6
<1>4. ASSUME NEW m \in SteeringMessage, Steer!Type(m) PROVE Steer!Steered'
  <2>1. UNCHANGED <<steerPhase, steerParent, steerCancelled, steerDeaf, steerHeard, steerPopping,
                    steerSent>> /\ steerStatus[m] = "new"
    BY <1>4 DEF Steer!Type, Steer!runVars
  <2>2. CASE Steer!Add(m) /\ UNCHANGED steerAtPi
    <3>1. PICK out : /\ steerBox' = Append(Steer!Without(steerBox, out), m)
                     /\ steerStatus' = [x \in SteeringMessage |-> IF x = m THEN "queued"
                           ELSE IF x \in out THEN "evicted" ELSE steerStatus[x]]
                     /\ steerExcuse' = steerExcuse \cup out
                           /\ steerMarked \ out \subseteq steerMarked'
                                 /\ steerMarked' \subseteq steerMarked
      <4> DEFINE live == {x \in Steer!Range(steerBox) : steerStatus[x] # "popped"}
                 oldest(s) == Steer!SelectInSeq(steerBox, LAMBDA x : steerStatus[x] = s)
                 evict == IF Steer!Cardinality(live) < BoxCap THEN {}
                          ELSE {steerBox[IF Steer!InBox("queued") # {} THEN oldest("queued")
                             ELSE oldest("active")]}
                 forget == IF Steer!Cardinality(Steer!InBox("popped")) > BoxCap
                    THEN {steerBox[oldest("popped")]} ELSE {}
      <4>1. /\ steerBox' = Append(Steer!Without(steerBox, evict \cup forget), m)
            /\ steerStatus' = [x \in SteeringMessage |-> IF x = m THEN "queued"
                  ELSE IF x \in evict \cup forget THEN "evicted" ELSE steerStatus[x]]
            /\ steerExcuse' = steerExcuse \cup evict \cup forget
                  /\ steerMarked' = steerMarked \ forget
        BY <2>2 DEF Steer!Add
      <4> HIDE DEF evict, forget
      <4> QED
        BY <4>1
    <3>2. /\ Steer!Without(steerBox, out) \in Seq(SteeringMessage)
                /\ Steer!Range(Steer!Without(steerBox, out)) = Steer!Range(steerBox) \ out
                      /\ Steer!Differing(Steer!Without(steerBox, out))
      BY <1>0, Steer!Filters
    <3>3. m \notin Steer!Range(steerBox)
      BY <1>0, <2>1 DEF Steer!Whereabouts
    <3>4. steerBox' \in Seq(SteeringMessage)
             /\ Steer!Range(steerBox') = (Steer!Range(steerBox) \ out) \cup {m}
                   /\ Steer!Differing(steerBox')
      BY <3>1, <3>2, <3>3, Steer!Appended
    <3>5. Steer!SteerTyped' /\ (Steer!Differing(steerBox) /\ Steer!Differing(steerPopping))'
      BY <1>0, <2>1, <2>2, <3>1, <3>4 DEF Steer!SteerTyped, Steer!Differing
    <3>6. ASSUME NEW x \in SteeringMessage PROVE Steer!Whereabouts(x)'
      <4>1. Steer!Whereabouts(x) /\ Steer!Whereabouts(m) /\ steerAtPi'[x] = steerAtPi[x]
               /\ (x \in Steer!Range(steerBox') <=> x = m \/ (x \in Steer!Range(steerBox)
                     /\ x \notin out))
        BY <1>0, <2>2, <3>4
      <4>2. CASE x = m
        <5>1. steerStatus'[x] = "queued"
          BY <3>1, <4>2
        <5> QED
          BY <2>1, <4>1, <4>2, <5>1 DEF Steer!Whereabouts
      <4>3. CASE x # m /\ x \in out
        <5>1. steerStatus'[x] = "evicted" /\ x \in steerExcuse' /\ x \notin Steer!Range(steerBox')
          BY <3>1, <4>1, <4>3
        <5> QED
          BY <2>1, <4>1, <5>1 DEF Steer!Whereabouts
      <4>4. CASE x # m /\ x \notin out
        <5>1. steerStatus'[x] = steerStatus[x] /\ (x \in steerExcuse' <=> x \in steerExcuse)
                 /\ (x \in Steer!Range(steerBox') <=> x \in Steer!Range(steerBox))
                       /\ (x \in steerMarked' <=> x \in steerMarked)
          BY <3>1, <4>1, <4>4
        <5> QED
          BY <2>1, <4>1, <5>1 DEF Steer!Whereabouts
      <4> QED
        BY <4>2, <4>3, <4>4
    <3> QED
      BY <2>1, <3>5, <3>6 DEF Steer!Steered
  <2>3. CASE Steer!Becomes({m}, "pi") /\ steerAtPi' = [steerAtPi EXCEPT ![m] = "held"]
                /\ UNCHANGED <<steerBox, steerMarked, steerExcuse>>
    <3>1. \A x \in SteeringMessage : steerStatus'[x] = (IF x = m THEN "pi" ELSE steerStatus[x])
             /\ steerAtPi'[x] = (IF x = m THEN "held" ELSE steerAtPi[x])
      BY <1>0, <2>3 DEF Steer!Becomes
    <3>2. Steer!SteerTyped' /\ (Steer!Differing(steerBox) /\ Steer!Differing(steerPopping))'
      BY <1>0, <2>1, <2>3 DEF Steer!SteerTyped, Steer!Differing, Steer!Becomes
    <3>3. \A x \in SteeringMessage : Steer!Whereabouts(x)'
      BY <1>0, <2>1, <2>3, <3>1 DEF Steer!Whereabouts
    <3> QED
      BY <2>1, <3>2, <3>3 DEF Steer!Steered
  <2> QED
    BY <1>4, <2>2, <2>3 DEF Steer!Type
<1>5. ASSUME Steer!Pop PROVE Steer!Steered'
  <2> DEFINE q == Steer!InBox("queued")
  <2>1. /\ UNCHANGED <<steerPhase, steerParent, steerCancelled, steerDeaf, steerBox, steerMarked, steerHeard, steerSent, steerAtPi, steerExcuse>> /\ steerSent = {} /\ steerPopping = << >>
        /\ steerPopping' = Steer!Within(steerBox, q)
        /\ steerStatus' = [m \in SteeringMessage |-> IF m \in q THEN "popped" ELSE steerStatus[m]]
    BY <1>5 DEF Steer!Pop, Steer!runVars, Steer!Becomes
  <2>2. \A m : m \in q <=> m \in Steer!Range(steerBox) /\ steerStatus[m] = "queued"
    BY DEF Steer!InBox
  <2> HIDE DEF q
  <2>3. steerPopping' \in Seq(SteeringMessage)
           /\ Steer!Range(steerPopping') = Steer!Range(steerBox) \cap q
                 /\ Steer!Differing(steerPopping')
    BY <1>0, <2>1, Steer!Filters
  <2>4. Steer!SteerTyped' /\ (Steer!Differing(steerBox) /\ Steer!Differing(steerPopping))'
    BY <1>0, <2>1, <2>3 DEF Steer!SteerTyped, Steer!Differing
  <2>5. Steer!Range(steerPopping) = {}
    BY <2>1 DEF Steer!Range
  <2>6. ASSUME NEW m \in SteeringMessage PROVE Steer!Whereabouts(m)'
    BY <1>0, <2>1, <2>2, <2>3, <2>5 DEF Steer!Whereabouts
  <2> QED
    BY <2>1, <2>4, <2>6 DEF Steer!Steered
<1>6. ASSUME Steer!SendSucceeds \/ Steer!SendFails PROVE Steer!Steered'
  <2> DEFINE h == Head(steerPopping)
  <2>1. steerPopping # << >> /\ steerPopping' = Tail(steerPopping)
           /\ UNCHANGED <<steerPhase, steerParent, steerCancelled, steerDeaf, steerBox,
                          steerMarked, steerHeard, steerExcuse>>
    BY <1>6 DEF Steer!SendSucceeds, Steer!SendFails, Steer!runVars, Steer!boxVars
  <2>2. h \in SteeringMessage /\ steerPopping' \in Seq(SteeringMessage)
           /\ Steer!Range(steerPopping) = {h} \cup Steer!Range(steerPopping')
                 /\ h \notin Steer!Range(steerPopping') /\ Steer!Differing(steerPopping')
    BY <1>0, <2>1, Steer!Halved
  <2> HIDE DEF h
  <2>3. CASE Steer!SendSucceeds
    <3>1. steerStatus' = steerStatus /\ steerSent' = steerSent \cup {h}
             /\ steerAtPi' = [steerAtPi EXCEPT ![h] = "held"]
      BY <2>3 DEF Steer!SendSucceeds, Steer!boxVars, h
    <3>2. Steer!SteerTyped' /\ (Steer!Differing(steerBox) /\ Steer!Differing(steerPopping))'
      BY <1>0, <2>1, <2>2, <3>1 DEF Steer!SteerTyped, Steer!Differing
    <3>3. ASSUME NEW m \in SteeringMessage PROVE Steer!Whereabouts(m)'
      <4>1. Steer!Whereabouts(m) /\ steerAtPi'[m] = (IF m = h THEN "held" ELSE steerAtPi[m])
               /\ (m \in steerSent' <=> m \in steerSent \/ m = h)
                     /\ (m \in Steer!Range(steerPopping) <=> m = h
                           \/ m \in Steer!Range(steerPopping'))
        BY <1>0, <2>2, <3>1
      <4> QED
        BY <2>1, <2>2, <3>1, <4>1 DEF Steer!Whereabouts
    <3> QED
      BY <2>1, <3>2, <3>3 DEF Steer!Steered
  <2>4. CASE Steer!SendFails
    <3>1. UNCHANGED <<steerSent, steerAtPi>>
             /\ steerStatus' = [m \in SteeringMessage |-> IF m \in {h} \cap Steer!InBox("popped")
                   THEN "queued" ELSE steerStatus[m]]
      BY <2>4 DEF Steer!SendFails, Steer!Becomes, h
    <3>2. Steer!SteerTyped' /\ (Steer!Differing(steerBox) /\ Steer!Differing(steerPopping))'
      BY <1>0, <2>1, <2>2, <3>1 DEF Steer!SteerTyped, Steer!Differing
    <3>3. ASSUME NEW m \in SteeringMessage PROVE Steer!Whereabouts(m)'
      <4>1. Steer!Whereabouts(m) /\ steerStatus'[m] = (IF m = h /\ m \in Steer!Range(steerBox)
               /\ steerStatus[m] = "popped" THEN "queued"
                     ELSE steerStatus[m]) /\ (m \in Steer!Range(steerPopping) <=> m = h
                        \/ m \in Steer!Range(steerPopping'))
        BY <1>0, <2>2, <3>1 DEF Steer!InBox
      <4> QED
        BY <2>1, <2>2, <3>1, <4>1 DEF Steer!Whereabouts
    <3> QED
      BY <2>1, <3>2, <3>3 DEF Steer!Steered
  <2> QED
    BY <1>6, <2>3, <2>4
<1>7. ASSUME Steer!Mark PROVE Steer!Steered'
  <2>1. /\ UNCHANGED <<steerPhase, steerParent, steerCancelled, steerDeaf, steerBox, steerStatus,
                       steerHeard, steerPopping, steerAtPi, steerExcuse>> /\ steerSent' = {}
        /\ steerMarked' = steerMarked \cup (steerSent \cap Steer!InBox("popped"))
    BY <1>7 DEF Steer!Mark, Steer!runVars
  <2>2. \A m \in SteeringMessage : Steer!Whereabouts(m)'
    BY <1>0, <2>1 DEF Steer!Whereabouts, Steer!InBox
  <2> QED
    BY <1>0, <2>1, <2>2 DEF Steer!Steered, Steer!SteerTyped, Steer!Differing
<1>8. ASSUME Steer!PiDelivers PROVE Steer!Steered'
  <2>1. /\ UNCHANGED <<steerPhase, steerParent, steerCancelled, steerDeaf, steerBox, steerStatus,
                       steerMarked, steerHeard, steerPopping, steerSent, steerExcuse>>
        /\ steerAtPi' = [m \in SteeringMessage |-> IF steerAtPi[m] = "held" THEN "delivered"
              ELSE steerAtPi[m]]
    BY <1>8 DEF Steer!PiDelivers, Steer!runVars, Steer!boxVars
  <2>2. \A m \in SteeringMessage : Steer!Whereabouts(m)'
    BY <1>0, <2>1 DEF Steer!Whereabouts
  <2>3. Steer!SteerTyped'
    BY <1>0, <2>1 DEF Steer!SteerTyped
  <2> QED
    BY <1>0, <2>1, <2>2, <2>3 DEF Steer!Steered, Steer!Differing
<1>9. ASSUME Steer!Esc PROVE Steer!Steered'
  <2>1. UNCHANGED <<steerPhase, steerDeaf, steerBox, steerStatus, steerMarked, steerHeard,
                    steerPopping, steerSent>>
    BY <1>9 DEF Steer!Esc, Steer!boxVars
  <2>2. CASE steerCancelled' = steerCancelled \cup Steer!Registered
                /\ UNCHANGED <<steerParent, steerAtPi, steerExcuse>>
    <3>1. \A m \in SteeringMessage : Steer!Whereabouts(m)'
      BY <1>0, <2>1, <2>2, WhereAside
    <3> QED
      BY <1>0, <2>1, <2>2, <3>1 DEF Steer!Steered, Steer!SteerTyped, Steer!Differing
  <2>3. CASE /\ Steer!TurnAborted /\ ~(Steer!Panels # {} /\ steerMarked # {})
             /\ steerAtPi' = [m \in SteeringMessage |-> IF steerAtPi[m] = "held" THEN "editor"
                   ELSE steerAtPi[m]]
             /\ steerExcuse' = steerExcuse \cup {m \in steerSent : steerAtPi[m] = "held"}
                                 \cup (IF Steer!Panels = {}
                                    THEN {m \in SteeringMessage : steerAtPi[m] = "held"} ELSE {})
    <3>1. \A m \in SteeringMessage : /\ steerAtPi'[m] = (IF steerAtPi[m] = "held" THEN "editor"
                                           ELSE steerAtPi[m])
                                     /\ m \in steerExcuse => m \in steerExcuse'
                                     /\ steerAtPi[m] = "held" /\ m \in steerSent \cup steerMarked
                                           => m \in steerExcuse'
      BY <2>3
    <3>2. \A m \in SteeringMessage : Steer!Whereabouts(m)'
      BY <1>0, <2>1, <3>1 DEF Steer!Whereabouts
    <3>3. Steer!SteerTyped'
      BY <1>0, <2>1, <2>3 DEF Steer!SteerTyped
    <3>4. \A q \in steerParent' : steerPhase'[q] = "running"
             => q \in steerCancelled' \cup steerDeaf'
      BY <2>1, <2>3 DEF Steer!Steered, Steer!TurnAborted, Steer!Executing
    <3> QED
      BY <1>0, <2>1, <3>2, <3>3, <3>4 DEF Steer!Steered, Steer!Differing
  <2> QED
    BY <1>9, <2>2, <2>3 DEF Steer!Esc
<1>10. ASSUME UNCHANGED Steer!steerVars PROVE Steer!Steered'
  <2>1. UNCHANGED <<steerPhase, steerParent, steerCancelled, steerDeaf, steerBox, steerStatus,
                    steerMarked, steerHeard, steerPopping, steerSent, steerAtPi, steerExcuse>>
    BY <1>10 DEF Steer!steerVars
  <2>2. \A m \in SteeringMessage : Steer!Whereabouts(m)'
    BY <1>0, <2>1, WhereAside
  <2> QED
    BY <1>0, <2>1, <2>2 DEF Steer!Steered, Steer!SteerTyped, Steer!Differing
<1> QED
  BY <1>1, <1>2, <1>3, <1>4, <1>5, <1>6, <1>7, <1>8, <1>9, <1>10, SteerRuns DEF Steer!Next

(* For any runs, any messages and a box of any size: what the user typed   *)
(* to a running research is queued, heard, held or delivered, never twice  *)
(* and never also by pi, unless the run it was for is over, the box was    *)
(* full or it was taken back; and a researcher that was told to stop knows *)
(* it.                                                                     *)
THEOREM SaidOnce == Steer!Spec => []Steer!SteeringIsKept
<1>1. Steer!Steered => Steer!SteeringIsKept
  BY DEF Steer!Steered, Steer!SteerTyped, Steer!Whereabouts, Steer!SteeringIsKept
<1> QED
  BY <1>1, SteerFirst, SteerStep, PTL DEF Steer!Spec

-----------------------------------------------------------------------------
(* The quick run.                                                          *)
VARIABLES
  quickPhase, quickAborted, quickSession, quickBox, quickHeard, quickOpen,
  quickWritten, quickPool, quickLinks, quickMarks, quickCallbacks, quickSlice
Quick == INSTANCE QuickRun WITH
  phase <- quickPhase, aborted <- quickAborted, session <- quickSession,
  box <- quickBox, heard <- quickHeard, open <- quickOpen,
  written <- quickWritten, pool <- quickPool, links <- quickLinks,
  marks <- quickMarks, callbacks <- quickCallbacks, slice <- quickSlice,
  Message <- QuickMessage, Url <- Link, NoUrl <- None, Cited <- Cited,
  MaxEntries <- MaxEntries
quickVars == <<quickPhase, quickAborted, quickSession, quickBox, quickHeard, quickOpen,
  quickWritten, quickPool, quickLinks, quickMarks, quickCallbacks, quickSlice>>

(* What the proofs need of its parameters.                                 *)
ASSUME QuickSettingHolds == Quick!QuickSetting

LEMMA AsRange == \A s : Quick!ToSet(s) = Quick!Range(s)
BY DEF Quick!ToSet, Quick!Range

LEMMA WrittenLists == \A l \in Quick!Written : l # Quick!NoList => l \in Seq(Quick!Entry)
BY QuickSettingHolds DEF Quick!Written, Quick!QuickSetting

LEMMA ParsedOnes ==
  ASSUME NEW l \in Quick!Written, l # Quick!NoList
  PROVE  /\ Quick!Parsed(l) \in Seq(Quick!Sourced) 
         /\ Quick!Range(Quick!Parsed(l)) = {e \in Quick!Range(l) : e.url # None}
<1> DEFINE I == {i \in DOMAIN l : l[i].url # None}
<1>1. l \in Seq(Quick!Entry)
  BY WrittenLists
<1>2. Quick!Parsed(l) = Quick!Pick(l, I) /\ I \in SUBSET (DOMAIN l)
  BY DEF Quick!Parsed
<1>3. Quick!Pick(l, I) \in Seq(Quick!Entry) /\ Quick!Members(Quick!Pick(l, I)) = {l[i] : i \in I}
  BY <1>1, <1>2, Quick!PickedSet
<1>4. Quick!Members(Quick!Pick(l, I)) = Quick!Range(Quick!Pick(l, I))
  BY DEF Quick!Members, Quick!Range
<1>5. {l[i] : i \in I} = {e \in Quick!Range(l) : e.url # None}
  BY DEF Quick!Range
<1>6. Quick!Range(Quick!Parsed(l)) = {e \in Quick!Range(l) : e.url # None}
  BY <1>2, <1>3, <1>4, <1>5
<1>7. \A i \in DOMAIN Quick!Parsed(l) : Quick!Parsed(l)[i] \in Quick!Sourced
  <2> SUFFICES ASSUME NEW i \in DOMAIN Quick!Parsed(l)
     PROVE Quick!Parsed(l)[i] \in Quick!Sourced
    OBVIOUS
  <2>1. Quick!Parsed(l)[i] \in Quick!Entry /\ Quick!Parsed(l)[i].url # None
    <3>1. Quick!Parsed(l)[i] \in Quick!Range(Quick!Parsed(l))
      BY DEF Quick!Range
    <3>2. Quick!Range(l) \subseteq Quick!Entry
      BY <1>1 DEF Quick!Range
    <3> QED
      BY <1>6, <3>1, <3>2
  <2> QED
    BY <2>1 DEF Quick!Entry, Quick!Sourced
<1>8. Quick!Parsed(l) \in Seq(Quick!Entry)
  BY <1>2, <1>3
<1>9. Quick!Parsed(l) \in Seq(Quick!Sourced)
  <2>1. Len(Quick!Parsed(l)) \in Nat /\ DOMAIN Quick!Parsed(l) = 1 .. Len(Quick!Parsed(l))
           /\ Quick!Parsed(l) = [i \in 1 .. Len(Quick!Parsed(l)) |-> Quick!Parsed(l)[i]]
    BY <1>8
  <2> HIDE DEF I
  <2>2. Quick!Parsed(l) \in [1 .. Len(Quick!Parsed(l)) -> Quick!Sourced]
    BY <1>7, <2>1
  <2> QED
    BY <2>1, <2>2, SeqDef
<1> QED
  BY <1>6, <1>9

LEMMA VerifiedOnes ==
  ASSUME NEW l \in Quick!Written, NEW s \in Quick!Pools
  PROVE  /\ Quick!Verified(l, s) \in Seq(Link) /\ Quick!Differing(Quick!Verified(l, s))
         /\ Quick!Range(Quick!Verified(l, s)) = Quick!Range(s) \cup {Quick!Parsed(l)[i].url : i \in DOMAIN Quick!Parsed(l)}
<1> DEFINE own == Quick!Parsed(l)
           urls == [i \in DOMAIN own |-> own[i].url]
           cited == Quick!Distinct(urls)
           rest == Quick!Without(s, Quick!ToSet(cited))
<1>1. own \in Seq(Quick!Sourced)
  <2>1. CASE l = Quick!NoList
    BY <2>1 DEF Quick!Parsed
  <2>2. CASE l # Quick!NoList
    BY <2>2, ParsedOnes
  <2> QED
    BY <2>1, <2>2
<1> HIDE DEF own
<1>2. urls \in Seq(Link) /\ Quick!Range(urls) = {own[i].url : i \in DOMAIN own}
  <2>0. \A i \in DOMAIN own : own[i] \in Quick!Sourced
    BY <1>1
  <2>1. DOMAIN own = 1 .. Len(own) /\ Len(own) \in Nat /\ \A i \in DOMAIN own : own[i].url \in Link
    BY <1>1, <2>0 DEF Quick!Sourced
  <2> QED
    BY <2>1 DEF Quick!Range
<1> HIDE DEF urls
<1>3. cited \in Seq(Link) /\ Quick!Range(cited) = Quick!Range(urls) /\ Quick!Differing(cited)
  <2>1. cited \in Seq(Link) /\ Quick!Members(cited) = Quick!Members(urls) /\ Quick!Differing(cited)
    BY <1>2, Quick!Deduplicated
  <2> QED
    BY <2>1 DEF Quick!Members, Quick!Range
<1> HIDE DEF cited
<1>4. s \in Seq(Link) /\ Quick!Differing(s)
  <2>1. s \in Seq(Link) /\ Quick!Cardinality(Quick!ToSet(s)) = Len(s)
    BY QuickSettingHolds, Quick!FS_CardinalityType DEF Quick!Pools, Quick!QuickSetting
  <2> QED
    BY <2>1, Quick!Counted, AsRange
<1>5. rest \in Seq(Link) /\ Quick!Range(rest) = Quick!Range(s) \ Quick!Range(cited)
         /\ Quick!Differing(rest)
  BY <1>4, Quick!Filters, AsRange
<1> HIDE DEF rest
<1>6. Quick!Verified(l, s) = cited \o rest
  BY DEF Quick!Verified, cited, rest, urls, own
<1>7. cited \o rest \in Seq(Link)
         /\ Quick!Range(cited \o rest) = Quick!Range(cited) \cup Quick!Range(rest)
               /\ Quick!Differing(cited \o rest)
  BY <1>3, <1>5, Quick!Joined
<1> QED
  BY <1>2, <1>3, <1>5, <1>6, <1>7 DEF own

LEMMA MarkedOnes ==
  ASSUME NEW l \in Quick!Written, NEW v \in Seq(Link), NEW n \in Cited, NEW u \in Link,
         l # Quick!NoList,
         {l[i].url : i \in {j \in DOMAIN l : l[j].number = n}} = {u},
         {Quick!Parsed(l)[i].url : i \in DOMAIN Quick!Parsed(l)} \subseteq Quick!Range(v)
  PROVE  Quick!Marker(n, l, v) \in DOMAIN v /\ v[Quick!Marker(n, l, v)] = u
<1> DEFINE own == Quick!Parsed(l)
           T == {i \in DOMAIN own : own[i].number = n}
           last == CHOOSE i \in DOMAIN own : own[i].number = n
              /\ \A j \in i + 1 .. Len(own) : own[j].number # n
<1>1. own \in Seq(Quick!Sourced) /\ Quick!Range(own) = {e \in Quick!Range(l) : e.url # None}
  BY ParsedOnes
<1> HIDE DEF own
<1>0. Len(own) \in Nat /\ DOMAIN own = 1 .. Len(own)
  BY <1>1
<1>2. \A i \in T : own[i].url = u
  <2> SUFFICES ASSUME NEW i \in T PROVE own[i].url = u
    OBVIOUS
  <2>1. own[i] \in Quick!Range(l)
    BY <1>1 DEF Quick!Range
  <2>2. PICK k \in DOMAIN l : l[k] = own[i]
    BY <2>1 DEF Quick!Range
  <2> QED
    BY <2>2
<1>3. T # {}
  <2>1. PICK k \in DOMAIN l : l[k].number = n /\ l[k].url = u
    OBVIOUS
  <2>2. l[k] \in Quick!Range(own)
    BY <1>1, <2>1, QuickSettingHolds DEF Quick!Range, Quick!QuickSetting
  <2> QED
    BY <2>1, <2>2 DEF Quick!Range
<1>4. \E i \in DOMAIN own : own[i].number = n /\ \A j \in i + 1 .. Len(own) : own[j].number # n
  <2>1. PICK x \in T : \A y \in T : y <= x
    BY <1>0, <1>3, Quick!Greatest
  <2> QED
    BY <1>0, <2>1
<1>5. last \in T
  BY <1>4
<1> HIDE DEF T
<1>6. u \in Quick!Range(v)
  BY <1>0, <1>2, <1>5 DEF own, T
<1>7. \E k \in DOMAIN v : v[k] = u
  BY <1>6 DEF Quick!Range
<1>8. v # <<>>
  BY <1>7
<1>9. n \in DOMAIN Quick!Remap(l, v)
         /\ Quick!Remap(l, v)[n] = CHOOSE k \in DOMAIN v : v[k] = own[last].url
  <2>1. n \in {own[i].number : i \in DOMAIN own}
    BY <1>5 DEF T
  <2> QED
    BY <2>1 DEF Quick!Remap, own
<1>10. own[last].url = u
  BY <1>2, <1>5
<1> HIDE DEF last
<1>11. Quick!Marker(n, l, v) = CHOOSE k \in DOMAIN v : v[k] = u
  BY <1>8, <1>9, <1>10 DEF Quick!Marker
<1> QED
  BY <1>7, <1>11

LEMMA ReportIsTrue ==
  Quick!Rebuilt => /\ Quick!ToSet(quickLinks) = Quick!ToSet(quickPool) \cup {Quick!Parsed(quickWritten)[i].url : i \in DOMAIN Quick!Parsed(quickWritten)}
                   /\ Quick!Cardinality(Quick!ToSet(quickLinks)) = Len(quickLinks)
                   /\ \A n \in Cited, u \in Link : Quick!Meant(n) = {u}
                         => quickMarks[n] \in DOMAIN quickLinks /\ quickLinks[quickMarks[n]] = u
<1> SUFFICES ASSUME Quick!Rebuilt
             PROVE  /\ Quick!ToSet(quickLinks) = Quick!ToSet(quickPool) \cup {Quick!Parsed(quickWritten)[i].url : i \in DOMAIN Quick!Parsed(quickWritten)}
                    /\ Quick!Cardinality(Quick!ToSet(quickLinks)) = Len(quickLinks)
                    /\ \A n \in Cited, u \in Link : Quick!Meant(n) = {u}
                          => quickMarks[n] \in DOMAIN quickLinks /\ quickLinks[quickMarks[n]] = u
  OBVIOUS
<1>1. /\ quickLinks \in Seq(Link) /\ Quick!Differing(quickLinks)
      /\ Quick!Range(quickLinks) = Quick!Range(quickPool) \cup {Quick!Parsed(quickWritten)[i].url : i \in DOMAIN Quick!Parsed(quickWritten)}
  BY VerifiedOnes DEF Quick!Rebuilt
<1>2. Quick!Cardinality(Quick!Range(quickLinks)) = Len(quickLinks)
  BY <1>1, Quick!Counted
<1>3. ASSUME NEW n \in Cited, NEW u \in Link, Quick!Meant(n) = {u}
   PROVE quickMarks[n] \in DOMAIN quickLinks /\ quickLinks[quickMarks[n]] = u
  <2>1. quickWritten # Quick!NoList
           /\ {quickWritten[i].url : i \in {j \in DOMAIN quickWritten : quickWritten[j].number = n}} = {u}
    BY <1>3 DEF Quick!Meant
  <2>2. quickWritten \in Quick!Written /\ quickMarks[n] = Quick!Marker(n, quickWritten, quickLinks)
    BY DEF Quick!Rebuilt
  <2>3. {Quick!Parsed(quickWritten)[i].url : i \in DOMAIN Quick!Parsed(quickWritten)} \subseteq Quick!Range(quickLinks)
    BY <1>1
  <2>4. Quick!Marker(n, quickWritten, quickLinks) \in DOMAIN quickLinks
           /\ quickLinks[Quick!Marker(n, quickWritten, quickLinks)] = u
    BY <1>1, <2>1, <2>2, <2>3, MarkedOnes
  <2> QED
    BY <2>2, <2>4
<1> QED
  BY <1>1, <1>2, <1>3, AsRange

LEMMA QuickFirst == Quick!Init => Quick!QuickInv
BY DEF Quick!Init, Quick!QuickInv, Quick!Told

LEMMA Consumed ==
  ASSUME Quick!QuickInv, NEW how \in {"prompt", "steered", "report"}, Quick!Consume(how)
  PROVE  /\ quickBox' \in [QuickMessage -> {"unsent", "queued", "active", "fallen"}]
               /\ quickHeard' \in [QuickMessage -> {"no", "prompt", "steered", "report"}]
         /\ \A m \in QuickMessage : quickBox'[m] # "queued"
               /\ (quickBox'[m] = "active" <=> quickHeard'[m] # "no")
<1>1. \A m \in QuickMessage : /\ quickBox'[m] = (IF quickBox[m] = "queued" THEN "active"
                                    ELSE quickBox[m])
                              /\ quickHeard'[m] = (IF quickBox[m] = "queued" THEN how
                                    ELSE quickHeard[m])
  BY DEF Quick!Consume
<1>2. quickBox' \in [QuickMessage -> {"unsent", "queued", "active", "fallen"}]
         /\ quickHeard' \in [QuickMessage -> {"no", "prompt", "steered", "report"}]
  BY DEF Quick!Consume, Quick!QuickInv
<1> QED
  BY <1>1, <1>2 DEF Quick!QuickInv

LEMMA QuickStep == Quick!QuickInv /\ [Quick!Next]_Quick!quickVars => Quick!QuickInv'
<1> SUFFICES ASSUME Quick!QuickInv, [Quick!Next]_Quick!quickVars PROVE Quick!QuickInv'
  OBVIOUS
<1> USE DEF Quick!Goes
<1>1. ASSUME NEW m \in QuickMessage, Quick!Type(m) PROVE Quick!QuickInv'
  <2>1. /\ UNCHANGED <<quickPhase, quickAborted, quickSession, quickHeard, quickOpen, quickWritten,
                       quickPool, quickLinks, quickMarks, quickCallbacks, quickSlice>>
        /\ quickBox[m] = "unsent" /\ quickBox' = [quickBox EXCEPT ![m] = IF quickOpen THEN "queued"
              ELSE "fallen"]
    BY <1>1 DEF Quick!Type, Quick!report, Quick!told
  <2>2. /\ quickBox' \in [QuickMessage -> {"unsent", "queued", "active", "fallen"}]
        /\ \A x \in QuickMessage : quickBox'[x] = IF x = m THEN IF quickOpen THEN "queued"
              ELSE "fallen" ELSE quickBox[x]
    BY <2>1 DEF Quick!QuickInv
  <2>3. Quick!Rebuilt' <=> Quick!Rebuilt
    BY <2>1 DEF Quick!Rebuilt
  <2> QED
    BY <2>1, <2>2, <2>3 DEF Quick!QuickInv, Quick!Told
<1>2. ASSUME Quick!Prepared \/ Quick!Poll PROVE Quick!QuickInv'
  <2>1. /\ UNCHANGED <<quickAborted, quickSession, quickWritten, quickPool, quickLinks, quickMarks,
                       quickCallbacks, quickSlice, quickOpen>>
        /\ \/ quickPhase = "preparing" /\ quickPhase' = "creating" /\ Quick!Consume("prompt")
           \/ quickPhase = "prompting" /\ quickPhase' = "prompting" /\ Quick!Consume("steered")
    BY <1>2 DEF Quick!Prepared, Quick!Poll, Quick!report, Quick!told
  <2>2. /\ quickBox' \in [QuickMessage -> {"unsent", "queued", "active", "fallen"}]
              /\ quickHeard' \in [QuickMessage -> {"no", "prompt", "steered", "report"}]
        /\ \A m \in QuickMessage : quickBox'[m] # "queued"
              /\ (quickBox'[m] = "active" <=> quickHeard'[m] # "no")
    BY <2>1, Consumed
  <2> QED
    BY <2>1, <2>2 DEF Quick!QuickInv, Quick!Told
<1>3. ASSUME Quick!Settles PROVE Quick!QuickInv'
  <2>1. /\ UNCHANGED <<quickAborted, quickSession, quickLinks, quickMarks, quickCallbacks,
                       quickSlice>> /\ quickPhase = "prompting" /\ quickPhase' = "assembling"
                          /\ quickOpen' = FALSE
        /\ Quick!Consume("report") /\ quickWritten' \in Quick!Written /\ quickPool' \in Quick!Pools
    BY <1>3 DEF Quick!Settles, Quick!told
  <2>2. /\ quickBox' \in [QuickMessage -> {"unsent", "queued", "active", "fallen"}]
              /\ quickHeard' \in [QuickMessage -> {"no", "prompt", "steered", "report"}]
        /\ \A m \in QuickMessage : quickBox'[m] # "queued"
              /\ (quickBox'[m] = "active" <=> quickHeard'[m] # "no")
    BY <2>1, Consumed
  <2> QED
    BY <2>1, <2>2 DEF Quick!QuickInv, Quick!Told
<1>4. ASSUME Quick!Assemble PROVE Quick!QuickInv'
  <2>1. /\ UNCHANGED <<quickAborted, quickSession, quickBox, quickHeard, quickOpen, quickWritten,
                       quickPool, quickCallbacks, quickSlice>> /\ quickPhase = "assembling"
                          /\ quickPhase' = "storing"
        /\ quickLinks' = Quick!Verified(quickWritten, quickPool)
              /\ quickMarks' = [n \in Cited |-> Quick!Marker(n, quickWritten, quickLinks')]
    BY <1>4 DEF Quick!Assemble, Quick!steering, Quick!told
  <2>2. Quick!Rebuilt'
    BY <2>1 DEF Quick!Rebuilt, Quick!QuickInv
  <2> QED
    BY <2>1, <2>2 DEF Quick!QuickInv, Quick!Told
<1>5. ASSUME Quick!Complete \/ Quick!Fail PROVE Quick!QuickInv'
  <2>1. /\ UNCHANGED <<quickAborted, quickSession, quickBox, quickHeard, quickOpen, quickWritten,
                       quickPool, quickLinks, quickMarks>> /\ quickPhase' = "cleaning"
        /\ \/ quickPhase = "storing" /\ quickCallbacks' = Append(quickCallbacks, "complete")
                 /\ quickSlice' = "done"
           \/ quickPhase = "failing" /\ quickCallbacks' = Append(quickCallbacks, "error")
                 /\ quickSlice' = IF quickAborted THEN quickSlice ELSE "failed"
    BY <1>5 DEF Quick!Complete, Quick!Fail, Quick!Fires, Quick!steering, Quick!report
  <2>2. quickCallbacks = <<>> /\ quickSlice = "open"
    BY <2>1 DEF Quick!QuickInv, Quick!Told
  <2>3. \/ quickPhase = "storing" /\ quickCallbacks' = <<"complete">> /\ quickSlice' = "done"
        \/ quickPhase = "failing" /\ quickCallbacks' = <<"error">> /\ quickSlice' = IF quickAborted
              THEN "open" ELSE "failed"
    BY <2>1, <2>2
  <2>4. Quick!Rebuilt' <=> Quick!Rebuilt
    BY <2>1 DEF Quick!Rebuilt
  <2> QED
    BY <2>1, <2>3, <2>4 DEF Quick!QuickInv, Quick!Told
<1>6. ASSUME \/ Quick!Start \/ Quick!Healthy \/ Quick!Created \/ Quick!Unregistered
                   \/ Quick!Registered \/ Quick!TimesOut \/ Quick!Fails \/ Quick!CleanUp
                         \/ Quick!Abort
             \/ UNCHANGED Quick!quickVars
      PROVE Quick!QuickInv'
  <2>1. UNCHANGED <<quickBox, quickHeard, quickOpen, quickWritten, quickPool, quickLinks,
                    quickMarks, quickCallbacks, quickSlice>> /\ (quickAborted => quickAborted')
    BY <1>6
       DEF Quick!Start, Quick!Healthy, Quick!Created, Quick!Unregistered, Quick!Registered,
           Quick!TimesOut, Quick!Fails, Quick!CleanUp, Quick!Abort, Quick!quickVars,
           Quick!steering, Quick!report, Quick!told
  <2>2. /\ quickPhase' \in {"idle", "checking", "preparing", "creating", "registering", "prompting", "assembling", "storing", "failing",
                       "cleaning", "done"}
        /\ quickSession' \in {"none", "unowned", "owned", "aborted"}
              /\ (quickSession' = "unowned" => quickPhase' = "registering")
        /\ quickPhase' = "done" => quickSession' # "owned"
        /\ quickPhase' = "idle" => quickSession' = "none"
        /\ (quickPhase' \in {"cleaning", "done"} <=> quickPhase \in {"cleaning", "done"})
        /\ quickPhase' \in {"assembling", "storing"} => quickPhase' = quickPhase
    BY <1>6
       DEF Quick!Start, Quick!Healthy, Quick!Created, Quick!Unregistered, Quick!Registered,
           Quick!TimesOut, Quick!Fails, Quick!CleanUp, Quick!Abort, Quick!quickVars,
           Quick!QuickInv
  <2>3. Quick!Rebuilt' <=> Quick!Rebuilt
    BY <2>1 DEF Quick!Rebuilt
  <2> QED
    BY <2>1, <2>2, <2>3 DEF Quick!QuickInv, Quick!Told
<1> QED
  BY <1>1, <1>2, <1>3, <1>4, <1>5, <1>6 DEF Quick!Next

(* Whatever the session does and whenever it is cancelled: the end of a    *)
(* quick run is told once, a failure is told as one unless it was          *)
(* cancelled, its session is aborted, no message is stranded in its box,   *)
(* and its report cites every link once under the number it has.           *)
THEOREM QuickAccounts == Quick!Spec => []Quick!QuickRunAccounts
<1>1. Quick!QuickInv => Quick!QuickRunAccounts
  <2> SUFFICES ASSUME Quick!QuickInv PROVE Quick!QuickRunAccounts
    OBVIOUS
  <2>1. Len(<<"complete">>) = 1 /\ Len(<<"error">>) = 1 /\ Len(<<>>) = 0
           /\ <<"complete">> # <<"error">>
    OBVIOUS
  <2>2. quickPhase = "done" => /\ Len(quickCallbacks) = 1 /\ quickSession \in {"none", "aborted"}
                               /\ quickSlice = "done" <=> quickCallbacks = <<"complete">>
                               /\ quickSlice = "open" => quickAborted
    BY <2>1 DEF Quick!QuickInv, Quick!Told
  <2>3. Len(quickCallbacks) <= 1
    <3>1. quickCallbacks = <<>> \/ quickCallbacks = <<"complete">> \/ quickCallbacks = <<"error">>
      BY DEF Quick!QuickInv
    <3>2. CASE quickCallbacks = <<>>
      BY <3>2
    <3>3. CASE quickCallbacks = <<"complete">>
      BY <3>3
    <3>4. CASE quickCallbacks = <<"error">>
      BY <3>4
    <3> QED
      BY <3>1, <3>2, <3>3, <3>4
  <2>4. ASSUME Quick!Delivered
        PROVE  /\ \A m \in QuickMessage : quickBox[m] # "queued"
                     /\ (quickBox[m] = "active" <=> quickHeard[m] # "no")
               /\ Quick!Rebuilt
    BY <2>4 DEF Quick!QuickInv, Quick!Told, Quick!Delivered
  <2> QED
    BY <2>2, <2>3, <2>4, ReportIsTrue DEF Quick!QuickRunAccounts
<1> QED
  BY <1>1, QuickFirst, QuickStep, PTL DEF Quick!Spec
-----------------------------------------------------------------------------
(* What TLC gives the parameters.                                          *)

(* What a scrape call may be given: two URLs, and one twice with another   *)
(* that exceeds the cap.                                                   *)
Askable == Scrape!SeqOf(Link, MaxItems) \cap {<<"u2", "u1">>, <<"u1", "u1", "u2">>}

(* Teams a model may propose: a researcher with nothing to do, ids that    *)
(* clash with one another and with the suffixed form of another.           *)
Member(i, n) == [id |-> i, queries |-> n]
Teams == {<<Member(<<1>>, 0)>>, <<Member(<<1>>, 0), Member(<<1>>, 2)>>,
          <<Member(<<1, 2>>, 2), Member(<<1>>, 1), Member(<<1>>, 1)>>,
          <<Member(<<1>>, 1), Member(<<1>>, 2)>>}

(* A search with two queries that may find pages twice, and one that finds *)
(* nothing; what triage may name.                                          *)
QueryCounts == [s \in {"s1", "s2"} |-> IF s = "s1" THEN 2 ELSE 1]
FoundRows == [s \in {"s1", "s2"} |-> IF s = "s1" THEN {<<>>, <<"u1", "u1", "u2">>, <<"u2", "u3">>} ELSE {<<>>}]
Namings == {<<>>, <<2, 1, 1>>, <<3>>}

Kinds == [o \in {"r", "w"} |-> IF o = "r" THEN {"lookup"} ELSE {"read", "add", "delete", "count", "search"}]

(* The session works in d1 and has a pi.env, the CLI works in d2 and is    *)
(* given a file.                                                           *)
Cwds == [p \in {"a", "b"} |-> IF p = "a" THEN "d1" ELSE "d2"]
Unset == [k \in {"model", "device", "mode"} |-> "unset"]
Layers(who) == [p \in {"a", "b"} |-> IF p \in who THEN [Unset EXCEPT !["device"] = IF p = "a" THEN "y" ELSE "x"] ELSE Unset]
NoEnv == Layers({})
PiEnv == Layers({"a"})
CliFile == Layers({"b"})

(* What the processes find: an orphaned lock on the registry; an old HOME  *)
(* entry and a legacy file in d1, and one of them is killed.               *)
NoLegacy == [d \in {"d1", "d2"} |-> Unset]
OldFile == [legacy |-> [NoLegacy EXCEPT !["d1"]["mode"] = "y"], home |-> Unset, dead |-> {}, deaths |-> 0]
OldInstall == [OldFile EXCEPT !.home = [Unset EXCEPT !["device"] = "y"], !.deaths = 1]
Orphan == [legacy |-> NoLegacy, home |-> Unset, dead |-> {"registry"}, deaths |-> 0]
AllStarts == {Orphan, OldInstall}
OldFileOnly == {OldFile}

(* A run, two starts of an embedding server and a load of the model.       *)
Sessions == [c \in {"run", "load", "server", "again"} |-> IF c \in {"server", "again"} THEN "server" ELSE None]

-----------------------------------------------------------------------------
(* All of them.                                                            *)
VARIABLE subject  \* the component this behaviour is about

(* A step of one component leaves every other alone.                         *)
WorkerOnly == UNCHANGED <<subject, pageVars, scrapeVars, browseVars, callsVars, burstVars,
       steerVars, sdkVars, cliVars, quickVars, leadVars, lookupVars,
       accessVars, configVars, stdioVars>>
PageOnly == UNCHANGED <<subject, workerVars, scrapeVars, browseVars, callsVars, burstVars,
       steerVars, sdkVars, cliVars, quickVars, leadVars, lookupVars,
       accessVars, configVars, stdioVars>>
ScrapeOnly == UNCHANGED <<subject, workerVars, pageVars, browseVars, callsVars, burstVars,
       steerVars, sdkVars, cliVars, quickVars, leadVars, lookupVars,
       accessVars, configVars, stdioVars>>
BrowseOnly == UNCHANGED <<subject, workerVars, pageVars, scrapeVars, callsVars, burstVars,
       steerVars, sdkVars, cliVars, quickVars, leadVars, lookupVars,
       accessVars, configVars, stdioVars>>
CallsOnly == UNCHANGED <<subject, workerVars, pageVars, scrapeVars, browseVars, burstVars,
       steerVars, sdkVars, cliVars, quickVars, leadVars, lookupVars,
       accessVars, configVars, stdioVars>>
BurstOnly == UNCHANGED <<subject, workerVars, pageVars, scrapeVars, browseVars, callsVars,
       steerVars, sdkVars, cliVars, quickVars, leadVars, lookupVars,
       accessVars, configVars, stdioVars>>
SteerOnly == UNCHANGED <<subject, workerVars, pageVars, scrapeVars, browseVars, callsVars,
       burstVars, sdkVars, cliVars, quickVars, leadVars, lookupVars,
       accessVars, configVars, stdioVars>>
SdkOnly == UNCHANGED <<subject, workerVars, pageVars, scrapeVars, browseVars, callsVars,
       burstVars, steerVars, cliVars, quickVars, leadVars, lookupVars,
       accessVars, configVars, stdioVars>>
CliOnly == UNCHANGED <<subject, workerVars, pageVars, scrapeVars, browseVars, callsVars,
       burstVars, steerVars, sdkVars, quickVars, leadVars, lookupVars,
       accessVars, configVars, stdioVars>>
QuickOnly == UNCHANGED <<subject, workerVars, pageVars, scrapeVars, browseVars, callsVars,
       burstVars, steerVars, sdkVars, cliVars, leadVars, lookupVars,
       accessVars, configVars, stdioVars>>
LeadOnly == UNCHANGED <<subject, workerVars, pageVars, scrapeVars, browseVars, callsVars,
       burstVars, steerVars, sdkVars, cliVars, quickVars, lookupVars,
       accessVars, configVars, stdioVars>>
LookupOnly == UNCHANGED <<subject, workerVars, pageVars, scrapeVars, browseVars, callsVars,
       burstVars, steerVars, sdkVars, cliVars, quickVars, leadVars,
       accessVars, configVars, stdioVars>>
AccessOnly == UNCHANGED <<subject, workerVars, pageVars, scrapeVars, browseVars, callsVars,
       burstVars, steerVars, sdkVars, cliVars, quickVars, leadVars,
       lookupVars, configVars, stdioVars>>
ConfigOnly == UNCHANGED <<subject, workerVars, pageVars, scrapeVars, browseVars, callsVars,
       burstVars, steerVars, sdkVars, cliVars, quickVars, leadVars,
       lookupVars, accessVars, stdioVars>>
StdioOnly == UNCHANGED <<subject, workerVars, pageVars, scrapeVars, browseVars, callsVars,
       burstVars, steerVars, sdkVars, cliVars, quickVars, leadVars,
       lookupVars, accessVars, configVars>>

vars == <<subject, workerVars, pageVars, scrapeVars, browseVars, callsVars,
          burstVars, steerVars, sdkVars, cliVars, quickVars, leadVars,
          lookupVars, accessVars, configVars, stdioVars>>

Init ==
  /\ subject \in {"worker thread", "page mutex", "scrape call", "page load",
                  "browser calls", "search burst", "steering", "sdk", "cli",
                  "quick run", "lead", "knowledge search", "store access",
                  "settings", "stdio"}
  /\ Worker!Init
  /\ Page!Init
  /\ Scrape!Init
  /\ Browse!Init
  /\ Calls!Init
  /\ Burst!Init
  /\ Steer!Init
  /\ Sdk!Init
  /\ Cli!Init
  /\ Quick!Init
  /\ Lead!Init
  /\ Lookup!Init
  /\ Access!Init
  /\ Config!Init
  /\ Stdio!Init
  (* Only the subject starts in more than one way.                         *)
  /\ subject # "steering" => steerTui
  /\ subject # "cli" => cliCommand = "research"
  /\ subject # "settings" => configStart = CHOOSE s \in Starts : TRUE

Next ==
  \/ \E t \in WorkerTask : subject = "worker thread" /\ Worker!StartTask(t) /\ WorkerOnly
  \/ \E t \in WorkerTask : subject = "worker thread" /\ Worker!ContextOpens(t) /\ WorkerOnly
  \/ \E t \in WorkerTask : subject = "worker thread" /\ Worker!WorkEnds(t) /\ WorkerOnly
  \/ \E t \in WorkerTask : subject = "worker thread" /\ Worker!Fails(t) /\ WorkerOnly
  \/ \E t \in WorkerTask, f \in BOOLEAN : subject = "worker thread" /\ Worker!Finish(t, f) /\ WorkerOnly
  \/ \E b \in 1 .. MaxBrowsers : subject = "worker thread" /\ Worker!Launched(b) /\ WorkerOnly
  \/ \E b \in 1 .. MaxBrowsers : subject = "worker thread" /\ Worker!LateLaunch(b) /\ WorkerOnly
  \/ \E b \in 1 .. MaxBrowsers : subject = "worker thread" /\ Worker!BrowserCrashes(b) /\ WorkerOnly
  \/ \E b \in 1 .. MaxBrowsers, o \in {"down", "overdue"} : subject = "worker thread" /\ Worker!LaunchFails(b, o) /\ WorkerOnly
  \/ subject = "worker thread" /\ Worker!Stop /\ WorkerOnly
  \/ \E f \in BOOLEAN : subject = "worker thread" /\ Worker!Exit(f) /\ WorkerOnly
  \/ \E t \in PageTask : subject = "page mutex" /\ Page!Ask(t) /\ PageOnly
  \/ \E t \in PageTask : subject = "page mutex" /\ Page!Create(t) /\ PageOnly
  \/ \E t \in PageTask : subject = "page mutex" /\ Page!Refuse(t) /\ PageOnly
  \/ \E t \in PageTask : subject = "page mutex" /\ Page!GiveUp(t) /\ PageOnly
  \/ \E t \in PageTask : subject = "page mutex" /\ Page!WorkEnds(t) /\ PageOnly
  \/ \E t \in PageTask : subject = "page mutex" /\ Page!Deadline(t) /\ PageOnly
  \/ \E t \in PageTask, f \in BOOLEAN : subject = "page mutex" /\ Page!WorkFails(t, f) /\ PageOnly
  \/ \E c \in pagePending, f \in BOOLEAN : subject = "page mutex" /\ Page!Settle(c, f) /\ PageOnly
  \/ subject = "page mutex" /\ Page!HardRelease /\ PageOnly
  \/ \E c \in Asker : subject = "scrape call" /\ Scrape!Dispatch(c) /\ ScrapeOnly
  \/ \E c \in Asker : subject = "scrape call" /\ Scrape!Undispatched(c) /\ ScrapeOnly
  \/ \E c \in Asker : subject = "scrape call" /\ Scrape!Return(c) /\ ScrapeOnly
  \/ \E c \in Asker : subject = "scrape call" /\ Scrape!Abort(c) /\ ScrapeOnly
  \/ \E c \in Asker, urls \in Askable : subject = "scrape call" /\ Scrape!Call(c, urls) /\ ScrapeOnly
  \/ \E c \in Asker, hits \in SUBSET Scrape!Entry : subject = "scrape call" /\ Scrape!LookedUp(c, hits) /\ ScrapeOnly
  \/ \E c \in Asker, e \in Scrape!Entry : subject = "scrape call" /\ Scrape!Yields(c, e) /\ ScrapeOnly
  \/ \E c \in Asker, e \in Scrape!Entry : subject = "scrape call" /\ Scrape!FailsTransiently(c, e) /\ ScrapeOnly
  \/ \E c \in Asker, e \in Scrape!Entry : subject = "scrape call" /\ Scrape!Drained(c, e) /\ ScrapeOnly
  \/ \E c \in Asker, e \in Scrape!Entry : subject = "scrape call" /\ Scrape!PauseEnds(c, e) /\ ScrapeOnly
  \/ \E c \in Asker, e \in Scrape!Entry, b \in BOOLEAN : subject = "scrape call" /\ Scrape!Fails(c, e, b) /\ ScrapeOnly
  \/ \E r \in Response : subject = "page load" /\ Browse!Inspect(r) /\ BrowseOnly
  \/ \E r \in Response, w \in BOOLEAN : subject = "page load" /\ Browse!Respond(r, w) /\ BrowseOnly
  \/ subject = "page load" /\ Browse!Start /\ BrowseOnly
  \/ subject = "page load" /\ Browse!DeclaredTooLarge /\ BrowseOnly
  \/ subject = "page load" /\ Browse!Deadline /\ BrowseOnly
  \/ subject = "page load" /\ Browse!Rejects /\ BrowseOnly
  \/ subject = "page load" /\ Browse!LoadedBlocked /\ BrowseOnly
  \/ subject = "page load" /\ Browse!DownloadStarts /\ BrowseOnly
  \/ subject = "page load" /\ Browse!Downloaded /\ BrowseOnly
  \/ subject = "page load" /\ Browse!Body /\ BrowseOnly
  \/ subject = "page load" /\ Browse!Evicted /\ BrowseOnly
  \/ subject = "page load" /\ Browse!Refetched /\ BrowseOnly
  \/ subject = "page load" /\ Browse!ChallengeStays /\ BrowseOnly
  \/ subject = "page load" /\ Browse!IdleRejects /\ BrowseOnly
  \/ subject = "page load" /\ Browse!JitterEnds /\ BrowseOnly
  \/ subject = "page load" /\ Browse!JitterEndsBlocked /\ BrowseOnly
  \/ subject = "page load" /\ Browse!Settled /\ BrowseOnly
  \/ \E k \in {"document", "pdf"} : subject = "page load" /\ Browse!Loaded(k) /\ BrowseOnly
  \/ \E why \in {"http", "size"} : subject = "page load" /\ Browse!Unusable(why) /\ BrowseOnly
  \/ \E next \in {"challenge", "idle", "jitter"} : subject = "page load" /\ Browse!Content(next) /\ BrowseOnly
  \/ \E c \in BrowserTask : subject = "browser calls" /\ Calls!Send(c) /\ CallsOnly
  \/ \E c \in BrowserTask : subject = "browser calls" /\ Calls!Answered(c) /\ CallsOnly
  \/ \E c \in BrowserTask : subject = "browser calls" /\ Calls!TimesOut(c) /\ CallsOnly
  \/ \E c \in BrowserTask : subject = "browser calls" /\ Calls!Abort(c) /\ CallsOnly
  \/ \E c \in BrowserTask : subject = "browser calls" /\ Calls!Handover(c) /\ CallsOnly
  \/ \E c \in BrowserTask : subject = "browser calls" /\ Calls!Restart(c) /\ CallsOnly
  \/ \E c \in BrowserTask : subject = "browser calls" /\ Calls!RestartFails(c) /\ CallsOnly
  \/ \E c \in BrowserTask : subject = "browser calls" /\ Calls!Resume(c) /\ CallsOnly
  \/ \E c \in BrowserTask, why \in {"shutdown", "draining", "socket", "corpse"} : subject = "browser calls" /\ Calls!Fails(c, why) /\ CallsOnly
  \/ subject = "browser calls" /\ Calls!CooldownEnds /\ CallsOnly
  \/ subject = "browser calls" /\ Calls!VerdictExpires /\ CallsOnly
  \/ \E l \in 1 .. MaxLeaders : subject = "browser calls" /\ Calls!Drain(l) /\ CallsOnly
  \/ \E l \in 1 .. MaxLeaders : subject = "browser calls" /\ Calls!Die(l) /\ CallsOnly
  \/ \E w \in callsLost : subject = "browser calls" /\ Calls!Cancel(w[1], w[2]) /\ CallsOnly
  \/ \E l \in SearchLane : subject = "search burst" /\ Burst!Pull(l) /\ BurstOnly
  \/ \E q \in 1 .. LastQuery : subject = "search burst" /\ Burst!Dispatched(q) /\ BurstOnly
  \/ \E q \in 1 .. LastQuery : subject = "search burst" /\ Burst!Retry(q) /\ BurstOnly
  \/ \E q \in 1 .. LastQuery : subject = "search burst" /\ Burst!Requeue(q) /\ BurstOnly
  \/ \E q \in 1 .. LastQuery : subject = "search burst" /\ Burst!Fails(q) /\ BurstOnly
  \/ \E q \in 1 .. LastQuery : subject = "search burst" /\ Burst!Overruns(q) /\ BurstOnly
  \/ \E q \in 1 .. LastQuery : subject = "search burst" /\ Burst!Outwaited(q) /\ BurstOnly
  \/ \E q \in 1 .. LastQuery : subject = "search burst" /\ Burst!Cancelled(q) /\ BurstOnly
  \/ \E q \in 1 .. LastQuery, found \in SUBSET Hit : subject = "search burst" /\ Burst!Answered(q, found) /\ BurstOnly
  \/ subject = "search burst" /\ Burst!Abort /\ BurstOnly
  \/ subject = "search burst" /\ Burst!Finish /\ BurstOnly
  \/ \E r \in SteeredRun : subject = "steering" /\ Steer!Execute(r) /\ SteerOnly
  \/ \E r \in SteeredRun : subject = "steering" /\ Steer!Register(r) /\ SteerOnly
  \/ \E r \in SteeredRun : subject = "steering" /\ Steer!HealthPasses(r) /\ SteerOnly
  \/ \E r \in SteeredRun : subject = "steering" /\ Steer!Accept(r) /\ SteerOnly
  \/ \E r \in SteeredRun : subject = "steering" /\ Steer!Consume(r) /\ SteerOnly
  \/ \E r \in SteeredRun : subject = "steering" /\ Steer!End(r) /\ SteerOnly
  \/ \E m \in SteeringMessage : subject = "steering" /\ Steer!Type(m) /\ SteerOnly
  \/ subject = "steering" /\ Steer!Pop /\ SteerOnly
  \/ subject = "steering" /\ Steer!SendSucceeds /\ SteerOnly
  \/ subject = "steering" /\ Steer!SendFails /\ SteerOnly
  \/ subject = "steering" /\ Steer!Mark /\ SteerOnly
  \/ subject = "steering" /\ Steer!PiDelivers /\ SteerOnly
  \/ subject = "steering" /\ Steer!Esc /\ SteerOnly
  \/ subject = "steering" /\ Steer!CtrlC /\ SteerOnly
  \/ \E o \in Opener : subject = "sdk" /\ Sdk!Open(o) /\ SdkOnly
  \/ \E o \in Opener : subject = "sdk" /\ Sdk!OpenWaited(o) /\ SdkOnly
  \/ \E o \in Opener : subject = "sdk" /\ Sdk!OpenJoined(o) /\ SdkOnly
  \/ \E o \in Opener : subject = "sdk" /\ Sdk!Built(o) /\ SdkOnly
  \/ \E o \in Opener : subject = "sdk" /\ Sdk!BuildFails(o) /\ SdkOnly
  \/ \E o \in Opener : subject = "sdk" /\ Sdk!Undone(o) /\ SdkOnly
  \/ \E o \in Opener : subject = "sdk" /\ Sdk!Reject(o) /\ SdkOnly
  \/ \E c \in Closer : subject = "sdk" /\ Sdk!Close(c) /\ SdkOnly
  \/ \E c \in Closer : subject = "sdk" /\ Sdk!Signal(c) /\ SdkOnly
  \/ \E c \in Closer : subject = "sdk" /\ Sdk!CloseWaited(c) /\ SdkOnly
  \/ \E c \in Closer : subject = "sdk" /\ Sdk!CloseJoined(c) /\ SdkOnly
  \/ \E c \in Closer : subject = "sdk" /\ Sdk!TornDown(c) /\ SdkOnly
  \/ \E r \in Runner : subject = "sdk" /\ Sdk!Run(r) /\ SdkOnly
  \/ \E r \in Runner : subject = "sdk" /\ Sdk!RunSettles(r) /\ SdkOnly
  \/ \E r \in Runner : subject = "sdk" /\ Sdk!Captured(r) /\ SdkOnly
  \/ subject = "cli" /\ Cli!Parse /\ CliOnly
  \/ subject = "cli" /\ Cli!Preflight /\ CliOnly
  \/ subject = "cli" /\ Cli!Started /\ CliOnly
  \/ subject = "cli" /\ Cli!Returns /\ CliOnly
  \/ subject = "cli" /\ Cli!Export /\ CliOnly
  \/ subject = "cli" /\ Cli!Left /\ CliOnly
  \/ subject = "cli" /\ Cli!PrintSearch /\ CliOnly
  \/ subject = "cli" /\ Cli!Exit /\ CliOnly
  \/ \E e \in Cli!Errors : subject = "cli" /\ Cli!Fails(e) /\ CliOnly
  \/ \E s \in Signals : subject = "cli" /\ Cli!Signal(s) /\ CliOnly
  \/ subject = "cli" /\ Cli!TornDown /\ CliOnly
  \/ subject = "cli" /\ Cli!Escape /\ CliOnly
  \/ subject = "cli" /\ Cli!EscapeExits /\ CliOnly
  \/ subject = "cli" /\ Cli!Tick /\ CliOnly
  \/ subject = "quick run" /\ Quick!Start /\ QuickOnly
  \/ subject = "quick run" /\ Quick!Healthy /\ QuickOnly
  \/ subject = "quick run" /\ Quick!Prepared /\ QuickOnly
  \/ subject = "quick run" /\ Quick!Created /\ QuickOnly
  \/ subject = "quick run" /\ Quick!Unregistered /\ QuickOnly
  \/ subject = "quick run" /\ Quick!Registered /\ QuickOnly
  \/ subject = "quick run" /\ Quick!Poll /\ QuickOnly
  \/ subject = "quick run" /\ Quick!TimesOut /\ QuickOnly
  \/ subject = "quick run" /\ Quick!Fails /\ QuickOnly
  \/ subject = "quick run" /\ Quick!Settles /\ QuickOnly
  \/ subject = "quick run" /\ Quick!Assemble /\ QuickOnly
  \/ subject = "quick run" /\ Quick!Complete /\ QuickOnly
  \/ subject = "quick run" /\ Quick!Fail /\ QuickOnly
  \/ subject = "quick run" /\ Quick!CleanUp /\ QuickOnly
  \/ subject = "quick run" /\ Quick!Abort /\ QuickOnly
  \/ \E m \in QuickMessage : subject = "quick run" /\ Quick!Type(m) /\ QuickOnly
  \/ subject = "lead" /\ Lead!AskPlan /\ LeadOnly
  \/ subject = "lead" /\ Lead!AskRoute /\ LeadOnly
  \/ subject = "lead" /\ Lead!AskReport /\ LeadOnly
  \/ subject = "lead" /\ Lead!NoKey /\ LeadOnly
  \/ subject = "lead" /\ Lead!NoAnswer /\ LeadOnly
  \/ subject = "lead" /\ Lead!TimesOut /\ LeadOnly
  \/ subject = "lead" /\ Lead!BackoffEnds /\ LeadOnly
  \/ subject = "lead" /\ Lead!BackoffAborted /\ LeadOnly
  \/ subject = "lead" /\ Lead!Garbled /\ LeadOnly
  \/ subject = "lead" /\ Lead!RepairInvalid /\ LeadOnly
  \/ subject = "lead" /\ Lead!RepairEnds /\ LeadOnly
  \/ \E f \in {"limited", "stated", "hard"} : subject = "lead" /\ Lead!CallFails(f) /\ LeadOnly
  \/ \E a \in Lead!Answers : subject = "lead" /\ Lead!Answered(a) /\ LeadOnly
  \/ \E a \in Lead!Answers : subject = "lead" /\ Lead!Repaired(a) /\ LeadOnly
  \/ \E n \in 1 .. Window : subject = "lead" /\ Lead!PartialAnswered(n) /\ LeadOnly
  \/ subject = "lead" /\ Lead!Researched /\ LeadOnly
  \/ subject = "lead" /\ Lead!Delegates /\ LeadOnly
  \/ subject = "lead" /\ Lead!Waits /\ LeadOnly
  \/ subject = "lead" /\ Lead!Finishes /\ LeadOnly
  \/ subject = "lead" /\ Lead!Reported /\ LeadOnly
  \/ subject = "lead" /\ Lead!Cancel /\ LeadOnly
  \/ \E s \in Search : subject = "knowledge search" /\ Lookup!Begin(s) /\ LookupOnly
  \/ \E s \in Search : subject = "knowledge search" /\ Lookup!InvalidParams(s) /\ LookupOnly
  \/ \E s \in Search : subject = "knowledge search" /\ Lookup!StoreFaults(s) /\ LookupOnly
  \/ \E s \in Search : subject = "knowledge search" /\ Lookup!StoreReady(s) /\ LookupOnly
  \/ \E s \in Search : subject = "knowledge search" /\ Lookup!QueryFails(s) /\ LookupOnly
  \/ \E s \in Search : subject = "knowledge search" /\ Lookup!ModelReady(s) /\ LookupOnly
  \/ \E s \in Search : subject = "knowledge search" /\ Lookup!TriageMalformed(s) /\ LookupOnly
  \/ \E s \in Search : subject = "knowledge search" /\ Lookup!NotRebuilt(s) /\ LookupOnly
  \/ \E s \in Search : subject = "knowledge search" /\ Lookup!Assembled(s) /\ LookupOnly
  \/ \E s \in Search : subject = "knowledge search" /\ Lookup!BackoffEnds(s) /\ LookupOnly
  \/ \E s \in Search : subject = "knowledge search" /\ Lookup!Unwinds(s) /\ LookupOnly
  \/ \E s \in Search : subject = "knowledge search" /\ Lookup!Malformed(s) /\ LookupOnly
  \/ \E s \in Search : subject = "knowledge search" /\ Lookup!RepairFails(s) /\ LookupOnly
  \/ \E s \in Search : subject = "knowledge search" /\ Lookup!Cancel(s) /\ LookupOnly
  \/ \E s \in Search, why \in Lookup!Off : subject = "knowledge search" /\ Lookup!NoStore(s, why) /\ LookupOnly
  \/ \E s \in Search : \E rows \in RowsOf[s] : subject = "knowledge search" /\ Lookup!QueryAnswers(s, rows) /\ LookupOnly
  \/ \E s \in Search, why \in {"no_model", "auth_failed"} : subject = "knowledge search" /\ Lookup!NoModel(s, why) /\ LookupOnly
  \/ \E s \in Search, idx \in Indices : subject = "knowledge search" /\ Lookup!TriageAnswers(s, idx) /\ LookupOnly
  \/ \E s \in Search, size \in TextSizes : subject = "knowledge search" /\ Lookup!Rebuilt(s, size) /\ LookupOnly
  \/ \E s \in Search, failure \in {"limit", "hard"} : subject = "knowledge search" /\ Lookup!CallFails(s, failure) /\ LookupOnly
  \/ \E s \in Search, status \in {"yes", "maybe", "no"} : subject = "knowledge search" /\ Lookup!Extracted(s, status) /\ LookupOnly
  \/ \E o \in StoreOp : \E k \in OpKinds[o] : subject = "store access" /\ Access!Start(o, k) /\ AccessOnly
  \/ \E o \in StoreOp : subject = "store access" /\ Access!Refreshed(o) /\ AccessOnly
  \/ \E o \in StoreOp : subject = "store access" /\ Access!TableGone(o) /\ AccessOnly
  \/ \E o \in StoreOp : subject = "store access" /\ Access!RefreshFails(o) /\ AccessOnly
  \/ \E o \in StoreOp : subject = "store access" /\ Access!Embedded(o) /\ AccessOnly
  \/ \E o \in StoreOp : subject = "store access" /\ Access!Unreachable(o) /\ AccessOnly
  \/ \E o \in StoreOp : subject = "store access" /\ Access!Reconnected(o) /\ AccessOnly
  \/ \E o \in StoreOp : subject = "store access" /\ Access!Fails(o) /\ AccessOnly
  \/ \E o \in StoreOp, n \in Chunks : subject = "store access" /\ Access!Commit(o, n) /\ AccessOnly
  \/ \E o \in StoreOp : subject = "store access" /\ Access!Conflict(o) /\ AccessOnly
  \/ \E o \in StoreOp : subject = "store access" /\ Access!Retry(o) /\ AccessOnly
  \/ \E o \in StoreOp : subject = "store access" /\ Access!QueryAnswers(o) /\ AccessOnly
  \/ \E o \in StoreOp : subject = "store access" /\ Access!ReadAnswers(o) /\ AccessOnly
  \/ \E o \in StoreOp : subject = "store access" /\ Access!CountAnswers(o) /\ AccessOnly
  \/ \E o \in StoreOp : subject = "store access" /\ Access!Scan(o) /\ AccessOnly
  \/ \E o \in StoreOp : subject = "store access" /\ Access!Rescan(o) /\ AccessOnly
  \/ subject = "store access" /\ Access!Close /\ AccessOnly
  \/ subject = "store access" /\ Access!Settled /\ AccessOnly
  \/ subject = "store access" /\ Access!WaitTimesOut /\ AccessOnly
  \/ \E n \in Chunks : subject = "store access" /\ Access!PeerCommits(Access!Added(accessTable[Access!Version], n)) /\ AccessOnly
  \/ subject = "store access" /\ Access!PeerCommits(Access!Pruned(accessTable[Access!Version])) /\ AccessOnly
  \/ subject = "store access" /\ Access!PeerDrops /\ AccessOnly
  \/ subject = "store access" /\ Access!PeerCreates /\ AccessOnly
  \/ \E p \in Proc : subject = "settings" /\ Config!Bridge(p) /\ ConfigOnly
  \/ \E p \in Proc : subject = "settings" /\ Config!GetConfig(p) /\ ConfigOnly
  \/ \E p \in Proc : subject = "settings" /\ Config!ReadRegistry(p) /\ ConfigOnly
  \/ \E p \in Proc : subject = "settings" /\ Config!ReadFiles(p) /\ ConfigOnly
  \/ \E p \in Proc : subject = "settings" /\ Config!Keep(p) /\ ConfigOnly
  \/ \E p \in Proc : subject = "settings" /\ Config!Create(p) /\ ConfigOnly
  \/ \E p \in Proc : subject = "settings" /\ Config!WaitTurn(p) /\ ConfigOnly
  \/ \E p \in Proc : subject = "settings" /\ Config!Judge(p) /\ ConfigOnly
  \/ \E p \in Proc : subject = "settings" /\ Config!Claim(p) /\ ConfigOnly
  \/ \E p \in Proc : subject = "settings" /\ Config!Destroy(p) /\ ConfigOnly
  \/ \E p \in Proc : subject = "settings" /\ Config!PutBack(p) /\ ConfigOnly
  \/ \E p \in Proc : subject = "settings" /\ Config!GivesUp(p) /\ ConfigOnly
  \/ \E p \in Proc : subject = "settings" /\ Config!ReadLatest(p) /\ ConfigOnly
  \/ \E p \in Proc : subject = "settings" /\ Config!Fails(p) /\ ConfigOnly
  \/ \E p \in Proc : subject = "settings" /\ Config!Write(p) /\ ConfigOnly
  \/ \E p \in Proc : subject = "settings" /\ Config!Release(p) /\ ConfigOnly
  \/ \E p \in Proc : subject = "settings" /\ Config!OpenMenu(p) /\ ConfigOnly
  \/ \E p \in Proc : subject = "settings" /\ Config!Saved(p) /\ ConfigOnly
  \/ \E p \in Proc : subject = "settings" /\ Config!Decline(p) /\ ConfigOnly
  \/ \E p \in Proc : subject = "settings" /\ Config!Confirm(p) /\ ConfigOnly
  \/ \E p \in Proc : subject = "settings" /\ Config!ModelSaved(p) /\ ConfigOnly
  \/ \E p \in Proc : subject = "settings" /\ Config!Die(p) /\ ConfigOnly
  \/ \E p \in Proc, cancelled \in BOOLEAN : subject = "settings" /\ Config!Close(p, cancelled) /\ ConfigOnly
  \/ \E p \in Proc, k \in {"mode"}, v \in Values : subject = "settings" /\ Config!SetForDirectory(p, k, v) /\ ConfigOnly
  \/ \E p \in Proc, k \in {"device", "mode"}, v \in Values : subject = "settings" /\ Config!Choose(p, k, v) /\ ConfigOnly
  \/ \E p \in Proc, v \in Values : subject = "settings" /\ Config!ChooseModel(p, v) /\ ConfigOnly
  \/ \E d \in Dir : subject = "settings" /\ Config!RemoveLegacy(d) /\ ConfigOnly
  \/ \E c \in Capture : subject = "stdio" /\ Stdio!Join(c) /\ StdioOnly
  \/ \E c \in Capture : subject = "stdio" /\ Stdio!JoinedEnds(c) /\ StdioOnly
  \/ \E c \in Capture : subject = "stdio" /\ Stdio!Begin(c) /\ StdioOnly
  \/ \E c \in Capture : subject = "stdio" /\ Stdio!End(c) /\ StdioOnly

Spec == Init /\ [][Next]_vars
-----------------------------------------------------------------------------
(* What is reported is what happened.  Every URL of a scrape call is in    *)
(* its answer, once and under the right heading; a failure of a search     *)
(* burst is charged to the query that failed; a message the user typed     *)
(* goes to a run or back to the user; a caller of the CLI learns by its    *)
(* exit code how the run ended; the lead keeps its plan, its budgets and   *)
(* its agenda through failing calls; a quick report cites the pages it was *)
(* written from; a lookup that found nothing was one; and a setting is     *)
(* what its savers chose.                                                  *)
AccountedFor ==
  /\ Scrape!EveryUrlAccountedFor /\ Burst!FailuresAreAttributed /\ Steer!SteeringIsKept
  /\ Cli!ToldWhatHappened /\ Lead!LeadKeepsTheRun /\ Quick!QuickRunAccounts
  /\ Lookup!SearchIsTruthful /\ Config!SettingsAreTruthful

(* What is at work is not disturbed, and what is released is gone.  A task *)
(* of a worker never loses its browser to a sibling's failure, and page    *)
(* creations do not overlap; a retry reaches somebody who can answer;      *)
(* lifetimes of the SDK are separate; every document a page loads is seen  *)
(* by its fence; and overlapping captures give stdout and stderr back.     *)
Undisturbed ==
  /\ Worker!SiblingsUndisturbed /\ Page!OnePageAtATime /\ Calls!RetriesReachSomebody
  /\ Sdk!LifetimesAreSeparate /\ Browse!ContentIsInspected /\ Stdio!StdioComesBack

(* A store is not closed under an operation that was let in, an operation  *)
(* does not try again what was already defeated, and a lookup serves the   *)
(* newest generation it may.                                               *)
StoreIsShared == Access!StoreIsShared

(* config.ts:761: the registry wins over a legacy file.  (It does not.)    *)
RegistryWins == Config!RegistryWins

(* Behaviours of the settings alone.                                       *)
SettingsSpec == Init /\ subject = "settings" /\ [][Next]_vars

-----------------------------------------------------------------------------
(* What a run of all of them together shows of one, it shows of the        *)
(* component.                                                              *)
LEMMA DeliverySteps ==
  ASSUME [Next]_vars
  PROVE  /\ [Worker!Next]_Worker!workerVars /\ [Page!Next]_Page!mutexVars
         /\ [Scrape!Next]_Scrape!callVars /\ [Browse!Next]_Browse!taskVars
         /\ [Calls!Next]_Calls!taskVars /\ [Burst!Next]_Burst!burstVars
         /\ [Steer!Next]_Steer!steerVars /\ [Sdk!Next]_Sdk!sdkVars
         /\ [Cli!Next]_Cli!cliVars /\ [Quick!Next]_Quick!quickVars
         /\ [Lead!Next]_Lead!planningVars /\ [Lookup!Next]_Lookup!searchVars
         /\ [Access!Next]_Access!accessVars /\ [Config!Next]_Config!settingsVars
         /\ [Stdio!Next]_Stdio!captureVars
<1>1. /\ UNCHANGED workerVars => UNCHANGED Worker!workerVars
      /\ UNCHANGED pageVars => UNCHANGED Page!mutexVars
      /\ UNCHANGED scrapeVars => UNCHANGED Scrape!callVars
      /\ UNCHANGED browseVars => UNCHANGED Browse!taskVars
      /\ UNCHANGED callsVars => UNCHANGED Calls!taskVars
      /\ UNCHANGED burstVars => UNCHANGED Burst!burstVars
      /\ UNCHANGED steerVars => UNCHANGED Steer!steerVars
      /\ UNCHANGED sdkVars => UNCHANGED Sdk!sdkVars
      /\ UNCHANGED cliVars => UNCHANGED Cli!cliVars
      /\ UNCHANGED quickVars => UNCHANGED Quick!quickVars
      /\ UNCHANGED leadVars => UNCHANGED Lead!planningVars
      /\ UNCHANGED lookupVars => UNCHANGED Lookup!searchVars
      /\ UNCHANGED accessVars => UNCHANGED Access!accessVars
      /\ UNCHANGED configVars => UNCHANGED Config!settingsVars
      /\ UNCHANGED stdioVars => UNCHANGED Stdio!captureVars
  <2>1. UNCHANGED workerVars => UNCHANGED Worker!workerVars
    BY DEF workerVars, Worker!workerVars
  <2>2. UNCHANGED pageVars => UNCHANGED Page!mutexVars
    BY DEF pageVars, Page!mutexVars
  <2>3. UNCHANGED scrapeVars => UNCHANGED Scrape!callVars
    BY DEF scrapeVars, Scrape!callVars
  <2>4. UNCHANGED browseVars => UNCHANGED Browse!taskVars
    BY DEF browseVars, Browse!taskVars
  <2>5. UNCHANGED callsVars => UNCHANGED Calls!taskVars
    BY DEF callsVars, Calls!taskVars
  <2>6. UNCHANGED burstVars => UNCHANGED Burst!burstVars
    BY DEF burstVars, Burst!burstVars
  <2>7. UNCHANGED steerVars => UNCHANGED Steer!steerVars
    BY DEF steerVars, Steer!steerVars
  <2>8. UNCHANGED sdkVars => UNCHANGED Sdk!sdkVars
    BY DEF sdkVars, Sdk!sdkVars
  <2>9. UNCHANGED cliVars => UNCHANGED Cli!cliVars
    BY DEF cliVars, Cli!cliVars
  <2>10. UNCHANGED quickVars => UNCHANGED Quick!quickVars
    BY DEF quickVars, Quick!quickVars
  <2>11. UNCHANGED leadVars => UNCHANGED Lead!planningVars
    BY DEF leadVars, Lead!planningVars
  <2>12. UNCHANGED lookupVars => UNCHANGED Lookup!searchVars
    BY DEF lookupVars, Lookup!searchVars
  <2>13. UNCHANGED accessVars => UNCHANGED Access!accessVars
    BY DEF accessVars, Access!accessVars
  <2>14. UNCHANGED configVars => UNCHANGED Config!settingsVars
    BY DEF configVars, Config!settingsVars, Config!diskVars, Config!lockVars,
       Config!callVars, Config!restVars
  <2>15. UNCHANGED stdioVars => UNCHANGED Stdio!captureVars
    BY DEF stdioVars, Stdio!captureVars
  <2> QED
    BY <2>1, <2>2, <2>3, <2>4, <2>5, <2>6, <2>7, <2>8, <2>9, <2>10, <2>11, <2>12, <2>13,
       <2>14, <2>15
<1>2. CASE UNCHANGED vars
  BY <1>1, <1>2 DEF vars
<1>3. CASE Next
  <2> USE <1>1, <1>3
  <2>1. Worker!Next \/ UNCHANGED workerVars
    BY DEF Next, Worker!Next, Worker!Browser, PageOnly, ScrapeOnly, BrowseOnly, CallsOnly,
       BurstOnly, SteerOnly, SdkOnly, CliOnly, QuickOnly, LeadOnly, LookupOnly, AccessOnly,
       ConfigOnly, StdioOnly
  <2>2. Page!Next \/ UNCHANGED pageVars
    BY DEF Next, Page!Next, WorkerOnly, ScrapeOnly, BrowseOnly, CallsOnly, BurstOnly,
       SteerOnly, SdkOnly, CliOnly, QuickOnly, LeadOnly, LookupOnly, AccessOnly,
       ConfigOnly, StdioOnly
  <2>3. Scrape!Next \/ UNCHANGED scrapeVars
    BY DEF Next, Scrape!Next, Askable, WorkerOnly, PageOnly, BrowseOnly, CallsOnly,
       BurstOnly, SteerOnly, SdkOnly, CliOnly, QuickOnly, LeadOnly, LookupOnly, AccessOnly,
       ConfigOnly, StdioOnly
  <2>4. Browse!Next \/ UNCHANGED browseVars
    BY DEF Next, Browse!Next, WorkerOnly, PageOnly, ScrapeOnly, CallsOnly, BurstOnly,
       SteerOnly, SdkOnly, CliOnly, QuickOnly, LeadOnly, LookupOnly, AccessOnly,
       ConfigOnly, StdioOnly
  <2>5. Calls!Next \/ UNCHANGED callsVars
    BY DEF Next, Calls!Next, Calls!Leader, WorkerOnly, PageOnly, ScrapeOnly, BrowseOnly,
       BurstOnly, SteerOnly, SdkOnly, CliOnly, QuickOnly, LeadOnly, LookupOnly, AccessOnly,
       ConfigOnly, StdioOnly
  <2>6. Burst!Next \/ UNCHANGED burstVars
    BY DEF Next, Burst!Next, Burst!Query, WorkerOnly, PageOnly, ScrapeOnly, BrowseOnly,
       CallsOnly, SteerOnly, SdkOnly, CliOnly, QuickOnly, LeadOnly, LookupOnly, AccessOnly,
       ConfigOnly, StdioOnly
  <2>7. Steer!Next \/ UNCHANGED steerVars
    BY DEF Next, Steer!Next, WorkerOnly, PageOnly, ScrapeOnly, BrowseOnly, CallsOnly,
       BurstOnly, SdkOnly, CliOnly, QuickOnly, LeadOnly, LookupOnly, AccessOnly,
       ConfigOnly, StdioOnly
  <2>8. Sdk!Next \/ UNCHANGED sdkVars
    BY DEF Next, Sdk!Next, WorkerOnly, PageOnly, ScrapeOnly, BrowseOnly, CallsOnly,
       BurstOnly, SteerOnly, CliOnly, QuickOnly, LeadOnly, LookupOnly, AccessOnly,
       ConfigOnly, StdioOnly
  <2>9. Cli!Next \/ UNCHANGED cliVars
    BY DEF Next, Cli!Next, WorkerOnly, PageOnly, ScrapeOnly, BrowseOnly, CallsOnly,
       BurstOnly, SteerOnly, SdkOnly, QuickOnly, LeadOnly, LookupOnly, AccessOnly,
       ConfigOnly, StdioOnly
  <2>10. Quick!Next \/ UNCHANGED quickVars
    BY DEF Next, Quick!Next, WorkerOnly, PageOnly, ScrapeOnly, BrowseOnly, CallsOnly,
       BurstOnly, SteerOnly, SdkOnly, CliOnly, LeadOnly, LookupOnly, AccessOnly,
       ConfigOnly, StdioOnly
  <2>11. Lead!Next \/ UNCHANGED leadVars
    BY DEF Next, Lead!Next, WorkerOnly, PageOnly, ScrapeOnly, BrowseOnly, CallsOnly,
       BurstOnly, SteerOnly, SdkOnly, CliOnly, QuickOnly, LookupOnly, AccessOnly,
       ConfigOnly, StdioOnly
  <2>12. Lookup!Next \/ UNCHANGED lookupVars
    BY DEF Next, Lookup!Next, WorkerOnly, PageOnly, ScrapeOnly, BrowseOnly, CallsOnly,
       BurstOnly, SteerOnly, SdkOnly, CliOnly, QuickOnly, LeadOnly, AccessOnly, ConfigOnly,
       StdioOnly
  <2>13. Access!Next \/ UNCHANGED accessVars
    BY DEF Next, Access!Next, WorkerOnly, PageOnly, ScrapeOnly, BrowseOnly, CallsOnly,
       BurstOnly, SteerOnly, SdkOnly, CliOnly, QuickOnly, LeadOnly, LookupOnly, ConfigOnly,
       StdioOnly
  <2>14. Config!Next \/ UNCHANGED configVars
    <3>1. ASSUME NEW q \in Proc, NEW k \in {"device", "mode"}, NEW v \in Values,
                 Config!SetForDirectory(q, k, v) \/ Config!Choose(q, k, v)
          PROVE  Config!Next
      <4>1. k \in Config!Keys
        BY DEF Config!Keys, Config!User, Config!Local
      <4> QED
        BY <3>1, <4>1 DEF Config!Next
    <3> QED
      BY <3>1
         DEF Next, Config!Next, WorkerOnly, PageOnly, ScrapeOnly, BrowseOnly, CallsOnly,
             BurstOnly, SteerOnly, SdkOnly, CliOnly, QuickOnly, LeadOnly, LookupOnly,
             AccessOnly, StdioOnly
  <2>15. Stdio!Next \/ UNCHANGED stdioVars
    BY DEF Next, Stdio!Next, WorkerOnly, PageOnly, ScrapeOnly, BrowseOnly, CallsOnly,
       BurstOnly, SteerOnly, SdkOnly, CliOnly, QuickOnly, LeadOnly, LookupOnly, AccessOnly,
       ConfigOnly
  <2> QED
    BY <2>1, <2>2, <2>3, <2>4, <2>5, <2>6, <2>7, <2>8, <2>9, <2>10, <2>11, <2>12, <2>13,
       <2>14, <2>15
<1> QED
  BY <1>2, <1>3

(* Each of the components runs as its own specification says.              *)
THEOREM Components ==
  Spec => /\ Worker!Spec /\ Page!Spec /\ Scrape!Spec /\ Browse!Spec
          /\ Calls!Spec /\ Burst!Spec /\ Steer!Spec /\ Sdk!Spec
          /\ Cli!Spec /\ Quick!Spec /\ Lead!Spec /\ Lookup!Spec
          /\ Access!Spec /\ Config!Spec /\ Stdio!Spec
<1>1. Init => /\ Worker!Init /\ Page!Init /\ Scrape!Init /\ Browse!Init
              /\ Calls!Init /\ Burst!Init /\ Steer!Init /\ Sdk!Init
              /\ Cli!Init /\ Quick!Init /\ Lead!Init /\ Lookup!Init
              /\ Access!Init /\ Config!Init /\ Stdio!Init
  BY DEF Init
<1>2. [Next]_vars =>
        /\ [Worker!Next]_Worker!workerVars /\ [Page!Next]_Page!mutexVars
        /\ [Scrape!Next]_Scrape!callVars /\ [Browse!Next]_Browse!taskVars
        /\ [Calls!Next]_Calls!taskVars /\ [Burst!Next]_Burst!burstVars
        /\ [Steer!Next]_Steer!steerVars /\ [Sdk!Next]_Sdk!sdkVars
        /\ [Cli!Next]_Cli!cliVars /\ [Quick!Next]_Quick!quickVars
        /\ [Lead!Next]_Lead!planningVars /\ [Lookup!Next]_Lookup!searchVars
        /\ [Access!Next]_Access!accessVars /\ [Config!Next]_Config!settingsVars
        /\ [Stdio!Next]_Stdio!captureVars
  BY DeliverySteps
<1> QED
  BY <1>1, <1>2, PTL
     DEF Spec, Worker!Spec, Page!Spec, Scrape!Spec, Browse!Spec, Calls!Spec, Burst!Spec,
         Steer!Spec, Sdk!Spec, Cli!Spec, Quick!Spec, Lead!Spec, Lookup!Spec, Access!Spec,
         Config!Spec, Stdio!Spec

(* Of the runs of the composition: what is reported is what happened ...   *)
THEOREM Accounted == Spec => []AccountedFor
<1>1. AccountedFor <=>
        /\ Scrape!EveryUrlAccountedFor /\ Burst!FailuresAreAttributed /\ Steer!SteeringIsKept
        /\ Cli!ToldWhatHappened /\ Lead!LeadKeepsTheRun /\ Quick!QuickRunAccounts
        /\ Lookup!SearchIsTruthful /\ Config!SettingsAreTruthful
  BY DEF AccountedFor
<1> QED
  BY <1>1, Components, UrlsReported, ToldPerQuery, SaidOnce, ToldAlways, LeadSound, QuickAccounts,
     LookTruthful, SavesSurvive, PTL

(* ... what is at work is not disturbed ...                                *)
THEOREM NobodyDisturbed == Spec => []Undisturbed
<1>1. Undisturbed <=>
        /\ Worker!SiblingsUndisturbed /\ Page!OnePageAtATime /\ Calls!RetriesReachSomebody
        /\ Sdk!LifetimesAreSeparate /\ Browse!ContentIsInspected /\ Stdio!StdioComesBack
  BY DEF Undisturbed
<1> QED
  BY <1>1, Components, SiblingsKeepTheirBrowser, PagesOneByOne, RetriesReach, LifetimesApart,
     FenceSeesAll, ComesBackAlways, PTL

(* ... and the knowledge store is shared.                                  *)
THEOREM StoreShared == Spec => StoreIsShared
BY Components, OneStore, PTL DEF StoreIsShared
=============================================================================
