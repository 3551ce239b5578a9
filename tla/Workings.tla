------------------------------ MODULE Workings ------------------------------
(***************************************************************************)
(* The components of MCDelivery that keep no lists, each with what holds   *)
(* of it for every value of its constants: the search burst, the command   *)
(* line, the worker thread and its page mutex, the calls of browser tasks, *)
(* the SDK's lifetimes, the loading of a page, the settings, the captured  *)
(* output and the access to the knowledge store.                           *)
(***************************************************************************)
EXTENDS Integers, Sequences, FiniteSetTheorems, FunctionTheorems, SequenceTheorems, WellFoundedInduction, TLAPS

CONSTANTS
  None,
  LastQuery, SearchLane, Hit,                                                   \* SearchBurst
  Signals, Grace, MaxClock,                                                     \* CliRun
  WorkerTask, MaxBrowsers,                                                      \* ThreadWorker
  PageTask, HealthCheck,                                                        \* PageMutex
  BrowserTask, MaxLeaders, Handovers, Retries,                                  \* BrowserCalls
  Opener, Closer, Runner,                                                       \* SdkLifecycle
  Response,                                                                     \* ScrapeTask
  Proc, Standalone, Dir, CwdOf, Env, Overlay, Named, Starts, Values, Inodes,    \* Settings
  MaxTries, MaxSaves,
  Capture, SessionOf, Terminal, LogFile, ClosedFd, MaxFrames,                   \* StdioCapture
  StoreOp, OpKinds, MaxStoreRetries, MaxCommits, SmallCap, LargeCap, Chunks,    \* StoreAccess
  TooOld

-----------------------------------------------------------------------------
(* The search burst.                                                       *)
VARIABLES
  burstNext, burstLane, burstStatus, burstRetried, burstAfar, burstTimer,
  burstResults, burstFailure, burstSeen, burstFate, burstAborted, burstVerdict
Burst == INSTANCE SearchBurst WITH
  next <- burstNext, lane <- burstLane, status <- burstStatus,
  retried <- burstRetried, afar <- burstAfar, timer <- burstTimer, results <- burstResults,
  failure <- burstFailure, seen <- burstSeen, fate <- burstFate,
  aborted <- burstAborted, verdict <- burstVerdict, Last <- LastQuery,
  Lane <- SearchLane, Url <- Hit
burstVars == <<burstNext, burstLane, burstStatus, burstRetried, burstAfar, burstTimer,
  burstResults, burstFailure, burstSeen, burstFate, burstAborted, burstVerdict>>

(* What the proofs need of its parameters.                                 *)
ASSUME BurstSettingHolds == Burst!BurstSetting

LEMMA BurstFirst == Burst!Init => Burst!BurstInv
<1> SUFFICES ASSUME Burst!Init PROVE Burst!BurstInv
  OBVIOUS
<1>1. Burst!BurstTyped
  <2>1. burstLane \in [SearchLane -> 0 .. LastQuery + 1]
    BY BurstSettingHolds DEF Burst!Init, Burst!BurstSetting
  <2>2. /\ burstStatus \in [Burst!Query -> {"none", "queued", "running", "pausing", "done"}]
        /\ burstFailure \in [Burst!Query -> {"none", "all_duplicates", "timeout", "service_unavailable"}]
        /\ burstFate \in [Burst!Query -> {"none", "found", "empty", "overrun", "outwaited", "failed", "cancelled"}]
        /\ burstResults \in [Burst!Query -> SUBSET Hit]
    BY DEF Burst!Init
  <2>3. burstNext = 1 /\ burstAborted = FALSE /\ burstSeen = {} /\ burstAfar = {}
    BY DEF Burst!Init
  <2>4. burstNext \in Nat \ {0}
    BY <2>3
  <2> QED
    BY <2>1, <2>2, <2>3, <2>4 DEF Burst!BurstTyped
<1>2. Burst!LanesCarry
  BY BurstSettingHolds DEF Burst!Init, Burst!LanesCarry, Burst!Query, Burst!BurstSetting
<1>3. \A q \in Burst!Query : Burst!Tells(q)
  BY DEF Burst!Init, Burst!Tells
<1> QED
  BY <1>1, <1>2, <1>3 DEF Burst!Init, Burst!BurstInv

LEMMA Attributed == Burst!BurstInv => Burst!FailuresAreAttributed
<1> SUFFICES ASSUME Burst!BurstInv PROVE Burst!FailuresAreAttributed
  OBVIOUS
<1>1. ASSUME burstVerdict \in {"answered", "failed"}, NEW q \in Burst!Query
   PROVE burstStatus[q] = "done" /\ ~burstAborted
  <2>1. ~burstAborted /\ \A l \in SearchLane : burstLane[l] = LastQuery + 1
    BY <1>1 DEF Burst!BurstInv
  <2>2. burstNext > LastQuery
    BY <2>1, BurstSettingHolds DEF Burst!BurstInv, Burst!LanesCarry, Burst!BurstSetting
  <2>3. q < burstNext /\ q # LastQuery + 1 /\ q \in Nat
    BY <2>2, BurstSettingHolds
       DEF Burst!Query, Burst!BurstSetting, Burst!BurstInv, Burst!BurstTyped
  <2>4. burstStatus[q] # "none" /\ burstStatus[q] \notin {"queued", "running", "pausing"}
    BY <2>1, <2>3 DEF Burst!BurstInv, Burst!LanesCarry
  <2> QED
    BY <2>1, <2>4 DEF Burst!BurstInv, Burst!BurstTyped
<1> QED
  BY <1>1 DEF Burst!FailuresAreAttributed, Burst!BurstInv, Burst!Tells

(* A query in a lane ends, and tells so.                                   *)
LEMMA Ending ==
  ASSUME Burst!BurstInv, NEW q \in Burst!Query, NEW found \in SUBSET Hit, NEW why, NEW how,
         burstStatus[q] \in {"queued", "running", "pausing"}, Burst!End(q, found, why, how),
         UNCHANGED <<burstNext, burstAfar, burstAborted, burstVerdict>>, found \cap burstSeen = {},
         why \in {"none", "all_duplicates", "timeout", "service_unavailable"},
         how \in {"found", "empty", "overrun", "outwaited", "failed", "cancelled"},
         found = {} /\ why = "none" => how = "empty" \/ burstAborted,
         why = "timeout" => how = "overrun" \/ (how = "outwaited" /\ q \in burstAfar)
  PROVE  Burst!BurstInv'
<1>1. /\ \A r \in Burst!Query : /\ burstStatus'[r] = IF r = q THEN "done" ELSE burstStatus[r]
                                /\ burstResults'[r] = IF r = q THEN found ELSE burstResults[r]
                                /\ burstFailure'[r] = IF r = q THEN why ELSE burstFailure[r]
                                /\ burstFate'[r] = IF r = q THEN how ELSE burstFate[r]
      /\ \A l \in SearchLane : burstLane'[l] = IF burstLane[l] = q THEN 0 ELSE burstLane[l]
      /\ burstSeen' = burstSeen \cup found /\ burstTimer' = burstTimer \ {q}
  BY DEF Burst!End, Burst!To, Burst!BurstInv, Burst!BurstTyped
<1>2. Burst!BurstTyped'
  <2>1. burstLane' \in [SearchLane -> 0 .. LastQuery + 1]
    BY BurstSettingHolds DEF Burst!End, Burst!BurstInv, Burst!BurstTyped, Burst!BurstSetting
  <2> QED
    BY <1>1, <2>1 DEF Burst!End, Burst!To, Burst!BurstInv, Burst!BurstTyped
<1>3. Burst!LanesCarry'
  <2>1. LastQuery + 1 # 0
    BY BurstSettingHolds DEF Burst!BurstSetting
  <2>2. ASSUME NEW r \in Burst!Query, burstStatus'[r] \in {"queued", "running", "pausing"}
     PROVE \E l \in SearchLane : burstLane'[l] = r
    <3>1. r # q /\ burstStatus[r] \in {"queued", "running", "pausing"}
      BY <1>1, <2>2
    <3>2. PICK l \in SearchLane : burstLane[l] = r
      BY <3>1 DEF Burst!BurstInv, Burst!LanesCarry
    <3> QED
      BY <1>1, <3>1, <3>2
  <2>3. \A l \in SearchLane : burstLane'[l] = LastQuery + 1 => burstLane[l] = LastQuery + 1
    BY <1>1, <2>1
  <2> QED
    BY <1>1, <2>2, <2>3 DEF Burst!BurstInv, Burst!LanesCarry
<1>4. ASSUME NEW r \in Burst!Query PROVE Burst!Tells(r)'
  <2>1. CASE r = q
    BY <1>1, <2>1 DEF Burst!Tells
  <2>2. CASE r # q
    BY <1>1, <2>2 DEF Burst!Tells, Burst!BurstInv
  <2> QED
    BY <2>1, <2>2
<1>5. \A r, s \in Burst!Query : r # s => burstResults'[r] \cap burstResults'[s] = {}
  BY <1>1 DEF Burst!BurstInv, Burst!Tells
<1>6. burstTimer' \subseteq {r \in Burst!Query : burstStatus'[r] = "running"} \ burstAfar'
  BY <1>1 DEF Burst!BurstInv
<1>7. burstVerdict' = "none"
  <2>1. PICK l \in SearchLane : burstLane[l] = q
    BY DEF Burst!BurstInv, Burst!LanesCarry
  <2>2. q # LastQuery + 1
    BY BurstSettingHolds DEF Burst!Query, Burst!BurstSetting
  <2> QED
    BY <2>1, <2>2 DEF Burst!BurstInv
<1> QED
  BY <1>2, <1>3, <1>4, <1>5, <1>6, <1>7 DEF Burst!BurstInv

(* A query moves on in its lane.                                           *)
LEMMA Moving ==
  ASSUME Burst!BurstInv, NEW q \in Burst!Query, NEW s \in {"queued", "running", "pausing"},
         burstStatus[q] \in {"queued", "running", "pausing"}, Burst!To(q, s),
         burstTimer' \subseteq burstTimer \cup {q}, s # "running" => q \notin burstTimer',
         burstAfar' \ {q} = burstAfar \ {q}, burstAfar' \subseteq Burst!Query,
         q \in burstAfar' => q \notin burstTimer',
         UNCHANGED <<burstNext, burstLane, burstResults, burstFailure, burstSeen, burstFate,
                     burstAborted, burstVerdict>>
  PROVE  Burst!BurstInv'
<1>1. \A r \in Burst!Query : burstStatus'[r] = IF r = q THEN s ELSE burstStatus[r]
  BY DEF Burst!To, Burst!BurstInv, Burst!BurstTyped
<1>2. Burst!BurstTyped'
  BY DEF Burst!To, Burst!BurstInv, Burst!BurstTyped
<1>3. Burst!LanesCarry'
  BY <1>1 DEF Burst!BurstInv, Burst!LanesCarry
<1>4. \A r \in Burst!Query : Burst!Tells(r)'
  BY <1>1 DEF Burst!BurstInv, Burst!Tells
<1>5. burstTimer' \subseteq {r \in Burst!Query : burstStatus'[r] = "running"} \ burstAfar'
  BY <1>1 DEF Burst!BurstInv
<1> QED
  BY <1>2, <1>3, <1>4, <1>5 DEF Burst!BurstInv

LEMMA BurstStep == Burst!BurstInv /\ [Burst!Next]_Burst!burstVars => Burst!BurstInv'
<1> SUFFICES ASSUME Burst!BurstInv, [Burst!Next]_Burst!burstVars PROVE Burst!BurstInv'
  OBVIOUS
<1>0. LastQuery \in Nat /\ Burst!Query = 1 .. LastQuery
  BY BurstSettingHolds DEF Burst!BurstSetting, Burst!Query
<1>1. ASSUME NEW l \in SearchLane, Burst!Pull(l) PROVE Burst!BurstInv'
  <2>0. /\ burstLane[l] = 0 /\ burstNext \in Nat \ {0} /\ burstNext' = burstNext + 1
              /\ burstVerdict = "none"
        /\ UNCHANGED <<burstRetried, burstTimer, burstResults, burstFailure, burstSeen, burstFate,
                       burstAborted, burstVerdict>>
    <3>1. burstLane[l] = 0 /\ burstLane[l] # LastQuery + 1
      BY <1>0, <1>1 DEF Burst!Pull
    <3> QED
      BY <1>1, <3>1 DEF Burst!Pull, Burst!BurstInv, Burst!BurstTyped
  <2>1. CASE burstNext > LastQuery \/ burstAborted
    <3>1. burstLane' = [burstLane EXCEPT ![l] = LastQuery + 1] /\ UNCHANGED <<burstStatus, burstAfar>>
      BY <1>1, <2>1 DEF Burst!Pull
    <3>2. Burst!BurstTyped'
      BY <1>0, <2>0, <3>1 DEF Burst!BurstInv, Burst!BurstTyped
    <3>3. \A k \in SearchLane : burstLane'[k] = IF k = l THEN LastQuery + 1 ELSE burstLane[k]
      BY <3>1 DEF Burst!BurstInv, Burst!BurstTyped
    <3>4. Burst!LanesCarry'
      <4>0. \A q \in Burst!Query : q >= burstNext' => burstStatus'[q] = "none"
        BY <1>0, <2>0, <3>1 DEF Burst!BurstInv, Burst!LanesCarry
      <4>1. burstAborted' \/ \A q \in Burst!Query : q < burstNext' => burstStatus'[q] # "none"
        BY <1>0, <2>0, <2>1, <3>1 DEF Burst!BurstInv, Burst!LanesCarry
      <4>2. ASSUME NEW q \in Burst!Query,
                   burstStatus'[q] \in {"queued", "running", "pausing"}
                      PROVE \E k \in SearchLane : burstLane'[k] = q
        <5>1. PICK k \in SearchLane : burstLane[k] = q
          BY <3>1, <4>2 DEF Burst!BurstInv, Burst!LanesCarry
        <5>2. k # l
          BY <1>0, <2>0, <5>1
        <5> QED
          BY <3>3, <5>1, <5>2
      <4>4. \A k \in SearchLane : burstLane'[k] = LastQuery + 1 => burstNext' > LastQuery
               \/ burstAborted'
        BY <1>0, <2>0, <2>1, <3>3 DEF Burst!BurstInv, Burst!LanesCarry
      <4> QED
        BY <4>0, <4>1, <4>2, <4>4 DEF Burst!LanesCarry
    <3>5. \A q \in Burst!Query : Burst!Tells(q)'
      BY <2>0, <3>1 DEF Burst!BurstInv, Burst!Tells
    <3> QED
      BY <2>0, <3>1, <3>2, <3>4, <3>5 DEF Burst!BurstInv
  <2>2. CASE ~(burstNext > LastQuery \/ burstAborted)
    <3>1. burstLane' = [burstLane EXCEPT ![l] = burstNext] /\ Burst!To(burstNext, "queued")
             /\ burstNext \in Burst!Query
             /\ burstAfar' \in {burstAfar \ {burstNext}, burstAfar \cup {burstNext}}
      BY <1>0, <1>1, <2>0, <2>2 DEF Burst!Pull, Burst!Sent
    <3>2. Burst!BurstTyped'
      BY <1>0, <2>0, <3>1 DEF Burst!BurstInv, Burst!BurstTyped, Burst!To
    <3>3. /\ \A k \in SearchLane : burstLane'[k] = IF k = l THEN burstNext ELSE burstLane[k]
          /\ \A q \in Burst!Query : burstStatus'[q] = IF q = burstNext THEN "queued"
                ELSE burstStatus[q]
      BY <3>1 DEF Burst!BurstInv, Burst!BurstTyped, Burst!To
    <3>4. burstNext \notin {0, LastQuery + 1}
      BY <1>0, <3>1
    <3>5. burstStatus[burstNext] \in {"none", "queued", "running", "pausing", "done"}
             /\ burstNext \in Burst!Query
      BY <3>1 DEF Burst!BurstInv, Burst!BurstTyped
    <3>6. Burst!LanesCarry'
      <4>0. \A q \in Burst!Query : q >= burstNext' => burstStatus'[q] = "none"
        BY <1>0, <2>0, <3>3 DEF Burst!BurstInv, Burst!LanesCarry
      <4>1. burstAborted' \/ \A q \in Burst!Query : q < burstNext' => burstStatus'[q] # "none"
        BY <1>0, <2>0, <2>2, <3>3 DEF Burst!BurstInv, Burst!LanesCarry
      <4>2. ASSUME NEW q \in Burst!Query,
                   burstStatus'[q] \in {"queued", "running", "pausing"}
                      PROVE \E k \in SearchLane : burstLane'[k] = q
        <5>1. CASE q = burstNext
          BY <3>3, <5>1
        <5>2. CASE q # burstNext
          <6>1. PICK k \in SearchLane : burstLane[k] = q
            BY <3>3, <4>2, <5>2 DEF Burst!BurstInv, Burst!LanesCarry
          <6>2. k # l
            BY <1>0, <2>0, <6>1
          <6> QED
            BY <3>3, <6>1, <6>2
        <5> QED
          BY <5>1, <5>2
      <4>3. \A k \in SearchLane : burstLane'[k] = LastQuery + 1 => burstNext' > LastQuery
               \/ burstAborted'
        BY <1>0, <2>0, <3>3, <3>4 DEF Burst!BurstInv, Burst!LanesCarry
      <4> QED
        BY <4>0, <4>1, <4>2, <4>3 DEF Burst!LanesCarry
    <3>7. burstStatus[burstNext] = "none"
      BY <1>0, <2>0, <3>1 DEF Burst!BurstInv, Burst!LanesCarry
    <3>8. \A q \in Burst!Query : Burst!Tells(q)'
      BY <2>0, <3>1, <3>3, <3>7 DEF Burst!BurstInv, Burst!Tells
    <3>9. burstTimer' \subseteq {q \in Burst!Query : burstStatus'[q] = "running"} \ burstAfar'
      BY <2>0, <3>1, <3>3, <3>7 DEF Burst!BurstInv
    <3> QED
      BY <2>0, <3>2, <3>6, <3>8, <3>9 DEF Burst!BurstInv
  <2> QED
    BY <2>1, <2>2
<1>2. ASSUME NEW q \in Burst!Query,
             Burst!Dispatched(q) \/ Burst!Retry(q) \/ Burst!Requeue(q) \/ Burst!Fails(q)
                \/ Burst!Overruns(q) \/ Burst!Outwaited(q) \/ Burst!Cancelled(q)
      PROVE Burst!BurstInv'
  <2>1. CASE Burst!Dispatched(q)
    BY <2>1, Moving DEF Burst!Dispatched, Burst!BurstInv, Burst!BurstTyped
  <2>2. CASE Burst!Retry(q)
    BY <2>2, Moving DEF Burst!Retry, Burst!BurstInv, Burst!BurstTyped
  <2>3. CASE Burst!Requeue(q)
    <3>1. CASE burstAborted
      BY <2>3, <3>1, Ending DEF Burst!Requeue
    <3>2. CASE ~burstAborted
      <4>1. Burst!To(q, "queued") /\ burstStatus[q] = "pausing"
            /\ burstAfar' \in {burstAfar \ {q}, burstAfar \cup {q}}
            /\ UNCHANGED <<burstNext, burstLane, burstTimer, burstResults, burstFailure, burstSeen,
                           burstFate, burstAborted, burstVerdict>>
        BY <2>3, <3>2 DEF Burst!Requeue, Burst!Sent
      <4> QED
        BY <4>1, Moving DEF Burst!BurstInv, Burst!BurstTyped
    <3> QED
      BY <3>1, <3>2
  <2>4. CASE Burst!Fails(q)
    BY <2>4, Ending DEF Burst!Fails
  <2>5. CASE Burst!Overruns(q)
    BY <2>5, Ending DEF Burst!Overruns
  <2>6. CASE Burst!Cancelled(q)
    BY <2>6, Ending DEF Burst!Cancelled
  <2>7. CASE Burst!Outwaited(q)
    BY <2>7, Ending DEF Burst!Outwaited
  <2> QED
    BY <1>2, <2>1, <2>2, <2>3, <2>4, <2>5, <2>6, <2>7
<1>3. ASSUME NEW q \in Burst!Query, NEW found \in SUBSET Hit, Burst!Answered(q, found)
   PROVE Burst!BurstInv'
  BY <1>3, Ending DEF Burst!Answered
<1>4. ASSUME Burst!Abort PROVE Burst!BurstInv'
  <2>1. Burst!LanesCarry'
    BY <1>4 DEF Burst!Abort, Burst!BurstInv, Burst!LanesCarry
  <2>2. Burst!BurstTyped'
    BY <1>4 DEF Burst!Abort, Burst!BurstInv, Burst!BurstTyped
  <2>3. \A q \in Burst!Query : Burst!Tells(q)'
    BY <1>4 DEF Burst!Abort, Burst!BurstInv, Burst!Tells
  <2> QED
    BY <1>4, <2>1, <2>2, <2>3 DEF Burst!Abort, Burst!BurstInv
<1>5. ASSUME Burst!Finish PROVE Burst!BurstInv'
  <2>1. Burst!LanesCarry' /\ Burst!BurstTyped' /\ \A q \in Burst!Query : Burst!Tells(q)'
    BY <1>5
       DEF Burst!Finish, Burst!BurstInv, Burst!LanesCarry, Burst!BurstTyped, Burst!Tells
  <2> QED
    BY <1>5, <2>1 DEF Burst!Finish, Burst!BurstInv
<1>6. ASSUME UNCHANGED Burst!burstVars PROVE Burst!BurstInv'
  <2>1. Burst!LanesCarry' /\ Burst!BurstTyped' /\ \A q \in Burst!Query : Burst!Tells(q)'
    BY <1>6
       DEF Burst!burstVars, Burst!BurstInv, Burst!LanesCarry, Burst!BurstTyped, Burst!Tells
  <2> QED
    BY <1>6, <2>1 DEF Burst!burstVars, Burst!BurstInv
<1> QED
  BY <1>1, <1>2, <1>3, <1>4, <1>5, <1>6 DEF Burst!Next

(* Any number of queries over any lanes: a page is counted for one query   *)
(* only, a timeout is charged to the query that overran or, if it was made *)
(* through another process, was not answered in time, a query with nothing *)
(* to show and no failure found nothing, and no query of a burst that was  *)
(* not cancelled goes without its turn.                                    *)
THEOREM ToldPerQuery == Burst!Spec => []Burst!FailuresAreAttributed
<1>1. Burst!Init => Burst!BurstInv
  BY BurstFirst
<1>2. Burst!BurstInv /\ [Burst!Next]_Burst!burstVars => Burst!BurstInv'
  BY BurstStep
<1>3. Burst!BurstInv => Burst!FailuresAreAttributed
  BY Attributed
<1> QED
  BY <1>1, <1>2, <1>3, PTL DEF Burst!Spec

-----------------------------------------------------------------------------
(* The command line.                                                       *)
VARIABLES
  cliCommand, cliPc, cliClock, cliLatch, cliFirstAt, cliCancelable,
  cliAborted, cliTeardown, cliEscape, cliDecided, cliSaid, cliWarned,
  cliStatus
Cli == INSTANCE CliRun WITH
  command <- cliCommand, pc <- cliPc, clock <- cliClock, latch <- cliLatch,
  firstAt <- cliFirstAt, cancelable <- cliCancelable, aborted <- cliAborted,
  teardown <- cliTeardown, escape <- cliEscape, decided <- cliDecided,
  said <- cliSaid, warned <- cliWarned, status <- cliStatus,
  Signals <- Signals, Grace <- Grace, MaxClock <- MaxClock, None <- None
cliVars == <<cliCommand, cliPc, cliClock, cliLatch, cliFirstAt, cliCancelable,
  cliAborted, cliTeardown, cliEscape, cliDecided, cliSaid, cliWarned,
  cliStatus>>

(* What the proofs need of its parameters.                                 *)
ASSUME CliSettingHolds == Cli!CliSetting

LEMMA CliFirst == Cli!Init => Cli!CliInv
<1> SUFFICES ASSUME Cli!Init PROVE Cli!CliInv
  OBVIOUS
<1>1. Cli!CliTyped
  BY DEF Cli!Init, Cli!CliTyped, Cli!Speechless
<1>2. Cli!ToldWhatHappened
  BY DEF Cli!Init, Cli!ToldWhatHappened
<1>3. cliSaid = None /\ cliStatus = None /\ cliPc = "parsing" /\ ~cliWarned /\ cliEscape = "none"
  BY DEF Cli!Init
<1> QED
  BY <1>1, <1>2, <1>3 DEF Cli!CliInv

(* Whoever speaks has not spoken, and says what is so.                     *)
LEMMA Speaks ==
  ASSUME Cli!CliInv, cliSaid = None, NEW ok \in BOOLEAN, NEW retryable \in BOOLEAN,
         NEW cancelled \in BOOLEAN, NEW code \in Cli!Code,
         Cli!Say(ok, cancelled, retryable, code), cliDecided' = code,
         UNCHANGED <<cliLatch, cliFirstAt, cliClock, cliEscape, cliStatus>>,
         cliPc \in Cli!Speechless, cliPc' \in {"leaving", "flushing"},
         cliLatch # None /\ code \notin {"usage", "config"} => cancelled /\ code = cliLatch,
         cliLatch # None /\ cancelled => code = cliLatch,
         ~(cancelled /\ retryable), code = "ok" => ok /\ cliLatch = None
  PROVE  Cli!CliInv'
<1>1. /\ cliSaid' = [ok |-> ok, cancelled |-> cancelled, retryable |-> retryable, code |-> code]
      /\ cliWarned' = (cliLatch # None) /\ cliSaid' \in Cli!Answer /\ cliSaid' # None
      /\ cliSaid'.ok = ok /\ cliSaid'.cancelled = cancelled /\ cliSaid'.retryable = retryable
            /\ cliSaid'.code = code
  BY CliSettingHolds DEF Cli!Say, Cli!Answer, Cli!CliSetting
<1>2. cliStatus' = None
  BY DEF Cli!CliInv, Cli!Speechless
<1>3. Cli!CliTyped'
  BY <1>1 DEF Cli!CliInv, Cli!CliTyped
<1>4. Cli!ToldWhatHappened'
  BY <1>1, <1>2 DEF Cli!ToldWhatHappened
<1> QED
  BY <1>1, <1>2, <1>3, <1>4 DEF Cli!CliInv, Cli!Speechless

(* A step that says nothing and ends nothing.                              *)
LEMMA Quietly ==
  ASSUME Cli!CliInv,
         UNCHANGED <<cliSaid, cliWarned, cliDecided, cliLatch, cliFirstAt, cliEscape,
                     cliStatus>>, cliClock' = cliClock
                        \/ (cliClock' = cliClock + 1 /\ cliPc # "exited"),
         cliPc' \in Cli!Speechless \cup {"leaving", "flushing"} \/ cliPc' = cliPc,
            cliPc = "exited" => cliPc' = cliPc,
         cliPc' \in Cli!Speechless => cliSaid = None, cliPc' = "flushing" => cliSaid # None
  PROVE  Cli!CliInv'
<1>1. Cli!CliTyped'
  BY DEF Cli!CliInv, Cli!CliTyped
<1>2. cliStatus # None => cliClock' = cliClock
  BY DEF Cli!CliInv
<1>3. Cli!ToldWhatHappened'
  BY <1>2 DEF Cli!ToldWhatHappened, Cli!CliInv
<1> QED
  BY <1>1, <1>3 DEF Cli!CliInv, Cli!Speechless

(* The process ends.                                                       *)
LEMMA Exits ==
  ASSUME Cli!CliInv,
         UNCHANGED <<cliSaid, cliWarned, cliDecided, cliLatch, cliFirstAt, cliEscape,
                     cliClock>>, cliPc' = "exited",
         cliStatus' \in Cli!Code,
         cliSaid # None /\ cliLatch = None => cliStatus' = cliSaid.code,
         cliSaid # None /\ cliWarned /\ cliSaid.cancelled => cliStatus' = cliSaid.code
            \/ cliClock - cliFirstAt > Grace,
         cliStatus' = "ok" => cliSaid # None /\ cliSaid.ok /\ ~cliWarned
  PROVE  Cli!CliInv'
<1>1. Cli!CliTyped'
  BY DEF Cli!CliInv, Cli!CliTyped
<1>2. Cli!ToldWhatHappened'
  BY DEF Cli!ToldWhatHappened, Cli!CliInv
<1> QED
  BY <1>1, <1>2 DEF Cli!CliInv, Cli!Speechless

(* The first signal.                                                       *)
LEMMA Latches ==
  ASSUME Cli!CliInv,
         UNCHANGED <<cliSaid, cliWarned, cliDecided, cliClock, cliPc, cliStatus>>,
         cliPc # "exited", cliLatch = None,
         cliLatch' \in Signals, cliFirstAt' = cliClock,
            cliEscape' \in {"shutting", "flushing"}
  PROVE  Cli!CliInv'
<1>1. Cli!CliTyped' /\ cliStatus = None /\ cliLatch' # None /\ ~cliWarned
  BY CliSettingHolds DEF Cli!CliInv, Cli!CliTyped, Cli!CliSetting
<1>2. Cli!ToldWhatHappened'
  BY <1>1 DEF Cli!ToldWhatHappened, Cli!CliInv
<1> QED
  BY <1>1, <1>2 DEF Cli!CliInv, Cli!Speechless

LEMMA CliStep == Cli!CliInv /\ [Cli!Next]_Cli!cliVars => Cli!CliInv'
<1> SUFFICES ASSUME Cli!CliInv, [Cli!Next]_Cli!cliVars PROVE Cli!CliInv'
  OBVIOUS
<1>0. cliLatch \in Signals \cup {None} /\ (cliLatch # None => cliLatch \in Cli!Code
         /\ cliLatch \notin {"ok", "usage", "config"})
  BY CliSettingHolds DEF Cli!CliInv, Cli!CliTyped, Cli!CliSetting, Cli!Code
<1>1. ASSUME NEW code \in {"usage", "config"}, Cli!Refuse(code),
             cliPc \in {"parsing", "preflight"},
             UNCHANGED <<cliLatch, cliFirstAt, cliClock, cliEscape, cliStatus>>
      PROVE  Cli!CliInv'
  <2>1. cliSaid = None /\ code \in Cli!Code
    BY <1>1 DEF Cli!CliInv, Cli!Speechless, Cli!Code
  <2> QED
    BY <1>1, <2>1, Speaks DEF Cli!Refuse, Cli!Speechless
<1>2. CASE Cli!Parse
  BY <1>1, <1>2, Quietly DEF Cli!Parse, Cli!outVars, Cli!sigVars, Cli!CliInv, Cli!Speechless
<1>3. CASE Cli!Preflight
  BY <1>1, <1>3, Quietly
     DEF Cli!Preflight, Cli!Unready, Cli!outVars, Cli!sigVars, Cli!CliInv, Cli!Speechless
<1>4. CASE Cli!Started
  BY <1>4, Quietly DEF Cli!Started, Cli!outVars, Cli!sigVars, Cli!CliInv, Cli!Speechless
<1>5. CASE Cli!Returns
  <2>1. UNCHANGED Cli!outVars /\ UNCHANGED Cli!sigVars /\ UNCHANGED <<cliClock, cliStatus>>
           /\ cliPc = "working" /\ cliPc' \in {"exporting", "leaving"}
    BY <1>5 DEF Cli!Returns, Cli!Leave
  <2> QED
    BY <2>1, Quietly DEF Cli!outVars, Cli!sigVars, Cli!CliInv, Cli!Speechless
<1>6. ASSUME NEW e \in Cli!Errors, Cli!Fails(e) PROVE Cli!CliInv'
  <2> DEFINE cancelled == cliLatch # None \/ "aborted" \in e
             limit == ~cancelled /\ "limit" \in e
             config == ~cancelled /\ "credential" \in e /\ e \cap {"stopped", "capacity"} = {}
             code == CASE cancelled -> Cli!CancelCode
                [] ~cancelled /\ "capacity" \in e -> "tempfail"
                [] config /\ ~limit /\ "capacity" \notin e -> "config"
                [] OTHER -> "software"
             retryable == ~cancelled /\ ("capacity" \in e \/ limit)
  <2>1. cliPc \in {"starting", "working"} /\ Cli!Say(FALSE, cancelled, retryable, code)
           /\ cliDecided' = code /\ cliPc' = "leaving"
           /\ UNCHANGED <<cliLatch, cliFirstAt, cliClock, cliEscape, cliStatus>>
    BY <1>6 DEF Cli!Fails, Cli!ReportError, Cli!Leave, Cli!sigVars
  <2>2. /\ cancelled => code = Cli!CancelCode
        /\ ~cancelled => code \in {"tempfail", "config", "software"}
    OBVIOUS
  <2>3. cliLatch # None => cancelled
    OBVIOUS
  <2>4. ~(cancelled /\ retryable) /\ cancelled \in BOOLEAN /\ retryable \in BOOLEAN
    OBVIOUS
  <2> HIDE DEF cancelled, code, retryable
  <2>5. code \in Cli!Code /\ code # "ok" /\ (cliLatch # None => cancelled /\ code = cliLatch)
    BY <1>0, <2>2, <2>3 DEF Cli!CancelCode, Cli!Code
  <2>6. cliSaid = None /\ cliPc \in Cli!Speechless
    BY <2>1 DEF Cli!CliInv, Cli!Speechless
  <2> QED
    BY <2>1, <2>4, <2>5, <2>6, Speaks
<1>7. ASSUME Cli!Show, cliPc \in {"exporting", "printing"},
             cliPc' \in {"leaving", "flushing"},
                UNCHANGED <<cliLatch, cliFirstAt, cliClock, cliEscape, cliStatus>>
                   PROVE Cli!CliInv'
  <2> DEFINE code == IF cliLatch # None THEN cliLatch ELSE "ok"
  <2>1. Cli!Say(TRUE, cliLatch # None, FALSE, code) /\ cliDecided' = code
    BY <1>7 DEF Cli!Show
  <2>2. code \in Cli!Code /\ (cliLatch # None => code = cliLatch)
           /\ (code = "ok" => cliLatch = None)
    BY <1>0 DEF Cli!Code
  <2>3. cliSaid = None /\ cliPc \in Cli!Speechless
    BY <1>7 DEF Cli!CliInv, Cli!Speechless
  <2> HIDE DEF code
  <2> QED
    BY <1>7, <2>1, <2>2, <2>3, Speaks
<1>8. CASE Cli!Export
  BY <1>7, <1>8 DEF Cli!Export, Cli!Leave, Cli!sigVars
<1>9. CASE Cli!Left
  BY <1>9, Quietly DEF Cli!Left, Cli!outVars, Cli!sigVars, Cli!CliInv, Cli!Speechless
<1>10. CASE Cli!PrintSearch
  BY <1>7, <1>10 DEF Cli!PrintSearch, Cli!sigVars
<1>11. CASE Cli!Exit
  <2>1. /\ cliSaid # None /\ cliStatus' = cliSaid.code /\ cliPc' = "exited"
              /\ cliSaid.code \in Cli!Code
        /\ UNCHANGED <<cliSaid, cliWarned, cliDecided, cliLatch, cliFirstAt, cliEscape, cliClock>>
        /\ cliSaid.code = "ok" => cliSaid.ok /\ ~cliWarned
    BY <1>11, CliSettingHolds
       DEF Cli!Exit, Cli!outVars, Cli!sigVars, Cli!CliInv, Cli!CliTyped, Cli!Answer
  <2> QED
    BY <2>1, Exits
<1>12. ASSUME NEW s \in Signals, Cli!Signal(s) PROVE Cli!CliInv'
  <2>1. /\ cliPc # "exited" /\ UNCHANGED <<cliClock, cliSaid, cliWarned, cliDecided>>
        /\ \/ cliLatch = None /\ cliLatch' = s /\ cliFirstAt' = cliClock
                 /\ cliEscape' \in {"shutting", "flushing"} /\ UNCHANGED <<cliPc, cliStatus>>
           \/ UNCHANGED <<cliLatch, cliFirstAt, cliEscape, cliPc, cliStatus>>
           \/ cliLatch # None /\ ~(cliClock - cliFirstAt <= Grace) /\ cliPc' = "exited"
                 /\ cliStatus' = s /\ UNCHANGED <<cliLatch, cliFirstAt, cliEscape>>
    BY <1>12 DEF Cli!Signal, Cli!outVars, Cli!sigVars
  <2>2. CASE cliLatch = None /\ cliLatch' = s /\ cliFirstAt' = cliClock
                /\ cliEscape' \in {"shutting", "flushing"} /\ UNCHANGED <<cliPc, cliStatus>>
    BY <2>1, <2>2, Latches
  <2>3. CASE UNCHANGED <<cliLatch, cliFirstAt, cliEscape, cliPc, cliStatus>>
    BY <2>1, <2>3, Quietly DEF Cli!CliInv
  <2>4. CASE cliLatch # None /\ ~(cliClock - cliFirstAt <= Grace) /\ cliPc' = "exited"
                /\ cliStatus' = s /\ UNCHANGED <<cliLatch, cliFirstAt, cliEscape>>
    <3>1. cliClock - cliFirstAt > Grace /\ s \in Cli!Code /\ s # "ok"
      BY <2>4, CliSettingHolds DEF Cli!CliInv, Cli!CliTyped, Cli!CliSetting, Cli!Code
    <3> QED
      BY <2>1, <2>4, <3>1, Exits
  <2> QED
    BY <2>1, <2>2, <2>3, <2>4
<1>13. CASE Cli!TornDown
  BY <1>13, Quietly DEF Cli!TornDown, Cli!outVars, Cli!sigVars, Cli!CliInv
<1>14. CASE Cli!Escape
  <2>1. cliEscape' = "flushing" /\ cliEscape = "shutting" /\ UNCHANGED <<cliPc, cliClock, cliLatch,
                                                                         cliFirstAt, cliSaid, cliWarned, cliDecided, cliStatus>>
    BY <1>14 DEF Cli!Escape, Cli!outVars
  <2>2. Cli!CliTyped' /\ cliLatch # None
    BY <2>1 DEF Cli!CliInv, Cli!CliTyped
  <2>3. Cli!ToldWhatHappened'
    BY <2>1 DEF Cli!CliInv, Cli!ToldWhatHappened
  <2> QED
    BY <2>1, <2>2, <2>3 DEF Cli!CliInv
<1>15. CASE Cli!EscapeExits
  <2>1. /\ cliPc' = "exited" /\ cliStatus' = cliLatch
              /\ UNCHANGED <<cliSaid, cliWarned, cliDecided, cliLatch, cliFirstAt, cliEscape,
                             cliClock>>
        /\ cliLatch # None
    BY <1>15 DEF Cli!EscapeExits, Cli!outVars, Cli!sigVars, Cli!CliInv
  <2>2. cliSaid # None /\ cliWarned /\ cliSaid.cancelled => cliSaid.code = cliLatch
    BY DEF Cli!CliInv
  <2> QED
    BY <1>0, <2>1, <2>2, Exits
<1>16. CASE Cli!Tick
  BY <1>16, Quietly DEF Cli!Tick, Cli!outVars, Cli!sigVars, Cli!CliInv
<1>17. CASE UNCHANGED Cli!cliVars
  BY <1>17, Quietly DEF Cli!cliVars, Cli!CliInv
<1> QED
  BY <1>2, <1>3, <1>4, <1>5, <1>6, <1>8, <1>9, <1>10, <1>11, <1>12, <1>13, <1>14, <1>15,
     <1>16, <1>17 DEF Cli!Next

(* Whatever the command does and whenever signals come: the status the     *)
(* caller reads is what happened. Zero means a printed report and no       *)
(* signal, and an answer printed after a signal carries the first signal's *)
(* code and asks for no retry.                                             *)
THEOREM ToldAlways == Cli!Spec => []Cli!ToldWhatHappened
<1>1. Cli!CliInv => Cli!ToldWhatHappened
  BY DEF Cli!CliInv
<1> QED
  BY <1>1, CliFirst, CliStep, PTL DEF Cli!Spec

-----------------------------------------------------------------------------
(* The worker thread.                                                      *)
VARIABLES
  workerPhase, workerHome, workerProc, workerBrowser, workerPending,
  workerPendingFor, workerResets, workerLife
Worker == INSTANCE ThreadWorker WITH
  phase <- workerPhase, home <- workerHome, proc <- workerProc,
  browser <- workerBrowser, pending <- workerPending,
  pendingFor <- workerPendingFor, resets <- workerResets, life <- workerLife,
  Task <- WorkerTask, MaxBrowsers <- MaxBrowsers
workerVars == <<workerPhase, workerHome, workerProc, workerBrowser, workerPending,
  workerPendingFor, workerResets, workerLife>>

(* Only the last task resets, and with it gone there is nobody to disturb. *)
LEMMA WorkerResetsOfTheLast ==
  ASSUME NEW t, NEW asked, Worker!Active = {t}, Worker!DoReset(t, asked),
         asked = workerBrowser, Worker!SiblingsUndisturbed
  PROVE  Worker!SiblingsUndisturbed'
<1>1. {s \in Worker!Active \ {t} : workerHome[s] = workerBrowser} = {}
  OBVIOUS
<1>2. workerResets' \in {workerResets, workerResets \cup {[closed |-> workerBrowser, asked |-> asked, under |-> {}]}}
  BY <1>1 DEF Worker!DoReset
<1> QED
  BY <1>2 DEF Worker!SiblingsUndisturbed

LEMMA WorkerUndisturbedStep == Worker!SiblingsUndisturbed /\ [Worker!Next]_Worker!workerVars
   => Worker!SiblingsUndisturbed'
<1> SUFFICES ASSUME Worker!SiblingsUndisturbed, [Worker!Next]_Worker!workerVars
   PROVE Worker!SiblingsUndisturbed'
  OBVIOUS
<1>1. ASSUME NEW t \in WorkerTask, NEW crashed \in BOOLEAN, Worker!Finish(t, crashed)
   PROVE Worker!SiblingsUndisturbed'
  <2>1. CASE UNCHANGED workerResets
    BY <2>1 DEF Worker!SiblingsUndisturbed
  <2>2. CASE Worker!Active = {t} /\ (Worker!DoReset(t, workerBrowser)
                \/ (workerBrowser = workerPendingFor /\ Worker!DoReset(t, workerPendingFor)))
    BY <2>2, WorkerResetsOfTheLast
  <2> QED
    BY <1>1, <2>1, <2>2 DEF Worker!Finish, Worker!NoReset
<1>2. CASE UNCHANGED workerResets
  BY <1>2 DEF Worker!SiblingsUndisturbed
<1> QED
  BY <1>1, <1>2
     DEF Worker!Next, Worker!StartTask, Worker!ContextOpens, Worker!WorkEnds, Worker!Fails,
         Worker!Launched, Worker!LateLaunch, Worker!BrowserCrashes,
     Worker!LaunchFails, Worker!Stop, Worker!Exit, Worker!workerVars

(* In a worker with any tasks and any browsers, a reset finds no task at   *)
(* work on what it closes, which is the browser it was asked for.          *)
THEOREM SiblingsKeepTheirBrowser == Worker!Spec => []Worker!SiblingsUndisturbed
<1>1. Worker!Init => Worker!SiblingsUndisturbed
  BY DEF Worker!Init, Worker!SiblingsUndisturbed
<1> QED
  BY <1>1, WorkerUndisturbedStep, PTL DEF Worker!Spec

-----------------------------------------------------------------------------
(* The page mutex.                                                         *)
VARIABLES
  pageAt, pageAttempt, pageLate, pageOpen, pageLine, pageHolder, pagePending,
  pageWedged, pageUnmarked
Page == INSTANCE PageMutex WITH
  at <- pageAt, attempt <- pageAttempt, late <- pageLate, open <- pageOpen,
  line <- pageLine, holder <- pageHolder, pending <- pagePending,
  wedged <- pageWedged, unmarked <- pageUnmarked, Task <- PageTask,
  Probe <- HealthCheck
pageVars == <<pageAt, pageAttempt, pageLate, pageOpen, pageLine, pageHolder, pagePending,
  pageWedged, pageUnmarked>>

LEMMA PageCalls ==
  /\ \A c \in PageTask \X Nat : c[1] \in PageTask /\ c[2] \in Nat /\ c = <<c[1], c[2]>>
        /\ c # Page!NoCall
  /\ Page!PageTyped => \A t \in PageTask : Page!Call(t) \in PageTask \X Nat /\ Page!Call(t)[1] = t
        /\ Page!Call(t)[2] = pageAttempt[t]
BY DEF Page!PageTyped, Page!Call, Page!NoCall

(* A task that asks again, or gives up, is no longer at work.              *)
LEMMA PageFailedTyped ==
  ASSUME Page!PageTyped, NEW t \in PageTask, NEW timedOut, NEW rest,
         Page!Failed(t, timedOut, rest)
  PROVE  /\ pageAt' \in [PageTask -> {"new", "queued", "paging", "working", "done"}]
               /\ pageAttempt' \in [PageTask -> Nat]
         /\ \A s \in PageTask : s # t => pageAt'[s] = pageAt[s] /\ pageAttempt'[s] = pageAttempt[s]
<1>1. pageAt \in [PageTask -> {"new", "queued", "paging", "working", "done"}]
         /\ pageAttempt \in [PageTask -> Nat]
  BY DEF Page!PageTyped
<1>2. CASE /\ pageAt' = [pageAt EXCEPT ![t] = "queued"]
                 /\ pageAttempt' = [pageAttempt EXCEPT ![t] = @ + 1]
  <2>1. pageAttempt[t] + 1 \in Nat
    BY <1>1
  <2> QED
    BY <1>1, <1>2, <2>1
<1>3. CASE pageAt' = [pageAt EXCEPT ![t] = "done"] /\ UNCHANGED pageAttempt
  BY <1>1, <1>3
<1> QED
  BY <1>2, <1>3 DEF Page!Failed, Page!Go

(* What is open stays at work, when only a task that is not moves.         *)
LEMMA PageOpenStill ==
  ASSUME Page!PageInv, NEW t \in PageTask, pageOpen' \subseteq pageOpen,
         \A c \in pageOpen' : c[1] # t,
         \A s \in PageTask : s # t => pageAt'[s] = pageAt[s] /\ pageAttempt'[s] = pageAttempt[s]
  PROVE  \A c \in pageOpen' : pageAt'[c[1]] = "working" /\ <<c[1], pageAttempt'[c[1]]>> = c
BY DEF Page!PageInv, Page!PageTyped, Page!Call

LEMMA PageNotOpen ==
  ASSUME Page!PageInv, NEW t \in PageTask
  PROVE  /\ pageAt[t] # "working" => \A c \in pageOpen : c[1] # t
         /\ \A c \in pageOpen \ {Page!Call(t)} : c[1] # t
BY PageCalls DEF Page!PageInv, Page!Call

LEMMA PageStep == Page!PageInv /\ [Page!Next]_Page!mutexVars => Page!PageInv'
<1> SUFFICES ASSUME Page!PageInv, [Page!Next]_Page!mutexVars PROVE Page!PageInv'
  OBVIOUS
<1>0. Page!PageTyped /\ Page!OnePageAtATime
  BY DEF Page!PageInv
(* Steps that ask the browser for nothing: the pages that are open are     *)
(* what matters.                                                           *)
<1>1. ASSUME NEW t \in PageTask,
             UNCHANGED <<pageHolder, pagePending, pageWedged, pageUnmarked>>,
             pageOpen' \subseteq pageOpen,
             \A c \in pageOpen' : c[1] # t,
             \A s \in PageTask : s # t => pageAt'[s] = pageAt[s]
                /\ pageAttempt'[s] = pageAttempt[s],
             pageAt' \in [PageTask -> {"new", "queued", "paging", "working", "done"}],
                pageAttempt' \in [PageTask -> Nat]
      PROVE  Page!PageInv'
  <2>1. \A c \in pageOpen' : pageAt'[c[1]] = "working" /\ <<c[1], pageAttempt'[c[1]]>> = c
    BY <1>1, PageOpenStill
  <2> QED
    BY <1>1, <2>1 DEF Page!PageInv, Page!PageTyped, Page!OnePageAtATime, Page!Call
<1>2. ASSUME NEW t \in PageTask, Page!Ask(t) PROVE Page!PageInv'
  <2>1. /\ pageAt[t] # "working" /\ pageAt' = [pageAt EXCEPT ![t] = "queued"]
              /\ pageAttempt' = [pageAttempt EXCEPT ![t] = 1]
        /\ UNCHANGED <<pageOpen, pageHolder, pagePending, pageWedged, pageUnmarked>>
    BY <1>2 DEF Page!Ask, Page!Go
  <2>2. /\ pageAt' \in [PageTask -> {"new", "queued", "paging", "working", "done"}]
              /\ pageAttempt' \in [PageTask -> Nat]
        /\ \A s \in PageTask : s # t => pageAt'[s] = pageAt[s] /\ pageAttempt'[s] = pageAttempt[s]
    BY <2>1 DEF Page!PageInv, Page!PageTyped
  <2> QED
    BY <1>1, <2>1, <2>2, PageNotOpen
<1>3. ASSUME NEW t \in PageTask, Page!Create(t) PROVE Page!PageInv'
  <2>1. /\ pageAt[t] # "working" /\ pageHolder = Page!NoCall /\ t \notin pageWedged
              /\ pageAt' = [pageAt EXCEPT ![t] = "paging"]
        /\ pageHolder' = Page!Call(t) /\ pagePending' = pagePending \cup {Page!Call(t)}
        /\ UNCHANGED <<pageAttempt, pageOpen, pageWedged, pageUnmarked>>
    BY <1>3 DEF Page!Create, Page!First, Page!Go
  <2>2. Page!PageTyped'
    BY <1>0, <2>1, PageCalls DEF Page!PageTyped
  <2>3. \A c \in pageOpen' : pageAt'[c[1]] = "working" /\ <<c[1], pageAttempt'[c[1]]>> = c
    <3>1. \A s \in PageTask : s # t => pageAt'[s] = pageAt[s] /\ pageAttempt'[s] = pageAttempt[s]
      BY <1>0, <2>1 DEF Page!PageTyped
    <3> QED
      BY <2>1, <3>1, PageNotOpen, PageOpenStill
  <2>4. \A c \in pagePending : c[1] = t => t \in pageUnmarked
    BY <1>0, <2>1, PageCalls DEF Page!PageInv, Page!PageTyped
  <2>5. \A c, d \in pagePending' : c[1] = d[1] /\ c # d => c[1] \in pageUnmarked
    <3>1. \A c \in pagePending : c[1] = Page!Call(t)[1] => c[1] \in pageUnmarked
      BY <1>0, <2>4, PageCalls
    <3> QED
      BY <1>0, <2>1, <3>1, PageCalls DEF Page!OnePageAtATime
  <2>6. \A c \in pagePending' : c = pageHolder' \/ c[1] \in pageWedged \cup pageUnmarked
    BY <1>0, <2>1, PageCalls DEF Page!PageInv, Page!PageTyped
  <2> QED
    BY <2>1, <2>2, <2>3, <2>5, <2>6 DEF Page!PageInv, Page!OnePageAtATime, Page!Call
<1>4. ASSUME NEW t \in PageTask, Page!Refuse(t) \/ Page!GiveUp(t) PROVE Page!PageInv'
  <2>1. PICK timedOut \in BOOLEAN, rest \in {pageLine, Tail(pageLine)} : Page!Failed(t, timedOut, rest)
    BY <1>4 DEF Page!Refuse, Page!GiveUp
  <2>2. pageAt[t] # "working" /\ UNCHANGED <<pageOpen, pageHolder, pagePending, pageWedged,
                                             pageUnmarked>>
    BY <1>4 DEF Page!Refuse, Page!GiveUp
  <2> QED
    BY <1>0, <1>1, <2>1, <2>2, PageFailedTyped, PageNotOpen
<1>5. ASSUME NEW t \in PageTask, Page!WorkEnds(t) PROVE Page!PageInv'
  <2>1. /\ pageAt' = [pageAt EXCEPT ![t] = "done"] /\ pageOpen' = pageOpen \ {Page!Call(t)}
        /\ UNCHANGED <<pageAttempt, pageHolder, pagePending, pageWedged, pageUnmarked>>
    BY <1>5 DEF Page!WorkEnds, Page!Go
  <2>2. /\ pageAt' \in [PageTask -> {"new", "queued", "paging", "working", "done"}]
              /\ pageAttempt' \in [PageTask -> Nat]
        /\ \A s \in PageTask : s # t => pageAt'[s] = pageAt[s] /\ pageAttempt'[s] = pageAttempt[s]
    BY <2>1 DEF Page!PageInv, Page!PageTyped
  <2> QED
    BY <1>1, <2>1, <2>2, PageNotOpen
<1>6. ASSUME NEW t \in PageTask, NEW f \in BOOLEAN, Page!WorkFails(t, f) PROVE Page!PageInv'
  <2>1. Page!Failed(t, f, pageLine) /\ pageOpen' = pageOpen \ {Page!Call(t)}
           /\ UNCHANGED <<pageHolder, pagePending, pageWedged, pageUnmarked>>
    BY <1>6 DEF Page!WorkFails
  <2> QED
    BY <1>0, <1>1, <2>1, PageFailedTyped, PageNotOpen
<1>7. ASSUME NEW t \in PageTask, Page!Deadline(t) PROVE Page!PageInv'
  <2>1. CASE pageOpen' = pageOpen \ {Page!Call(t)} /\ Page!Failed(t, FALSE, pageLine)
    <3>1. UNCHANGED <<pageHolder, pagePending, pageWedged, pageUnmarked>>
      BY <1>7 DEF Page!Deadline
    <3> QED
      BY <1>0, <1>1, <2>1, <3>1, PageFailedTyped, PageNotOpen
  <2>2. CASE UNCHANGED <<pageAt, pageAttempt, pageLine, pageOpen>>
    BY <1>7, <2>2
       DEF Page!Deadline, Page!PageInv, Page!PageTyped, Page!OnePageAtATime, Page!Call
  <2> QED
    BY <1>7, <2>1, <2>2 DEF Page!Deadline
<1>8. ASSUME NEW c \in pagePending, NEW created \in BOOLEAN, Page!Settle(c, created)
   PROVE Page!PageInv'
  <2> DEFINE t == c[1]
  <2>1. /\ t \in PageTask /\ c \in PageTask \X Nat /\ pagePending' = pagePending \ {c}
              /\ pageWedged' = pageWedged \ {t}
        /\ pageHolder' = (IF pageHolder = c THEN Page!NoCall ELSE pageHolder)
              /\ UNCHANGED pageUnmarked
    BY <1>0, <1>8 DEF Page!Settle, Page!PageTyped
  (* Any other call of the context hangs under a mark that was lost.       *)
  <2>2. \A d \in pagePending' : d = pageHolder' \/ d[1] \in pageWedged' \cup pageUnmarked
    <3>1. \A d \in pagePending' : d[1] = t => d[1] \in pageUnmarked
      BY <1>0, <2>1 DEF Page!OnePageAtATime
    <3> QED
      BY <2>1, <3>1 DEF Page!PageInv
  <2>3. pageHolder' \in pagePending' \cup {Page!NoCall} /\ \A d, e \in pagePending' : d[1] = e[1]
           /\ d # e => d[1] \in pageUnmarked
    BY <1>0, <2>1 DEF Page!PageInv, Page!OnePageAtATime
  <2>4. /\ pageAt' \in [PageTask -> {"new", "queued", "paging", "working", "done"}]
              /\ pageAttempt' \in [PageTask -> Nat]
        /\ pageOpen' \subseteq PageTask \X Nat
        /\ \A d \in pageOpen' : pageAt'[d[1]] = "working" /\ <<d[1], pageAttempt'[d[1]]>> = d
    <3>1. CASE Page!Waits(c) /\ Page!Go(t, "working") /\ pageOpen' = pageOpen \cup {c}
                  /\ UNCHANGED pageAttempt
      <4>1. \A d \in pageOpen : d[1] # t
        BY <2>1, <3>1, PageNotOpen DEF Page!Waits
      <4>2. pageAt' = [pageAt EXCEPT ![t] = "working"] /\ <<t, pageAttempt[t]>> = c
        BY <3>1 DEF Page!Go, Page!Waits, Page!Call
      <4>3. \A d \in pageOpen : pageAt'[d[1]] = "working" /\ <<d[1], pageAttempt'[d[1]]>> = d
        BY <1>0, <2>1, <3>1, <4>1, <4>2 DEF Page!PageInv, Page!PageTyped, Page!Call
      <4>4. pageAt'[c[1]] = "working"
        BY <1>0, <2>1, <4>2 DEF Page!PageTyped
      <4> QED
        BY <1>0, <2>1, <3>1, <4>2, <4>3, <4>4 DEF Page!PageTyped
    <3>2. CASE Page!Waits(c) /\ UNCHANGED pageOpen /\ Page!Failed(t, FALSE, pageLine)
      <4>1. pageAt[t] # "working"
        BY <3>2 DEF Page!Waits
      <4> QED
        BY <1>0, <2>1, <3>2, <4>1, PageNotOpen, PageFailedTyped, PageOpenStill
           DEF Page!PageTyped
    <3>3. CASE UNCHANGED <<pageOpen, pageAt, pageAttempt, pageLine>>
      BY <1>0, <3>3 DEF Page!PageInv, Page!PageTyped, Page!Call
    <3> QED
      BY <1>8, <3>1, <3>2, <3>3 DEF Page!Settle
  <2>5. Page!PageTyped'
    BY <1>0, <2>1, <2>4 DEF Page!PageTyped
  <2> QED
    BY <2>1, <2>2, <2>3, <2>4, <2>5 DEF Page!PageInv, Page!OnePageAtATime, Page!Call
<1>9. CASE Page!HardRelease
  <2>1. /\ pageHolder \in pagePending /\ pageHolder[1] \in PageTask
              /\ pageWedged' = {pageHolder[1]} /\ pageHolder' = Page!NoCall
        /\ pageUnmarked' = pageUnmarked \cup (pageWedged \ {pageHolder[1]})
              /\ UNCHANGED <<pageAt, pageAttempt, pageOpen, pagePending>>
    BY <1>0, <1>9 DEF Page!HardRelease, Page!PageInv, Page!PageTyped
  <2>2. pageWedged \cup pageUnmarked \subseteq pageWedged' \cup pageUnmarked'
           /\ pageUnmarked \subseteq pageUnmarked'
    BY <2>1
  <2>3. Page!PageTyped'
    BY <1>0, <2>1 DEF Page!PageTyped
  <2>4. \A c \in pagePending : c[1] \in pageWedged' \cup pageUnmarked'
    BY <2>1, <2>2 DEF Page!PageInv
  <2> QED
    BY <1>0, <2>1, <2>2, <2>3, <2>4 DEF Page!PageInv, Page!OnePageAtATime, Page!Call
<1>10. CASE UNCHANGED Page!mutexVars
  BY <1>10 DEF Page!mutexVars, Page!PageInv, Page!PageTyped, Page!OnePageAtATime, Page!Call
<1> QED
  BY <1>2, <1>3, <1>4, <1>5, <1>6, <1>7, <1>8, <1>9, <1>10 DEF Page!Next

(* Whatever tasks a worker runs, and whichever of them are health checks:  *)
(* a context is asked for one page at a time but for a mark that was       *)
(* taken, and an ended task has left no page open.                         *)
THEOREM PagesOneByOne == Page!Spec => []Page!OnePageAtATime
<1>1. Page!Init => Page!PageInv
  BY DEF Page!Init, Page!PageInv, Page!PageTyped, Page!OnePageAtATime
<1>2. Page!PageInv => Page!OnePageAtATime
  BY DEF Page!PageInv
<1> QED
  BY <1>1, <1>2, PageStep, PTL DEF Page!Spec

-----------------------------------------------------------------------------
(* The calls of browser tasks.                                             *)
VARIABLES
  callsLeader, callsRegistered, callsHandle, callsCooling, callsVerdict,
  callsPhase, callsTarget, callsSpent, callsAborted, callsWork, callsLost,
  callsMisled, callsWasted
Calls == INSTANCE BrowserCalls WITH
  leader <- callsLeader, registered <- callsRegistered,
  handle <- callsHandle, cooling <- callsCooling, verdict <- callsVerdict,
  phase <- callsPhase, target <- callsTarget, spent <- callsSpent,
  aborted <- callsAborted, work <- callsWork, lost <- callsLost,
  misled <- callsMisled, wasted <- callsWasted, Call <- BrowserTask,
  MaxLeaders <- MaxLeaders, Handovers <- Handovers, Retries <- Retries
callsVars == <<callsLeader, callsRegistered, callsHandle, callsCooling, callsVerdict,
  callsPhase, callsTarget, callsSpent, callsAborted, callsWork, callsLost,
  callsMisled, callsWasted>>

(* What the proofs need of its parameters.                                 *)
ASSUME CallsSettingHolds == Calls!CallsSetting

LEMMA CallsWorkNamed ==
  ASSUME Calls!CallsTyped
  PROVE  /\ \A w \in callsWork : w[1] \in BrowserTask /\ w[2] \in Calls!Leader /\ w = <<w[1], w[2]>>
         /\ \A l \in 1 .. MaxLeaders : l \in Calls!Leader /\ l \in 0 .. MaxLeaders /\ l # 0
         /\ \A l \in 0 .. MaxLeaders : l # 0 => l \in Calls!Leader
BY CallsSettingHolds DEF Calls!CallsTyped, Calls!Leader, Calls!CallsSetting

(* One call moves; it aims at nobody any more, or at a dead leader; what   *)
(* it had at work is gone, or lost to it.                                  *)
LEMMA CallsCallMoves ==
  ASSUME Calls!CallsInv, NEW c \in BrowserTask,
         NEW p \in {"ready", "handover", "restart", "pause", "done"}, NEW t,
         callsPhase' = [callsPhase EXCEPT ![c] = p],
            callsTarget' = [callsTarget EXCEPT ![c] = t],
         t = 0 \/ (t = callsTarget[c] /\ callsLeader[t] = "dead"
            /\ p \in {"restart", "pause", "ready"}),
         t # 0 /\ p \in {"pause", "ready"} => callsHandle' # t \/ c \in callsMisled',
         UNCHANGED <<callsLeader, callsRegistered, callsWasted>>,
         callsHandle' \in {0, callsHandle}, callsMisled \subseteq callsMisled',
         callsWork' \subseteq callsWork, callsLost \subseteq callsLost',
         <<c, callsTarget[c]>> \in callsWork' => <<c, callsTarget[c]>> \in callsLost'
  PROVE  Calls!CallsInv'
<1>1. Calls!CallsTyped'
  <2>1. t \in 0 .. MaxLeaders
    BY CallsSettingHolds DEF Calls!CallsInv, Calls!CallsTyped, Calls!CallsSetting
  <2>2. callsHandle' \in 0 .. MaxLeaders
    BY CallsSettingHolds DEF Calls!CallsInv, Calls!CallsTyped, Calls!CallsSetting
  <2> QED
    BY <2>1, <2>2 DEF Calls!CallsInv, Calls!CallsTyped
<1>2. /\ callsPhase'[c] = p /\ callsTarget'[c] = t
      /\ \A d \in BrowserTask : d # c => callsPhase'[d] = callsPhase[d]
            /\ callsTarget'[d] = callsTarget[d]
  BY DEF Calls!CallsInv, Calls!CallsTyped
<1>3. \A d \in BrowserTask : Calls!Recovers(d)' /\ (callsPhase'[d] = "sent" => callsTarget'[d] # 0)
  <2> SUFFICES ASSUME NEW d \in BrowserTask
     PROVE Calls!Recovers(d)' /\ (callsPhase'[d] = "sent" => callsTarget'[d] # 0)
    OBVIOUS
  <2>1. CASE d = c
    BY <1>2, <2>1 DEF Calls!Recovers
  <2>2. CASE d # c
    BY <1>2, <2>2 DEF Calls!Recovers, Calls!CallsInv
  <2> QED
    BY <2>1, <2>2
<1>4. \A w \in callsWork' : w \in callsLost'
         \/ (callsPhase'[w[1]] = "sent" /\ callsTarget'[w[1]] = w[2])
  <2> SUFFICES ASSUME NEW w \in callsWork', w \notin callsLost'
     PROVE callsPhase'[w[1]] = "sent" /\ callsTarget'[w[1]] = w[2]
    OBVIOUS
  <2>1. /\ w \in callsWork /\ w \notin callsLost /\ w[1] \in BrowserTask /\ w = <<w[1], w[2]>>
        /\ callsPhase[w[1]] = "sent" /\ callsTarget[w[1]] = w[2]
    BY CallsWorkNamed DEF Calls!CallsInv, Calls!RetriesReachSomebody
  <2> QED
    BY <1>2, <2>1
<1>5. callsWasted' \subseteq callsMisled'
         /\ \A w \in callsWork' : callsLeader'[w[2]] \in {"serving", "draining"}
  BY DEF Calls!CallsInv, Calls!RetriesReachSomebody
<1> QED
  BY <1>1, <1>3, <1>4, <1>5 DEF Calls!CallsInv, Calls!RetriesReachSomebody

LEMMA CallsEnding ==
  ASSUME Calls!CallsInv, NEW c \in BrowserTask, Calls!End(c),
         UNCHANGED <<callsLeader, callsRegistered, callsWasted>>,
         callsHandle' \in {0, callsHandle}, callsMisled \subseteq callsMisled',
         callsWork' \subseteq callsWork, callsLost \subseteq callsLost',
         <<c, callsTarget[c]>> \in callsWork' => <<c, callsTarget[c]>> \in callsLost'
  PROVE  Calls!CallsInv'
BY CallsCallMoves DEF Calls!End, Calls!Go

LEMMA CallsQuiet ==
  ASSUME Calls!CallsInv, NEW c \in BrowserTask, callsPhase[c] # "sent"
  PROVE  <<c, callsTarget[c]>> \in callsWork => <<c, callsTarget[c]>> \in callsLost
BY CallsWorkNamed DEF Calls!CallsInv, Calls!RetriesReachSomebody

LEMMA CallsSending == ASSUME Calls!CallsInv, NEW c \in BrowserTask, Calls!Send(c)
   PROVE Calls!CallsInv'
<1>1. /\ callsPhase[c] = "ready" /\ callsPhase' = [callsPhase EXCEPT ![c] = "sent"]
            /\ UNCHANGED <<callsLost, callsMisled>>
  BY DEF Calls!Send, Calls!Go
<1>2. PICK l \in IF callsHandle # 0 THEN {callsHandle} ELSE IF Calls!Alive(callsRegistered)
         THEN {callsRegistered} ELSE Calls!Elected :
        /\ callsHandle' = l /\ callsTarget' = [callsTarget EXCEPT ![c] = l]
        /\ IF callsHandle = 0 /\ ~Calls!Alive(callsRegistered)
           THEN callsLeader' = [callsLeader EXCEPT ![l] = "serving"] /\ callsRegistered' = l
              ELSE UNCHANGED Calls!world
        /\ callsWasted' = IF l = callsTarget[c] THEN callsWasted \cup {c} ELSE callsWasted
        /\ callsWork' = IF callsLeader'[l] = "serving" THEN callsWork \cup {<<c, l>>} ELSE callsWork
  BY DEF Calls!Send
<1>3. l \in Calls!Leader /\ l # 0 /\ (l = callsHandle \/ callsLeader[l] # "dead")
  BY CallsSettingHolds
     DEF Calls!CallsInv, Calls!CallsTyped, Calls!Alive, Calls!Elected, Calls!Leader,
         Calls!CallsSetting
<1>4. /\ callsLeader' \in [Calls!Leader -> {"none", "serving", "draining", "dead"}]
      /\ \A k \in Calls!Leader : /\ callsLeader[k] = "dead" => callsLeader'[k] = "dead"
                                 /\ callsLeader[k] \in {"serving", "draining"}
                                       => callsLeader'[k] \in {"serving", "draining"}
  <2>1. CASE callsLeader' = [callsLeader EXCEPT ![l] = "serving"] /\ callsLeader[l] # "dead"
    BY <1>3, <2>1 DEF Calls!CallsInv, Calls!CallsTyped
  <2>2. CASE callsLeader' = callsLeader
    BY <2>2 DEF Calls!CallsInv, Calls!CallsTyped
  <2> QED
    BY <1>2, <1>3, <2>1, <2>2 DEF Calls!world
<1>5. Calls!CallsTyped'
  <2>1. l \in 0 .. MaxLeaders /\ callsRegistered' \in 0 .. MaxLeaders
    BY <1>2, <1>3, CallsSettingHolds
       DEF Calls!CallsInv, Calls!CallsTyped, Calls!Leader, Calls!CallsSetting, Calls!world
  <2>2. callsWork' \subseteq BrowserTask \X Calls!Leader
    BY <1>2, <1>3 DEF Calls!CallsInv, Calls!CallsTyped
  <2> QED
    BY <1>1, <1>2, <1>4, <2>1, <2>2 DEF Calls!CallsInv, Calls!CallsTyped
<1>6. /\ callsPhase'[c] = "sent" /\ callsTarget'[c] = l
      /\ \A d \in BrowserTask : d # c => callsPhase'[d] = callsPhase[d]
            /\ callsTarget'[d] = callsTarget[d]
  BY <1>1, <1>2 DEF Calls!CallsInv, Calls!CallsTyped
<1>7. \A d \in BrowserTask : Calls!Recovers(d)' /\ (callsPhase'[d] = "sent" => callsTarget'[d] # 0)
  <2> SUFFICES ASSUME NEW d \in BrowserTask
     PROVE Calls!Recovers(d)' /\ (callsPhase'[d] = "sent" => callsTarget'[d] # 0)
    OBVIOUS
  <2>1. CASE d = c
    BY <1>3, <1>6, <2>1 DEF Calls!Recovers
  <2>2. CASE d # c
    <3>1. Calls!Recovers(d) /\ callsPhase'[d] = callsPhase[d] /\ callsTarget'[d] = callsTarget[d]
             /\ callsTarget[d] \in 0 .. MaxLeaders
      BY <1>6, <2>2 DEF Calls!CallsInv, Calls!CallsTyped
    <3>2. callsTarget[d] # 0 => callsTarget[d] \in Calls!Leader
      BY <3>1, CallsWorkNamed DEF Calls!CallsInv
    <3> QED
      BY <1>1, <1>2, <1>3, <1>4, <3>1, <3>2 DEF Calls!Recovers, Calls!CallsInv
  <2> QED
    BY <2>1, <2>2
<1>8. callsWasted' \subseteq callsMisled'
  <2>1. l = callsTarget[c] => c \in callsMisled
    BY <1>1, <1>2, <1>3 DEF Calls!CallsInv, Calls!Recovers
  <2> QED
    BY <1>1, <1>2, <2>1 DEF Calls!CallsInv, Calls!RetriesReachSomebody
<1>9. \A w \in callsWork' : callsLeader'[w[2]] \in {"serving", "draining"}
  <2>1. \A w \in callsWork : callsLeader'[w[2]] \in {"serving", "draining"}
    BY <1>4, CallsWorkNamed DEF Calls!CallsInv
  <2> QED
    BY <1>2, <2>1
<1>10. \A w \in callsWork' : w \in callsLost'
          \/ (callsPhase'[w[1]] = "sent" /\ callsTarget'[w[1]] = w[2])
  <2>1. \A w \in callsWork : w[1] \in BrowserTask /\ (w[1] = c => w \in callsLost)
    BY <1>1, CallsWorkNamed DEF Calls!CallsInv, Calls!RetriesReachSomebody
  <2>2. \A w \in callsWork : w \in callsLost
           \/ (callsPhase'[w[1]] = "sent" /\ callsTarget'[w[1]] = w[2])
    BY <1>6, <2>1 DEF Calls!CallsInv, Calls!RetriesReachSomebody
  <2> QED
    BY <1>1, <1>2, <1>6, <2>2
<1> QED
  BY <1>5, <1>7, <1>8, <1>9, <1>10 DEF Calls!CallsInv, Calls!RetriesReachSomebody

LEMMA CallsFailing ==
  ASSUME Calls!CallsInv, NEW c \in BrowserTask,
         NEW why \in {"shutdown", "draining", "socket", "corpse"}, Calls!Fails(c, why)
  PROVE  Calls!CallsInv'
<1>1. /\ callsPhase[c] = "sent" /\ UNCHANGED <<callsLeader, callsRegistered, callsHandle,
                                               callsMisled, callsWasted>>
      /\ callsWork' \subseteq callsWork /\ callsLost \subseteq callsLost'
  BY DEF Calls!Fails, Calls!world, Calls!cached, Calls!history
<1>2. <<c, callsTarget[c]>> \in callsWork' => <<c, callsTarget[c]>> \in callsLost'
  <2>1. why = "corpse" => <<c, callsTarget[c]>> \notin callsWork
    BY CallsWorkNamed DEF Calls!Fails, Calls!CallsInv
  <2> QED
    BY <2>1 DEF Calls!Fails
<1>3. why = "corpse" => callsLeader[callsTarget[c]] = "dead"
  BY DEF Calls!Fails
<1>4. CASE Calls!End(c)
  BY <1>1, <1>2, <1>4, CallsEnding
<1>5. ASSUME NEW p \in {"handover", "pause", "restart"}, Calls!Go(c, p),
             why = "corpse" => p = "restart",
             callsTarget' = [callsTarget EXCEPT ![c] = IF why = "corpse" THEN @ ELSE 0]
      PROVE  Calls!CallsInv'
  <2>1. CASE why = "corpse"
    <3>1. callsTarget' = [callsTarget EXCEPT ![c] = callsTarget[c]]
      BY <1>5, <2>1
    <3> QED
      BY <1>1, <1>2, <1>3, <1>5, <2>1, <3>1, CallsCallMoves DEF Calls!Go
  <2>2. CASE why # "corpse"
    <3>1. callsTarget' = [callsTarget EXCEPT ![c] = 0]
      BY <1>5, <2>2
    <3> QED
      BY <1>1, <1>2, <1>5, <2>2, <3>1, CallsCallMoves DEF Calls!Go
  <2> QED
    BY <2>1, <2>2
<1>6. \/ Calls!End(c)
      \/ \E p \in {"handover", "pause", "restart"} :
           /\ Calls!Go(c, p) /\ (why = "corpse" => p = "restart")
           /\ callsTarget' = [callsTarget EXCEPT ![c] = IF why = "corpse" THEN @ ELSE 0]
  <2>1. Calls!Caught(c, why)
    BY DEF Calls!Fails
  <2> QED
    BY <2>1 DEF Calls!Caught
<1> QED
  BY <1>4, <1>5, <1>6

LEMMA CallsRestarting == ASSUME Calls!CallsInv, NEW c \in BrowserTask, Calls!Restart(c)
   PROVE Calls!CallsInv'
<1>1. /\ callsPhase[c] = "restart" /\ callsPhase' = [callsPhase EXCEPT ![c] = "pause"]
      /\ UNCHANGED <<callsLeader, callsRegistered, callsTarget, callsWork, callsLost, callsWasted>>
      /\ callsHandle' \in {0, callsHandle} /\ callsMisled \subseteq callsMisled'
  BY DEF Calls!Restart, Calls!Go, Calls!world
<1>2. callsTarget' = [callsTarget EXCEPT ![c] = callsTarget[c]]
         /\ callsTarget[c] \in 0 .. MaxLeaders
  BY <1>1 DEF Calls!CallsInv, Calls!CallsTyped
<1>3. callsTarget[c] # 0 => callsLeader[callsTarget[c]] = "dead"
  BY <1>1 DEF Calls!CallsInv, Calls!Recovers
<1>4. callsTarget[c] # 0 => callsHandle' # callsTarget[c] \/ c \in callsMisled'
  <2>1. callsHandle' = 0 \/ Calls!Probe = "alive" \/ c \in callsMisled'
    BY DEF Calls!Restart, Calls!Probe
  <2>2. Calls!Probe = "alive" => callsHandle \in {0, callsRegistered}
           /\ callsLeader[callsRegistered] = "serving"
    BY DEF Calls!Probe, Calls!Alive
  <2> QED
    BY <1>1, <1>3, <2>1, <2>2
<1> QED
  BY <1>1, <1>2, <1>3, <1>4, CallsCallMoves, CallsQuiet

LEMMA CallsStep == Calls!CallsInv /\ [Calls!Next]_Calls!taskVars => Calls!CallsInv'
<1> SUFFICES ASSUME Calls!CallsInv, [Calls!Next]_Calls!taskVars PROVE Calls!CallsInv'
  OBVIOUS
<1>0. Calls!CallsTyped
  BY DEF Calls!CallsInv
<1>1. ASSUME NEW c \in BrowserTask, Calls!Send(c) PROVE Calls!CallsInv'
  BY <1>1, CallsSending
<1>2. ASSUME NEW c \in BrowserTask, Calls!Answered(c) PROVE Calls!CallsInv'
  BY <1>2, CallsEnding DEF Calls!Answered, Calls!world, Calls!cached, Calls!history
<1>3. ASSUME NEW c \in BrowserTask, Calls!TimesOut(c) PROVE Calls!CallsInv'
  BY <1>3, CallsEnding DEF Calls!TimesOut, Calls!world, Calls!cached, Calls!history
<1>4. ASSUME NEW c \in BrowserTask, Calls!Abort(c) PROVE Calls!CallsInv'
  <2>1. CASE Calls!End(c)
    <3>1. <<c, callsTarget[c]>> \in callsWork' => <<c, callsTarget[c]>> \in callsLost'
      BY <1>4, CallsQuiet DEF Calls!Abort
    <3> QED
      BY <1>4, <2>1, <3>1, CallsEnding
         DEF Calls!Abort, Calls!world, Calls!cached, Calls!history
  <2>2. CASE UNCHANGED <<callsPhase, callsTarget, callsLost>>
    BY <1>4, <2>2
       DEF Calls!Abort, Calls!world, Calls!cached, Calls!history, Calls!CallsInv,
           Calls!CallsTyped, Calls!Recovers, Calls!RetriesReachSomebody
  <2> QED
    BY <1>4, <2>1, <2>2 DEF Calls!Abort
<1>5. ASSUME NEW c \in BrowserTask, Calls!Handover(c) PROVE Calls!CallsInv'
  <2>1. /\ callsPhase[c] = "handover" /\ callsTarget' = [callsTarget EXCEPT ![c] = callsTarget[c]]
              /\ callsTarget[c] = 0
        /\ callsPhase' = [callsPhase EXCEPT ![c] = "pause"] /\ callsHandle' = 0
        /\ UNCHANGED <<callsLeader, callsRegistered, callsWork, callsLost, callsMisled,
                       callsWasted>>
    BY <1>5
       DEF Calls!Handover, Calls!Go, Calls!world, Calls!history, Calls!CallsInv,
           Calls!CallsTyped, Calls!Recovers
  <2> QED
    BY <2>1, CallsCallMoves, CallsQuiet
<1>6. ASSUME NEW c \in BrowserTask, Calls!Restart(c) PROVE Calls!CallsInv'
  BY <1>6, CallsRestarting
<1>13. ASSUME NEW c \in BrowserTask, Calls!RestartFails(c) PROVE Calls!CallsInv'
  BY <1>13, CallsEnding, CallsQuiet DEF Calls!RestartFails, Calls!world, Calls!history
<1>7. ASSUME NEW c \in BrowserTask, Calls!Resume(c) PROVE Calls!CallsInv'
  <2>1. callsPhase[c] = "pause" /\ UNCHANGED <<callsLeader, callsRegistered, callsHandle,
                                               callsWork, callsLost, callsMisled, callsWasted>>
    BY <1>7 DEF Calls!Resume, Calls!world, Calls!cached, Calls!history
  <2>2. CASE Calls!End(c)
    BY <2>1, <2>2, CallsEnding, CallsQuiet
  <2>3. CASE Calls!Go(c, "ready") /\ UNCHANGED callsTarget
    <3>1. callsTarget' = [callsTarget EXCEPT ![c] = callsTarget[c]]
             /\ callsPhase' = [callsPhase EXCEPT ![c] = "ready"]
      BY <1>0, <2>3 DEF Calls!Go, Calls!CallsTyped
    <3>2. callsTarget[c] # 0 => callsLeader[callsTarget[c]] = "dead"
             /\ (callsHandle # callsTarget[c] \/ c \in callsMisled)
      BY <2>1 DEF Calls!CallsInv, Calls!Recovers
    <3> QED
      BY <2>1, <3>1, <3>2, CallsCallMoves, CallsQuiet
  <2> QED
    BY <1>7, <2>2, <2>3 DEF Calls!Resume
<1>8. ASSUME NEW why \in {"shutdown", "draining", "socket", "corpse"},
             NEW c \in BrowserTask, Calls!Fails(c, why) PROVE Calls!CallsInv'
  BY <1>8, CallsFailing
<1>9. CASE Calls!CooldownEnds \/ Calls!VerdictExpires
  BY <1>9
     DEF Calls!CooldownEnds, Calls!VerdictExpires, Calls!world, Calls!history,
         Calls!CallsInv, Calls!CallsTyped, Calls!Recovers, Calls!RetriesReachSomebody
<1>10. ASSUME NEW l \in Calls!Leader, Calls!Drain(l) \/ Calls!Die(l) PROVE Calls!CallsInv'
  <2>1. /\ UNCHANGED <<callsHandle, callsPhase, callsTarget, callsMisled,
                       callsWasted>> /\ callsWork' \subseteq callsWork
        /\ \A w \in callsWork' : w \in callsLost => w \in callsLost'
    BY <1>10 DEF Calls!Drain, Calls!Die, Calls!cached, Calls!history
  <2>2. /\ callsLeader' \in [Calls!Leader -> {"none", "serving", "draining", "dead"}]
        /\ \A k \in Calls!Leader : callsLeader[k] = "dead" => callsLeader'[k] = "dead"
        /\ callsRegistered' \in 0 .. MaxLeaders
        /\ \A w \in callsWork' : callsLeader'[w[2]] \in {"serving", "draining"}
    <3>1. CASE Calls!Drain(l)
      <4>1. callsLeader' = [callsLeader EXCEPT ![l] = "draining"] /\ callsLeader[l] = "serving"
               /\ callsWork' = callsWork
            /\ callsRegistered' \in {0, callsRegistered}
        BY <3>1 DEF Calls!Drain
      <4> QED
        BY <1>0, <4>1, CallsWorkNamed, CallsSettingHolds
           DEF Calls!CallsInv, Calls!CallsTyped, Calls!CallsSetting
    <3>2. CASE Calls!Die(l)
      <4>1. callsLeader' = [callsLeader EXCEPT ![l] = "dead"]
               /\ (\A w \in callsWork' : w \in callsWork /\ w[2] # l)
            /\ callsRegistered' = callsRegistered
        BY <3>2 DEF Calls!Die
      <4> QED
        BY <1>0, <4>1, CallsWorkNamed DEF Calls!CallsInv, Calls!CallsTyped
    <3> QED
      BY <1>10, <3>1, <3>2
  <2>3. \A c \in BrowserTask : Calls!Recovers(c)'
    <3> SUFFICES ASSUME NEW c \in BrowserTask PROVE Calls!Recovers(c)'
      OBVIOUS
    <3>1. Calls!Recovers(c) /\ callsTarget[c] \in 0 .. MaxLeaders
             /\ (callsTarget[c] # 0 => callsTarget[c] \in Calls!Leader)
      BY <1>0, CallsWorkNamed DEF Calls!CallsInv, Calls!CallsTyped
    <3> QED
      BY <2>1, <2>2, <3>1 DEF Calls!Recovers
  <2>4. Calls!CallsTyped'
    BY <1>0, <2>1, <2>2 DEF Calls!CallsTyped
  <2> QED
    BY <2>1, <2>2, <2>3, <2>4 DEF Calls!CallsInv, Calls!RetriesReachSomebody
<1>11. ASSUME NEW w \in callsLost, Calls!Cancel(w[1], w[2]) PROVE Calls!CallsInv'
  BY <1>11
     DEF Calls!Cancel, Calls!world, Calls!cached, Calls!history, Calls!CallsInv,
         Calls!CallsTyped, Calls!Recovers, Calls!RetriesReachSomebody
<1>12. CASE UNCHANGED Calls!taskVars
  BY <1>12
     DEF Calls!taskVars, Calls!CallsInv, Calls!CallsTyped, Calls!Recovers,
         Calls!RetriesReachSomebody
<1> QED
  BY <1>1, <1>2, <1>3, <1>4, <1>5, <1>6, <1>7, <1>8, <1>9, <1>10, <1>11, <1>12, <1>13
     DEF Calls!Next

(* Whatever calls a process makes of its leaders, whoever of these drains  *)
(* or dies, and however large the budgets of retries: a retry goes back to *)
(* a dead leader only where a verdict misled it, and no leader works for a *)
(* caller that is gone once it has seen the socket close.                  *)
THEOREM RetriesReach == Calls!Spec => []Calls!RetriesReachSomebody
<1>1. Calls!Init => Calls!CallsInv
  BY CallsSettingHolds
     DEF Calls!Init, Calls!CallsInv, Calls!CallsTyped, Calls!Recovers,
         Calls!RetriesReachSomebody, Calls!Leader, Calls!CallsSetting
<1>2. Calls!CallsInv => Calls!RetriesReachSomebody
  BY DEF Calls!CallsInv
<1> QED
  BY <1>1, <1>2, CallsStep, PTL DEF Calls!Spec

-----------------------------------------------------------------------------
(* The SDK's lifetimes.                                                    *)
VARIABLES
  sdkInitialized, sdkContainer, sdkRunning, sdkInitPromise,
  sdkShutdownPromise, sdkGeneration, sdkHandlers, sdkShuttingDown, sdkOpener,
  sdkCloser, sdkRunner, sdkAwaits, sdkStarted, sdkSummary, sdkOutcome,
  sdkLifetime, sdkBornIn, sdkLate, sdkSlipped, sdkUnlocked
Sdk == INSTANCE SdkLifecycle WITH
  initialized <- sdkInitialized, container <- sdkContainer,
  running <- sdkRunning, initPromise <- sdkInitPromise,
  shutdownPromise <- sdkShutdownPromise, generation <- sdkGeneration,
  handlers <- sdkHandlers, shuttingDown <- sdkShuttingDown,
  opener <- sdkOpener, closer <- sdkCloser, runner <- sdkRunner,
  awaits <- sdkAwaits, started <- sdkStarted, summary <- sdkSummary,
  outcome <- sdkOutcome, lifetime <- sdkLifetime, bornIn <- sdkBornIn,
  late <- sdkLate, slipped <- sdkSlipped, unlocked <- sdkUnlocked,
  Opener <- Opener, Closer <- Closer, Runner <- Runner, None <- None
sdkVars == <<sdkInitialized, sdkContainer, sdkRunning, sdkInitPromise,
  sdkShutdownPromise, sdkGeneration, sdkHandlers, sdkShuttingDown, sdkOpener,
  sdkCloser, sdkRunner, sdkAwaits, sdkStarted, sdkSummary, sdkOutcome,
  sdkLifetime, sdkBornIn, sdkLate, sdkSlipped, sdkUnlocked>>

(* What the proofs need of its parameters.                                 *)
ASSUME SdkSettingHolds == Sdk!SdkSetting

(* The instance has a Cardinality of its own; it is the same.              *)
LEMMA SdkCounting ==
  \A S : Sdk!Cardinality(S) = Cardinality(S) /\ (Sdk!IsFiniteSet(S) <=> IsFiniteSet(S))
BY DEF Cardinality, IsFiniteSet, Sdk!Cardinality, Sdk!IsFiniteSet

LEMMA SdkOpenerMoved ==
  ASSUME Sdk!SdkTyped, NEW o \in Opener,
         NEW p \in {"idle", "waiting", "joined", "building", "undoing", "rejecting", "done"}, Sdk!OpenerGoes(o, p)
  PROVE  /\ sdkOpener' \in [Opener -> {"idle", "waiting", "joined", "building", "undoing", "rejecting", "done"}]
         /\ sdkOpener'[o] = p /\ \A q \in Opener : q # o => sdkOpener'[q] = sdkOpener[q]
BY DEF Sdk!SdkTyped, Sdk!OpenerGoes

LEMMA SdkCloserMoved ==
  ASSUME Sdk!SdkTyped, NEW c \in Closer,
         NEW p \in {"idle", "waiting", "joined", "tearing", "done"}, Sdk!CloserGoes(c, p)
  PROVE  /\ sdkCloser' \in [Closer -> {"idle", "waiting", "joined", "tearing", "done"}]
         /\ sdkCloser'[c] = p /\ \A d \in Closer : d # c => sdkCloser'[d] = sdkCloser[d]
BY DEF Sdk!SdkTyped, Sdk!CloserGoes

LEMMA SdkAwaitsMoved ==
  ASSUME Sdk!SdkTyped, NEW x \in Opener \cup Closer,
         NEW y \in Opener \cup Closer \cup {None}, Sdk!Await(x, y)
  PROVE  /\ sdkAwaits' \in [Opener \cup Closer -> Opener \cup Closer \cup {None}]
         /\ sdkAwaits'[x] = y /\ \A z \in Opener \cup Closer : z # x => sdkAwaits'[z] = sdkAwaits[z]
BY DEF Sdk!SdkTyped, Sdk!Await

LEMMA SdkApart ==
  ASSUME Sdk!SdkSetting
  PROVE  /\ \A o \in Opener, c \in Closer : o # c
         /\ \A x \in Opener \cup Closer : x # None
BY DEF Sdk!SdkSetting

LEMMA SdkPromptMeans ==
  ASSUME Sdk!SdkTyped, Sdk!Promised, Sdk!Prompt
  PROVE  /\ ~Sdk!Limbo /\ \A o \in Opener : sdkOpener[o] # "rejecting"
         /\ \A c \in Closer : sdkCloser[c] = "waiting" => sdkOpener[sdkAwaits[c]] # "done"
BY SdkSettingHolds
   DEF Sdk!Prompt, Sdk!Promised, Sdk!Limbo, Sdk!Settled, Sdk!OpenerWaits, Sdk!CloserWaits,
       Sdk!SdkSetting

(* An opener enters.                                                       *)
LEMMA SdkEntering ==
  ASSUME Sdk!CallersInv, NEW o \in Opener, sdkOpener[o] \in {"idle", "waiting"},
         sdkShutdownPromise = None, Sdk!Enter(o)
  PROVE  Sdk!CallersInv'
<1>0. Sdk!SdkTyped /\ Sdk!Promised /\ Sdk!LimboIsEmpty /\ Sdk!OneAtWork
  BY DEF Sdk!CallersInv
<1>1. UNCHANGED <<sdkInitialized, sdkShutdownPromise, sdkCloser, sdkSlipped>>
  BY DEF Sdk!Enter, Sdk!sigVars, Sdk!runVars, Sdk!lastVars
<1>2. \/ sdkInitialized /\ Sdk!OpenerGoes(o, "done") /\ Sdk!Await(o, None)
            /\ UNCHANGED <<sdkInitPromise, sdkContainer>>
      \/ ~sdkInitialized /\ sdkInitPromise # None /\ Sdk!OpenerGoes(o, "joined")
            /\ Sdk!Await(o, sdkInitPromise) /\ UNCHANGED <<sdkInitPromise, sdkContainer>>
      \/ ~sdkInitialized /\ sdkInitPromise = None /\ Sdk!OpenerGoes(o, "building")
            /\ Sdk!Await(o, None) /\ sdkInitPromise' = o /\ sdkContainer' = TRUE
  BY DEF Sdk!Enter
<1>3. PICK p \in {"done", "joined", "building"}, y \in Opener \cup {None} :
        /\ Sdk!OpenerGoes(o, p) /\ Sdk!Await(o, y)
        /\ IF p = "building" THEN ~sdkInitialized /\ sdkInitPromise = None /\ sdkInitPromise' = o
              /\ sdkContainer' = TRUE
           ELSE UNCHANGED <<sdkInitPromise, sdkContainer>>
  BY <1>0, <1>2 DEF Sdk!SdkTyped
<1>4. /\ sdkOpener'[o] = p /\ (\A q \in Opener : q # o => sdkOpener'[q] = sdkOpener[q])
      /\ \A z \in Opener \cup Closer : z # o => sdkAwaits'[z] = sdkAwaits[z]
  BY <1>0, <1>3, SdkOpenerMoved, SdkAwaitsMoved
<1>5. Sdk!SdkTyped'
  BY <1>0, <1>1, <1>3, SdkOpenerMoved, SdkAwaitsMoved DEF Sdk!SdkTyped
<1>6. Sdk!Promised'
  BY <1>0, <1>1, <1>3, <1>4, SdkSettingHolds, SdkApart
     DEF Sdk!Promised, Sdk!OpenerWaits, Sdk!CloserWaits, Sdk!SdkTyped
<1>7. Sdk!LimboIsEmpty'
  <2>1. Sdk!Limbo' => Sdk!Limbo
    BY <1>1, <1>3, <1>4 DEF Sdk!Limbo
  <2>2. \A c \in Closer : sdkCloser'[c] = "waiting" => sdkAwaits'[c] = sdkAwaits[c]
           /\ sdkOpener'[sdkAwaits[c]] = sdkOpener[sdkAwaits[c]]
    BY <1>0, <1>1, <1>3, <1>4, SdkSettingHolds, SdkApart DEF Sdk!Promised, Sdk!CloserWaits
  <2>3. sdkContainer' => sdkContainer \/ sdkInitPromise' # None
    BY <1>3, SdkSettingHolds, SdkApart
  <2> QED
    BY <1>0, <1>1, <1>3, <1>4, <2>1, <2>2, <2>3, SdkSettingHolds, SdkApart
       DEF Sdk!LimboIsEmpty
<1>8. Sdk!OneAtWork'
  BY <1>0, <1>1, <1>3, <1>4, SdkSettingHolds, SdkApart DEF Sdk!OneAtWork
<1> QED
  BY <1>5, <1>6, <1>7, <1>8 DEF Sdk!CallersInv

(* A closer is done at once, waits for an initialization, or joins or      *)
(* begins the teardown.                                                    *)
LEMMA SdkCloserEnters ==
  ASSUME Sdk!CallersInv, NEW c \in Closer, sdkCloser[c] \in {"idle", "waiting"},
         NEW p \in {"done", "waiting", "joined", "tearing"}, Sdk!CloserGoes(c, p),
         UNCHANGED <<sdkInitialized, sdkContainer, sdkInitPromise, sdkOpener>>,
         p = "done" => UNCHANGED <<sdkAwaits, sdkShutdownPromise, sdkSlipped>>,
         p = "waiting" => sdkInitPromise # None /\ Sdk!Await(c, sdkInitPromise)
            /\ UNCHANGED <<sdkShutdownPromise, sdkSlipped>>,
         p = "joined" => sdkShutdownPromise # None /\ Sdk!Await(c, sdkShutdownPromise)
            /\ UNCHANGED <<sdkShutdownPromise, sdkSlipped>>,
         p = "tearing" => /\ ~Sdk!Limbo /\ sdkShutdownPromise = None /\ Sdk!Await(c, None)
            /\ sdkShutdownPromise' = c
                          /\ sdkSlipped' = (sdkSlipped \/ Sdk!Builds # {} \/ Sdk!Teardowns # {})
  PROVE  Sdk!CallersInv'
<1>0. Sdk!SdkTyped /\ Sdk!Promised /\ Sdk!LimboIsEmpty /\ Sdk!OneAtWork
  BY DEF Sdk!CallersInv
<1>1. sdkCloser'[c] = p /\ (\A d \in Closer : d # c => sdkCloser'[d] = sdkCloser[d])
  BY <1>0, SdkCloserMoved
<1>2. /\ sdkAwaits' \in [Opener \cup Closer -> Opener \cup Closer \cup {None}]
      /\ \A z \in Opener \cup Closer : z # c => sdkAwaits'[z] = sdkAwaits[z]
      /\ p = "waiting" => sdkAwaits'[c] = sdkInitPromise
  <2>1. CASE p = "done"
    BY <1>0, <2>1 DEF Sdk!SdkTyped
  <2>2. CASE p # "done"
    <3>1. PICK y \in Opener \cup Closer \cup {None} : Sdk!Await(c, y)
             /\ (p = "waiting" => y = sdkInitPromise)
      BY <1>0, <2>2 DEF Sdk!SdkTyped
    <3> QED
      BY <1>0, <2>2, <3>1, SdkAwaitsMoved
  <2> QED
    BY <2>1, <2>2
<1>3. Sdk!SdkTyped'
  BY <1>0, <1>2, SdkCloserMoved DEF Sdk!SdkTyped
(* Nobody waits for one that has not begun.                                *)
<1>4. \A o \in Opener : sdkOpener'[o] = "waiting" =>
        sdkAwaits'[o] = sdkAwaits[o] /\ sdkAwaits[o] \in Closer
           /\ sdkCloser'[sdkAwaits[o]] = sdkCloser[sdkAwaits[o]]
  BY <1>0, <1>1, <1>2, SdkSettingHolds, SdkApart DEF Sdk!Promised, Sdk!OpenerWaits
<1>5. Sdk!Promised'
  <2>1. p \in {"done", "waiting", "joined"} => sdkShutdownPromise' = sdkShutdownPromise
    OBVIOUS
  <2>2. \A d \in Closer : Sdk!CloserWaits(d)'
    BY <1>0, <1>1, <1>2, SdkSettingHolds, SdkApart
       DEF Sdk!Promised, Sdk!CloserWaits, Sdk!SdkTyped
  <2>3. \A d \in Closer : sdkShutdownPromise' = d <=> sdkCloser'[d] = "tearing"
    <3>1. CASE p = "tearing"
      BY <1>0, <1>1, <3>1, SdkSettingHolds, SdkApart DEF Sdk!Promised
    <3>2. CASE p # "tearing"
      BY <1>0, <1>1, <2>1, <3>2 DEF Sdk!Promised
    <3> QED
      BY <3>1, <3>2
  <2>4. \A o \in Opener : Sdk!OpenerWaits(o)'
    BY <1>0, <1>1, <1>4 DEF Sdk!Promised, Sdk!OpenerWaits
  <2> QED
    BY <1>0, <2>2, <2>3, <2>4 DEF Sdk!Promised
<1>6. Sdk!LimboIsEmpty'
  <2>1. Sdk!Limbo' => Sdk!Limbo
    BY <1>4 DEF Sdk!Limbo
  <2>2. CASE p = "tearing"
    BY <2>1, <2>2 DEF Sdk!LimboIsEmpty
  <2>3. CASE p # "tearing"
    <3>1. sdkShutdownPromise' = sdkShutdownPromise
      BY <2>3
    <3>2. \A d \in Closer : sdkCloser'[d] = "waiting" => sdkOpener'[sdkAwaits'[d]] # "done"
             \/ (sdkCloser[d] = "waiting" /\ sdkAwaits'[d] = sdkAwaits[d])
      BY <1>0, <1>1, <1>2, SdkSettingHolds, SdkApart DEF Sdk!Promised, Sdk!SdkTyped
    <3> QED
      BY <1>0, <2>1, <3>1, <3>2 DEF Sdk!LimboIsEmpty
  <2> QED
    BY <2>2, <2>3
<1>7. Sdk!OneAtWork'
  <2>1. CASE p = "tearing"
    BY <1>0, <2>1 DEF Sdk!OneAtWork, Sdk!Builds, Sdk!Teardowns
  <2>2. CASE p # "tearing"
    BY <1>0, <2>2 DEF Sdk!OneAtWork
  <2> QED
    BY <2>1, <2>2
<1> QED
  BY <1>3, <1>5, <1>6, <1>7 DEF Sdk!CallersInv

LEMMA SdkCoalescing ==
  ASSUME Sdk!CallersInv, NEW c \in Closer, sdkCloser[c] \in {"idle", "waiting"},
         ~Sdk!Limbo, Sdk!Coalesce(c)
  PROVE  Sdk!CallersInv'
<1>1. UNCHANGED <<sdkInitialized, sdkContainer, sdkInitPromise, sdkOpener>>
  BY DEF Sdk!Coalesce, Sdk!initVars
<1>2. CASE sdkShutdownPromise # None
  BY <1>1, <1>2, SdkCloserEnters DEF Sdk!Coalesce
<1>3. CASE sdkShutdownPromise = None
  BY <1>1, <1>3, SdkCloserEnters DEF Sdk!Coalesce
<1> QED
  BY <1>2, <1>3

LEMMA SdkShutting ==
  ASSUME Sdk!CallersInv, NEW c \in Closer, sdkCloser[c] = "idle", Sdk!Shut(c)
  PROVE  Sdk!CallersInv'
<1>1. \/ Sdk!CloserGoes(c, "done") /\ UNCHANGED <<sdkInitialized, sdkContainer, sdkInitPromise,
                                                  sdkOpener, sdkShutdownPromise, sdkAwaits, sdkSlipped>>
      \/ /\ sdkInitPromise # None /\ Sdk!CloserGoes(c, "waiting") /\ Sdk!Await(c, sdkInitPromise)
         /\ UNCHANGED <<sdkInitialized, sdkContainer, sdkInitPromise, sdkOpener,
                        sdkShutdownPromise, sdkSlipped>>
      \/ sdkInitPromise = None /\ (sdkInitialized \/ sdkContainer) /\ Sdk!Coalesce(c)
  BY DEF Sdk!Shut, Sdk!initVars
<1>2. CASE Sdk!CloserGoes(c, "done") /\ UNCHANGED <<sdkInitialized, sdkContainer, sdkInitPromise,
                                                    sdkOpener, sdkShutdownPromise, sdkAwaits, sdkSlipped>>
  BY <1>2, SdkCloserEnters
<1>3. CASE /\ sdkInitPromise # None /\ Sdk!CloserGoes(c, "waiting") /\ Sdk!Await(c, sdkInitPromise)
           /\ UNCHANGED <<sdkInitialized, sdkContainer, sdkInitPromise, sdkOpener,
                          sdkShutdownPromise, sdkSlipped>>
  BY <1>3, SdkCloserEnters
<1>4. CASE sdkInitPromise = None /\ (sdkInitialized \/ sdkContainer) /\ Sdk!Coalesce(c)
  BY <1>4, SdkCoalescing DEF Sdk!CallersInv, Sdk!LimboIsEmpty
<1> QED
  BY <1>1, <1>2, <1>3, <1>4

(* The initialization under way moves on.                                  *)
LEMMA SdkBuilderMoves ==
  ASSUME Sdk!CallersInv, ~Sdk!Limbo, NEW o \in Opener,
         NEW p \in {"done", "undoing", "rejecting"}, Sdk!OpenerGoes(o, p),
         sdkOpener[o] \in {"building", "undoing", "rejecting"},
            p = "undoing" => sdkOpener[o] = "building",
         sdkInitPromise' = (IF p = "undoing" THEN sdkInitPromise ELSE None),
         UNCHANGED <<sdkShutdownPromise, sdkCloser, sdkAwaits>>,
         sdkInitialized' \in BOOLEAN, sdkContainer' \in BOOLEAN,
         sdkOpener[o] = "rejecting" => sdkSlipped' = (sdkSlipped \/ sdkInitPromise # None),
         sdkOpener[o] # "rejecting" => sdkSlipped' = sdkSlipped
  PROVE  Sdk!CallersInv'
<1>0. Sdk!SdkTyped /\ Sdk!Promised /\ Sdk!LimboIsEmpty /\ Sdk!OneAtWork
  BY DEF Sdk!CallersInv
<1>1. sdkOpener'[o] = p /\ (\A q \in Opener : q # o => sdkOpener'[q] = sdkOpener[q])
  BY <1>0, SdkOpenerMoved
<1>2. Sdk!SdkTyped'
  BY <1>0, SdkOpenerMoved DEF Sdk!SdkTyped
<1>3. Sdk!Promised'
  <2>1. \A q \in Opener : Sdk!OpenerWaits(q)'
           /\ (sdkInitPromise' = q => sdkOpener'[q] \in {"building", "undoing"})
    BY <1>0, <1>1, SdkSettingHolds, SdkApart DEF Sdk!Promised, Sdk!OpenerWaits
  <2>2. \A c \in Closer : Sdk!CloserWaits(c)'
    BY <1>0, <1>1 DEF Sdk!Promised, Sdk!CloserWaits
  <2> QED
    BY <1>0, <2>1, <2>2 DEF Sdk!Promised
<1>4. ~Sdk!Limbo'
  BY <1>1 DEF Sdk!Limbo
<1>5. Sdk!OneAtWork'
  <2>1. CASE sdkOpener[o] = "rejecting"
    BY <1>0, <1>1, <2>1, SdkSettingHolds, SdkApart DEF Sdk!OneAtWork
  <2>2. CASE sdkOpener[o] # "rejecting"
    BY <1>0, <1>1, <2>2 DEF Sdk!OneAtWork
  <2> QED
    BY <2>1, <2>2
<1> QED
  BY <1>2, <1>3, <1>4, <1>5 DEF Sdk!CallersInv, Sdk!LimboIsEmpty

LEMMA SdkTearingDown == ASSUME Sdk!CallersInv, NEW c \in Closer, Sdk!TornDown(c)
   PROVE Sdk!CallersInv'
<1>0. Sdk!SdkTyped /\ Sdk!Promised /\ Sdk!LimboIsEmpty /\ Sdk!OneAtWork
  BY DEF Sdk!CallersInv
<1>1. /\ Sdk!Prompt /\ sdkCloser[c] = "tearing" /\ Sdk!CloserGoes(c, "done")
            /\ sdkShutdownPromise' = None
      /\ sdkInitialized' = FALSE /\ sdkContainer' = FALSE /\ sdkInitPromise' = None
      /\ UNCHANGED <<sdkOpener, sdkAwaits, sdkSlipped>>
  BY DEF Sdk!TornDown, Sdk!Reset
<1>2. sdkCloser'[c] = "done" /\ (\A d \in Closer : d # c => sdkCloser'[d] = sdkCloser[d])
  BY <1>0, <1>1, SdkCloserMoved
<1>3. Sdk!SdkTyped'
  BY <1>0, <1>1, SdkCloserMoved DEF Sdk!SdkTyped
<1>4. Sdk!Promised'
  BY <1>0, <1>1, <1>2, SdkSettingHolds, SdkApart
     DEF Sdk!Promised, Sdk!OpenerWaits, Sdk!CloserWaits
<1>5. Sdk!LimboIsEmpty'
  BY <1>0, <1>1, <1>2, SdkPromptMeans DEF Sdk!LimboIsEmpty
<1>6. Sdk!OneAtWork'
  <2>1. sdkShutdownPromise = c /\ c # None
    BY <1>0, <1>1, SdkSettingHolds, SdkApart DEF Sdk!Promised
  <2> QED
    BY <1>0, <1>1, <2>1 DEF Sdk!OneAtWork
<1> QED
  BY <1>3, <1>4, <1>5, <1>6 DEF Sdk!CallersInv

LEMMA SdkOpenerJoins == ASSUME Sdk!CallersInv, NEW o \in Opener, Sdk!OpenJoined(o)
   PROVE Sdk!CallersInv'
<1>0. Sdk!SdkTyped /\ Sdk!Promised /\ Sdk!LimboIsEmpty /\ Sdk!OneAtWork
  BY DEF Sdk!CallersInv
<1>1. /\ sdkOpener[o] = "joined" /\ Sdk!OpenerGoes(o, "done") /\ Sdk!Await(o, None)
      /\ UNCHANGED <<sdkInitialized, sdkContainer, sdkInitPromise, sdkShutdownPromise, sdkCloser,
                     sdkSlipped>>
  BY DEF Sdk!OpenJoined, Sdk!initVars
<1>2. /\ sdkOpener'[o] = "done" /\ (\A q \in Opener : q # o => sdkOpener'[q] = sdkOpener[q])
      /\ \A z \in Opener \cup Closer : z # o => sdkAwaits'[z] = sdkAwaits[z]
  BY <1>0, <1>1, SdkOpenerMoved, SdkAwaitsMoved
<1>3. Sdk!SdkTyped'
  BY <1>0, <1>1, SdkOpenerMoved, SdkAwaitsMoved DEF Sdk!SdkTyped
<1>4. \A c \in Closer : sdkCloser'[c] = "waiting" =>
        sdkAwaits'[c] = sdkAwaits[c] /\ sdkAwaits[c] \in Opener
           /\ sdkOpener'[sdkAwaits[c]] = sdkOpener[sdkAwaits[c]]
  BY <1>0, <1>1, <1>2, SdkSettingHolds, SdkApart DEF Sdk!Promised, Sdk!CloserWaits
<1>5. Sdk!Promised'
  BY <1>0, <1>1, <1>2, <1>4, SdkSettingHolds, SdkApart
     DEF Sdk!Promised, Sdk!OpenerWaits, Sdk!CloserWaits
<1>6. Sdk!LimboIsEmpty' /\ Sdk!OneAtWork'
  BY <1>0, <1>1, <1>2, <1>4 DEF Sdk!LimboIsEmpty, Sdk!Limbo, Sdk!OneAtWork
<1> QED
  BY <1>3, <1>5, <1>6 DEF Sdk!CallersInv

LEMMA SdkCloserJoins == ASSUME Sdk!CallersInv, NEW c \in Closer, Sdk!CloseJoined(c)
   PROVE Sdk!CallersInv'
<1>0. Sdk!SdkTyped /\ Sdk!Promised /\ Sdk!LimboIsEmpty /\ Sdk!OneAtWork
  BY DEF Sdk!CallersInv
<1>1. /\ sdkCloser[c] = "joined" /\ Sdk!CloserGoes(c, "done") /\ Sdk!Await(c, None)
      /\ UNCHANGED <<sdkInitialized, sdkContainer, sdkInitPromise, sdkShutdownPromise, sdkOpener,
                     sdkSlipped>>
  BY DEF Sdk!CloseJoined, Sdk!initVars
<1>2. /\ sdkCloser'[c] = "done" /\ (\A d \in Closer : d # c => sdkCloser'[d] = sdkCloser[d])
      /\ \A z \in Opener \cup Closer : z # c => sdkAwaits'[z] = sdkAwaits[z]
  BY <1>0, <1>1, SdkCloserMoved, SdkAwaitsMoved
<1>3. Sdk!SdkTyped'
  BY <1>0, <1>1, SdkCloserMoved, SdkAwaitsMoved DEF Sdk!SdkTyped
<1>4. \A o \in Opener : sdkOpener'[o] = "waiting" =>
        sdkAwaits'[o] = sdkAwaits[o] /\ sdkAwaits[o] \in Closer
           /\ sdkCloser'[sdkAwaits[o]] = sdkCloser[sdkAwaits[o]]
  BY <1>0, <1>1, <1>2, SdkSettingHolds, SdkApart DEF Sdk!Promised, Sdk!OpenerWaits
<1>5. Sdk!Promised'
  BY <1>0, <1>1, <1>2, <1>4, SdkSettingHolds, SdkApart
     DEF Sdk!Promised, Sdk!OpenerWaits, Sdk!CloserWaits
<1>6. Sdk!LimboIsEmpty' /\ Sdk!OneAtWork'
  BY <1>0, <1>1, <1>2, <1>4 DEF Sdk!LimboIsEmpty, Sdk!Limbo, Sdk!OneAtWork
<1> QED
  BY <1>3, <1>5, <1>6 DEF Sdk!CallersInv

LEMMA SdkCallersStep == Sdk!CallersInv /\ [Sdk!Next]_Sdk!sdkVars => Sdk!CallersInv'
<1> SUFFICES ASSUME Sdk!CallersInv, [Sdk!Next]_Sdk!sdkVars PROVE Sdk!CallersInv'
  OBVIOUS
<1>0. Sdk!SdkTyped /\ Sdk!Promised /\ Sdk!LimboIsEmpty /\ Sdk!OneAtWork
  BY DEF Sdk!CallersInv
<1>1. ASSUME NEW o \in Opener, Sdk!Open(o) PROVE Sdk!CallersInv'
  <2>1. CASE sdkShutdownPromise = None
    BY <1>1, <2>1, SdkEntering DEF Sdk!Open
  <2>2. CASE sdkShutdownPromise # None
    <3>1. /\ sdkOpener[o] = "idle" /\ Sdk!OpenerGoes(o, "waiting")
                /\ Sdk!Await(o, sdkShutdownPromise)
          /\ UNCHANGED <<sdkInitialized, sdkContainer, sdkInitPromise, sdkShutdownPromise,
                         sdkCloser, sdkSlipped>>
      BY <1>1, <2>2 DEF Sdk!Open, Sdk!initVars
    <3>2. /\ sdkOpener'[o] = "waiting" /\ (\A q \in Opener : q # o => sdkOpener'[q] = sdkOpener[q])
          /\ sdkAwaits'[o] = sdkShutdownPromise /\ \A z \in Opener \cup Closer : z # o
                => sdkAwaits'[z] = sdkAwaits[z]
      BY <1>0, <3>1, SdkOpenerMoved, SdkAwaitsMoved DEF Sdk!SdkTyped
    <3>3. Sdk!SdkTyped'
      BY <1>0, <3>1, SdkOpenerMoved, SdkAwaitsMoved DEF Sdk!SdkTyped
    <3>4. \A c \in Closer : sdkCloser'[c] = "waiting" =>
            sdkAwaits'[c] = sdkAwaits[c] /\ sdkAwaits[c] \in Opener
               /\ sdkOpener'[sdkAwaits[c]] = sdkOpener[sdkAwaits[c]]
      BY <1>0, <3>1, <3>2, SdkSettingHolds, SdkApart DEF Sdk!Promised, Sdk!CloserWaits
    <3>5. sdkShutdownPromise \in Closer /\ sdkCloser[sdkShutdownPromise] = "tearing"
      BY <1>0, <2>2 DEF Sdk!SdkTyped, Sdk!Promised
    <3>6. Sdk!Promised'
      BY <1>0, <3>1, <3>2, <3>4, <3>5, SdkSettingHolds, SdkApart
         DEF Sdk!Promised, Sdk!OpenerWaits, Sdk!CloserWaits
    <3>7. Sdk!LimboIsEmpty' /\ Sdk!OneAtWork'
      BY <1>0, <3>1, <3>2, <3>4, <3>5 DEF Sdk!LimboIsEmpty, Sdk!Limbo, Sdk!OneAtWork
    <3> QED
      BY <3>3, <3>6, <3>7 DEF Sdk!CallersInv
  <2> QED
    BY <2>1, <2>2
<1>2. ASSUME NEW o \in Opener, Sdk!OpenWaited(o) PROVE Sdk!CallersInv'
  <2>1. sdkOpener[o] = "waiting" /\ Sdk!Limbo
    BY <1>0, <1>2, SdkSettingHolds, SdkApart
       DEF Sdk!OpenWaited, Sdk!Settled, Sdk!Limbo, Sdk!Promised, Sdk!OpenerWaits
  <2> QED
    BY <1>0, <1>2, <2>1, SdkEntering DEF Sdk!OpenWaited, Sdk!LimboIsEmpty
<1>3. ASSUME NEW o \in Opener, Sdk!OpenJoined(o) PROVE Sdk!CallersInv'
  BY <1>3, SdkOpenerJoins
<1>4. ASSUME NEW o \in Opener, Sdk!Built(o) PROVE Sdk!CallersInv'
  BY <1>0, <1>4, SdkPromptMeans, SdkBuilderMoves DEF Sdk!Built, Sdk!SdkTyped
<1>5. ASSUME NEW o \in Opener, Sdk!BuildFails(o) PROVE Sdk!CallersInv'
  BY <1>0, <1>5, SdkPromptMeans, SdkBuilderMoves
     DEF Sdk!BuildFails, Sdk!SdkTyped, Sdk!initVars
<1>6. ASSUME NEW o \in Opener, Sdk!Undone(o) PROVE Sdk!CallersInv'
  BY <1>0, <1>6, SdkPromptMeans, SdkBuilderMoves DEF Sdk!Undone, Sdk!Reset, Sdk!SdkTyped
<1>7. ASSUME NEW o \in Opener, Sdk!Reject(o) PROVE Sdk!CallersInv'
  <2>1. ~Sdk!Limbo
    BY <1>0, <1>7 DEF Sdk!Reject, Sdk!LimboIsEmpty
  <2> QED
    BY <1>0, <1>7, <2>1, SdkBuilderMoves DEF Sdk!Reject, Sdk!SdkTyped, Sdk!initVars
<1>8. ASSUME NEW c \in Closer, Sdk!Close(c) \/ Sdk!Signal(c) PROVE Sdk!CallersInv'
  BY <1>8, SdkShutting DEF Sdk!Close, Sdk!Signal
<1>9. ASSUME NEW c \in Closer, Sdk!CloseWaited(c) PROVE Sdk!CallersInv'
  <2>1. sdkCloser[c] = "waiting" /\ sdkOpener[sdkAwaits[c]] = "done"
    BY <1>0, <1>9 DEF Sdk!CloseWaited, Sdk!Settled, Sdk!Promised, Sdk!CloserWaits
  <2>2. ~Sdk!Limbo
    BY <1>0, <2>1 DEF Sdk!LimboIsEmpty
  <2> QED
    BY <1>9, <2>1, <2>2, SdkCoalescing DEF Sdk!CloseWaited
<1>10. ASSUME NEW c \in Closer, Sdk!CloseJoined(c) PROVE Sdk!CallersInv'
  BY <1>10, SdkCloserJoins
<1>11. ASSUME NEW c \in Closer, Sdk!TornDown(c) PROVE Sdk!CallersInv'
  BY <1>11, SdkTearingDown
<1>12. ASSUME UNCHANGED <<sdkInitialized, sdkContainer, sdkInitPromise, sdkShutdownPromise,
                          sdkOpener, sdkCloser, sdkAwaits, sdkSlipped>>
       PROVE  Sdk!CallersInv'
  BY <1>12
     DEF Sdk!CallersInv, Sdk!SdkTyped, Sdk!Promised, Sdk!OpenerWaits, Sdk!CloserWaits,
         Sdk!LimboIsEmpty, Sdk!Limbo, Sdk!OneAtWork, Sdk!Builds, Sdk!Teardowns
<1>13. ASSUME NEW r \in Runner, Sdk!Run(r) \/ Sdk!RunSettles(r) \/ Sdk!Captured(r)
   PROVE Sdk!CallersInv'
  BY <1>12, <1>13 DEF Sdk!Run, Sdk!RunSettles, Sdk!Captured, Sdk!Unlock, Sdk!initVars
<1>14. CASE UNCHANGED Sdk!sdkVars
  BY <1>12, <1>14 DEF Sdk!sdkVars
<1> QED
  BY <1>1, <1>2, <1>3, <1>4, <1>5, <1>6, <1>7, <1>8, <1>9, <1>10, <1>11, <1>13, <1>14
     DEF Sdk!Next

LEMMA SdkNothingKeeps == ASSUME Sdk!RunsInv, Sdk!NothingToRuns PROVE Sdk!RunsInv'
<1>1. Sdk!InProgress' = Sdk!InProgress /\ Sdk!Ours' = Sdk!Ours
  BY DEF Sdk!NothingToRuns, Sdk!NoRunMoves, Sdk!InProgress, Sdk!Ours
<1>2. Sdk!RunsTyped' /\ Sdk!OneRun'
  BY <1>1 DEF Sdk!RunsInv, Sdk!RunsTyped, Sdk!OneRun, Sdk!NothingToRuns, Sdk!NoRunMoves
<1>3. Sdk!RunsInPeace'
  BY <1>1 DEF Sdk!RunsInv, Sdk!RunsInPeace, Sdk!NothingToRuns, Sdk!NoRunMoves
<1>4. \A r \in {sdkSummary, sdkOutcome}' \ {None} : Sdk!Reports(r)'
  BY DEF Sdk!RunsInv, Sdk!Reports, Sdk!NothingToRuns, Sdk!NoRunMoves
<1> QED
  BY <1>2, <1>3, <1>4 DEF Sdk!RunsInv

LEMMA SdkGenerationKeeps == ASSUME Sdk!RunsInv, Sdk!GenerationEnds PROVE Sdk!RunsInv'
<1>1. Sdk!InProgress' = Sdk!InProgress /\ Sdk!Ours' = Sdk!Ours
  BY DEF Sdk!GenerationEnds, Sdk!NoRunMoves, Sdk!InProgress, Sdk!Ours
<1>2. Sdk!RunsTyped' /\ Sdk!OneRun'
  BY <1>1 DEF Sdk!RunsInv, Sdk!RunsTyped, Sdk!OneRun, Sdk!GenerationEnds, Sdk!NoRunMoves
<1>3. Sdk!RunsInPeace'
  <2>1. \A r \in Sdk!InProgress' : sdkStarted'[r] # sdkGeneration'
    BY DEF Sdk!RunsInv, Sdk!RunsTyped, Sdk!GenerationEnds, Sdk!NoRunMoves, Sdk!InProgress
  <2> QED
    BY <2>1 DEF Sdk!RunsInPeace
<1>4. \A r \in {sdkSummary, sdkOutcome}' \ {None} : Sdk!Reports(r)'
  BY DEF Sdk!RunsInv, Sdk!Reports, Sdk!GenerationEnds, Sdk!NoRunMoves
<1> QED
  BY <1>2, <1>3, <1>4 DEF Sdk!RunsInv

LEMMA SdkBeginningKeeps == ASSUME Sdk!RunsInv, Sdk!LifetimeBegins PROVE Sdk!RunsInv'
<1>1. Sdk!InProgress' = Sdk!InProgress
  BY DEF Sdk!LifetimeBegins, Sdk!NoRunMoves, Sdk!InProgress
<1>2. Sdk!RunsTyped'
  BY DEF Sdk!RunsInv, Sdk!RunsTyped, Sdk!LifetimeBegins, Sdk!NoRunMoves
<1>3. Sdk!Ours' = {} /\ Sdk!OneRun'
  <2>1. Sdk!Ours' = {}
    BY DEF Sdk!RunsInv, Sdk!RunsTyped, Sdk!LifetimeBegins, Sdk!NoRunMoves, Sdk!InProgress,
       Sdk!Ours
  <2> QED
    BY <2>1 DEF Sdk!OneRun
<1>4. Sdk!RunsInPeace'
  BY <1>1 DEF Sdk!RunsInv, Sdk!RunsInPeace, Sdk!LifetimeBegins, Sdk!NoRunMoves
<1>5. \A r \in {sdkSummary, sdkOutcome}' \ {None} : Sdk!Reports(r)'
  BY DEF Sdk!RunsInv, Sdk!Reports, Sdk!LifetimeBegins, Sdk!NoRunMoves
<1> QED
  BY <1>2, <1>3, <1>4, <1>5 DEF Sdk!RunsInv

LEMMA SdkEndKeeps == ASSUME Sdk!RunsInv, Sdk!LifetimeEnds PROVE Sdk!RunsInv'
<1>1. Sdk!InProgress' = Sdk!InProgress /\ Sdk!Ours' = Sdk!Ours
  BY DEF Sdk!LifetimeEnds, Sdk!NoRunMoves, Sdk!InProgress, Sdk!Ours
<1>2. Sdk!RunsTyped' /\ Sdk!OneRun'
  BY <1>1 DEF Sdk!RunsInv, Sdk!RunsTyped, Sdk!OneRun, Sdk!LifetimeEnds, Sdk!NoRunMoves
<1>3. Sdk!RunsInPeace'
  BY <1>1 DEF Sdk!RunsInv, Sdk!RunsInPeace, Sdk!LifetimeEnds, Sdk!NoRunMoves
<1>4. \A r \in {sdkSummary, sdkOutcome}' \ {None} : Sdk!Reports(r)'
  BY DEF Sdk!LifetimeEnds
<1> QED
  BY <1>2, <1>3, <1>4 DEF Sdk!RunsInv

(* A run's own steps.                                                      *)
LEMMA SdkRunnerMoved ==
  ASSUME Sdk!RunsTyped, NEW r \in Runner, NEW p \in {"running", "capturing", "done"},
         sdkRunner' = [sdkRunner EXCEPT ![r] = p]
  PROVE  /\ sdkRunner' \in [Runner -> {"idle", "running", "capturing", "done"}]
         /\ sdkRunner'[r] = p /\ \A q \in Runner : q # r => sdkRunner'[q] = sdkRunner[q]
BY DEF Sdk!RunsTyped

LEMMA SdkRunning == ASSUME Sdk!RunsInv, NEW r \in Runner, Sdk!Run(r) PROVE Sdk!RunsInv'
<1>0. Sdk!RunsTyped /\ sdkRunner[r] = "idle" /\ sdkInitialized
  BY DEF Sdk!RunsInv, Sdk!Run
<1>1. /\ UNCHANGED <<sdkInitialized, sdkLifetime, sdkGeneration, sdkOpener, sdkCloser, sdkSummary,
                     sdkOutcome, sdkUnlocked>>
      /\ Sdk!Builds' = Sdk!Builds /\ Sdk!Teardowns' = Sdk!Teardowns
  BY DEF Sdk!Run, Sdk!initVars, Sdk!lastVars, Sdk!Builds, Sdk!Teardowns
<1>2. CASE sdkRunning
  <2>1. sdkRunner' = [sdkRunner EXCEPT ![r] = "done"] /\ UNCHANGED <<sdkRunning, sdkStarted,
                                                                     sdkBornIn, sdkLate>>
    BY <1>2 DEF Sdk!Run
  <2>2. Sdk!InProgress' = Sdk!InProgress
    BY <1>0, <2>1, SdkRunnerMoved DEF Sdk!InProgress
  <2>3. Sdk!Ours' = Sdk!Ours
    BY <1>1, <2>1, <2>2 DEF Sdk!Ours
  <2>4. Sdk!RunsTyped' /\ Sdk!OneRun' /\ Sdk!RunsInPeace'
    BY <1>0, <1>1, <2>1, <2>2, <2>3, SdkRunnerMoved
       DEF Sdk!RunsInv, Sdk!RunsTyped, Sdk!OneRun, Sdk!RunsInPeace
  <2>5. \A q \in {sdkSummary, sdkOutcome}' \ {None} : Sdk!Reports(q)'
    BY <1>0, <1>1, <2>1, SdkRunnerMoved DEF Sdk!RunsInv, Sdk!RunsTyped, Sdk!Reports
  <2> QED
    BY <2>4, <2>5 DEF Sdk!RunsInv
<1>3. CASE ~sdkRunning
  <2>1. /\ sdkRunner' = [sdkRunner EXCEPT ![r] = "running"] /\ sdkRunning' = TRUE
        /\ sdkStarted' = [sdkStarted EXCEPT ![r] = sdkGeneration]
              /\ sdkBornIn' = [sdkBornIn EXCEPT ![r] = sdkLifetime]
        /\ sdkLate' = IF Sdk!Builds \cup Sdk!Teardowns = {} THEN sdkLate ELSE sdkLate \cup {r}
    BY <1>3 DEF Sdk!Run
  <2>2. /\ \A q \in Runner : q # r => sdkStarted'[q] = sdkStarted[q] /\ sdkBornIn'[q] = sdkBornIn[q]
        /\ sdkStarted'[r] = sdkGeneration /\ sdkBornIn'[r] = sdkLifetime
    BY <1>0, <2>1 DEF Sdk!RunsTyped
  <2>3. Sdk!RunsTyped'
    BY <1>0, <1>1, <2>1, <2>2, SdkRunnerMoved DEF Sdk!RunsTyped
  <2>4. Sdk!InProgress' = Sdk!InProgress \cup {r} /\ r \notin Sdk!InProgress
    BY <1>0, <2>1, SdkRunnerMoved DEF Sdk!InProgress
  <2>5. Sdk!RunsInPeace'
    <3> SUFFICES ASSUME NEW q \in Sdk!InProgress' \ sdkLate',
       sdkStarted'[q] = sdkGeneration'
                 PROVE  sdkInitialized' /\ Sdk!Builds' = {} /\ Sdk!Teardowns' = {}
                           /\ sdkBornIn'[q] = sdkLifetime'
      BY DEF Sdk!RunsInPeace
    <3>1. CASE q = r
      BY <1>0, <1>1, <2>1, <2>2, <3>1
    <3>2. CASE q # r
      <4>1. q \in Sdk!InProgress \ sdkLate /\ q \in Runner
        BY <2>1, <2>4, <3>2 DEF Sdk!InProgress
      <4> QED
        BY <1>1, <2>2, <3>2, <4>1 DEF Sdk!RunsInv, Sdk!RunsInPeace
    <3> QED
      BY <3>1, <3>2
  <2>6. Sdk!OneRun'
    <3>1. ~sdkUnlocked => Sdk!Ours = {}
      BY <1>0, <1>3 DEF Sdk!RunsInv, Sdk!OneRun
    <3>2. Sdk!Ours' \subseteq Sdk!Ours \cup {r}
      BY <1>1, <2>1, <2>2, <2>4 DEF Sdk!Ours, Sdk!InProgress
    <3> QED
      BY <1>1, <2>1, <3>1, <3>2 DEF Sdk!OneRun
  <2>7. \A q \in {sdkSummary, sdkOutcome}' \ {None} : Sdk!Reports(q)'
    <3> SUFFICES ASSUME NEW q \in {sdkSummary, sdkOutcome} \ {None} PROVE Sdk!Reports(q)'
      BY <1>1
    <3>1. Sdk!Reports(q) /\ q \in Runner /\ q # r
      BY <1>0 DEF Sdk!RunsInv, Sdk!RunsTyped, Sdk!Reports
    <3> QED
      BY <1>0, <1>1, <2>1, <2>2, <3>1, SdkRunnerMoved DEF Sdk!Reports
  <2> QED
    BY <2>3, <2>5, <2>6, <2>7 DEF Sdk!RunsInv
<1> QED
  BY <1>2, <1>3

(* What it reports on its way, it may.                                     *)
LEMMA SdkMayReport ==
  ASSUME Sdk!RunsInv, NEW r \in Sdk!InProgress, sdkStarted[r] = sdkGeneration
  PROVE  r \in sdkLate \/ (sdkBornIn[r] = sdkLifetime /\ sdkInitialized /\ Sdk!Builds = {})
BY DEF Sdk!RunsInv, Sdk!RunsInPeace

LEMMA SdkRunSettling == ASSUME Sdk!RunsInv, NEW r \in Runner, Sdk!RunSettles(r)
   PROVE Sdk!RunsInv'
<1>0. Sdk!RunsTyped /\ r \in Sdk!InProgress
  BY DEF Sdk!RunsInv, Sdk!RunSettles, Sdk!InProgress
<1>1. /\ UNCHANGED <<sdkInitialized, sdkLifetime, sdkRunning, sdkGeneration, sdkOpener, sdkCloser,
                     sdkStarted, sdkBornIn, sdkLate, sdkUnlocked, sdkOutcome>>
      /\ Sdk!Builds' = Sdk!Builds /\ Sdk!Teardowns' = Sdk!Teardowns
            /\ sdkRunner' = [sdkRunner EXCEPT ![r] = "capturing"]
      /\ sdkSummary' = IF sdkStarted[r] = sdkGeneration THEN r ELSE sdkSummary
  BY DEF Sdk!RunSettles, Sdk!initVars, Sdk!Builds, Sdk!Teardowns
<1>2. Sdk!InProgress' = Sdk!InProgress
  BY <1>0, <1>1, SdkRunnerMoved DEF Sdk!InProgress
<1>3. Sdk!Ours' = Sdk!Ours
  BY <1>1, <1>2 DEF Sdk!Ours
<1>4. Sdk!RunsTyped' /\ Sdk!OneRun' /\ Sdk!RunsInPeace'
  BY <1>0, <1>1, <1>2, <1>3, SdkRunnerMoved
     DEF Sdk!RunsInv, Sdk!RunsTyped, Sdk!OneRun, Sdk!RunsInPeace
<1>5. \A q \in {sdkSummary, sdkOutcome}' \ {None} : Sdk!Reports(q)'
  BY <1>0, <1>1, SdkRunnerMoved, SdkMayReport DEF Sdk!RunsInv, Sdk!RunsTyped, Sdk!Reports
<1> QED
  BY <1>4, <1>5 DEF Sdk!RunsInv

LEMMA SdkCapturing == ASSUME Sdk!RunsInv, NEW r \in Runner, Sdk!Captured(r)
   PROVE Sdk!RunsInv'
<1>0. Sdk!RunsTyped /\ r \in Sdk!InProgress
  BY DEF Sdk!RunsInv, Sdk!Captured, Sdk!Unlock, Sdk!InProgress
<1>1. /\ UNCHANGED <<sdkInitialized, sdkLifetime, sdkGeneration, sdkOpener, sdkCloser, sdkStarted,
                     sdkBornIn, sdkLate, sdkSummary>>
      /\ Sdk!Builds' = Sdk!Builds /\ Sdk!Teardowns' = Sdk!Teardowns
            /\ sdkRunner' = [sdkRunner EXCEPT ![r] = "done"] /\ sdkRunning' = FALSE
      /\ sdkOutcome' = (IF sdkStarted[r] = sdkGeneration THEN r ELSE sdkOutcome)
      /\ sdkUnlocked' = (sdkUnlocked \/ \E q \in Sdk!InProgress \ {r} : sdkBornIn[q] = sdkLifetime)
  BY DEF Sdk!Captured, Sdk!Unlock, Sdk!initVars, Sdk!Builds, Sdk!Teardowns
<1>2. Sdk!InProgress' = Sdk!InProgress \ {r}
  BY <1>0, <1>1, SdkRunnerMoved DEF Sdk!InProgress
<1>3. Sdk!RunsTyped' /\ Sdk!RunsInPeace'
  BY <1>0, <1>1, <1>2, SdkRunnerMoved DEF Sdk!RunsInv, Sdk!RunsTyped, Sdk!RunsInPeace
<1>4. Sdk!OneRun'
  <2>1. ~sdkUnlocked' => Sdk!Ours' = {}
    BY <1>1, <1>2 DEF Sdk!Ours
  <2> QED
    BY <2>1 DEF Sdk!OneRun
<1>5. \A q \in {sdkSummary, sdkOutcome}' \ {None} : Sdk!Reports(q)'
  BY <1>0, <1>1, SdkRunnerMoved, SdkMayReport DEF Sdk!RunsInv, Sdk!RunsTyped, Sdk!Reports
<1> QED
  BY <1>3, <1>4, <1>5 DEF Sdk!RunsInv

(* Which it is, of each of a caller's steps.                               *)
LEMMA SdkOpenerToRuns ==
  ASSUME Sdk!SdkTyped, NEW o \in Opener, NEW p \in {"waiting", "joined", "done"},
         Sdk!OpenerGoes(o, p)
  PROVE  /\ {q \in Opener : sdkOpener'[q] = "building"} \subseteq {q \in Opener : sdkOpener[q] = "building"}
         /\ {q \in Opener : sdkOpener'[q] = "undoing"} \subseteq {q \in Opener : sdkOpener[q] = "undoing"}
BY SdkOpenerMoved

LEMMA SdkEnterToRuns == ASSUME Sdk!SdkTyped, NEW o \in Opener, Sdk!Enter(o)
   PROVE Sdk!NothingToRuns
<1>1. /\ UNCHANGED <<sdkRunner, sdkStarted, sdkBornIn, sdkLate, sdkUnlocked, sdkRunning,
                     sdkSummary, sdkOutcome>>
      /\ UNCHANGED <<sdkInitialized, sdkGeneration, sdkLifetime, sdkCloser>>
  BY DEF Sdk!Enter, Sdk!runVars, Sdk!lastVars
<1>2. sdkInitialized => Sdk!OpenerGoes(o, "done")
  BY DEF Sdk!Enter
<1> QED
  BY <1>1, <1>2, SdkOpenerToRuns
     DEF Sdk!NothingToRuns, Sdk!NoRunMoves, Sdk!Builds, Sdk!Teardowns

LEMMA SdkCoalesceToRuns ==
  ASSUME Sdk!SdkTyped, NEW c \in Closer, Sdk!Coalesce(c)
  PROVE  Sdk!NothingToRuns \/ (Sdk!RunsTyped => Sdk!GenerationEnds)
<1>1. /\ UNCHANGED <<sdkRunner, sdkStarted, sdkBornIn, sdkLate, sdkUnlocked, sdkRunning,
                     sdkSummary, sdkOutcome>>
      /\ UNCHANGED <<sdkInitialized, sdkLifetime, sdkOpener>> /\ Sdk!Builds' = Sdk!Builds
  BY DEF Sdk!Coalesce, Sdk!runVars, Sdk!lastVars, Sdk!initVars, Sdk!Builds
<1>2. CASE sdkShutdownPromise # None
  <2>1. Sdk!CloserGoes(c, "joined") /\ UNCHANGED sdkGeneration
    BY <1>2 DEF Sdk!Coalesce
  <2> QED
    BY <1>1, <2>1, SdkCloserMoved DEF Sdk!NothingToRuns, Sdk!NoRunMoves, Sdk!Teardowns
<1>3. CASE sdkShutdownPromise = None
  BY <1>1, <1>3 DEF Sdk!Coalesce, Sdk!GenerationEnds, Sdk!NoRunMoves
<1> QED
  BY <1>2, <1>3

LEMMA SdkShutToRuns ==
  ASSUME Sdk!SdkTyped, NEW c \in Closer, Sdk!Shut(c)
  PROVE  Sdk!NothingToRuns \/ (Sdk!RunsTyped => Sdk!GenerationEnds)
<1>1. \/ \E p \in {"done", "waiting"} :
           /\ Sdk!CloserGoes(c, p) /\ UNCHANGED <<sdkRunner, sdkStarted, sdkBornIn, sdkLate,
                                                  sdkUnlocked, sdkRunning, sdkSummary, sdkOutcome>>
           /\ UNCHANGED <<sdkInitialized, sdkGeneration, sdkLifetime, sdkOpener>>
      \/ Sdk!Coalesce(c)
  BY DEF Sdk!Shut, Sdk!runVars, Sdk!lastVars, Sdk!initVars
<1>2. ASSUME NEW p \in {"done", "waiting"}, Sdk!CloserGoes(c, p),
             UNCHANGED <<sdkRunner, sdkStarted, sdkBornIn, sdkLate, sdkUnlocked, sdkRunning,
                         sdkSummary, sdkOutcome>>,
             UNCHANGED <<sdkInitialized, sdkGeneration, sdkLifetime, sdkOpener>>
      PROVE  Sdk!NothingToRuns
  BY <1>2, SdkCloserMoved DEF Sdk!NothingToRuns, Sdk!NoRunMoves, Sdk!Builds, Sdk!Teardowns
<1> QED
  BY <1>1, <1>2, SdkCoalesceToRuns

LEMMA SdkRunsStep == Sdk!SdkInv /\ [Sdk!Next]_Sdk!sdkVars => Sdk!RunsInv'
<1> SUFFICES ASSUME Sdk!SdkInv, [Sdk!Next]_Sdk!sdkVars PROVE Sdk!RunsInv'
  OBVIOUS
<1>0. Sdk!SdkTyped /\ Sdk!RunsInv /\ Sdk!RunsTyped
  BY DEF Sdk!SdkInv, Sdk!CallersInv, Sdk!RunsInv
<1>a. Sdk!NothingToRuns => Sdk!RunsInv'
  BY <1>0, SdkNothingKeeps
<1>b. Sdk!GenerationEnds => Sdk!RunsInv'
  BY <1>0, SdkGenerationKeeps
<1>1. ASSUME NEW o \in Opener, Sdk!Open(o) PROVE Sdk!RunsInv'
  <2>1. CASE Sdk!Enter(o)
    BY <1>0, <1>a, <2>1, SdkEnterToRuns
  <2>2. CASE /\ Sdk!OpenerGoes(o, "waiting")
             /\ UNCHANGED <<sdkRunner, sdkStarted, sdkBornIn, sdkLate, sdkUnlocked, sdkRunning,
                            sdkSummary, sdkOutcome>>
             /\ UNCHANGED <<sdkInitialized, sdkGeneration, sdkLifetime, sdkCloser>>
    BY <1>0, <1>a, <2>2, SdkOpenerToRuns
       DEF Sdk!NothingToRuns, Sdk!NoRunMoves, Sdk!Builds, Sdk!Teardowns
  <2> QED
    BY <1>1, <2>1, <2>2 DEF Sdk!Open, Sdk!initVars, Sdk!runVars, Sdk!lastVars
<1>2. ASSUME NEW o \in Opener, Sdk!OpenWaited(o) PROVE Sdk!RunsInv'
  BY <1>0, <1>2, <1>a, SdkEnterToRuns DEF Sdk!OpenWaited
<1>3. ASSUME NEW o \in Opener, Sdk!OpenJoined(o) PROVE Sdk!RunsInv'
  <2>1. /\ Sdk!OpenerGoes(o, "done")
        /\ UNCHANGED <<sdkRunner, sdkStarted, sdkBornIn, sdkLate, sdkUnlocked, sdkRunning,
                       sdkSummary, sdkOutcome>>
        /\ UNCHANGED <<sdkInitialized, sdkGeneration, sdkLifetime, sdkCloser>>
    BY <1>3 DEF Sdk!OpenJoined, Sdk!initVars, Sdk!runVars, Sdk!lastVars
  <2> QED
    BY <1>0, <1>a, <2>1, SdkOpenerToRuns
       DEF Sdk!NothingToRuns, Sdk!NoRunMoves, Sdk!Builds, Sdk!Teardowns
<1>4. ASSUME NEW o \in Opener, Sdk!Built(o) PROVE Sdk!RunsInv'
  <2>1. Sdk!LifetimeBegins
    BY <1>4
       DEF Sdk!Built, Sdk!LifetimeBegins, Sdk!NoRunMoves, Sdk!runVars, Sdk!lastVars,
           Sdk!Builds
  <2> QED
    BY <1>0, <2>1, SdkBeginningKeeps
<1>5. ASSUME NEW o \in Opener, Sdk!BuildFails(o) PROVE Sdk!RunsInv'
  <2>1. Sdk!OpenerGoes(o, "undoing") /\ sdkGeneration' = sdkGeneration + 1
        /\ UNCHANGED <<sdkRunner, sdkStarted, sdkBornIn, sdkLate, sdkUnlocked, sdkRunning,
                       sdkSummary, sdkOutcome, sdkInitialized, sdkLifetime>>
    BY <1>5 DEF Sdk!BuildFails, Sdk!initVars, Sdk!runVars, Sdk!lastVars
  <2>2. Sdk!Builds' \subseteq Sdk!Builds
    BY <1>0, <2>1, SdkOpenerMoved DEF Sdk!Builds
  <2> QED
    BY <1>b, <2>1, <2>2 DEF Sdk!GenerationEnds, Sdk!NoRunMoves
<1>6. ASSUME NEW o \in Opener, Sdk!Undone(o) PROVE Sdk!RunsInv'
  <2>1. Sdk!LifetimeEnds
    BY <1>6
       DEF Sdk!Undone, Sdk!Reset, Sdk!LifetimeEnds, Sdk!NoRunMoves, Sdk!runVars,
           Sdk!Teardowns
  <2> QED
    BY <1>0, <2>1, SdkEndKeeps
<1>7. ASSUME NEW o \in Opener, Sdk!Reject(o) PROVE Sdk!RunsInv'
  <2>1. /\ Sdk!OpenerGoes(o, "done")
        /\ UNCHANGED <<sdkRunner, sdkStarted, sdkBornIn, sdkLate, sdkUnlocked, sdkRunning,
                       sdkSummary, sdkOutcome>>
        /\ UNCHANGED <<sdkInitialized, sdkGeneration, sdkLifetime, sdkCloser>>
    BY <1>7 DEF Sdk!Reject, Sdk!initVars, Sdk!runVars, Sdk!lastVars
  <2> QED
    BY <1>0, <1>a, <2>1, SdkOpenerToRuns
       DEF Sdk!NothingToRuns, Sdk!NoRunMoves, Sdk!Builds, Sdk!Teardowns
<1>8. ASSUME NEW c \in Closer, Sdk!Close(c) \/ Sdk!Signal(c) PROVE Sdk!RunsInv'
  BY <1>0, <1>8, <1>a, <1>b, SdkShutToRuns DEF Sdk!Close, Sdk!Signal
<1>9. ASSUME NEW c \in Closer, Sdk!CloseWaited(c) PROVE Sdk!RunsInv'
  BY <1>0, <1>9, <1>a, <1>b, SdkCoalesceToRuns DEF Sdk!CloseWaited
<1>10. ASSUME NEW c \in Closer, Sdk!CloseJoined(c) PROVE Sdk!RunsInv'
  <2>1. /\ Sdk!CloserGoes(c, "done")
        /\ UNCHANGED <<sdkRunner, sdkStarted, sdkBornIn, sdkLate, sdkUnlocked, sdkRunning,
                       sdkSummary, sdkOutcome>>
        /\ UNCHANGED <<sdkInitialized, sdkGeneration, sdkLifetime, sdkOpener>>
    BY <1>10 DEF Sdk!CloseJoined, Sdk!initVars, Sdk!runVars, Sdk!lastVars
  <2> QED
    BY <1>0, <1>a, <2>1, SdkCloserMoved
       DEF Sdk!NothingToRuns, Sdk!NoRunMoves, Sdk!Builds, Sdk!Teardowns
<1>11. ASSUME NEW c \in Closer, Sdk!TornDown(c) PROVE Sdk!RunsInv'
  <2>1. Sdk!LifetimeEnds
    BY <1>11
       DEF Sdk!TornDown, Sdk!Reset, Sdk!LifetimeEnds, Sdk!NoRunMoves, Sdk!runVars,
           Sdk!Teardowns
  <2> QED
    BY <1>0, <2>1, SdkEndKeeps
<1>12. ASSUME NEW r \in Runner, Sdk!Run(r) \/ Sdk!RunSettles(r) \/ Sdk!Captured(r)
   PROVE Sdk!RunsInv'
  BY <1>0, <1>12, SdkRunning, SdkRunSettling, SdkCapturing
<1>13. CASE UNCHANGED Sdk!sdkVars
  BY <1>a, <1>13
     DEF Sdk!sdkVars, Sdk!NothingToRuns, Sdk!NoRunMoves, Sdk!Builds, Sdk!Teardowns
<1> QED
  BY <1>1, <1>2, <1>3, <1>4, <1>5, <1>6, <1>7, <1>8, <1>9, <1>10, <1>11, <1>12, <1>13
     DEF Sdk!Next

LEMMA SdkFew == ASSUME NEW S, \A x, y \in S : x = y PROVE Sdk!Cardinality(S) <= 1
<1>1. CASE S = {}
  BY SdkCounting, <1>1, FS_EmptySet
<1>2. ASSUME NEW x \in S PROVE Sdk!Cardinality(S) <= 1
  <2>1. S = {x}
    BY <1>2
  <2>2. Sdk!Cardinality({x}) = 1
    BY SdkCounting, FS_Singleton
  <2> QED
    BY <2>1, <2>2
<1> QED
  BY <1>1, <1>2

LEMMA SdkSeparate == Sdk!SdkInv => Sdk!LifetimesAreSeparate
<1> SUFFICES ASSUME Sdk!SdkInv PROVE Sdk!LifetimesAreSeparate
  OBVIOUS
<1>1. sdkSlipped \/ Sdk!Cardinality(Sdk!Builds) + Sdk!Cardinality(Sdk!Teardowns) <= 1
  <2> SUFFICES ASSUME ~sdkSlipped
     PROVE Sdk!Cardinality(Sdk!Builds) + Sdk!Cardinality(Sdk!Teardowns) <= 1
    OBVIOUS
  <2>1. Sdk!SdkTyped /\ Sdk!Promised /\ Sdk!OneAtWork
    BY DEF Sdk!SdkInv, Sdk!CallersInv
  <2>2. (\A o, p \in Sdk!Builds : o = p) /\ (\A o, p \in Sdk!Teardowns : o = p)
           /\ (Sdk!Builds = {} \/ Sdk!Teardowns = {})
    BY <2>1, SdkSettingHolds, SdkApart
       DEF Sdk!Promised, Sdk!OneAtWork, Sdk!Builds, Sdk!Teardowns
  <2>3. Sdk!Cardinality(Sdk!Builds) <= 1 /\ Sdk!Cardinality(Sdk!Teardowns) <= 1
    BY <2>2, SdkFew
  <2>4. Sdk!Cardinality({}) = 0
    BY SdkCounting, FS_EmptySet
  <2>5. Sdk!Cardinality(Sdk!Builds) \in {0, 1} /\ Sdk!Cardinality(Sdk!Teardowns) \in {0, 1}
    <3>1. Sdk!IsFiniteSet(Sdk!Builds) /\ Sdk!IsFiniteSet(Sdk!Teardowns)
      <4>1. \A S : (\A x, y \in S : x = y) => Sdk!IsFiniteSet(S)
        <5> SUFFICES ASSUME NEW S, \A x, y \in S : x = y PROVE Sdk!IsFiniteSet(S)
          OBVIOUS
        <5>1. S = {} \/ \E x : S = {x}
          OBVIOUS
        <5> QED
          BY SdkCounting, <5>1, FS_EmptySet, FS_Singleton
      <4> QED
        BY <2>2, <4>1
    <3>2. Sdk!Cardinality(Sdk!Builds) \in Nat /\ Sdk!Cardinality(Sdk!Teardowns) \in Nat
      BY SdkCounting, <3>1, FS_CardinalityType
    <3> QED
      BY <2>3, <3>2
  <2> QED
    BY <2>2, <2>4, <2>5
<1>2. \A r \in {sdkSummary, sdkOutcome} \ {None} : r \in sdkLate \/ sdkBornIn[r] = sdkLifetime
  BY DEF Sdk!SdkInv, Sdk!RunsInv, Sdk!Reports
<1>3. sdkUnlocked
         \/ Sdk!Cardinality({r \in Sdk!InProgress \ sdkLate : sdkBornIn[r] = sdkLifetime}) <= 1
  BY SdkFew DEF Sdk!SdkInv, Sdk!RunsInv, Sdk!OneRun, Sdk!Ours
<1> QED
  BY <1>1, <1>2, <1>3 DEF Sdk!LifetimesAreSeparate

(* Whoever opens, closes and runs, and however initializations end: the    *)
(* lifetimes of the SDK are separate.                                      *)
THEOREM LifetimesApart == Sdk!Spec => []Sdk!LifetimesAreSeparate
<1>1. Sdk!Init => Sdk!SdkInv
  <2> SUFFICES ASSUME Sdk!Init PROVE Sdk!SdkInv
    OBVIOUS
  <2>1. Sdk!SdkTyped
    BY DEF Sdk!Init, Sdk!SdkTyped
  <2>2. Sdk!Promised
    BY SdkSettingHolds, SdkApart
       DEF Sdk!Init, Sdk!Promised, Sdk!OpenerWaits, Sdk!CloserWaits
  <2>3. Sdk!LimboIsEmpty /\ Sdk!OneAtWork
    BY DEF Sdk!Init, Sdk!LimboIsEmpty, Sdk!Limbo, Sdk!OneAtWork
  <2>4. Sdk!InProgress = {}
    BY DEF Sdk!Init, Sdk!InProgress
  <2>5. Sdk!RunsTyped
    <3>1. /\ sdkRunner \in [Runner -> {"idle", "running", "capturing", "done"}]
          /\ sdkStarted \in [Runner -> Nat] /\ sdkBornIn \in [Runner -> Nat]
          /\ \A r \in Runner : sdkStarted[r] = 0 /\ sdkBornIn[r] = 0
      BY DEF Sdk!Init
    <3>2. sdkGeneration = 0 /\ sdkLifetime = 0 /\ sdkSummary = None /\ sdkOutcome = None
             /\ sdkInitialized = FALSE /\ sdkUnlocked = FALSE
      BY DEF Sdk!Init
    <3>3. \A r \in Runner : sdkStarted[r] <= sdkGeneration /\ sdkBornIn[r] <= sdkLifetime
      BY <3>1, <3>2
    <3>4. {sdkSummary, sdkOutcome} \subseteq Runner \cup {None}
      BY <3>2
    <3> QED
      BY <3>1, <3>2, <3>3, <3>4, Zenon DEF Sdk!RunsTyped
  <2>6. Sdk!RunsInPeace /\ Sdk!OneRun
           /\ (\A r \in {sdkSummary, sdkOutcome} \ {None} : Sdk!Reports(r))
    BY <2>4 DEF Sdk!Init, Sdk!RunsInPeace, Sdk!OneRun, Sdk!Ours
  <2> QED
    BY <2>1, <2>2, <2>3, <2>5, <2>6 DEF Sdk!SdkInv, Sdk!CallersInv, Sdk!RunsInv
<1>2. Sdk!SdkInv /\ [Sdk!Next]_Sdk!sdkVars => Sdk!SdkInv'
  BY SdkCallersStep, SdkRunsStep DEF Sdk!SdkInv
<1> QED
  BY <1>1, <1>2, SdkSeparate, PTL DEF Sdk!Spec

-----------------------------------------------------------------------------
(* The loading of a page.                                                  *)
VARIABLES
  browseStep, browseClosed, browseLate, browseArrived, browseBad,
  browseUnchecked, browseAwaited, browsePoisoned, browseOversized,
  browseSeen, browseResult
Browse == INSTANCE ScrapeTask WITH
  step <- browseStep, closed <- browseClosed, late <- browseLate,
  arrived <- browseArrived, bad <- browseBad, unchecked <- browseUnchecked,
  awaited <- browseAwaited, poisoned <- browsePoisoned,
  oversized <- browseOversized, seen <- browseSeen, result <- browseResult,
  Response <- Response
browseVars == <<browseStep, browseClosed, browseLate, browseArrived, browseBad,
  browseUnchecked, browseAwaited, browsePoisoned, browseOversized,
  browseSeen, browseResult>>

LEMMA BrowseFailing ==
  ASSUME Browse!BrowseInv, NEW why \in {"other", "blocked", "poisoned", "http", "size"},
         Browse!Fail(why)
  PROVE  Browse!BrowseInv'
BY DEF Browse!Fail, Browse!Go, Browse!events, Browse!BrowseInv, Browse!ContentIsInspected

LEMMA BrowseStep == Browse!BrowseInv /\ [Browse!Next]_Browse!taskVars => Browse!BrowseInv'
<1> SUFFICES ASSUME Browse!BrowseInv, [Browse!Next]_Browse!taskVars PROVE Browse!BrowseInv'
  OBVIOUS
<1>1. ASSUME NEW r \in Response, Browse!Inspect(r) PROVE Browse!BrowseInv'
  BY <1>1 DEF Browse!Inspect, Browse!BrowseInv, Browse!ContentIsInspected
<1>2. ASSUME NEW r \in Response, NEW w \in BOOLEAN, Browse!Respond(r, w)
   PROVE Browse!BrowseInv'
  BY <1>2 DEF Browse!Respond, Browse!Running, Browse!BrowseInv, Browse!ContentIsInspected
<1>3. CASE Browse!Start
  BY <1>3
     DEF Browse!Start, Browse!Go, Browse!events, Browse!BrowseInv, Browse!ContentIsInspected
<1>4. CASE Browse!DeclaredTooLarge
  BY <1>4
     DEF Browse!DeclaredTooLarge, Browse!Running, Browse!BrowseInv,
         Browse!ContentIsInspected
<1>5. CASE Browse!Deadline
  BY <1>5
     DEF Browse!Deadline, Browse!Running, Browse!events, Browse!BrowseInv,
         Browse!ContentIsInspected
<1>6. ASSUME NEW why \in {"other", "blocked", "poisoned", "http", "size"}, Browse!Fail(why)
   PROVE Browse!BrowseInv'
  BY <1>6, BrowseFailing
<1>7. ASSUME NEW k, Browse!Loaded(k) PROVE Browse!BrowseInv'
  BY <1>7
     DEF Browse!Loaded, Browse!Go, Browse!events, Browse!BrowseInv,
         Browse!ContentIsInspected
<1>8. CASE Browse!DownloadStarts \/ Browse!Evicted
  BY <1>8
     DEF Browse!DownloadStarts, Browse!Evicted, Browse!Go, Browse!events, Browse!BrowseInv,
         Browse!ContentIsInspected
<1>9. CASE Browse!Downloaded \/ Browse!Body \/ Browse!Refetched
  BY <1>9
     DEF Browse!Downloaded, Browse!Body, Browse!Refetched, Browse!Go, Browse!events,
         Browse!BrowseInv, Browse!ContentIsInspected
<1>10. ASSUME NEW next \in {"challenge", "idle", "jitter"}, Browse!Content(next)
   PROVE Browse!BrowseInv'
  BY <1>10
     DEF Browse!Content, Browse!Go, Browse!events, Browse!BrowseInv,
         Browse!ContentIsInspected
<1>11. CASE Browse!JitterEnds
  BY <1>11
     DEF Browse!JitterEnds, Browse!Go, Browse!events, Browse!BrowseInv,
         Browse!ContentIsInspected
<1>12. CASE Browse!Settled /\ ~browsePoisoned
  BY <1>12
     DEF Browse!Settled, Browse!Go, Browse!events, Browse!BrowseInv,
         Browse!ContentIsInspected
<1>13. CASE UNCHANGED Browse!taskVars
  BY <1>13 DEF Browse!taskVars, Browse!BrowseInv, Browse!ContentIsInspected
<1>14. ASSUME NEW why \in {"http", "size"}, Browse!Unusable(why) PROVE Browse!BrowseInv'
  BY <1>6, <1>14 DEF Browse!Unusable
<1>15. CASE Browse!Rejects \/ Browse!LoadedBlocked \/ Browse!ChallengeStays \/ Browse!IdleRejects
               \/ Browse!JitterEndsBlocked \/ (Browse!Settled /\ browsePoisoned)
  BY <1>6, <1>15
     DEF Browse!Rejects, Browse!LoadedBlocked, Browse!ChallengeStays, Browse!IdleRejects,
         Browse!JitterEndsBlocked, Browse!Settled
<1> QED
  BY <1>1, <1>2, <1>3, <1>4, <1>5, <1>7, <1>8, <1>9, <1>10, <1>11, <1>12, <1>13, <1>14,
     <1>15 DEF Browse!Next

(* Whatever responses a page receives, content returned of a page that     *)
(* neither its deadline nor an oversized document closed holds nothing     *)
(* that was withheld or is not inspected.                                  *)
THEOREM FenceSeesAll == Browse!Spec => []Browse!ContentIsInspected
<1>1. Browse!Init => Browse!BrowseInv
  BY DEF Browse!Init, Browse!BrowseInv, Browse!ContentIsInspected
<1>2. Browse!BrowseInv => Browse!ContentIsInspected
  BY DEF Browse!BrowseInv
<1> QED
  BY <1>1, <1>2, BrowseStep, PTL DEF Browse!Spec

-----------------------------------------------------------------------------
(* The settings.                                                           *)
VARIABLES
  configStart, configConfig, configRegistry, configLegacy, configVersion,
  configSaves, configLock, configClaimed, configAlive, configEnv, configAt,
  configJob, configTries, configJudged, configSnapshot, configStamp,
  configView, configCache, configMenu, configStore, configChosen,
  configPicked, configBreach, configMisplaced
Config == INSTANCE Settings WITH
  start <- configStart, config <- configConfig, registry <- configRegistry,
  legacy <- configLegacy, version <- configVersion, saves <- configSaves,
  lock <- configLock, claimed <- configClaimed, alive <- configAlive,
  env <- configEnv, at <- configAt, job <- configJob, tries <- configTries,
  judged <- configJudged, snapshot <- configSnapshot, stamp <- configStamp,
  view <- configView, cache <- configCache, menu <- configMenu,
  store <- configStore, chosen <- configChosen, picked <- configPicked,
  breach <- configBreach, misplaced <- configMisplaced, Proc <- Proc,
  Standalone <- Standalone, Dir <- Dir, CwdOf <- CwdOf, Env <- Env,
  Overlay <- Overlay, Named <- Named, Starts <- Starts, Values <- Values,
  Inodes <- Inodes, MaxTries <- MaxTries, MaxSaves <- MaxSaves,
  NoLock <- None
configVars == <<configStart, configConfig, configRegistry, configLegacy, configVersion,
  configSaves, configLock, configClaimed, configAlive, configEnv, configAt,
  configJob, configTries, configJudged, configSnapshot, configStamp,
  configView, configCache, configMenu, configStore, configChosen,
  configPicked, configBreach, configMisplaced>>

(* What the proofs need of its parameters.                                 *)
ASSUME SettingsSettingHolds == Config!SettingsSetting

LEMMA Layered ==
  /\ \A h, l \in Config!Layer : Config!Over(h, l) \in Config!Layer
  /\ \A l \in Config!Layer : \A ks : Config!Only(l, ks) \in Config!Layer
  /\ Config!Empty \in Config!Layer /\ Config!Nothing \in Config!Disk
        /\ Config!NoCache \in Config!Kept /\ Config!Closed \in Config!Menu
              /\ Config!NoJob \in Config!Job /\ Config!Leftover \in Config!Lock
<1>1. \A h, l \in Config!Layer : Config!Over(h, l) \in Config!Layer
  BY DEF Config!Over, Config!Layer
<1>2. \A l \in Config!Layer : \A ks : Config!Only(l, ks) \in Config!Layer
  BY DEF Config!Only, Config!Layer
<1>3. Config!Empty \in Config!Layer
  BY DEF Config!Empty, Config!Layer
<1>4. Config!Nothing \in Config!Disk /\ Config!NoCache \in Config!Kept
         /\ Config!Closed \in Config!Menu
  BY <1>3
     DEF Config!Nothing, Config!NoCache, Config!Closed, Config!Disk, Config!Kept,
         Config!Menu, Config!Stamp
<1>5. Config!NoJob \in Config!Job
  BY <1>3 DEF Config!NoJob, Config!Job, Config!File, Config!Returns
<1>6. Config!Leftover \in Config!Lock
  BY DEF Config!Leftover, Config!Lock
<1> QED
  BY <1>1, <1>2, <1>3, <1>4, <1>5, <1>6

LEMMA TypedFirst == Config!Init => Config!SettingsTyped
<1> SUFFICES ASSUME Config!Init PROVE Config!SettingsTyped
  OBVIOUS
<1>0. configStart \in [legacy : [Dir -> Config!Layer], home : Config!Layer, dead : SUBSET Config!File, deaths : Nat]
  BY SettingsSettingHolds DEF Config!Init, Config!SettingsSetting
<1>1. configConfig \in Config!Layer /\ configRegistry \in [Dir -> Config!Layer]
         /\ configChosen \in Config!Disk
  BY Layered DEF Config!Init
<1>2. configLegacy \in [Dir -> BOOLEAN] /\ configVersion \in [Config!File -> Nat]
         /\ configSaves \in Nat
  BY DEF Config!Init
<1>3. configLock \in [Config!File -> Config!Lock \cup {None}]
         /\ configClaimed \in [Proc -> Config!Lock \cup {None}]
               /\ configJudged \in [Proc -> Config!Lock \cup {None}]
  BY Layered DEF Config!Init
<1>4. configAlive \in [Proc -> BOOLEAN] /\ configEnv \in [Proc -> Config!Layer]
  BY SettingsSettingHolds DEF Config!Init, Config!SettingsSetting
<1>5. configAt \in [Proc -> {"start", "idle", "load", "files", "keep", "saved", "model"} \cup Config!Saving]
  BY DEF Config!Init
<1>6. configJob \in [Proc -> Config!Job] /\ configSnapshot \in [Proc -> Config!Disk]
         /\ configView \in [Proc -> Config!Layer] /\ configCache \in [Proc -> Config!Kept]
               /\ configMenu \in [Proc -> Config!Menu]
  BY Layered DEF Config!Init
<1>7. configStamp \in [Proc -> Config!Stamp]
  BY DEF Config!Init, Config!Stamp
<1> QED
  BY <1>0, <1>1, <1>2, <1>3, <1>4, <1>5, <1>6, <1>7 DEF Config!SettingsTyped

LEMMA Printed ==
  ASSUME Config!SettingsTyped, NEW p \in Proc
  PROVE  Config!Fingerprint(p) \in Config!Stamp /\ Config!LegacyOf(CwdOf[p]) \in Config!Layer
         /\ \A b, m \in Config!Layer : Config!Resolved(p, b, m) \in Config!Layer
<1>1. CwdOf[p] \in Dir /\ Overlay[p] \in Config!Layer
  BY SettingsSettingHolds DEF Config!SettingsSetting
<1>2. Config!Fingerprint(p) \in Config!Stamp
  BY <1>1 DEF Config!Fingerprint, Config!Stamp, Config!SettingsTyped, Config!File
<1>3. Config!LegacyOf(CwdOf[p]) \in Config!Layer
  <2>1. configStart.legacy[CwdOf[p]] \in Config!Layer
    BY <1>1 DEF Config!SettingsTyped
  <2> QED
    BY <2>1, Layered DEF Config!LegacyOf
<1>4. ASSUME NEW b \in Config!Layer, NEW m \in Config!Layer
   PROVE Config!Resolved(p, b, m) \in Config!Layer
  <2>1. configEnv[p] \in Config!Layer
    BY DEF Config!SettingsTyped
  <2>2. Config!Only(m, Config!Local) \in Config!Layer /\ Config!Over(Overlay[p], b) \in Config!Layer
    BY <1>1, Layered
  <2>3. Config!Over(Config!LegacyOf(CwdOf[p]), Config!Only(m, Config!Local)) \in Config!Layer
    BY <1>3, <2>2, Layered
  <2>4. Config!Over(Config!Over(Config!LegacyOf(CwdOf[p]), Config!Only(m, Config!Local)), Config!Over(Overlay[p], b)) \in Config!Layer
    BY <2>2, <2>3, Layered
  <2> QED
    BY <2>1, <2>4, Layered DEF Config!Resolved
<1> QED
  BY <1>2, <1>3, <1>4

LEMMA Job1 ==
  ASSUME Config!SettingsTyped, NEW p \in Proc
  PROVE  /\ configJob[p].file \in Config!File /\ configJob[p].whole \in Config!Layer
               /\ configJob[p].changed \in SUBSET Config!Keys
         /\ configJob[p].then \in Config!Returns /\ configJob[p].held \in Config!Lock \cup {None}
         /\ \A h \in Config!Lock \cup {None} : [configJob EXCEPT ![p].held = h] \in [Proc -> Config!Job]
         /\ \A b \in BOOLEAN : [configJob EXCEPT ![p].ok = b] \in [Proc -> Config!Job]
         /\ \A j \in Config!Job : [configJob EXCEPT ![p] = j] \in [Proc -> Config!Job]
<1>1. configJob[p] \in Config!Job
  BY DEF Config!SettingsTyped
<1> QED
  BY <1>1 DEF Config!SettingsTyped, Config!Job

LEMMA Place1 ==
  ASSUME Config!SettingsTyped, NEW p \in Proc,
         NEW w \in {"start", "idle", "load", "files", "keep", "saved", "model"} \cup Config!Saving
  PROVE  [configAt EXCEPT ![p] = w] \in [Proc -> {"start", "idle", "load", "files", "keep", "saved", "model"} \cup Config!Saving]
BY DEF Config!SettingsTyped

LEMMA SaveTyped ==
  ASSUME Config!SettingsTyped, NEW p \in Proc, NEW f \in Config!File,
         NEW w \in Config!Layer, NEW c \in SUBSET Config!Keys, NEW t \in Config!Returns,
         Config!Save(p, f, w, c, t)
  PROVE  configJob' \in [Proc -> Config!Job]
            /\ configAt' \in [Proc -> {"start", "idle", "load", "files", "keep", "saved", "model"} \cup Config!Saving]
<1>1. [file |-> f, whole |-> w, changed |-> c, then |-> t, held |-> None, ok |-> TRUE] \in Config!Job
  BY DEF Config!Job
<1> QED
  BY <1>1, Job1, Place1 DEF Config!Save, Config!Goes, Config!Saving

LEMMA ForgetTyped ==
  ASSUME Config!SettingsTyped, NEW p \in Proc, Config!Forgets(p)
  PROVE  /\ configJob' \in [Proc -> Config!Job]
               /\ configJudged' \in [Proc -> Config!Lock \cup {None}]
                     /\ configSnapshot' \in [Proc -> Config!Disk]
         /\ configStamp' \in [Proc -> Config!Stamp] /\ configView' \in [Proc -> Config!Layer]
<1>1. <<>> \in Config!Stamp
  BY DEF Config!Stamp
<1> QED
  BY <1>1, Layered, Job1 DEF Config!Forgets, Config!SettingsTyped

LEMMA TypedStep == Config!SettingsTyped /\ [Config!Next]_Config!settingsVars
   => Config!SettingsTyped'
<1> SUFFICES ASSUME Config!SettingsTyped, [Config!Next]_Config!settingsVars
   PROVE Config!SettingsTyped'
  OBVIOUS
<1> USE DEF Config!Goes
<1>1. ASSUME NEW p \in Proc, Config!Bridge(p) PROVE Config!SettingsTyped'
  <2>1. Config!Over(configEnv[p], Config!Over(Named[p], Config!Only(Config!Over(Overlay[p], configConfig), Config!User))) \in Config!Layer
    <3>1. Overlay[p] \in Config!Layer /\ Named[p] \in Config!Layer /\ configEnv[p] \in Config!Layer
             /\ configConfig \in Config!Layer
      BY SettingsSettingHolds DEF Config!SettingsTyped, Config!SettingsSetting
    <3>2. Config!Only(Config!Over(Overlay[p], configConfig), Config!User) \in Config!Layer
      BY <3>1, Layered
    <3>3. Config!Over(Named[p], Config!Only(Config!Over(Overlay[p], configConfig), Config!User)) \in Config!Layer
      BY <3>1, <3>2, Layered
    <3> QED
      BY <3>1, <3>3, Layered
  <2>2. configEnv' \in [Proc -> Config!Layer]
    BY <1>1, <2>1 DEF Config!Bridge, Config!SettingsTyped
  <2> QED
    BY <1>1, <2>2, Place1
       DEF Config!Bridge, Config!SettingsTyped, Config!diskVars, Config!lockVars
<1>2. ASSUME NEW p \in Proc, Config!GetConfig(p) PROVE Config!SettingsTyped'
  <2>1. configStamp' \in [Proc -> Config!Stamp]
    BY <1>2, Printed DEF Config!GetConfig, Config!SettingsTyped
  <2> QED
    BY <1>2, <2>1, Place1
       DEF Config!GetConfig, Config!SettingsTyped, Config!diskVars, Config!lockVars,
           Config!restVars
<1>3. ASSUME NEW p \in Proc, Config!ReadRegistry(p) PROVE Config!SettingsTyped'
  <2>1. configView' \in [Proc -> Config!Layer]
    BY <1>3, SettingsSettingHolds
       DEF Config!ReadRegistry, Config!SettingsTyped, Config!SettingsSetting
  <2>2. configStart.home \in Config!Layer
    BY DEF Config!SettingsTyped
  <2>3. configJob' \in [Proc -> Config!Job]
           /\ configAt' \in [Proc -> {"start", "idle", "load", "files", "keep", "saved", "model"} \cup Config!Saving]
    <3> DEFINE kept == {k \in Config!User : configStart.home[k] # Config!Unset}
    <3>1. CASE Config!Save(p, "env", configStart.home, kept, "files")
      <4>1. kept \in SUBSET Config!Keys /\ "env" \in Config!File /\ "files" \in Config!Returns
        BY DEF Config!Keys, Config!File, Config!Returns
      <4> QED
        BY <2>2, <3>1, <4>1, SaveTyped
    <3>2. CASE Config!Goes(p, "files") /\ UNCHANGED <<configJob, configTries>>
      BY <3>2, Place1 DEF Config!SettingsTyped
    <3> QED
      BY <1>3, <3>1, <3>2 DEF Config!ReadRegistry
  <2> QED
    BY <1>3, <2>1, <2>3
       DEF Config!ReadRegistry, Config!SettingsTyped, Config!diskVars, Config!lockVars,
           Config!restVars
<1>4. ASSUME NEW p \in Proc, Config!ReadFiles(p) PROVE Config!SettingsTyped'
  <2> DEFINE old == Config!LegacyOf(CwdOf[p])
             differs == old # Config!Empty /\ Config!Only(configView[p], Config!Local) # old
  <2>1. /\ configView' = [configView EXCEPT ![p] = Config!Resolved(p, configConfig, configView[p])]
        /\ IF differs
              THEN Config!Save(p, "registry", old, {k \in Config!Local : old[k] # Config!Unset}, "keep")
           ELSE Config!Goes(p, "keep") /\ UNCHANGED <<configJob, configTries>>
    BY <1>4 DEF Config!ReadFiles
  <2>2. configView' \in [Proc -> Config!Layer]
    BY <2>1, Printed DEF Config!SettingsTyped
  <2>3. configJob' \in [Proc -> Config!Job]
           /\ configAt' \in [Proc -> {"start", "idle", "load", "files", "keep", "saved", "model"} \cup Config!Saving]
    <3>1. CASE differs
      <4>1. {k \in Config!Local : old[k] # Config!Unset} \in SUBSET Config!Keys
               /\ "registry" \in Config!File /\ "keep" \in Config!Returns /\ old \in Config!Layer
        BY Printed DEF Config!Keys, Config!File, Config!Returns
      <4> QED
        BY <2>1, <3>1, <4>1, SaveTyped
    <3>2. CASE ~differs
      BY <2>1, <3>2, Place1 DEF Config!SettingsTyped
    <3> QED
      BY <3>1, <3>2
  <2> QED
    BY <1>4, <2>2, <2>3
       DEF Config!ReadFiles, Config!SettingsTyped, Config!diskVars, Config!lockVars,
           Config!restVars
<1>5. ASSUME NEW p \in Proc, Config!Keep(p) PROVE Config!SettingsTyped'
  <2>1. configCache' \in [Proc -> Config!Kept]
    <3>1. [stamp |-> configStamp[p], view |-> configView[p]] \in Config!Kept
      BY DEF Config!SettingsTyped, Config!Kept
    <3> QED
      BY <1>5, <3>1 DEF Config!Keep, Config!SettingsTyped
  <2> QED
    BY <1>5, <2>1, ForgetTyped, Place1
       DEF Config!Keep, Config!SettingsTyped, Config!diskVars, Config!lockVars,
           Config!restVars
<1>6. ASSUME NEW p \in Proc, Config!Create(p) PROVE Config!SettingsTyped'
  <2>1. PICK i \in Inodes : /\ configLock' = [configLock EXCEPT ![configJob[p].file] = [ino |-> i, by |-> p, nth |-> configSaves]]
                            /\ configJob' = [configJob EXCEPT ![p].held = [ino |-> i, by |-> p, nth |-> configSaves]] /\ configSaves' = configSaves + 1
    BY <1>6 DEF Config!Create
  <2>2. [ino |-> i, by |-> p, nth |-> configSaves] \in Config!Lock
    BY DEF Config!Lock, Config!SettingsTyped
  <2>3. configLock' \in [Config!File -> Config!Lock \cup {None}] /\ configSaves' \in Nat
    <3>1. configLock' \in [Config!File -> Config!Lock \cup {None}]
      BY <2>1, <2>2 DEF Config!SettingsTyped
    <3> QED
      BY <2>1, <3>1 DEF Config!SettingsTyped
  <2>4. configJob' \in [Proc -> Config!Job]
    BY <2>1, <2>2, Job1
  <2> QED
    BY <1>6, <2>3, <2>4, Place1
       DEF Config!Create, Config!SettingsTyped, Config!diskVars, Config!restVars,
           Config!Saving, Config!Section
<1>7. ASSUME NEW p \in Proc, Config!WaitTurn(p) PROVE Config!SettingsTyped'
  BY <1>7
     DEF Config!WaitTurn, Config!SettingsTyped, Config!diskVars, Config!lockVars,
         Config!restVars
<1>8. ASSUME NEW p \in Proc, Config!Judge(p) PROVE Config!SettingsTyped'
  <2>1. configJudged' \in [Proc -> Config!Lock \cup {None}]
    BY <1>8, Job1 DEF Config!Judge, Config!SettingsTyped
  <2> QED
    BY <1>8, <2>1, Place1
       DEF Config!Judge, Config!SettingsTyped, Config!diskVars, Config!lockVars,
           Config!restVars, Config!Saving
<1>9. ASSUME NEW p \in Proc, Config!Claim(p) PROVE Config!SettingsTyped'
  <2>1. /\ configLock' \in [Config!File -> Config!Lock \cup {None}]
              /\ configClaimed' \in [Proc -> Config!Lock \cup {None}]
        /\ configAt' = [configAt EXCEPT ![p] = "acquire"]
              \/ configAt' = [configAt EXCEPT ![p] = "claimed"]
    BY <1>9, Job1 DEF Config!Claim, Config!SettingsTyped, Config!TriesAgain
  <2> QED
    BY <1>9, <2>1, Place1
       DEF Config!Claim, Config!SettingsTyped, Config!diskVars, Config!restVars,
           Config!Saving
<1>10. ASSUME NEW p \in Proc, Config!Destroy(p) PROVE Config!SettingsTyped'
  <2>1. configClaimed' \in [Proc -> Config!Lock \cup {None}]
           /\ configAt' = [configAt EXCEPT ![p] = "acquire"]
    BY <1>10 DEF Config!Destroy, Config!SettingsTyped, Config!TriesAgain
  <2> QED
    BY <1>10, <2>1, Place1
       DEF Config!Destroy, Config!SettingsTyped, Config!diskVars, Config!restVars,
           Config!Saving
<1>11. ASSUME NEW p \in Proc, Config!PutBack(p) PROVE Config!SettingsTyped'
  <2>0. /\ configLock' = configLock
              \/ configLock' = [configLock EXCEPT ![configJob[p].file] = configClaimed[p]]
        /\ configClaimed' = [configClaimed EXCEPT ![p] = None]
              /\ configAt' = [configAt EXCEPT ![p] = "acquire"]
    BY <1>11 DEF Config!PutBack, Config!TriesAgain
  <2>1. /\ configLock' \in [Config!File -> Config!Lock \cup {None}]
              /\ configClaimed' \in [Proc -> Config!Lock \cup {None}]
        /\ configAt' = [configAt EXCEPT ![p] = "acquire"]
    BY <2>0 DEF Config!SettingsTyped
  <2> QED
    BY <1>11, <2>1, Place1
       DEF Config!PutBack, Config!SettingsTyped, Config!diskVars, Config!restVars,
           Config!Saving
<1>12. ASSUME NEW p \in Proc, Config!GivesUp(p) PROVE Config!SettingsTyped'
  <2>1. configJob[p].then \in {"start", "idle", "load", "files", "keep", "saved", "model"} \cup Config!Saving
    BY Job1 DEF Config!Returns
  <2> QED
    BY <1>12, <2>1, Place1, Job1
       DEF Config!GivesUp, Config!SettingsTyped, Config!diskVars, Config!lockVars,
           Config!restVars
<1>13. ASSUME NEW p \in Proc, Config!ReadLatest(p) PROVE Config!SettingsTyped'
  <2>1. configSnapshot' \in [Proc -> Config!Disk]
    <3>1. [config |-> configConfig, registry |-> configRegistry] \in Config!Disk
      BY DEF Config!SettingsTyped, Config!Disk
    <3> QED
      BY <1>13, <3>1 DEF Config!ReadLatest, Config!SettingsTyped
  <2> QED
    BY <1>13, <2>1, Place1
       DEF Config!ReadLatest, Config!SettingsTyped, Config!diskVars, Config!lockVars,
           Config!restVars, Config!Saving, Config!Section
<1>14. ASSUME NEW p \in Proc, Config!Fails(p) PROVE Config!SettingsTyped'
  BY <1>14, Place1, Job1
     DEF Config!Fails, Config!SettingsTyped, Config!diskVars, Config!lockVars,
         Config!restVars, Config!Saving, Config!Section
<1>15. ASSUME NEW p \in Proc, Config!Write(p) PROVE Config!SettingsTyped'
  <2> DEFINE f == configJob[p].file
             d == CwdOf[p]
             meant == Config!Only(configJob[p].whole, configJob[p].changed)
  <2>1. Config!NewValues(p) \in Config!Layer /\ meant \in Config!Layer
    BY Job1, Layered DEF Config!NewValues
  <2>2. configSnapshot[p] \in Config!Disk /\ d \in Dir /\ configChosen \in Config!Disk
    BY SettingsSettingHolds DEF Config!SettingsTyped, Config!SettingsSetting
  <2>3. /\ configSnapshot[p].config \in Config!Layer
              /\ configSnapshot[p].registry \in [Dir -> Config!Layer]
                    /\ configSnapshot[p].registry[d] \in Config!Layer
        /\ configChosen.config \in Config!Layer /\ configChosen.registry \in [Dir -> Config!Layer]
              /\ configChosen.registry[d] \in Config!Layer
    BY <2>2 DEF Config!Disk
  <2>4. /\ Config!Over(Config!NewValues(p), configSnapshot[p].config) \in Config!Layer
              /\ Config!Over(Config!NewValues(p), configSnapshot[p].registry[d]) \in Config!Layer
        /\ Config!Over(meant, configChosen.config) \in Config!Layer
              /\ Config!Over(meant, configChosen.registry[d]) \in Config!Layer
    BY <2>1, <2>3, Layered
  <2>5. configVersion' \in [Config!File -> Nat]
    BY <1>15, Job1 DEF Config!Write, Config!SettingsTyped
  <2>6. configConfig' \in Config!Layer /\ configRegistry' \in [Dir -> Config!Layer]
           /\ configChosen' \in Config!Disk
    <3> HIDE DEF d, meant
    <3>1. CASE f = "env"
      <4>1. configConfig' = Config!Over(Config!NewValues(p), configSnapshot[p].config)
               /\ configRegistry' = configRegistry
                     /\ configChosen' = [configChosen EXCEPT !.config = Config!Over(meant, configChosen.config)]
        BY <1>15, <3>1 DEF Config!Write, meant, d
      <4> QED
        BY <2>2, <2>3, <2>4, <4>1 DEF Config!SettingsTyped, Config!Disk
    <3>2. CASE f # "env"
      <4>1. /\ configConfig' = configConfig
                  /\ configRegistry' = [configSnapshot[p].registry EXCEPT ![d] = Config!Over(Config!NewValues(p), configSnapshot[p].registry[d])]
            /\ configChosen' = [configChosen EXCEPT !.registry[d] = Config!Over(meant, configChosen.registry[d])]
        BY <1>15, <3>2 DEF Config!Write, meant, d
      <4>2. configChosen' = [configChosen EXCEPT !.registry = [configChosen.registry EXCEPT ![d] = Config!Over(meant, configChosen.registry[d])]]
        BY <4>1
      <4>3. [configChosen.registry EXCEPT ![d] = Config!Over(meant, configChosen.registry[d])] \in [Dir -> Config!Layer]
        BY <2>2, <2>3, <2>4
      <4>4. configRegistry' \in [Dir -> Config!Layer]
        BY <2>2, <2>3, <2>4, <4>1
      <4> QED
        BY <2>2, <4>1, <4>2, <4>3, <4>4 DEF Config!SettingsTyped, Config!Disk
    <3> QED
      BY <3>1, <3>2
  <2> QED
    BY <1>15, <2>5, <2>6, Place1
       DEF Config!Write, Config!SettingsTyped, Config!lockVars, Config!restVars,
           Config!Saving, Config!Section
<1>16. ASSUME NEW p \in Proc, Config!Release(p) PROVE Config!SettingsTyped'
  <2>1. configJob[p].then \in {"start", "idle", "load", "files", "keep", "saved", "model"} \cup Config!Saving
    BY Job1 DEF Config!Returns
  <2>2. configLock' \in [Config!File -> Config!Lock \cup {None}]
    BY <1>16, Job1 DEF Config!Release, Config!SettingsTyped
  <2> QED
    BY <1>16, <2>1, <2>2, Place1, Job1
       DEF Config!Release, Config!SettingsTyped, Config!diskVars, Config!restVars
<1>17. ASSUME NEW p \in Proc, Config!OpenMenu(p) PROVE Config!SettingsTyped'
  <2>1. [at |-> "open", initial |-> configCache[p].view, now |-> configCache[p].view] \in Config!Menu
    BY DEF Config!SettingsTyped, Config!Kept, Config!Menu
  <2>2. configMenu' \in [Proc -> Config!Menu]
    BY <1>17, <2>1 DEF Config!OpenMenu, Config!SettingsTyped
  <2> QED
    BY <1>17, <2>2
       DEF Config!OpenMenu, Config!SettingsTyped, Config!diskVars, Config!lockVars,
           Config!restVars, Config!callVars
<1>18. ASSUME NEW p \in Proc, Config!Saved(p) PROVE Config!SettingsTyped'
  <2>1. configCache' \in [Proc -> Config!Kept]
    BY <1>18, Layered DEF Config!Saved, Config!SettingsTyped
  <2> QED
    BY <1>18, <2>1, ForgetTyped, Place1
       DEF Config!Saved, Config!SettingsTyped, Config!diskVars, Config!lockVars,
           Config!restVars
<1>19. ASSUME NEW p \in Proc, Config!Decline(p) PROVE Config!SettingsTyped'
  <2>1. configMenu' \in [Proc -> Config!Menu]
    BY <1>19, Layered DEF Config!Decline, Config!Closes, Config!SettingsTyped
  <2> QED
    BY <1>19, <2>1
       DEF Config!Decline, Config!SettingsTyped, Config!diskVars, Config!lockVars,
           Config!restVars, Config!callVars
<1>20. ASSUME NEW p \in Proc, Config!Confirm(p) PROVE Config!SettingsTyped'
  <2>1. configMenu[p].now \in Config!Layer /\ {"model"} \in SUBSET Config!Keys
           /\ "env" \in Config!File /\ "model" \in Config!Returns
    BY DEF Config!SettingsTyped, Config!Menu, Config!Keys, Config!User, Config!File,
       Config!Returns
  <2> QED
    BY <1>20, <2>1, SaveTyped
       DEF Config!Confirm, Config!SettingsTyped, Config!diskVars, Config!lockVars,
           Config!restVars
<1>21. ASSUME NEW p \in Proc, Config!ModelSaved(p) PROVE Config!SettingsTyped'
  <2>1. configMenu' \in [Proc -> Config!Menu]
    BY <1>21, Layered DEF Config!ModelSaved, Config!Closes, Config!SettingsTyped
  <2>2. configCache' \in [Proc -> Config!Kept]
    BY <1>21, Layered DEF Config!ModelSaved, Config!SettingsTyped
  <2> QED
    BY <1>21, <2>1, <2>2, ForgetTyped, Place1
       DEF Config!ModelSaved, Config!SettingsTyped, Config!diskVars, Config!lockVars
<1>22. ASSUME NEW p \in Proc, Config!Die(p) PROVE Config!SettingsTyped'
  BY <1>22
     DEF Config!Die, Config!SettingsTyped, Config!diskVars, Config!lockVars, Config!callVars
<1>23. ASSUME NEW p \in Proc, NEW c \in BOOLEAN, Config!Close(p, c)
   PROVE Config!SettingsTyped'
  <2>1. configMenu' \in [Proc -> Config!Menu]
    <3>1. configMenu[p] \in Config!Menu
      BY DEF Config!SettingsTyped
    <3>2. [configMenu[p] EXCEPT !.at = "asking"] \in Config!Menu
      BY <3>1 DEF Config!Menu
    <3>3. configMenu' = [configMenu EXCEPT ![p] = [configMenu[p] EXCEPT !.at = "asking"]]
             \/ configMenu' = [configMenu EXCEPT ![p] = Config!Closed]
      BY <1>23 DEF Config!Close, Config!Closes
    <3> QED
      BY <3>2, <3>3, Layered DEF Config!SettingsTyped
  <2> QED
    BY <1>23, <2>1
       DEF Config!Close, Config!SettingsTyped, Config!diskVars, Config!lockVars,
           Config!restVars, Config!callVars
<1>24. ASSUME NEW p \in Proc, NEW k \in Config!Keys, NEW v \in Values,
              Config!SetForDirectory(p, k, v) PROVE Config!SettingsTyped'
  <2>1. configCache[p].view \in Config!Layer
    BY DEF Config!SettingsTyped, Config!Kept
  <2>2. [configCache[p].view EXCEPT ![k] = v] \in Config!Layer /\ {k} \in SUBSET Config!Keys
           /\ "registry" \in Config!File /\ "saved" \in Config!Returns
    BY <2>1, SettingsSettingHolds
       DEF Config!SettingsSetting, Config!Layer, Config!File, Config!Returns
  <2> QED
    BY <1>24, <2>2, SaveTyped
       DEF Config!SetForDirectory, Config!SettingsTyped, Config!diskVars, Config!lockVars,
           Config!restVars
<1>25. ASSUME NEW p \in Proc, NEW k \in Config!Keys, NEW v \in Values,
              Config!Choose(p, k, v) PROVE Config!SettingsTyped'
  <2>0. configMenu[p] \in Config!Menu /\ configMenu[p].now \in Config!Layer
    BY DEF Config!SettingsTyped, Config!Menu
  <2>1. [configMenu[p].now EXCEPT ![k] = v] \in Config!Layer /\ {k} \in SUBSET Config!Keys
           /\ "saved" \in Config!Returns
        /\ (IF k \in Config!Local THEN "registry" ELSE "env") \in Config!File
    BY <2>0, SettingsSettingHolds
       DEF Config!SettingsSetting, Config!Layer, Config!File, Config!Returns
  <2>2. configMenu' \in [Proc -> Config!Menu]
    <3>1. configMenu' = [configMenu EXCEPT ![p] = [configMenu[p] EXCEPT !.now = [configMenu[p].now EXCEPT ![k] = v]]]
      BY <1>25 DEF Config!Choose
    <3>2. [configMenu[p] EXCEPT !.now = [configMenu[p].now EXCEPT ![k] = v]] \in Config!Menu
      BY <2>0, <2>1 DEF Config!Menu
    <3> QED
      BY <3>1, <3>2 DEF Config!SettingsTyped
  <2> QED
    BY <1>25, <2>1, <2>2, SaveTyped
       DEF Config!Choose, Config!SettingsTyped, Config!diskVars, Config!lockVars,
           Config!restVars
<1>26. ASSUME NEW p \in Proc, NEW v \in Values, Config!ChooseModel(p, v)
   PROVE Config!SettingsTyped'
  <2>0. configMenu[p] \in Config!Menu /\ configMenu[p].now \in Config!Layer
           /\ "model" \in Config!Keys
    BY DEF Config!SettingsTyped, Config!Menu, Config!Keys, Config!User
  <2>1. [configMenu[p].now EXCEPT !["model"] = v] \in Config!Layer
    BY <2>0, SettingsSettingHolds DEF Config!SettingsSetting, Config!Layer
  <2>2. configMenu' \in [Proc -> Config!Menu]
    <3>1. configMenu' = [configMenu EXCEPT ![p] = [configMenu[p] EXCEPT !.now = [configMenu[p].now EXCEPT !["model"] = v]]]
      BY <1>26 DEF Config!ChooseModel
    <3>2. [configMenu[p] EXCEPT !.now = [configMenu[p].now EXCEPT !["model"] = v]] \in Config!Menu
      BY <2>0, <2>1 DEF Config!Menu
    <3> QED
      BY <3>1, <3>2 DEF Config!SettingsTyped
  <2> QED
    BY <1>26, <2>2
       DEF Config!ChooseModel, Config!SettingsTyped, Config!diskVars, Config!lockVars,
           Config!restVars, Config!callVars
<1>27. ASSUME NEW d \in Dir, Config!RemoveLegacy(d) PROVE Config!SettingsTyped'
  BY <1>27
     DEF Config!RemoveLegacy, Config!SettingsTyped, Config!diskVars, Config!lockVars,
         Config!callVars
<1>28. ASSUME UNCHANGED Config!settingsVars PROVE Config!SettingsTyped'
  BY <1>28
     DEF Config!SettingsTyped, Config!settingsVars, Config!diskVars, Config!lockVars,
         Config!callVars, Config!restVars
<1> QED
  BY <1>1, <1>2, <1>3, <1>4, <1>5, <1>6, <1>7, <1>8, <1>9, <1>10, <1>11, <1>12, <1>13,
     <1>14, <1>15, <1>16,
     <1>17, <1>18, <1>19, <1>20, <1>21, <1>22, <1>23, <1>24, <1>25, <1>26, <1>27, <1>28 DEF Config!Next

LEMMA LocksFirst == Config!Init => Config!Locks
<1> SUFFICES ASSUME Config!Init PROVE Config!Locks
  OBVIOUS
<1>1. \A p \in Proc : configAt[p] \in {"start", "idle"} /\ configClaimed[p] = None
         /\ configJudged[p] = None /\ configJob[p].held = None
  BY DEF Config!Init, Config!NoJob
<1>2. \A f \in Config!File : Config!Made(configLock[f])
  BY DEF Config!Init, Config!Made, Config!Leftover
<1>3. configBreach = "none"
  BY DEF Config!Init
<1> QED
  BY <1>1, <1>2, <1>3 DEF Config!Locks, Config!Made, Config!Section, Config!Inside

(* A step beside the lock protocol.                                        *)
LEMMA LocksAside ==
  ASSUME Config!Locks,
         UNCHANGED <<configSaves, configLock, configClaimed, configBreach, configMisplaced>>,
         \A q \in Proc :
           /\ configAlive'[q] => configAlive[q]
           /\ configAt'[q] \in Config!Section => configAt[q] \in Config!Section
                 /\ configJob'[q].file = configJob[q].file /\ configJob'[q].held = configJob[q].held
           /\ configAt[q] = "claimed" => configAt'[q] = "claimed"
                 /\ configJob'[q].file = configJob[q].file
           /\ configAt'[q] \in {"judged", "claimed"} => configAt[q] = configAt'[q]
                 /\ configJudged'[q] = configJudged[q]
           /\ configJob'[q].held \in {configJob[q].held, None}
                 /\ configJudged'[q] \in {configJudged[q], None}
  PROVE  Config!Locks'
<1>1. \A f \in Config!File : Config!Made(configLock[f])'
  BY DEF Config!Locks, Config!Made
<1>2. \A p \in Proc : Config!Made(configClaimed[p])' /\ Config!Made(configJudged[p])'
         /\ Config!Made(configJob[p].held)'
  BY DEF Config!Locks, Config!Made
<1>3. \A p, q \in Proc : configAt'[p] \in {"judged", "claimed"} /\ configAlive'[q]
         /\ configAt'[q] \in Config!Section => configJob'[q].held # configJudged'[p]
  BY DEF Config!Locks
<1>4. \A q \in Proc : configAlive'[q] /\ configAt'[q] \in Config!Section =>
       /\ configJob'[q].held # None
       /\ configBreach' = "none" => \/ configJob'[q].held = configLock'[configJob'[q].file]
             \/ configJob'[q].held \in configMisplaced'
                             \/ \E p \in Proc : configClaimed'[p] = configJob'[q].held
                                   /\ configJob'[p].file = configJob'[q].file
  BY DEF Config!Locks
<1>5. configBreach' = "none" => \A p, q \in Proc, f \in Config!File : Config!Inside(p, f)'
         /\ Config!Inside(q, f)' => p = q
  BY DEF Config!Locks, Config!Inside
<1> QED
  BY <1>1, <1>2, <1>3, <1>4, <1>5 DEF Config!Locks

LEMMA LocksStep == Config!SettingsTyped /\ Config!Locks /\ [Config!Next]_Config!settingsVars
   => Config!Locks'
<1> SUFFICES ASSUME Config!SettingsTyped, Config!Locks, [Config!Next]_Config!settingsVars
   PROVE Config!Locks'
  OBVIOUS
<1> USE DEF Config!Goes, Config!In
<1>0. /\ configAlive \in [Proc -> BOOLEAN]
            /\ configLock \in [Config!File -> Config!Lock \cup {None}]
                  /\ configClaimed \in [Proc -> Config!Lock \cup {None}]
      /\ configJudged \in [Proc -> Config!Lock \cup {None}] /\ configJob \in [Proc -> Config!Job]
            /\ DOMAIN configAt = Proc /\ configSaves \in Nat
      /\ \A p \in Proc : configJob[p].file \in Config!File /\ configJob[p].then \in Config!Returns
  BY Job1 DEF Config!SettingsTyped
<1>1. ASSUME NEW p \in Proc,
             \/ Config!Bridge(p) \/ Config!GetConfig(p) \/ Config!WaitTurn(p) \/ Config!GivesUp(p)
                   \/ Config!ReadLatest(p) \/ Config!Fails(p) \/ Config!Write(p)
             \/ Config!OpenMenu(p) \/ Config!Decline(p) \/ Config!Die(p)
                   \/ (\E c \in BOOLEAN : Config!Close(p, c))
                         \/ (\E v \in Values : Config!ChooseModel(p, v))
      PROVE Config!Locks'
  <2>1. /\ UNCHANGED <<configSaves, configLock, configClaimed, configBreach, configMisplaced,
                       configJudged>>
        /\ \/ UNCHANGED configAt
           \/ configAt[p] \notin {"judged", "claimed"}
                 /\ \E w \in {"idle", "load"} \cup Config!Returns : configAt' = [configAt EXCEPT ![p] = w]
           \/ configAt[p] \in Config!Section
                 /\ \E w \in Config!Section : configAt' = [configAt EXCEPT ![p] = w]
    BY <1>0, <1>1
       DEF Config!Bridge, Config!GetConfig, Config!WaitTurn, Config!GivesUp,
           Config!ReadLatest, Config!Fails, Config!Write, Config!OpenMenu, Config!Decline,
           Config!Die, Config!Close, Config!ChooseModel,
       Config!lockVars, Config!callVars, Config!Section
  <2>2. /\ configAlive' = configAlive \/ configAlive' = [configAlive EXCEPT ![p] = FALSE]
        /\ configJob' = configJob \/ configJob' = [configJob EXCEPT ![p].ok = FALSE]
    BY <1>1
       DEF Config!Bridge, Config!GetConfig, Config!WaitTurn, Config!GivesUp,
           Config!ReadLatest, Config!Fails, Config!Write, Config!OpenMenu, Config!Decline,
           Config!Die, Config!Close, Config!ChooseModel,
       Config!restVars, Config!callVars
  <2>3. \A q \in Proc : configJob'[q].file = configJob[q].file
           /\ configJob'[q].held = configJob[q].held
    BY <1>0, <2>2 DEF Config!Job
  <2>4. \A q \in Proc : configAlive'[q] => configAlive[q]
    BY <1>0, <2>2
  <2>5. \A q \in Proc : /\ configAt'[q] \in Config!Section => configAt[q] \in Config!Section
                        /\ configAt[q] = "claimed" => configAt'[q] = "claimed"
                        /\ configAt'[q] \in {"judged", "claimed"} => configAt[q] = configAt'[q]
    BY <1>0, <2>1 DEF Config!Section, Config!Returns
  <2> QED
    BY <2>1, <2>3, <2>4, <2>5, LocksAside
<1>2. ASSUME NEW p \in Proc,
             \/ Config!ReadRegistry(p) \/ Config!ReadFiles(p) \/ Config!Keep(p) \/ Config!Saved(p)
                   \/ Config!ModelSaved(p) \/ Config!Confirm(p)
             \/ \E k \in Config!Keys,
                v \in Values : Config!SetForDirectory(p, k, v) \/ Config!Choose(p, k, v)
      PROVE Config!Locks'
  <2>1. /\ UNCHANGED <<configSaves, configLock, configClaimed, configBreach, configMisplaced,
                       configAlive>> /\ configAt[p] \notin {"judged", "claimed"}
        /\ configJudged' = configJudged \/ configJudged' = [configJudged EXCEPT ![p] = None]
        /\ \E w \in {"acquire"} \cup Config!Returns : configAt' = [configAt EXCEPT ![p] = w]
    BY <1>2
       DEF Config!ReadRegistry, Config!ReadFiles, Config!Keep, Config!Saved,
           Config!ModelSaved, Config!Confirm, Config!SetForDirectory, Config!Choose,
           Config!Save, Config!Forgets, Config!lockVars, Config!restVars, Config!Returns
  <2>2. configJob' = configJob \/ configJob' = [configJob EXCEPT ![p] = Config!NoJob]
        \/ \E f, w, c, t : configJob' = [configJob EXCEPT ![p] = [file |-> f, whole |-> w, changed |-> c, then |-> t, held |-> None, ok |-> TRUE]]
    BY <1>2
       DEF Config!ReadRegistry, Config!ReadFiles, Config!Keep, Config!Saved,
           Config!ModelSaved, Config!Confirm, Config!SetForDirectory, Config!Choose,
           Config!Save, Config!Forgets
  <2>3. \A q \in Proc : configJob'[q].held \in {configJob[q].held, None}
           /\ (q # p => configJob'[q] = configJob[q])
    BY <1>0, <2>2 DEF Config!NoJob
  <2>4. \A q \in Proc : configJudged'[q] \in {configJudged[q], None}
           /\ (q # p => configJudged'[q] = configJudged[q] /\ configAt'[q] = configAt[q])
    BY <1>0, <2>1
  <2>5. configAt'[p] \notin Config!Section \cup {"judged", "claimed"}
    BY <1>0, <2>1 DEF Config!Returns, Config!Section
  <2> QED
    BY <2>1, <2>3, <2>4, <2>5, LocksAside
<1>3. ASSUME \/ \E d \in Dir : Config!RemoveLegacy(d)
             \/ UNCHANGED Config!settingsVars
      PROVE Config!Locks'
  <2>1. UNCHANGED <<configSaves, configLock, configClaimed, configBreach, configMisplaced,
                    configAlive, configAt, configJob, configJudged>>
    BY <1>3
       DEF Config!RemoveLegacy, Config!settingsVars, Config!lockVars, Config!callVars,
           Config!restVars
  <2> QED
    BY <2>1, LocksAside
<1>4. ASSUME NEW p \in Proc, Config!Judge(p) PROVE Config!Locks'
  <2> DEFINE l == configLock[configJob[p].file]
  <2>1. /\ UNCHANGED <<configSaves, configLock, configClaimed, configBreach, configMisplaced,
                       configAlive, configJob>> /\ configAt[p] = "acquire"
        /\ configJudged' = [configJudged EXCEPT ![p] = l]
              /\ configAt' = [configAt EXCEPT ![p] = "judged"] /\ Config!Abandoned(l)
    BY <1>4 DEF Config!Judge, Config!lockVars, Config!restVars
  <2>2. \A q \in Proc : /\ configJudged'[q] = IF q = p THEN l ELSE configJudged[q]
                        /\ configAt'[q] = IF q = p THEN "judged" ELSE configAt[q]
    BY <1>0, <2>1
  <2>3. \A q \in Proc : configAlive[q] /\ configAt[q] \in Config!Section => configJob[q].held # l
    BY <2>1 DEF Config!Abandoned
  <2>4. Config!Made(l)
    BY <1>0 DEF Config!Locks
  <2>5. \A f \in Config!File : Config!Made(configLock[f])'
    BY <2>1 DEF Config!Locks, Config!Made
  <2>6. \A q \in Proc : Config!Made(configClaimed[q])' /\ Config!Made(configJudged[q])'
           /\ Config!Made(configJob[q].held)'
    BY <2>1, <2>2, <2>4 DEF Config!Locks, Config!Made
  <2>7. \A q \in Proc : configAt'[q] \in Config!Section <=> configAt[q] \in Config!Section
    BY <2>1, <2>2 DEF Config!Section
  <2>8. \A r, q \in Proc : configAt'[r] \in {"judged", "claimed"} /\ configAlive'[q]
           /\ configAt'[q] \in Config!Section => configJob'[q].held # configJudged'[r]
    BY <2>1, <2>2, <2>3, <2>7 DEF Config!Locks
  <2>9. configBreach' = "none" => \A r, q \in Proc, f \in Config!File : Config!Inside(r, f)'
           /\ Config!Inside(q, f)' => r = q
    BY <2>1, <2>7 DEF Config!Locks, Config!Inside
  <2>10. \A q \in Proc : configClaimed'[q] # None => configAt'[q] = "claimed"
    BY <2>1, <2>2 DEF Config!Locks
  <2> QED
    BY <2>1, <2>5, <2>6, <2>7, <2>8, <2>9, <2>10 DEF Config!Locks
<1>5. ASSUME NEW p \in Proc, Config!Claim(p) PROVE Config!Locks'
  <2> DEFINE f == configJob[p].file
  <2>0. UNCHANGED <<configSaves, configBreach, configMisplaced, configAlive, configJob,
                    configJudged>> /\ configAt[p] = "judged" /\ configClaimed[p] = None
    BY <1>5 DEF Config!Claim, Config!restVars, Config!Locks
  <2>1. CASE configLock[f] = None
    <3>1. UNCHANGED <<configLock, configClaimed>> /\ configAt' = [configAt EXCEPT ![p] = "acquire"]
      BY <1>5, <2>1 DEF Config!Claim, Config!TriesAgain
    <3>2. \A q \in Proc : configAt'[q] = IF q = p THEN "acquire" ELSE configAt[q]
      BY <1>0, <3>1
    <3> QED
      BY <2>0, <3>1, <3>2, LocksAside DEF Config!Section
  <2>2. CASE configLock[f] # None
    <3>1. /\ configClaimed' = [configClaimed EXCEPT ![p] = configLock[f]]
                /\ configLock' = [configLock EXCEPT ![f] = None]
          /\ configAt' = [configAt EXCEPT ![p] = "claimed"]
      BY <1>5, <2>2 DEF Config!Claim
    <3>2. /\ \A q \in Proc : configAt'[q] = IF q = p THEN "claimed" ELSE configAt[q]
          /\ \A q \in Proc : configClaimed'[q] = IF q = p THEN configLock[f] ELSE configClaimed[q]
          /\ \A g \in Config!File : configLock'[g] = IF g = f THEN None ELSE configLock[g]
      BY <1>0, <3>1
    <3>3. \A q \in Proc : configAt'[q] \in Config!Section <=> configAt[q] \in Config!Section
      BY <2>0, <3>2 DEF Config!Section
    <3>4. /\ \A g \in Config!File : Config!Made(configLock[g])'
          /\ \A q \in Proc : Config!Made(configClaimed[q])' /\ Config!Made(configJudged[q])'
                /\ Config!Made(configJob[q].held)'
      BY <1>0, <2>0, <3>2 DEF Config!Locks, Config!Made
    <3>5. \A r, q \in Proc : configAt'[r] \in {"judged", "claimed"} /\ configAlive'[q]
             /\ configAt'[q] \in Config!Section => configJob'[q].held # configJudged'[r]
      BY <2>0, <3>2, <3>3 DEF Config!Locks
    <3>6. ASSUME NEW q \in Proc, configAlive'[q], configAt'[q] \in Config!Section
          PROVE  /\ configJob'[q].held # None
                 /\ configBreach' = "none"
                       => \/ configJob'[q].held = configLock'[configJob'[q].file]
                          \/ configJob'[q].held \in configMisplaced'
                                       \/ \E r \in Proc : configClaimed'[r] = configJob'[q].held
                                             /\ configJob'[r].file = configJob'[q].file
      <4>1. configAlive[q] /\ configAt[q] \in Config!Section
        BY <2>0, <3>3, <3>6
      <4>2. configJob[q].held # None
        BY <4>1 DEF Config!Locks
      <4>3. ASSUME configBreach = "none"
         PROVE \/ configJob[q].held = configLock'[configJob[q].file]
                     \/ configJob[q].held \in configMisplaced
                                       \/ \E r \in Proc : configClaimed'[r] = configJob[q].held
                                             /\ configJob[r].file = configJob[q].file
        <5>1. CASE configJob[q].held = configLock[configJob[q].file]
          BY <1>0, <3>2, <5>1
        <5>2. CASE configJob[q].held \in configMisplaced
          BY <5>2
        <5>3. CASE \E r \in Proc : configClaimed[r] = configJob[q].held
                      /\ configJob[r].file = configJob[q].file
          BY <2>0, <3>2, <4>2, <5>3
        <5> QED
          BY <4>1, <4>3, <5>1, <5>2, <5>3 DEF Config!Locks
      <4> QED
        BY <2>0, <4>2, <4>3
    <3>7. configBreach' = "none" => \A r, q \in Proc, g \in Config!File : Config!Inside(r, g)'
             /\ Config!Inside(q, g)' => r = q
      BY <2>0, <3>3 DEF Config!Locks, Config!Inside
    <3>8. \A q \in Proc : configClaimed'[q] # None => configAt'[q] = "claimed"
      BY <3>2 DEF Config!Locks
    <3> QED
      BY <2>0, <3>4, <3>5, <3>6, <3>7, <3>8 DEF Config!Locks
  <2> QED
    BY <2>1, <2>2
<1>6. ASSUME NEW p \in Proc, Config!Destroy(p) \/ Config!PutBack(p) PROVE Config!Locks'
  <2> DEFINE f == configJob[p].file
  <2>0. /\ UNCHANGED <<configSaves, configBreach, configAlive, configJob,
                       configJudged>> /\ configAt[p] = "claimed" /\ configAlive[p]
        /\ configAt' = [configAt EXCEPT ![p] = "acquire"]
              /\ configClaimed' = [configClaimed EXCEPT ![p] = None]
        /\ \/ configLock' = configLock /\ configMisplaced' = configMisplaced
                 /\ configClaimed[p] = configJudged[p]
           \/ configLock' = configLock /\ configMisplaced' = configMisplaced \cup {configClaimed[p]}
           \/ configLock[f] = None /\ configLock' = [configLock EXCEPT ![f] = configClaimed[p]]
                 /\ configMisplaced' = configMisplaced
    BY <1>6 DEF Config!Destroy, Config!PutBack, Config!TriesAgain, Config!restVars
  <2>1. /\ \A q \in Proc : configAt'[q] = IF q = p THEN "acquire" ELSE configAt[q]
        /\ \A q \in Proc : configClaimed'[q] = IF q = p THEN None ELSE configClaimed[q]
        /\ \A g \in Config!File : configLock'[g] = configLock[g]
              \/ (g = f /\ configLock[g] = None /\ configLock'[g] = configClaimed[p])
    BY <1>0, <2>0
  <2>3. \A q \in Proc : configAt'[q] \in Config!Section <=> configAt[q] \in Config!Section
    BY <2>0, <2>1 DEF Config!Section
  <2>4. /\ \A g \in Config!File : Config!Made(configLock[g])'
        /\ \A q \in Proc : Config!Made(configClaimed[q])' /\ Config!Made(configJudged[q])'
              /\ Config!Made(configJob[q].held)'
    BY <1>0, <2>0, <2>1 DEF Config!Locks, Config!Made
  <2>5. \A r, q \in Proc : configAt'[r] \in {"judged", "claimed"} /\ configAlive'[q]
           /\ configAt'[q] \in Config!Section => configJob'[q].held # configJudged'[r]
    BY <2>0, <2>1, <2>3 DEF Config!Locks
  <2>6. ASSUME NEW q \in Proc, configAlive'[q], configAt'[q] \in Config!Section
        PROVE  /\ configJob'[q].held # None
               /\ configBreach' = "none" => \/ configJob'[q].held = configLock'[configJob'[q].file]
                     \/ configJob'[q].held \in configMisplaced'
                                     \/ \E r \in Proc : configClaimed'[r] = configJob'[q].held
                                           /\ configJob'[r].file = configJob'[q].file
    <3>1. configAlive[q] /\ configAt[q] \in Config!Section
      BY <2>0, <2>3, <2>6
    <3>2. configJob[q].held # None /\ configJob[q].held # configJudged[p]
      BY <2>0, <3>1 DEF Config!Locks
    <3>3. ASSUME configBreach = "none"
       PROVE \/ configJob[q].held = configLock'[configJob[q].file]
                   \/ configJob[q].held \in configMisplaced'
                                     \/ \E r \in Proc : configClaimed'[r] = configJob[q].held
                                           /\ configJob[r].file = configJob[q].file
      <4>1. CASE configJob[q].held = configLock[configJob[q].file]
        BY <1>0, <2>1, <3>2, <4>1
      <4>2. CASE configJob[q].held \in configMisplaced
        BY <2>0, <4>2
      <4>3. ASSUME NEW r \in Proc, configClaimed[r] = configJob[q].held,
                   configJob[r].file = configJob[q].file
            PROVE  configJob[q].held = configLock'[configJob[q].file]
                      \/ configJob[q].held \in configMisplaced'
                            \/ configClaimed'[r] = configJob[q].held
        <5>1. CASE r # p
          BY <2>1, <4>3, <5>1
        <5>2. CASE r = p
          BY <1>0, <2>0, <3>2, <4>3, <5>2
        <5> QED
          BY <5>1, <5>2
      <4> QED
        BY <3>1, <3>3, <4>1, <4>2, <4>3 DEF Config!Locks
    <3> QED
      BY <2>0, <3>2, <3>3
  <2>7. configBreach' = "none" => \A r, q \in Proc, g \in Config!File : Config!Inside(r, g)'
           /\ Config!Inside(q, g)' => r = q
    BY <2>0, <2>3 DEF Config!Locks, Config!Inside
  <2>8. \A q \in Proc : configClaimed'[q] # None => configAt'[q] = "claimed"
    BY <2>1 DEF Config!Locks
  <2> QED
    BY <2>0, <2>4, <2>5, <2>6, <2>7, <2>8 DEF Config!Locks
<1>7. ASSUME NEW p \in Proc, Config!Release(p) PROVE Config!Locks'
  <2> DEFINE f == configJob[p].file
  <2>0. /\ UNCHANGED <<configSaves, configBreach, configAlive, configJudged, configClaimed,
                       configMisplaced>> /\ configAt[p] = "release" /\ configAlive[p]
        /\ configAt' = [configAt EXCEPT ![p] = configJob[p].then]
              /\ configJob' = [configJob EXCEPT ![p].held = None]
                    /\ configLock' = [configLock EXCEPT ![f] = None]
    BY <1>7 DEF Config!Release, Config!restVars
  <2>1. /\ \A q \in Proc : configAt'[q] = IF q = p THEN configJob[p].then ELSE configAt[q]
        /\ \A q \in Proc : configJob'[q].held = (IF q = p THEN None ELSE configJob[q].held)
              /\ configJob'[q].file = configJob[q].file
        /\ \A g \in Config!File : configLock'[g] = IF g = f THEN None ELSE configLock[g]
    BY <1>0, <2>0 DEF Config!Job
  <2>2. configJob[p].then \notin Config!Section \cup {"judged", "claimed"}
    BY <1>0 DEF Config!Returns, Config!Section
  <2>3. \A q \in Proc : configAt'[q] \in Config!Section => configAt[q] \in Config!Section /\ q # p
    BY <2>1, <2>2
  <2>4. /\ \A g \in Config!File : Config!Made(configLock[g])'
        /\ \A q \in Proc : Config!Made(configClaimed[q])' /\ Config!Made(configJudged[q])'
              /\ Config!Made(configJob[q].held)'
    BY <1>0, <2>0, <2>1 DEF Config!Locks, Config!Made
  <2>5. \A r, q \in Proc : configAt'[r] \in {"judged", "claimed"} /\ configAlive'[q]
           /\ configAt'[q] \in Config!Section => configJob'[q].held # configJudged'[r]
    BY <2>0, <2>1, <2>2, <2>3 DEF Config!Locks
  <2>6. ASSUME NEW q \in Proc, configAlive'[q], configAt'[q] \in Config!Section
        PROVE  /\ configJob'[q].held # None
               /\ configBreach' = "none" => \/ configJob'[q].held = configLock'[configJob'[q].file]
                     \/ configJob'[q].held \in configMisplaced'
                                     \/ \E r \in Proc : configClaimed'[r] = configJob'[q].held
                                           /\ configJob'[r].file = configJob'[q].file
    <3>1. configAlive[q] /\ configAt[q] \in Config!Section /\ q # p
      BY <2>0, <2>3, <2>6
    <3>2. configJob'[q].held = configJob[q].held /\ configJob'[q].file = configJob[q].file
      BY <2>1, <3>1
    <3>3. configBreach = "none" => configJob[q].file # f
      <4>1. configAt[p] \in Config!Section
        BY <2>0 DEF Config!Section
      <4> QED
        BY <1>0, <2>0, <3>1, <4>1 DEF Config!Locks, Config!Inside
    <3> QED
      BY <1>0, <2>0, <2>1, <3>1, <3>2, <3>3 DEF Config!Locks
  <2>7. configBreach' = "none" => \A r, q \in Proc, g \in Config!File : Config!Inside(r, g)'
           /\ Config!Inside(q, g)' => r = q
    BY <2>0, <2>1, <2>3 DEF Config!Locks, Config!Inside
  <2>8. \A q \in Proc : configClaimed'[q] # None => configAt'[q] = "claimed"
    BY <2>0, <2>1 DEF Config!Locks
  <2> QED
    BY <2>0, <2>4, <2>5, <2>6, <2>7, <2>8 DEF Config!Locks
<1>8. ASSUME NEW p \in Proc, Config!Create(p) PROVE Config!Locks'
  <2> DEFINE f == configJob[p].file
  <2>0. PICK i \in Inodes :
          /\ UNCHANGED <<configAlive, configJudged, configClaimed,
                         configMisplaced>> /\ configAt[p] = "acquire" /\ configAlive[p]
                            /\ configLock[f] = None
          /\ configAt' = [configAt EXCEPT ![p] = "locked"] /\ configBreach' = Config!Cause(p, f)
                /\ configSaves' = configSaves + 1
          /\ configJob' = [configJob EXCEPT ![p].held = [ino |-> i, by |-> p, nth |-> configSaves]]
          /\ configLock' = [configLock EXCEPT ![f] = [ino |-> i, by |-> p, nth |-> configSaves]]
    BY <1>8 DEF Config!Create, Config!restVars
  <2> DEFINE mine == [ino |-> i, by |-> p, nth |-> configSaves]
  <2>1. mine \in Config!Lock /\ mine # None /\ mine.by = p /\ mine.nth = configSaves /\ p # "gone"
    BY <1>0, SettingsSettingHolds DEF Config!Lock, Config!SettingsSetting
  <2> HIDE DEF mine
  <2>2. /\ \A q \in Proc : configAt'[q] = IF q = p THEN "locked" ELSE configAt[q]
        /\ \A q \in Proc : configJob'[q].held = (IF q = p THEN mine ELSE configJob[q].held)
              /\ configJob'[q].file = configJob[q].file
        /\ \A g \in Config!File : configLock'[g] = IF g = f THEN mine ELSE configLock[g]
    BY <1>0, <2>0 DEF Config!Job, mine
  <2>3. \A q \in Proc : configAt'[q] \in Config!Section <=> configAt[q] \in Config!Section \/ q = p
    BY <2>2 DEF Config!Section
  <2>4. \A l \in Config!Lock \cup {None} : Config!Made(l) => l # mine
           /\ (l # None /\ l.by # "gone" => l.nth < configSaves')
    BY <1>0, <2>0, <2>1 DEF Config!Made, Config!Lock
  <2>5. /\ \A g \in Config!File : Config!Made(configLock[g])'
        /\ \A q \in Proc : Config!Made(configClaimed[q])' /\ Config!Made(configJudged[q])'
              /\ Config!Made(configJob[q].held)'
    <3>1. \A g \in Config!File : configLock'[g] # None /\ configLock'[g].by # "gone"
             => configLock'[g].nth < configSaves'
      BY <1>0, <2>0, <2>1, <2>2, <2>4 DEF Config!Locks
    <3>2. \A q \in Proc : configJob'[q].held # None /\ configJob'[q].held.by # "gone"
             => configJob'[q].held.nth < configSaves'
      <4>1. \A q \in Proc : configJob[q].held \in Config!Lock \cup {None}
        BY <1>0 DEF Config!Job
      <4> QED
        BY <1>0, <2>0, <2>1, <2>2, <2>4, <4>1 DEF Config!Locks
    <3>3. \A q \in Proc : /\ configClaimed[q] # None /\ configClaimed[q].by # "gone"
                                => configClaimed[q].nth < configSaves'
                          /\ configJudged[q] # None /\ configJudged[q].by # "gone"
                                => configJudged[q].nth < configSaves'
      BY <1>0, <2>4 DEF Config!Locks
    <3> QED
      BY <2>0, <3>1, <3>2, <3>3 DEF Config!Made
  <2>6. \A q \in Proc : configJudged[q] # mine
    BY <1>0, <2>4 DEF Config!Locks
  <2>7. \A r, q \in Proc : configAt'[r] \in {"judged", "claimed"} /\ configAlive'[q]
           /\ configAt'[q] \in Config!Section => configJob'[q].held # configJudged'[r]
    BY <2>0, <2>2, <2>3, <2>6 DEF Config!Locks
  <2>8. ASSUME NEW q \in Proc, configAlive'[q], configAt'[q] \in Config!Section
        PROVE  /\ configJob'[q].held # None
               /\ configBreach' = "none" => \/ configJob'[q].held = configLock'[configJob'[q].file]
                     \/ configJob'[q].held \in configMisplaced'
                                     \/ \E r \in Proc : configClaimed'[r] = configJob'[q].held
                                           /\ configJob'[r].file = configJob'[q].file
    <3>1. CASE q = p
      BY <1>0, <2>1, <2>2, <3>1
    <3>2. CASE q # p
      <4>1. configAlive[q] /\ configAt[q] \in Config!Section
               /\ configJob'[q].held = configJob[q].held /\ configJob'[q].file = configJob[q].file
        BY <2>0, <2>2, <2>3, <2>8, <3>2
      <4>2. configJob[q].held # None
        BY <4>1 DEF Config!Locks
      <4>3. configBreach' = "none" => configBreach = "none"
        BY <2>0 DEF Config!Cause
      <4>4. configJob[q].held = configLock[configJob[q].file] => configJob[q].file # f
        BY <2>0, <4>2
      <4> QED
        BY <1>0, <2>0, <2>2, <4>1, <4>2, <4>3, <4>4 DEF Config!Locks
    <3> QED
      BY <3>1, <3>2
  <2>9. \A q \in Proc : configClaimed'[q] # None => configAt'[q] = "claimed"
    BY <2>0, <2>2 DEF Config!Locks
  <2> DEFINE others == {q \in Proc \ {p} : Config!Inside(q, f)}
             held == {configJob[q].held : q \in others}
  <2>10. Config!Cause(p, f) = CASE configBreach # "none" \/ others = {} -> configBreach
                         [] held \cap Config!Range(configClaimed) # {} -> "window"
                         [] held \cap configMisplaced # {} -> "lost"
                         [] OTHER -> "fault"
    BY DEF Config!Cause
  <2>11. configBreach' \in {"none", "window", "lost"}
    <3>1. CASE configBreach # "none" \/ others = {}
      BY <2>0, <2>10, <3>1 DEF Config!Locks
    <3>2. CASE configBreach = "none" /\ others # {}
      <4>1. PICK q \in Proc \ {p} : Config!Inside(q, f)
        BY <3>2
      <4>2. configJob[q].held \in held
        BY <4>1
      <4>3. configJob[q].held \in configMisplaced
               \/ configJob[q].held \in Config!Range(configClaimed)
        <5>1. configAlive[q] /\ configAt[q] \in Config!Section /\ configJob[q].file = f
          BY <4>1 DEF Config!Inside
        <5>2. configJob[q].held # configLock[f]
          BY <2>0, <5>1 DEF Config!Locks
        <5> QED
          BY <1>0, <3>2, <5>1, <5>2 DEF Config!Locks, Config!Range
      <4>4. held \cap Config!Range(configClaimed) # {} \/ held \cap configMisplaced # {}
        BY <4>2, <4>3
      <4> HIDE DEF held, others
      <4> QED
        BY <2>0, <2>10, <4>4
    <3> QED
      BY <3>1, <3>2 DEF Config!Locks
  <2>12. configBreach' = "none" => \A r, q \in Proc, g \in Config!File : Config!Inside(r, g)'
            /\ Config!Inside(q, g)' => r = q
    <3> SUFFICES ASSUME configBreach' = "none"
       PROVE \A r, q \in Proc,
       g \in Config!File : Config!Inside(r, g)' /\ Config!Inside(q, g)' => r = q
      OBVIOUS
    <3>1. configBreach = "none" /\ others = {}
      <4>1. CASE configBreach # "none" \/ others = {}
        BY <2>0, <2>10, <4>1
      <4>2. CASE ~(configBreach # "none" \/ others = {})
        <5> HIDE DEF others, held
        <5> QED BY <2>0, <2>10, <4>2
      <4> QED
        BY <4>1, <4>2
    <3>2. \A q \in Proc \ {p} : ~ Config!Inside(q, f)
      BY <3>1
    <3>3. \A q \in Proc, g \in Config!File : Config!Inside(q, g)' <=> (IF q = p THEN g = f
             ELSE Config!Inside(q, g))
      BY <2>0, <2>2, <2>3 DEF Config!Inside
    <3> QED
      BY <3>1, <3>2, <3>3 DEF Config!Locks
  <2> QED
    BY <2>0, <2>5, <2>7, <2>8, <2>9, <2>11, <2>12 DEF Config!Locks
<1> QED
  BY <1>1, <1>2, <1>3, <1>4, <1>5, <1>6, <1>7, <1>8 DEF Config!Next

LEMMA ContentsFirst == Config!Init => Config!Contents
<1> SUFFICES ASSUME Config!Init PROVE Config!Contents
  OBVIOUS
<1>1. \A p \in Proc : configAt[p] \in {"start", "idle"}
  BY DEF Config!Init
<1> QED
  BY <1>1
     DEF Config!Init, Config!Contents, Config!Scoped, Config!Saving, Config!Section,
         Config!Nothing

LEMMA ContentsAside ==
  ASSUME Config!Contents, UNCHANGED <<configConfig, configRegistry, configChosen>>,
         configBreach' = "none" => configBreach = "none",
         \A q \in Proc : Config!Scoped(q)',
         \A q \in Proc : configAlive'[q] /\ configAt'[q] = "write" =>
           configAlive[q] /\ configAt[q] = "write" /\ configSnapshot'[q] = configSnapshot[q]
              /\ configJob'[q].file = configJob[q].file
  PROVE  Config!Contents'
BY DEF Config!Contents

LEMMA ContentsStep == Config!SettingsTyped /\ Config!Locks /\ Config!Contents
   /\ [Config!Next]_Config!settingsVars => Config!Contents'
<1> SUFFICES ASSUME Config!SettingsTyped, Config!Locks, Config!Contents,
   [Config!Next]_Config!settingsVars PROVE Config!Contents'
  OBVIOUS
<1> USE DEF Config!Goes, Config!In
<1>0. /\ configAlive \in [Proc -> BOOLEAN] /\ configJob \in [Proc -> Config!Job]
            /\ DOMAIN configAt = Proc
      /\ DOMAIN configSnapshot = Proc /\ configSnapshot \in [Proc -> Config!Disk]
            /\ configChosen \in Config!Disk /\ configRegistry \in [Dir -> Config!Layer]
      /\ \A p \in Proc : configJob[p].file \in Config!File /\ configJob[p].then \in Config!Returns
  BY Job1 DEF Config!SettingsTyped
<1>1. ASSUME NEW p \in Proc,
             \/ Config!Bridge(p) \/ Config!GetConfig(p) \/ Config!WaitTurn(p) \/ Config!GivesUp(p)
                   \/ Config!Judge(p) \/ Config!Fails(p) \/ Config!Claim(p) \/ Config!Destroy(p)
                         \/ Config!PutBack(p)
             \/ Config!Create(p) \/ Config!Release(p)
             \/ Config!OpenMenu(p) \/ Config!Decline(p) \/ Config!Die(p)
                   \/ (\E c \in BOOLEAN : Config!Close(p, c))
                         \/ (\E v \in Values : Config!ChooseModel(p, v))
      PROVE Config!Contents'
  <2>1. /\ UNCHANGED <<configConfig, configRegistry, configChosen,
                       configSnapshot>> /\ (configBreach' = configBreach
                          \/ configBreach' = Config!Cause(p, configJob[p].file))
        /\ \/ UNCHANGED configAt
           \/ \E w \in {"idle", "load"} \cup Config!Returns : configAt' = [configAt EXCEPT ![p] = w]
           \/ configAt[p] \in Config!Saving
                 /\ \E w \in {"judged", "claimed", "acquire", "locked", "release"} : configAt' = [configAt EXCEPT ![p] = w]
    BY <1>0, <1>1
       DEF Config!Bridge, Config!GetConfig, Config!WaitTurn, Config!GivesUp, Config!Judge,
           Config!Fails, Config!Claim, Config!Destroy, Config!PutBack, Config!Create,
           Config!Release,
       Config!OpenMenu, Config!Decline, Config!Die, Config!Close, Config!ChooseModel,
       Config!TriesAgain, Config!diskVars, Config!lockVars, Config!callVars,
       Config!Section, Config!Saving
  <2>2. /\ configAlive' = configAlive \/ configAlive' = [configAlive EXCEPT ![p] = FALSE]
        /\ configJob' = configJob \/ configJob' = [configJob EXCEPT ![p].ok = FALSE]
              \/ \E h : configJob' = [configJob EXCEPT ![p].held = h]
    BY <1>1
       DEF Config!Bridge, Config!GetConfig, Config!WaitTurn, Config!GivesUp, Config!Judge,
           Config!Fails, Config!Claim, Config!Destroy, Config!PutBack, Config!Create,
           Config!Release,
       Config!OpenMenu, Config!Decline, Config!Die, Config!Close, Config!ChooseModel,
       Config!restVars, Config!callVars
  <2>3. \A q \in Proc : configJob'[q].file = configJob[q].file
           /\ configJob'[q].changed = configJob[q].changed
    BY <1>0, <2>2 DEF Config!Job
  <2>4. \A q \in Proc : configAlive'[q] => configAlive[q]
    BY <1>0, <2>2
  <2>5. \A q \in Proc : (configAt'[q] \in Config!Saving => configAt[q] \in Config!Saving)
           /\ (configAt'[q] = "write" => configAt[q] = "write")
    BY <1>0, <2>1 DEF Config!Section, Config!Returns, Config!Saving
  <2>6. configBreach' = "none" => configBreach = "none"
    BY <2>1 DEF Config!Cause
  <2>7. \A q \in Proc : Config!Scoped(q)'
    BY <2>3, <2>5 DEF Config!Contents, Config!Scoped
  <2> QED
    BY <2>1, <2>3, <2>4, <2>5, <2>6, <2>7, ContentsAside
<1>2. ASSUME NEW p \in Proc,
             \/ Config!ReadRegistry(p) \/ Config!ReadFiles(p) \/ Config!Keep(p) \/ Config!Saved(p)
                   \/ Config!ModelSaved(p) \/ Config!Confirm(p)
             \/ \E k \in Config!Keys,
                v \in Values : Config!SetForDirectory(p, k, v) \/ Config!Choose(p, k, v)
      PROVE Config!Contents'
  <2>1. /\ UNCHANGED <<configConfig, configRegistry, configChosen, configBreach, configAlive>>
        /\ configSnapshot' = configSnapshot
              \/ configSnapshot' = [configSnapshot EXCEPT ![p] = Config!Nothing]
    BY <1>2
       DEF Config!ReadRegistry, Config!ReadFiles, Config!Keep, Config!Saved,
           Config!ModelSaved, Config!Confirm, Config!SetForDirectory, Config!Choose,
           Config!Forgets, Config!diskVars, Config!lockVars, Config!restVars
  <2>2. \/ configAt' = [configAt EXCEPT ![p] = "idle"]
              /\ configJob' = [configJob EXCEPT ![p] = Config!NoJob]
        \/ (\E w \in Config!Returns : configAt' = [configAt EXCEPT ![p] = w])
              /\ configJob' = configJob
        \/ \E f \in Config!File, c \in SUBSET Config!Keys : c \subseteq Config!ScopeOf(f)
              /\ \E w, t : Config!Save(p, f, w, c, t)
    <3>1. CASE Config!ReadRegistry(p)
      <4>1. {k \in Config!User : configStart.home[k] # Config!Unset} \subseteq Config!ScopeOf("env") /\ "env" \in Config!File /\ {k \in Config!User : configStart.home[k] # Config!Unset} \in SUBSET Config!Keys
        BY DEF Config!ScopeOf, Config!File, Config!Keys
      <4> QED
        BY <3>1, <4>1 DEF Config!ReadRegistry, Config!Returns
    <3>2. CASE Config!ReadFiles(p)
      <4> DEFINE old == Config!LegacyOf(CwdOf[p])
      <4>1. {k \in Config!Local : old[k] # Config!Unset} \subseteq Config!ScopeOf("registry")
               /\ "registry" \in Config!File
                     /\ {k \in Config!Local : old[k] # Config!Unset} \in SUBSET Config!Keys
        BY DEF Config!ScopeOf, Config!File, Config!Keys
      <4> QED
        BY <3>2, <4>1 DEF Config!ReadFiles, Config!Returns
    <3>3. CASE Config!Keep(p) \/ Config!Saved(p) \/ Config!ModelSaved(p)
      BY <3>3 DEF Config!Keep, Config!Saved, Config!ModelSaved, Config!Forgets
    <3>4. CASE Config!Confirm(p)
      <4>1. {"model"} \subseteq Config!ScopeOf("env") /\ "env" \in Config!File
               /\ {"model"} \in SUBSET Config!Keys
        BY DEF Config!ScopeOf, Config!File, Config!User, Config!Keys
      <4> QED
        BY <3>4, <4>1 DEF Config!Confirm
    <3>5. CASE \E k \in Config!Keys, v \in Values : Config!SetForDirectory(p, k, v)
      <4>1. PICK k \in Config!Keys, v \in Values : Config!SetForDirectory(p, k, v)
        BY <3>5
      <4>2. {k} \subseteq Config!ScopeOf("registry") /\ "registry" \in Config!File
               /\ {k} \in SUBSET Config!Keys
        BY <4>1 DEF Config!SetForDirectory, Config!ScopeOf, Config!File
      <4> QED
        BY <4>1, <4>2 DEF Config!SetForDirectory
    <3>6. CASE \E k \in Config!Keys, v \in Values : Config!Choose(p, k, v)
      <4>1. PICK k \in Config!Keys, v \in Values : Config!Choose(p, k, v)
        BY <3>6
      <4> DEFINE f == IF k \in Config!Local THEN "registry" ELSE "env"
      <4>2. {k} \subseteq Config!ScopeOf(f) /\ f \in Config!File /\ {k} \in SUBSET Config!Keys
        BY DEF Config!ScopeOf, Config!File, Config!Keys
      <4> QED
        BY <4>1, <4>2 DEF Config!Choose
    <3> QED
      BY <1>2, <3>1, <3>2, <3>3, <3>4, <3>5, <3>6
  <2>3. \A q \in Proc : q # p => configAt'[q] = configAt[q] /\ configJob'[q] = configJob[q]
           /\ configSnapshot'[q] = configSnapshot[q]
    BY <1>0, <2>1, <2>2 DEF Config!Save
  <2>4. configAt'[p] # "write" /\ Config!Scoped(p)'
    <3>1. CASE configAt' = [configAt EXCEPT ![p] = "idle"]
                  \/ \E w \in Config!Returns : configAt' = [configAt EXCEPT ![p] = w]
      BY <1>0, <3>1 DEF Config!Returns, Config!Scoped, Config!Saving, Config!Section
    <3>2. CASE \E f \in Config!File, c \in SUBSET Config!Keys : c \subseteq Config!ScopeOf(f)
                  /\ \E w, t : Config!Save(p, f, w, c, t)
      <4>1. PICK f \in Config!File, c \in SUBSET Config!Keys : c \subseteq Config!ScopeOf(f)
               /\ \E w, t : Config!Save(p, f, w, c, t)
        BY <3>2
      <4>2. configAt'[p] = "acquire" /\ configJob'[p].file = f /\ configJob'[p].changed = c
        BY <1>0, <4>1 DEF Config!Save
      <4> QED
        BY <4>1, <4>2 DEF Config!Scoped
    <3> QED
      BY <2>2, <3>1, <3>2
  <2>5. \A q \in Proc : Config!Scoped(q)'
    BY <2>3, <2>4 DEF Config!Contents, Config!Scoped
  <2> QED
    BY <2>1, <2>3, <2>4, <2>5, ContentsAside
<1>3. ASSUME \/ \E d \in Dir : Config!RemoveLegacy(d)
             \/ UNCHANGED Config!settingsVars
      PROVE Config!Contents'
  <2>1. UNCHANGED <<configConfig, configRegistry, configChosen, configBreach, configAlive,
                    configAt, configJob, configSnapshot>>
    BY <1>3
       DEF Config!RemoveLegacy, Config!settingsVars, Config!diskVars, Config!lockVars,
           Config!callVars, Config!restVars
  <2> QED
    BY <2>1 DEF Config!Contents, Config!Scoped
<1>4. ASSUME NEW p \in Proc, Config!ReadLatest(p) PROVE Config!Contents'
  <2>1. /\ UNCHANGED <<configConfig, configRegistry, configChosen, configBreach, configAlive,
                       configJob>> /\ configAt' = [configAt EXCEPT ![p] = "write"]
                          /\ configAt[p] = "locked"
        /\ configSnapshot' = [configSnapshot EXCEPT ![p] = [config |-> configConfig, registry |-> configRegistry]]
    BY <1>4 DEF Config!ReadLatest, Config!diskVars, Config!lockVars, Config!restVars
  <2>2. \A q \in Proc : /\ configAt'[q] = IF q = p THEN "write" ELSE configAt[q]
                        /\ configSnapshot'[q] = IF q = p
                              THEN [config |-> configConfig, registry |-> configRegistry]
                                 ELSE configSnapshot[q]
    BY <1>0, <2>1
  <2>3. \A q \in Proc : Config!Scoped(q)'
    BY <2>1, <2>2 DEF Config!Contents, Config!Scoped, Config!Saving, Config!Section
  <2> QED
    BY <2>1, <2>2, <2>3 DEF Config!Contents
<1>5. ASSUME NEW p \in Proc, Config!Write(p) PROVE Config!Contents'
  <2> DEFINE f == configJob[p].file
             d == CwdOf[p]
             meant == Config!Only(configJob[p].whole, configJob[p].changed)
  <2>1. UNCHANGED <<configBreach, configAlive, configJob,
                    configSnapshot>> /\ configAt' = [configAt EXCEPT ![p] = "release"]
                       /\ configAt[p] = "write" /\ configAlive[p]
    BY <1>5 DEF Config!Write, Config!lockVars, Config!restVars
  <2>2. \A q \in Proc : configAt'[q] = IF q = p THEN "release" ELSE configAt[q]
    BY <1>0, <2>1
  <2>3. \A q \in Proc : Config!Scoped(q)'
    BY <2>1, <2>2 DEF Config!Contents, Config!Scoped, Config!Saving, Config!Section
  <2>4. Config!NewValues(p) = meant
    <3>1. configJob[p].changed \cap Config!ScopeOf(f) = configJob[p].changed
      BY <2>1 DEF Config!Contents, Config!Scoped, Config!Saving, Config!Section
    <3> QED
      BY <3>1 DEF Config!NewValues
  <2>5. ASSUME configBreach = "none", NEW q \in Proc, configAlive[q], configAt'[q] = "write"
     PROVE configJob[q].file # f
    <3>1. Config!Inside(q, configJob[q].file) /\ Config!Inside(p, f) /\ q # p
      BY <2>1, <2>2, <2>5 DEF Config!Inside, Config!Section
    <3> QED
      BY <1>0, <2>5, <3>1 DEF Config!Locks
  <2>6. d \in Dir
    BY SettingsSettingHolds DEF Config!SettingsSetting
  <2> HIDE DEF meant, d
  <2>7. CASE f = "env"
    <3>1. configConfig' = Config!Over(meant, configSnapshot[p].config)
             /\ configRegistry' = configRegistry
                   /\ configChosen' = [configChosen EXCEPT !.config = Config!Over(meant, configChosen.config)]
      BY <1>5, <2>4, <2>7 DEF Config!Write, meant
    <3>2. configChosen'.config = Config!Over(meant, configChosen.config)
             /\ configChosen'.registry = configChosen.registry
      BY <1>0, <3>1 DEF Config!Disk
    <3>3. configBreach = "none" => configConfig' = configChosen'.config
             /\ configRegistry' = configChosen'.registry
      BY <2>1, <2>7, <3>1, <3>2 DEF Config!Contents
    <3>4. configBreach = "none" => \A q \in Proc : configAlive[q] /\ configAt'[q] = "write"
             => configJob[q].file # "env" /\ configSnapshot[q].registry = configRegistry
      BY <2>2, <2>5, <2>7 DEF Config!Contents
    <3> QED
      BY <2>1, <2>3, <3>1, <3>3, <3>4 DEF Config!Contents
  <2>8. CASE f # "env"
    <3>0. f = "registry"
      BY <1>0, <2>8 DEF Config!File
    <3>1. /\ configConfig' = configConfig
                /\ configRegistry' = [configSnapshot[p].registry EXCEPT ![d] = Config!Over(meant, configSnapshot[p].registry[d])]
          /\ configChosen' = [configChosen EXCEPT !.registry[d] = Config!Over(meant, configChosen.registry[d])]
      BY <1>5, <2>4, <2>8 DEF Config!Write, meant, d
    <3>2. configChosen'.config = configChosen.config
             /\ configChosen'.registry = [configChosen.registry EXCEPT ![d] = Config!Over(meant, configChosen.registry[d])]
      BY <1>0, <3>1 DEF Config!Disk
    <3>3. configBreach = "none" => configConfig' = configChosen'.config
             /\ configRegistry' = configChosen'.registry
      BY <2>1, <2>8, <3>1, <3>2 DEF Config!Contents
    <3>4. configBreach = "none" => \A q \in Proc : configAlive[q] /\ configAt'[q] = "write"
             => configJob[q].file = "env" /\ configSnapshot[q].config = configConfig
      BY <1>0, <2>2, <2>5, <3>0 DEF Config!Contents, Config!File
    <3> QED
      BY <2>1, <2>3, <3>1, <3>3, <3>4 DEF Config!Contents
  <2> QED
    BY <2>7, <2>8
<1> QED
  BY <1>1, <1>2, <1>3, <1>4, <1>5 DEF Config!Next

LEMMA CachedFirst == Config!Init => Config!Cached
<1> SUFFICES ASSUME Config!Init, NEW p \in Proc PROVE Config!CachedOf(p)
  BY DEF Config!Cached
<1>1. configAt[p] \in {"start", "idle"} /\ configStamp[p] = <<>> /\ configCache[p].stamp = <<>>
  BY DEF Config!Init, Config!NoCache
<1>2. ~ Config!ReturnsTo(p, "files") /\ ~ Config!ReturnsTo(p, "keep")
  BY <1>1 DEF Config!ReturnsTo, Config!Saving, Config!Section
<1> QED
  BY <1>1, <1>2
     DEF Config!CachedOf, Config!Behind, Config!HasEntry, Config!HasFiles, Config!IsCached

(* The files stay, and no load of this process comes nearer to its end.    *)
LEMMA CachedAside ==
  ASSUME NEW q, Config!CachedOf(q),
         UNCHANGED <<configConfig, configRegistry, configVersion, configLegacy,
                     configStart>>, configEnv'[q] = configEnv[q],
         configStamp'[q] = configStamp[q] \/ configStamp'[q] = <<>>,
            configCache'[q] = configCache[q] \/ configCache'[q] = Config!NoCache,
         configAt'[q] = "start" => configAt[q] = "start",
         Config!ReturnsTo(q, "files")' => Config!ReturnsTo(q, "files")
            /\ configView'[q] = configView[q] /\ configStamp'[q] = configStamp[q],
         Config!ReturnsTo(q, "keep")' => Config!ReturnsTo(q, "keep")
            /\ configView'[q] = configView[q] /\ configStamp'[q] = configStamp[q]
  PROVE  Config!CachedOf(q)'
<1>1. Config!Fingerprint(q)' = Config!Fingerprint(q) /\ Config!Current(q)' = Config!Current(q)
  BY DEF Config!Fingerprint, Config!Current, Config!Resolved, Config!LegacyOf
<1>2. Config!Behind(configStamp[q], q)' /\ Config!Behind(configCache[q].stamp, q)'
  BY DEF Config!CachedOf, Config!Behind, Config!NoCache
<1>3. configAt'[q] = "start" => configCache'[q].stamp = <<>>
  BY DEF Config!CachedOf, Config!NoCache
<1>4. Config!HasEntry(q)' /\ Config!HasFiles(q)'
  BY <1>1 DEF Config!CachedOf, Config!HasEntry, Config!HasFiles
<1>5. Config!IsCached(q)'
  BY <1>1 DEF Config!CachedOf, Config!IsCached, Config!Fresh, Config!NoCache
<1> QED
  BY <1>2, <1>3, <1>4, <1>5 DEF Config!CachedOf

(* Another version of a file, or a legacy file that is gone.               *)
LEMMA Outdated ==
  ASSUME Config!SettingsTyped, NEW q \in Proc, Config!CachedOf(q),
         UNCHANGED <<configStamp, configCache, configView, configEnv, configStart>>,
         configAt'[q] = "start" => configAt[q] = "start",
            Config!ReturnsTo(q, "files")' => Config!ReturnsTo(q, "files"),
         Config!ReturnsTo(q, "keep")' => Config!ReturnsTo(q, "keep"),
         \/ /\ UNCHANGED <<configLegacy, configRegistry>>
               /\ configVersion' = [configVersion EXCEPT !["env"] = @ + 1]
         \/ /\ UNCHANGED <<configLegacy, configConfig>>
               /\ configVersion' = [configVersion EXCEPT !["registry"] = @ + 1]
         \/ /\ UNCHANGED <<configConfig, configRegistry,
                           configVersion>> /\ \E d \in Dir : configLegacy[d]
                              /\ configLegacy' = [configLegacy EXCEPT ![d] = FALSE]
  PROVE  Config!CachedOf(q)'
<1> DEFINE d == CwdOf[q]
<1>0. d \in Dir
  BY SettingsSettingHolds DEF Config!SettingsSetting
<1>1. configVersion["env"] \in Nat /\ configVersion["registry"] \in Nat
         /\ DOMAIN configVersion = Config!File /\ DOMAIN configLegacy = Dir
               /\ configLegacy[d] \in BOOLEAN
  BY <1>0 DEF Config!SettingsTyped, Config!File
<1>2. configStamp[q] \in Config!Stamp /\ configCache[q].stamp \in Config!Stamp
  BY DEF Config!SettingsTyped, Config!Kept
<1> HIDE DEF d
<1>3. /\ configVersion'["env"] = configVersion["env"]
            \/ configVersion'["env"] = configVersion["env"] + 1
      /\ configVersion'["registry"] = configVersion["registry"]
            \/ configVersion'["registry"] = configVersion["registry"] + 1
      /\ configLegacy'[d] => configLegacy[d]
  BY <1>0, <1>1 DEF Config!File
<1>4. ASSUME NEW st \in Config!Stamp, Config!Behind(st, q)
      PROVE  /\ Config!Behind(st, q)'
             /\ st = Config!Fingerprint(q)' => st = Config!Fingerprint(q)
                   /\ Config!Fingerprint(q)' = Config!Fingerprint(q)
  <2>1. Config!Behind(st, q)'
    BY <1>1, <1>3, <1>4 DEF Config!Behind, Config!Stamp, d
  <2>2. Config!Fingerprint(q) = <<configVersion["env"], configVersion["registry"], configLegacy[d]>> /\ Config!Fingerprint(q)' = <<configVersion'["env"], configVersion'["registry"], configLegacy'[d]>>
    BY DEF Config!Fingerprint, d
  <2>3. ASSUME st = Config!Fingerprint(q)'
     PROVE Config!Fingerprint(q)' = Config!Fingerprint(q)
    <3>1. st # <<>> /\ st[1] = configVersion'["env"] /\ st[2] = configVersion'["registry"]
             /\ st[3] = configLegacy'[d]
      BY <2>2, <2>3
    <3>2. configVersion'["env"] <= configVersion["env"]
             /\ configVersion'["registry"] <= configVersion["registry"]
                   /\ (configLegacy[d] => configLegacy'[d])
      BY <1>4, <3>1 DEF Config!Behind, d
    <3>3. configVersion'["env"] = configVersion["env"]
             /\ configVersion'["registry"] = configVersion["registry"]
      BY <1>1, <1>3, <3>2
    <3>4. configLegacy'[d] \in BOOLEAN
      BY <1>0, <1>1
    <3>5. configLegacy'[d] = configLegacy[d]
      BY <1>1, <1>3, <3>2, <3>4
    <3> QED
      BY <2>2, <3>3, <3>5
  <2> QED
    BY <2>1, <2>3
<1>5. configVersion'["registry"] = configVersion["registry"] => configRegistry' = configRegistry
  BY <1>1 DEF Config!File
<1>6. Config!Fingerprint(q)' = Config!Fingerprint(q) => UNCHANGED <<configConfig, configRegistry>>
         /\ configLegacy'[d] = configLegacy[d]
  <2>1. ASSUME Config!Fingerprint(q)' = Config!Fingerprint(q)
        PROVE  configVersion'["env"] = configVersion["env"]
                  /\ configVersion'["registry"] = configVersion["registry"]
                        /\ configLegacy'[d] = configLegacy[d]
    BY <2>1 DEF Config!Fingerprint, d
  <2> QED
    BY <1>1, <2>1 DEF Config!File
<1>7. Config!Fingerprint(q)' = Config!Fingerprint(q) => Config!Current(q)' = Config!Current(q)
  BY <1>6 DEF Config!Current, Config!Resolved, Config!LegacyOf, d
<1>8. Config!Behind(configStamp[q], q)' /\ Config!Behind(configCache[q].stamp, q)'
  BY <1>2, <1>4 DEF Config!CachedOf, Config!Behind
<1>9. Config!HasEntry(q)'
  <2>1. ASSUME Config!ReturnsTo(q, "files")', configStamp[q] # <<>>,
               configStamp[q][2] = configVersion'["registry"]
        PROVE  configStamp[q][2] = configVersion["registry"]
                  /\ configVersion'["registry"] = configVersion["registry"]
    BY <1>1, <1>3, <2>1 DEF Config!CachedOf, Config!Behind
  <2> QED
    BY <1>5, <2>1 DEF Config!CachedOf, Config!HasEntry
<1>10. Config!HasFiles(q)'
  BY <1>2, <1>4, <1>7 DEF Config!CachedOf, Config!HasFiles
<1>11. Config!IsCached(q)'
  BY <1>2, <1>4, <1>7 DEF Config!CachedOf, Config!IsCached, Config!Fresh
<1> QED
  BY <1>8, <1>9, <1>10, <1>11 DEF Config!CachedOf

LEMMA CachedStep == Config!SettingsTyped /\ Config!Cached /\ [Config!Next]_Config!settingsVars
   => Config!Cached'
<1> SUFFICES ASSUME Config!SettingsTyped, Config!Cached, [Config!Next]_Config!settingsVars
   PROVE Config!Cached'
  OBVIOUS
<1> USE DEF Config!Goes, Config!In
<1>0. /\ DOMAIN configAt = Proc /\ configJob \in [Proc -> Config!Job] /\ DOMAIN configStamp = Proc
            /\ DOMAIN configCache = Proc /\ DOMAIN configView = Proc
      /\ \A p \in Proc : configJob[p].then \in Config!Returns /\ CwdOf[p] \in Dir
            /\ configLegacy[CwdOf[p]] \in BOOLEAN
      /\ configVersion["env"] \in Nat /\ configVersion["registry"] \in Nat
  BY Job1, SettingsSettingHolds
     DEF Config!SettingsTyped, Config!SettingsSetting, Config!File
<1>1. ASSUME NEW p \in Proc,
             \/ Config!WaitTurn(p) \/ Config!GivesUp(p) \/ Config!Judge(p) \/ Config!Fails(p)
                   \/ Config!Claim(p) \/ Config!Destroy(p) \/ Config!PutBack(p)
             \/ Config!Create(p) \/ Config!Release(p) \/ Config!ReadLatest(p)
             \/ Config!OpenMenu(p) \/ Config!Decline(p) \/ Config!Die(p)
                   \/ (\E c \in BOOLEAN : Config!Close(p, c))
                         \/ (\E v \in Values : Config!ChooseModel(p, v))
      PROVE Config!Cached'
  <2>1. /\ UNCHANGED <<configConfig, configRegistry, configVersion, configLegacy, configStart,
                       configEnv, configStamp, configCache, configView>>
        /\ \/ UNCHANGED configAt
           \/ configAt[p] \in Config!Saving
                 /\ configAt' = [configAt EXCEPT ![p] = configJob[p].then]
           \/ configAt[p] \in Config!Saving
                 /\ \E w \in Config!Saving : configAt' = [configAt EXCEPT ![p] = w]
    BY <1>0, <1>1
       DEF Config!WaitTurn, Config!GivesUp, Config!Judge, Config!Fails, Config!Claim,
           Config!Destroy, Config!PutBack, Config!Create, Config!Release, Config!ReadLatest,
       Config!OpenMenu, Config!Decline, Config!Die, Config!Close, Config!ChooseModel,
       Config!TriesAgain, Config!diskVars, Config!restVars, Config!callVars,
       Config!Section, Config!Saving
  <2>2. configJob' = configJob \/ configJob' = [configJob EXCEPT ![p].ok = FALSE]
           \/ \E h : configJob' = [configJob EXCEPT ![p].held = h]
    BY <1>1
       DEF Config!WaitTurn, Config!GivesUp, Config!Judge, Config!Fails, Config!Claim,
           Config!Destroy, Config!PutBack, Config!Create, Config!Release, Config!ReadLatest,
       Config!OpenMenu, Config!Decline, Config!Die, Config!Close, Config!ChooseModel,
       Config!callVars
  <2>3. \A q \in Proc : configJob'[q].then = configJob[q].then
    BY <1>0, <2>2 DEF Config!Job
  <2>4. \A q \in Proc, w \in {"files", "keep"} : Config!ReturnsTo(q, w)' => Config!ReturnsTo(q, w)
    BY <1>0, <2>1, <2>3 DEF Config!ReturnsTo, Config!Saving, Config!Section
  <2>5. \A q \in Proc : configAt'[q] = "start" => configAt[q] = "start"
    BY <1>0, <2>1 DEF Config!Returns, Config!Saving, Config!Section
  <2> QED
    BY <2>1, <2>4, <2>5, CachedAside DEF Config!Cached
<1>2. ASSUME NEW p \in Proc,
             \/ Config!Saved(p) \/ Config!ModelSaved(p) \/ Config!Confirm(p)
             \/ \E k \in Config!Keys,
                v \in Values : Config!SetForDirectory(p, k, v) \/ Config!Choose(p, k, v)
      PROVE Config!Cached'
  <2>1. /\ UNCHANGED <<configConfig, configRegistry, configVersion, configLegacy, configStart,
                       configEnv>>
        /\ configCache' = configCache \/ configCache' = [configCache EXCEPT ![p] = Config!NoCache]
    BY <1>2
       DEF Config!Saved, Config!ModelSaved, Config!Confirm, Config!SetForDirectory,
           Config!Choose, Config!diskVars, Config!restVars
  <2>2. \/ /\ configAt' = [configAt EXCEPT ![p] = "idle"]
                 /\ configJob' = [configJob EXCEPT ![p] = Config!NoJob]
                       /\ configStamp' = [configStamp EXCEPT ![p] = <<>>]
           /\ configView' = [configView EXCEPT ![p] = Config!Empty]
        \/ /\ UNCHANGED <<configStamp, configView>>
              /\ \E t \in {"saved", "model"} : \E f, w, c : Config!Save(p, f, w, c, t)
    <3>1. CASE Config!Saved(p) \/ Config!ModelSaved(p)
      BY <3>1 DEF Config!Saved, Config!ModelSaved, Config!Forgets
    <3>2. CASE Config!Confirm(p)
      BY <3>2 DEF Config!Confirm
    <3>3. CASE \E k \in Config!Keys, v \in Values : Config!SetForDirectory(p, k, v)
      BY <3>3 DEF Config!SetForDirectory
    <3>4. CASE \E k \in Config!Keys, v \in Values : Config!Choose(p, k, v)
      BY <3>4 DEF Config!Choose
    <3> QED
      BY <1>2, <3>1, <3>2, <3>3, <3>4
  <2>3. \A q \in Proc : q # p => configAt'[q] = configAt[q] /\ configJob'[q] = configJob[q]
           /\ configStamp'[q] = configStamp[q] /\ configView'[q] = configView[q]
    BY <1>0, <2>2 DEF Config!Save
  <2>4. configAt'[p] # "start" /\ ~ Config!ReturnsTo(p, "files")' /\ ~ Config!ReturnsTo(p, "keep")'
    BY <1>0, <2>2 DEF Config!Save, Config!ReturnsTo, Config!Saving, Config!Section
  <2>5. \A q \in Proc : configStamp'[q] = configStamp[q] \/ configStamp'[q] = <<>>
    BY <1>0, <2>2
  <2>6. \A q \in Proc : configCache'[q] = configCache[q] \/ configCache'[q] = Config!NoCache
    BY <1>0, <2>1
  <2>7. \A q \in Proc, w \in {"files", "keep"} : Config!ReturnsTo(q, w)' => Config!ReturnsTo(q, w)
           /\ configView'[q] = configView[q] /\ configStamp'[q] = configStamp[q]
    BY <2>3, <2>4 DEF Config!ReturnsTo
  <2>8. \A q \in Proc : configAt'[q] = "start" => configAt[q] = "start"
    BY <2>3, <2>4
  <2> QED
    BY <2>1, <2>5, <2>6, <2>7, <2>8, CachedAside DEF Config!Cached
<1>3. ASSUME UNCHANGED Config!settingsVars PROVE Config!Cached'
  <2>1. UNCHANGED <<configConfig, configRegistry, configVersion, configLegacy, configStart,
                    configEnv, configStamp, configView, configCache, configAt, configJob>>
    BY <1>3 DEF Config!settingsVars, Config!diskVars, Config!callVars, Config!restVars
  <2>2. \A q \in Proc, w \in {"files", "keep"} : Config!ReturnsTo(q, w)' => Config!ReturnsTo(q, w)
    BY <2>1 DEF Config!ReturnsTo
  <2> QED
    BY <2>1, <2>2, CachedAside DEF Config!Cached
<1>4. ASSUME NEW d \in Dir, Config!RemoveLegacy(d) PROVE Config!Cached'
  <2>1. /\ UNCHANGED <<configConfig, configRegistry, configVersion, configStart, configEnv,
                       configStamp, configView, configCache, configAt, configJob>>
        /\ configLegacy[d] /\ configLegacy' = [configLegacy EXCEPT ![d] = FALSE]
    BY <1>4 DEF Config!RemoveLegacy, Config!diskVars, Config!callVars
  <2>2. \A q \in Proc, w \in {"files", "keep"} : Config!ReturnsTo(q, w)' => Config!ReturnsTo(q, w)
    BY <2>1 DEF Config!ReturnsTo
  <2> QED
    BY <2>1, <2>2, Outdated DEF Config!Cached
<1>5. ASSUME NEW p \in Proc, Config!Write(p) PROVE Config!Cached'
  <2>1. /\ UNCHANGED <<configLegacy, configStart, configEnv, configStamp, configView, configCache,
                       configJob>> /\ configAt[p] = "write"
                          /\ configAt' = [configAt EXCEPT ![p] = "release"]
        /\ configVersion' = [configVersion EXCEPT ![configJob[p].file] = @ + 1]
        /\ IF configJob[p].file = "env" THEN UNCHANGED configRegistry ELSE UNCHANGED configConfig
    BY <1>5 DEF Config!Write, Config!restVars
  <2>2. configJob[p].file \in {"env", "registry"}
    BY Job1 DEF Config!File
  <2>3. \A q \in Proc, w \in {"files", "keep"} : Config!ReturnsTo(q, w)' => Config!ReturnsTo(q, w)
    BY <1>0, <2>1 DEF Config!ReturnsTo, Config!Saving, Config!Section
  <2>4. \A q \in Proc : configAt'[q] = "start" => configAt[q] = "start"
    BY <1>0, <2>1
  <2> QED
    BY <2>1, <2>2, <2>3, <2>4, Outdated DEF Config!Cached
<1>6. ASSUME NEW p \in Proc, Config!Bridge(p) PROVE Config!Cached'
  <2>1. /\ UNCHANGED <<configConfig, configRegistry, configVersion, configLegacy, configStart,
                       configStamp, configView, configCache, configJob>> /\ configAt[p] = "start"
        /\ configAt' = [configAt EXCEPT ![p] = "idle"]
              /\ \E e : configEnv' = [configEnv EXCEPT ![p] = e]
    BY <1>6 DEF Config!Bridge, Config!diskVars
  <2>2. ASSUME NEW q \in Proc, q # p PROVE Config!CachedOf(q)'
    <3>1. configEnv'[q] = configEnv[q] /\ configAt'[q] = configAt[q]
      BY <1>0, <2>1, <2>2 DEF Config!SettingsTyped
    <3>2. \A w \in {"files", "keep"} : Config!ReturnsTo(q, w)' => Config!ReturnsTo(q, w)
      BY <2>1, <3>1 DEF Config!ReturnsTo
    <3> QED
      BY <2>1, <3>1, <3>2, CachedAside DEF Config!Cached
  <2>3. Config!CachedOf(p)'
    <3>1. Config!CachedOf(p) /\ configAt'[p] = "idle"
      BY <1>0, <2>1 DEF Config!Cached
    <3>2. configCache'[p].stamp = <<>> /\ Config!Behind(configStamp[p], p)'
             /\ Config!Behind(configCache[p].stamp, p)'
      BY <2>1, <3>1 DEF Config!CachedOf, Config!Behind
    <3>3. ~ Config!ReturnsTo(p, "files")' /\ ~ Config!ReturnsTo(p, "keep")'
      BY <3>1 DEF Config!ReturnsTo, Config!Saving, Config!Section
    <3> QED
      BY <3>1, <3>2, <3>3
         DEF Config!CachedOf, Config!HasEntry, Config!HasFiles, Config!IsCached
  <2> QED
    BY <2>2, <2>3 DEF Config!Cached
<1>7. ASSUME NEW p \in Proc,
             Config!GetConfig(p) \/ Config!ReadRegistry(p) \/ Config!ReadFiles(p) \/ Config!Keep(p)
                PROVE Config!Cached'
  <2>1. /\ UNCHANGED <<configConfig, configRegistry, configVersion, configLegacy, configStart,
                       configEnv>>
        /\ \A q \in Proc \ {p} : configAt'[q] = configAt[q] /\ configJob'[q] = configJob[q]
              /\ configStamp'[q] = configStamp[q] /\ configView'[q] = configView[q]
                    /\ configCache'[q] = configCache[q]
    BY <1>0, <1>7
       DEF Config!GetConfig, Config!ReadRegistry, Config!ReadFiles, Config!Keep,
           Config!Forgets, Config!Save, Config!diskVars, Config!restVars
  <2>2. ASSUME NEW q \in Proc, q # p PROVE Config!CachedOf(q)'
    <3>1. \A w \in {"files", "keep"} : Config!ReturnsTo(q, w)' => Config!ReturnsTo(q, w)
      BY <2>1, <2>2 DEF Config!ReturnsTo
    <3> QED
      BY <2>1, <2>2, <3>1, CachedAside DEF Config!Cached
  <2>3. Config!Fingerprint(p)' = Config!Fingerprint(p) /\ Config!Current(p)' = Config!Current(p)
           /\ \A st : Config!Behind(st, p)' <=> Config!Behind(st, p)
    BY <2>1
       DEF Config!Fingerprint, Config!Current, Config!Resolved, Config!LegacyOf,
           Config!Behind
  <2>4. Config!CachedOf(p)'
    <3>0. Config!CachedOf(p)
      BY DEF Config!Cached
    <3>1. CASE Config!GetConfig(p)
      <4>1. configAt'[p] = "load" /\ configStamp'[p] = Config!Fingerprint(p)
               /\ configCache' = configCache
        BY <1>0, <3>1 DEF Config!GetConfig
      <4>2. Config!Behind(Config!Fingerprint(p), p)
        BY <1>0 DEF Config!Behind, Config!Fingerprint
      <4>3. ~ Config!ReturnsTo(p, "files")' /\ ~ Config!ReturnsTo(p, "keep")'
        BY <4>1 DEF Config!ReturnsTo, Config!Saving, Config!Section
      <4> QED
        BY <2>3, <3>0, <4>1, <4>2, <4>3
           DEF Config!CachedOf, Config!HasEntry, Config!HasFiles, Config!IsCached,
               Config!Fresh, Config!Behind
    <3>2. CASE Config!ReadRegistry(p)
      <4>1. /\ UNCHANGED <<configStamp, configCache>> /\ configView'[p] = configRegistry[CwdOf[p]]
            /\ \/ configAt'[p] = "files"
               \/ configAt'[p] = "acquire" /\ configJob'[p].then = "files"
        BY <1>0, <3>2 DEF Config!ReadRegistry, Config!Save
      <4>2. ~ Config!ReturnsTo(p, "keep")' /\ configAt'[p] # "start"
        BY <4>1 DEF Config!ReturnsTo, Config!Saving, Config!Section
      <4> QED
        BY <2>1, <2>3, <3>0, <4>1, <4>2
           DEF Config!CachedOf, Config!HasEntry, Config!HasFiles, Config!IsCached,
               Config!Fresh, Config!Behind
    <3>3. CASE Config!ReadFiles(p)
      <4>1. /\ UNCHANGED <<configStamp, configCache>>
                  /\ configView'[p] = Config!Resolved(p, configConfig, configView[p])
                        /\ configAt[p] = "files"
            /\ \/ configAt'[p] = "keep"
               \/ configAt'[p] = "acquire" /\ configJob'[p].then = "keep"
        BY <1>0, <3>3 DEF Config!ReadFiles, Config!Save
      <4>2. ~ Config!ReturnsTo(p, "files")' /\ configAt'[p] # "start"
        BY <4>1 DEF Config!ReturnsTo, Config!Saving, Config!Section
      <4>3. configStamp[p] = Config!Fingerprint(p) => configView[p] = configRegistry[CwdOf[p]]
        BY <3>0, <4>1
           DEF Config!CachedOf, Config!HasEntry, Config!ReturnsTo, Config!Fingerprint
      <4>4. Config!HasFiles(p)'
        BY <2>3, <4>1, <4>3 DEF Config!HasFiles, Config!Current
      <4> QED
        BY <2>3, <3>0, <4>1, <4>2, <4>4
           DEF Config!CachedOf, Config!HasEntry, Config!IsCached, Config!Fresh,
               Config!Behind
    <3>4. CASE Config!Keep(p)
      <4>1. configAt[p] = "keep" /\ configAt'[p] = "idle" /\ configStamp'[p] = <<>>
               /\ configCache'[p].stamp = configStamp[p] /\ configCache'[p].view = configView[p]
        BY <1>0, <3>4 DEF Config!Keep, Config!Forgets
      <4>2. ~ Config!ReturnsTo(p, "files")' /\ ~ Config!ReturnsTo(p, "keep")'
        BY <4>1 DEF Config!ReturnsTo, Config!Saving, Config!Section
      <4>3. configStamp[p] = Config!Fingerprint(p) => configView[p] = Config!Current(p)
        BY <3>0, <4>1 DEF Config!CachedOf, Config!HasFiles, Config!ReturnsTo
      <4>4. Config!IsCached(p)'
        BY <2>3, <4>1, <4>3 DEF Config!IsCached, Config!Fresh
      <4>5. Config!Behind(configStamp[p], p)' /\ Config!Behind(configCache[p].stamp, p)'
        BY <2>3, <3>0, <4>1 DEF Config!CachedOf, Config!Behind
      <4> QED
        BY <4>1, <4>2, <4>4, <4>5 DEF Config!CachedOf, Config!HasEntry, Config!HasFiles
    <3> QED
      BY <1>7, <3>1, <3>2, <3>3, <3>4
  <2> QED
    BY <2>2, <2>4 DEF Config!Cached
<1> QED
  BY <1>1, <1>2, <1>3, <1>4, <1>5, <1>6, <1>7 DEF Config!Next

(* Any processes that load and save any settings, whoever of them dies in  *)
(* a save: what the files hold is what was chosen, until a fresh lock was  *)
(* mistaken, held or lost by a steal, and a cached view whose fingerprint  *)
(* is that of the files is what they resolve to.                           *)
THEOREM SavesSurvive == Config!Spec => []Config!SettingsAreTruthful
<1>1. Config!Init => Config!SettingsTyped /\ Config!Locks /\ Config!Contents /\ Config!Cached
  BY TypedFirst, LocksFirst, ContentsFirst, CachedFirst
<1>2. Config!SettingsTyped /\ Config!Locks /\ Config!Contents /\ Config!Cached
         /\ [Config!Next]_Config!settingsVars
               => (Config!SettingsTyped /\ Config!Locks /\ Config!Contents /\ Config!Cached)'
  BY TypedStep, LocksStep, ContentsStep, CachedStep
<1>3. Config!SettingsTyped /\ Config!Locks /\ Config!Contents /\ Config!Cached
         => Config!SettingsAreTruthful
  <2> SUFFICES ASSUME Config!Locks, Config!Contents, Config!Cached
     PROVE Config!SettingsAreTruthful
    OBVIOUS
  <2>1. Config!SavesAreKept
    BY DEF Config!Locks, Config!Contents, Config!SavesAreKept
  <2>2. Config!StampedMeansCurrent
    BY DEF Config!Cached, Config!CachedOf, Config!IsCached, Config!StampedMeansCurrent,
       Config!Current
  <2> QED
    BY <2>1, <2>2 DEF Config!SettingsAreTruthful
<1> QED
  BY <1>1, <1>2, <1>3, PTL DEF Config!Spec

-----------------------------------------------------------------------------
(* The captured output.                                                    *)
VARIABLES
  stdioAt, stdioCapturing, stdioDepth, stdioStack, stdioWriters, stdioFd2
Stdio == INSTANCE StdioCapture WITH
  at <- stdioAt, capturing <- stdioCapturing, depth <- stdioDepth,
  stack <- stdioStack, writers <- stdioWriters, fd2 <- stdioFd2,
  Capture <- Capture, KeyOf <- SessionOf, NoKey <- None,
  Terminal <- Terminal, LogFile <- LogFile, Closed <- ClosedFd,
  MaxFrames <- MaxFrames
stdioVars == <<stdioAt, stdioCapturing, stdioDepth, stdioStack, stdioWriters, stdioFd2>>

(* What the proofs need of its parameters.                                 *)
ASSUME StdioSettingHolds == Stdio!StdioSetting

LEMMA StdioLeastIsThere ==
  ASSUME NEW U \in SUBSET Nat, U # {}
  PROVE  Stdio!Min(U) \in U /\ \A j \in U : Stdio!Min(U) <= j
<1>1. \E x \in U : \A y \in U : ~ (<<y, x>> \in OpToRel(<, Nat))
  <2>1. U \subseteq Nat
    OBVIOUS
  <2> QED
    BY <2>1, WFMin, NatLessThanWellFounded
<1>2. \A x, y \in U : <<y, x>> \in OpToRel(<, Nat) <=> y < x
  BY DEF OpToRel
<1>3. \E x \in U : \A y \in U : x <= y
  <2> DEFINE R == OpToRel(<, Nat)
  <2>1. \E x \in U : \A y \in U : ~ (<<y, x>> \in R)
    BY <1>1
  <2>2. \A x, y \in U : <<y, x>> \in R <=> y < x
    BY <1>2
  <2> HIDE DEF R
  <2>3. PICK x \in U : \A y \in U : ~ (<<y, x>> \in R)
    BY <2>1
  <2>4. \A y \in U : ~(y < x)
    BY <2>2, <2>3
  <2>5. \A y \in U : x <= y
    BY <2>4
  <2> QED
    BY <2>5
<1> QED
  BY <1>3 DEF Stdio!Min

(* What is above the last frame at work is retired.                        *)
LEMMA StdioHeightIs ==
  ASSUME NEW s \in Seq(Stdio!Frame)
  PROVE  /\ Stdio!Height(s) \in 0 .. Len(s) /\ (Stdio!Height(s) = 0 \/ ~s[Stdio!Height(s)].retired)
         /\ \A i \in Stdio!Height(s) + 1 .. Len(s) : s[i].retired
<1> DEFINE U == {n \in 0 .. Len(s) : \A i \in n + 1 .. Len(s) : s[i].retired}
           least == Stdio!Min(U)
<1>1. Len(s) \in Nat
  OBVIOUS
<1>2. Len(s) \in U /\ U \in SUBSET Nat
  BY <1>1
<1>3. least \in U /\ \A j \in U : least <= j
  BY <1>2, StdioLeastIsThere
<1> HIDE DEF least
<1>4. least = 0 \/ ~s[least].retired
  <2> SUFFICES ASSUME least # 0, s[least].retired PROVE FALSE
    OBVIOUS
  <2>1. least \in Nat /\ least <= Len(s) /\ \A i \in least + 1 .. Len(s) : s[i].retired
    BY <1>1, <1>3
  <2>2. least - 1 \in 0 .. Len(s) /\ \A i \in (least - 1) + 1 .. Len(s) : i = least
           \/ i \in least + 1 .. Len(s)
    BY <1>1, <2>1
  <2>3. least - 1 \in U
    BY <2>1, <2>2
  <2>4. least <= least - 1
    BY <1>3, <2>3
  <2> QED
    BY <2>1, <2>4
<1>5. \E n \in 0 .. Len(s) : (n = 0 \/ ~s[n].retired) /\ \A i \in n + 1 .. Len(s) : s[i].retired
  BY <1>3, <1>4
<1> QED
  BY <1>5 DEF Stdio!Height

LEMMA StdioRetiring ==
  ASSUME Stdio!StdioTyped, NEW c
  PROVE  /\ Stdio!Retired(c) \in Seq(Stdio!Frame) /\ Len(Stdio!Retired(c)) = Len(stdioStack)
         /\ \A i \in 1 .. Len(stdioStack) :
              /\ Stdio!Retired(c)[i].by = stdioStack[i].by
                    /\ Stdio!Retired(c)[i].writers = stdioStack[i].writers
              /\ Stdio!Retired(c)[i].fd2 = stdioStack[i].fd2
                    /\ (Stdio!Retired(c)[i].retired <=> stdioStack[i].retired
                          \/ stdioStack[i].by = c)
<1>1. Len(stdioStack) \in Nat /\ DOMAIN stdioStack = 1 .. Len(stdioStack)
         /\ \A i \in 1 .. Len(stdioStack) : stdioStack[i] \in Stdio!Frame
  BY DEF Stdio!StdioTyped
<1>2. \A f \in Stdio!Frame : LET g == [f EXCEPT !.retired = (@ \/ f.by = c)]
                       IN  /\ g \in Stdio!Frame /\ g.by = f.by /\ g.writers = f.writers
                          /\ g.fd2 = f.fd2
                           /\ g.retired <=> f.retired \/ f.by = c
  BY DEF Stdio!Frame
<1>3. /\ DOMAIN Stdio!Retired(c) = 1 .. Len(stdioStack)
      /\ \A i \in 1 .. Len(stdioStack) : Stdio!Retired(c)[i] = [stdioStack[i] EXCEPT !.retired = (@
            \/ stdioStack[i].by = c)]
      /\ Stdio!Retired(c) = [i \in 1 .. Len(stdioStack) |-> [stdioStack[i] EXCEPT !.retired = (@
            \/ stdioStack[i].by = c)]]
  BY <1>1 DEF Stdio!Retired
<1>4. ASSUME NEW i \in 1 .. Len(stdioStack) PROVE Stdio!Retired(c)[i] \in Stdio!Frame
  <2>1. stdioStack[i] \in Stdio!Frame /\ Stdio!Retired(c)[i] = [stdioStack[i] EXCEPT !.retired = (@
           \/ stdioStack[i].by = c)]
    BY <1>1, <1>3
  <2>2. [stdioStack[i] EXCEPT !.retired = (@ \/ stdioStack[i].by = c)] \in Stdio!Frame
    BY <2>1 DEF Stdio!Frame
  <2> QED
    BY <2>1, <2>2
<1>5. Stdio!Retired(c) \in [1 .. Len(stdioStack) -> Stdio!Frame]
  BY <1>3, <1>4
<1>6. Stdio!Retired(c) \in Seq(Stdio!Frame) /\ Len(Stdio!Retired(c)) = Len(stdioStack)
  BY <1>1, <1>5
<1>7. ASSUME NEW i \in 1 .. Len(stdioStack)
      PROVE  /\ Stdio!Retired(c)[i].by = stdioStack[i].by
                   /\ Stdio!Retired(c)[i].writers = stdioStack[i].writers
             /\ Stdio!Retired(c)[i].fd2 = stdioStack[i].fd2
                   /\ (Stdio!Retired(c)[i].retired <=> stdioStack[i].retired
                         \/ stdioStack[i].by = c)
  <2>1. stdioStack[i] \in Stdio!Frame
    BY <1>1
  <2>2. Stdio!Retired(c)[i] = [stdioStack[i] EXCEPT !.retired = (@ \/ stdioStack[i].by = c)]
    BY <1>3
  <2> QED
    BY <2>1, <2>2 DEF Stdio!Frame
<1> QED
  BY <1>6, <1>7

(* The flags, when one task begins, or ends.                               *)
LEMMA StdioFlagsBegin ==
  ASSUME Stdio!StdioInv, NEW c \in Capture, stdioAt[c] = "idle", ~Stdio!Joins(c),
         stdioAt' = [stdioAt EXCEPT ![c] = "captured"],
         IF SessionOf[c] = None THEN stdioDepth' = stdioDepth + 1 /\ UNCHANGED stdioCapturing
         ELSE stdioCapturing' = stdioCapturing \cup {SessionOf[c]} /\ UNCHANGED stdioDepth
  PROVE  Stdio!FlagsAreOfTheRunning'
<1>0. Stdio!StdioTyped /\ Stdio!FlagsAreOfTheRunning
  BY DEF Stdio!StdioInv
<1>1. stdioAt'[c] = "captured" /\ \A d \in Capture : d # c => stdioAt'[d] = stdioAt[d]
  BY <1>0 DEF Stdio!StdioTyped
<1>2. \A d \in Capture : stdioAt[d] = "captured" => SessionOf[d] # SessionOf[c]
  BY <1>0 DEF Stdio!Joins, Stdio!IsAnyLoggerCapturingOutput, Stdio!FlagsAreOfTheRunning
<1>3. CASE SessionOf[c] = None
  BY <1>0, <1>1, <1>2, <1>3 DEF Stdio!FlagsAreOfTheRunning
<1>4. CASE SessionOf[c] # None
  BY <1>0, <1>1, <1>2, <1>4 DEF Stdio!FlagsAreOfTheRunning
<1> QED
  BY <1>3, <1>4

LEMMA StdioFlagsEnd == ASSUME Stdio!StdioInv, NEW c \in Capture, Stdio!Cleared(c)
   PROVE Stdio!FlagsAreOfTheRunning'
<1>0. Stdio!StdioTyped /\ Stdio!FlagsAreOfTheRunning
  BY DEF Stdio!StdioInv
<1>1. stdioAt[c] = "captured" /\ stdioAt'[c] = "idle" /\ \A d \in Capture : d # c
         => stdioAt'[d] = stdioAt[d]
  BY <1>0 DEF Stdio!StdioTyped, Stdio!Cleared
<1>2. \A d \in Capture : stdioAt[d] = "captured" /\ d # c => SessionOf[d] # SessionOf[c]
  BY <1>0, <1>1 DEF Stdio!FlagsAreOfTheRunning
<1>3. CASE SessionOf[c] = None
  <2>1. stdioDepth' = 0 /\ stdioCapturing' = stdioCapturing
    BY <1>0, <1>1, <1>3 DEF Stdio!Cleared, Stdio!FlagsAreOfTheRunning
  <2> QED
    BY <1>0, <1>1, <1>2, <1>3, <2>1 DEF Stdio!FlagsAreOfTheRunning
<1>4. CASE SessionOf[c] # None
  <2>1. stdioDepth' = stdioDepth /\ stdioCapturing' = stdioCapturing \ {SessionOf[c]}
    BY <1>4 DEF Stdio!Cleared
  <2> QED
    BY <1>0, <1>1, <1>2, <1>4, <2>1 DEF Stdio!FlagsAreOfTheRunning
<1> QED
  BY <1>3, <1>4

LEMMA StdioBeginning == ASSUME Stdio!StdioInv, NEW c \in Capture, Stdio!Begin(c)
   PROVE Stdio!StdioInv'
<1>0. Stdio!StdioTyped /\ Stdio!FramesOfTheRunning /\ Stdio!LowestKeepsTheWriters
         /\ Stdio!LogHasAReason
  BY DEF Stdio!StdioInv
<1>1. /\ stdioAt[c] = "idle" /\ ~Stdio!Joins(c) /\ stdioAt' = [stdioAt EXCEPT ![c] = "captured"]
            /\ stdioWriters' = c
      /\ IF SessionOf[c] = None THEN stdioDepth' = stdioDepth + 1 /\ UNCHANGED stdioCapturing
         ELSE stdioCapturing' = stdioCapturing \cup {SessionOf[c]} /\ UNCHANGED stdioDepth
  BY DEF Stdio!Begin
<1>2. PICK savedFd2 \in {stdioFd2, ClosedFd} :
        /\ IF savedFd2 = ClosedFd THEN Stdio!Untouched \/ Stdio!LeftClosed ELSE Stdio!Redirected
        /\ stdioStack' = Append(stdioStack, [by |-> c, retired |-> FALSE, writers |-> stdioWriters, fd2 |-> savedFd2])
  BY DEF Stdio!Begin
<1> DEFINE top == [by |-> c, retired |-> FALSE, writers |-> stdioWriters, fd2 |-> savedFd2]
           n == Len(stdioStack)
<1>3. top \in Stdio!Frame
  BY <1>0, <1>2 DEF Stdio!StdioTyped, Stdio!Frame, Stdio!File
<1>4. /\ n \in Nat /\ stdioStack' \in Seq(Stdio!Frame) /\ Len(stdioStack') = n + 1
            /\ stdioStack'[n + 1] = top
      /\ \A i \in 1 .. n : stdioStack'[i] = stdioStack[i] /\ stdioStack[i] \in Stdio!Frame
  <2> HIDE DEF top
  <2>1. stdioStack \in Seq(Stdio!Frame) /\ stdioStack' = Append(stdioStack, top)
    BY <1>0, <1>2 DEF Stdio!StdioTyped, top
  <2> QED
    BY <1>3, <2>1
<1>5. stdioAt'[c] = "captured" /\ (\A d \in Capture : d # c => stdioAt'[d] = stdioAt[d])
         /\ stdioAt' \in [Capture -> {"idle", "joined", "captured"}]
  BY <1>0, <1>1 DEF Stdio!StdioTyped
<1>6. stdioFd2' \in {LogFile, ClosedFd, stdioFd2}
         /\ (stdioFd2' = LogFile => stdioFd2 = LogFile \/ savedFd2 # ClosedFd)
  BY <1>2, StdioSettingHolds
     DEF Stdio!Untouched, Stdio!LeftClosed, Stdio!Redirected, Stdio!StdioSetting
<1>7. Stdio!StdioTyped'
  BY <1>0, <1>1, <1>4, <1>5, <1>6 DEF Stdio!StdioTyped, Stdio!File
<1>8. Stdio!FramesOfTheRunning'
  <2>1. \A i \in 1 .. n : ~stdioStack'[i].retired => stdioAt'[stdioStack'[i].by] = "captured"
    BY <1>0, <1>4, <1>5 DEF Stdio!FramesOfTheRunning, Stdio!Frame
  <2>2. \A d \in Capture : stdioAt'[d] = "captured" => \E i \in 1 .. n + 1 : stdioStack'[i].by = d
           /\ ~stdioStack'[i].retired
    BY <1>0, <1>4, <1>5 DEF Stdio!FramesOfTheRunning
  <2> QED
    BY <1>4, <1>5, <2>1, <2>2 DEF Stdio!FramesOfTheRunning
<1>9. Stdio!LowestKeepsTheWriters'
  BY <1>0, <1>1, <1>4, StdioSettingHolds DEF Stdio!LowestKeepsTheWriters, Stdio!StdioSetting
<1>10. Stdio!LogHasAReason'
  <2>1. \A m \in Nat : Stdio!Below(stdioStack, m) => Stdio!Below(stdioStack', m)
    BY <1>4 DEF Stdio!Below
  <2>2. \A i \in 1 .. n : stdioStack'[i].fd2 = LogFile => Stdio!Below(stdioStack', i)
    BY <1>0, <1>4, <2>1 DEF Stdio!LogHasAReason
  <2>3. top.fd2 = LogFile => Stdio!Below(stdioStack', n + 1)
    <3>1. savedFd2 = LogFile => stdioFd2 = LogFile
      BY <1>2, StdioSettingHolds DEF Stdio!StdioSetting
    <3> QED
      BY <1>0, <1>4, <2>1, <3>1 DEF Stdio!LogHasAReason
  <2>4. stdioFd2' = LogFile => Stdio!Below(stdioStack', n + 2)
    <3>1. CASE savedFd2 # ClosedFd
      BY <1>4, <3>1 DEF Stdio!Below
    <3>2. CASE stdioFd2 = LogFile
      <4>1. Stdio!Below(stdioStack', n + 1)
        BY <1>0, <1>4, <2>1, <3>2 DEF Stdio!LogHasAReason
      <4> QED
        BY <1>4, <4>1 DEF Stdio!Below
    <3> QED
      BY <1>6, <3>1, <3>2
  <2> QED
    BY <1>4, <2>2, <2>3, <2>4 DEF Stdio!LogHasAReason
<1>11. Stdio!FlagsAreOfTheRunning'
  BY <1>1, StdioFlagsBegin
<1> QED
  BY <1>7, <1>8, <1>9, <1>10, <1>11 DEF Stdio!StdioInv

(* FD 2 is put back to what the lowest of the unwound frames saved.        *)
LEMMA StdioPutBack ==
  ASSUME NEW popped \in Seq(Stdio!Frame)
  PROVE  \/ Stdio!RestoredFd2(popped) = stdioFd2
               /\ (stdioFd2 = ClosedFd \/ \A i \in 1 .. Len(popped) : popped[i].fd2 = ClosedFd)
         \/ \E i \in 1 .. Len(popped) :
              /\ Stdio!RestoredFd2(popped) = popped[i].fd2
              /\ \A j \in 1 .. Len(popped) : popped[j].fd2 # ClosedFd => i <= j
<1> DEFINE R == {i \in DOMAIN popped : popped[i].fd2 # ClosedFd}
<1>1. DOMAIN popped = 1 .. Len(popped) /\ R \in SUBSET Nat
  OBVIOUS
<1>2. CASE R = {} \/ stdioFd2 = ClosedFd
  BY <1>1, <1>2 DEF Stdio!RestoredFd2
<1>3. CASE R # {} /\ stdioFd2 # ClosedFd
  <2>1. Stdio!Min(R) \in R /\ \A j \in R : Stdio!Min(R) <= j
    BY <1>1, <1>3, StdioLeastIsThere
  <2>2. Stdio!RestoredFd2(popped) = popped[Stdio!Min(R)].fd2
    BY <1>3 DEF Stdio!RestoredFd2
  <2> QED
    BY <1>1, <2>1, <2>2
<1> QED
  BY <1>2, <1>3

LEMMA StdioEnding == ASSUME Stdio!StdioInv, NEW c \in Capture, Stdio!End(c)
   PROVE Stdio!StdioInv'
<1> DEFINE frames == Stdio!Retired(c)
           h == Stdio!Height(frames)
           n == Len(stdioStack)
           popped == SubSeq(frames, h + 1, Len(frames))
<1>0. Stdio!StdioTyped /\ Stdio!FramesOfTheRunning /\ Stdio!LowestKeepsTheWriters
         /\ Stdio!LogHasAReason
  BY DEF Stdio!StdioInv
<1>1. /\ Stdio!Cleared(c) /\ stdioStack' = SubSeq(frames, 1, h)
            /\ stdioFd2' = Stdio!RestoredFd2(popped)
      /\ stdioWriters' = (IF popped = <<>> THEN stdioWriters ELSE Head(popped).writers)
  BY DEF Stdio!End
<1>2. /\ frames \in Seq(Stdio!Frame) /\ Len(frames) = n /\ n \in Nat
      /\ \A i \in 1 .. n : /\ frames[i].by = stdioStack[i].by
            /\ frames[i].writers = stdioStack[i].writers
                           /\ frames[i].fd2 = stdioStack[i].fd2
                                 /\ (frames[i].retired <=> stdioStack[i].retired
                                       \/ stdioStack[i].by = c)
                           /\ frames[i] \in Stdio!Frame /\ stdioStack[i] \in Stdio!Frame
  BY <1>0, StdioRetiring DEF Stdio!StdioTyped
<1>3. h \in 0 .. n /\ (h = 0 \/ ~frames[h].retired) /\ \A i \in h + 1 .. n : frames[i].retired
  BY <1>2, StdioHeightIs
<1> HIDE DEF frames, h
<1>4. stdioStack' \in Seq(Stdio!Frame) /\ Len(stdioStack') = h
         /\ \A i \in 1 .. h : stdioStack'[i] = frames[i]
  <2>1. \A i \in 1 .. h : frames[i] \in Stdio!Frame
    BY <1>2, <1>3
  <2>2. h \in Int /\ 1 \in Int
    BY <1>3
  <2> QED
    BY <1>1, <1>3, <2>1, <2>2, SubSeqProperties
<1>5. popped \in Seq(Stdio!Frame) /\ Len(popped) = n - h
         /\ \A i \in 1 .. n - h : popped[i] = frames[h + i]
  <2>1. \A i \in h + 1 .. n : frames[i] \in Stdio!Frame
    BY <1>2, <1>3
  <2>2. h + 1 \in Int /\ n \in Int
    BY <1>2, <1>3
  <2>3. /\ SubSeq(frames, h + 1, n) \in Seq(Stdio!Frame)
        /\ Len(SubSeq(frames, h + 1, n)) = IF h + 1 <= n THEN n - (h + 1) + 1 ELSE 0
        /\ \A i \in 1 .. n - (h + 1) + 1 : SubSeq(frames, h + 1, n)[i] = frames[(h + 1) + i - 1]
    BY <2>1, <2>2, SubSeqProperties
  <2>4. popped = SubSeq(frames, h + 1, n)
    BY <1>2
  <2> HIDE DEF popped
  <2>5. \A i \in 1 .. n - h : i \in 1 .. n - (h + 1) + 1 /\ (h + 1) + i - 1 = h + i
    BY <1>2, <1>3
  <2> QED
    BY <1>2, <1>3, <2>3, <2>4, <2>5
<1> HIDE DEF popped
<1>6. /\ stdioAt[c] = "captured" /\ stdioAt'[c] = "idle"
            /\ (\A d \in Capture : d # c => stdioAt'[d] = stdioAt[d])
      /\ stdioAt' \in [Capture -> {"idle", "joined", "captured"}]
  BY <1>0, <1>1 DEF Stdio!StdioTyped, Stdio!Cleared
<1>7. n > 0
  BY <1>0, <1>2, <1>6 DEF Stdio!FramesOfTheRunning
<1>8. stdioWriters' = (IF h = n THEN stdioWriters ELSE stdioStack[h + 1].writers)
  <2>1. CASE h = n
    <3>1. popped = <<>>
      BY <1>2, <1>5, <2>1
    <3> QED
      BY <1>1, <2>1, <3>1
  <2>2. CASE h # n
    <3>1. popped # <<>> /\ Head(popped) = popped[1] /\ 1 \in 1 .. n - h
      BY <1>2, <1>3, <1>5, <2>2
    <3>2. Head(popped) = frames[h + 1] /\ h + 1 \in 1 .. n
      BY <1>2, <1>3, <1>5, <2>2, <3>1
    <3> QED
      BY <1>1, <1>2, <2>2, <3>1, <3>2
  <2> QED
    BY <2>1, <2>2
<1>9. \/ stdioFd2' = stdioFd2 /\ (stdioFd2 = ClosedFd
            \/ \A k \in h + 1 .. n : stdioStack[k].fd2 = ClosedFd)
      \/ \E k \in h + 1 .. n : stdioFd2' = stdioStack[k].fd2
            /\ \A j \in h + 1 .. n : stdioStack[j].fd2 # ClosedFd => k <= j
  <2>1. \A k \in h + 1 .. n : /\ k - h \in 1 .. n - h /\ popped[k - h].fd2 = stdioStack[k].fd2
    <3>1. \A k \in h + 1 .. n : k - h \in 1 .. n - h /\ h + (k - h) = k /\ k \in 1 .. n
      BY <1>2, <1>3
    <3> QED
      BY <1>2, <1>5, <3>1
  <2>2. \A i \in 1 .. n - h : h + i \in h + 1 .. n /\ popped[i].fd2 = stdioStack[h + i].fd2
    BY <1>2, <1>3, <1>5
  <2>3. CASE Stdio!RestoredFd2(popped) = stdioFd2
                /\ (stdioFd2 = ClosedFd \/ \A i \in 1 .. Len(popped) : popped[i].fd2 = ClosedFd)
    BY <1>1, <1>5, <2>1, <2>3
  <2>4. ASSUME NEW i \in 1 .. n - h, Stdio!RestoredFd2(popped) = popped[i].fd2,
               \A j \in 1 .. n - h : popped[j].fd2 # ClosedFd => i <= j
        PROVE  \E k \in h + 1 .. n : stdioFd2' = stdioStack[k].fd2
                  /\ \A j \in h + 1 .. n : stdioStack[j].fd2 # ClosedFd => k <= j
    <3>1. h + i \in h + 1 .. n /\ stdioFd2' = stdioStack[h + i].fd2
      BY <1>1, <2>2, <2>4
    <3>2. \A j \in h + 1 .. n : stdioStack[j].fd2 # ClosedFd => i <= j - h
      BY <2>1, <2>4
    <3>3. \A j \in h + 1 .. n : stdioStack[j].fd2 # ClosedFd => h + i <= j
      BY <1>2, <1>3, <3>2
    <3> QED
      BY <3>1, <3>3
  <2> QED
    BY <1>5, <2>3, <2>4, StdioPutBack
<1>10. Stdio!StdioTyped'
  <2>1. stdioWriters' \in Capture \cup {Terminal}
    <3>1. h # n => h + 1 \in 1 .. n
      BY <1>2, <1>3
    <3> QED
      BY <1>0, <1>2, <1>8, <3>1 DEF Stdio!StdioTyped, Stdio!Frame
  <2>2. stdioFd2' \in Stdio!File
    <3>1. \A k \in h + 1 .. n : k \in 1 .. n
      BY <1>2, <1>3
    <3> QED
      BY <1>0, <1>2, <1>9, <3>1 DEF Stdio!StdioTyped, Stdio!Frame
  <2> QED
    BY <1>4, <1>6, <2>1, <2>2 DEF Stdio!StdioTyped
<1>11. Stdio!FramesOfTheRunning'
  <2>1. \A d \in Capture : stdioAt'[d] = "captured" => \E i \in 1 .. h : stdioStack'[i].by = d
           /\ ~stdioStack'[i].retired
    <3> SUFFICES ASSUME NEW d \in Capture, stdioAt'[d] = "captured"
       PROVE \E i \in 1 .. h : stdioStack'[i].by = d /\ ~stdioStack'[i].retired
      OBVIOUS
    <3>1. d # c /\ stdioAt[d] = "captured"
      BY <1>6
    <3>2. PICK i \in 1 .. n : stdioStack[i].by = d /\ ~stdioStack[i].retired
      BY <1>0, <3>1 DEF Stdio!FramesOfTheRunning
    <3>3. frames[i].by = d /\ ~frames[i].retired
      BY <1>2, <3>1, <3>2
    <3>4. i \in 1 .. h
      BY <1>2, <1>3, <3>3
    <3> QED
      BY <1>4, <3>3, <3>4
  <2>2. \A i \in 1 .. h : ~stdioStack'[i].retired => stdioAt'[stdioStack'[i].by] = "captured"
    <3> SUFFICES ASSUME NEW i \in 1 .. h, ~stdioStack'[i].retired
       PROVE stdioAt'[stdioStack'[i].by] = "captured"
      OBVIOUS
    <3>1. i \in 1 .. n /\ ~frames[i].retired /\ stdioStack'[i] = frames[i]
      BY <1>2, <1>3, <1>4
    <3>2. ~stdioStack[i].retired /\ stdioStack[i].by # c /\ stdioStack'[i].by = stdioStack[i].by
             /\ stdioStack[i].by \in Capture
      BY <1>2, <3>1 DEF Stdio!Frame
    <3> QED
      BY <1>0, <1>6, <3>1, <3>2 DEF Stdio!FramesOfTheRunning
  <2>3. h > 0 => ~stdioStack'[h].retired
    BY <1>3, <1>4
  <2> QED
    BY <1>4, <2>1, <2>2, <2>3 DEF Stdio!FramesOfTheRunning
<1>12. Stdio!LowestKeepsTheWriters'
  <2>1. \A i \in 1 .. h : stdioStack'[i].writers = stdioStack[i].writers /\ i \in 1 .. n
    BY <1>2, <1>3, <1>4
  <2>2. stdioWriters' = Terminal <=> h = 0
    <3>1. CASE h = n
      BY <1>0, <1>7, <1>8, <3>1 DEF Stdio!LowestKeepsTheWriters
    <3>2. CASE h # n
      <4>1. h + 1 \in 1 .. n /\ (h + 1 = 1 <=> h = 0)
        BY <1>2, <1>3, <3>2
      <4> QED
        BY <1>0, <1>8, <3>2, <4>1 DEF Stdio!LowestKeepsTheWriters
    <3> QED
      BY <3>1, <3>2
  <2> QED
    BY <1>0, <1>4, <2>1, <2>2 DEF Stdio!LowestKeepsTheWriters
<1>13. Stdio!LogHasAReason'
  <2>1. \A m \in 1 .. h + 1 : Stdio!Below(stdioStack, m) => Stdio!Below(stdioStack', m)
    <3>1. \A j \in 1 .. n, m \in 1 .. h + 1 : j < m => j \in 1 .. h
      BY <1>2, <1>3
    <3>2. \A j \in 1 .. h : stdioStack'[j].fd2 = stdioStack[j].fd2
      BY <1>2, <1>3, <1>4
    <3> QED
      BY <1>4, <3>1, <3>2 DEF Stdio!Below
  <2>2. \A i \in 1 .. h : stdioStack'[i].fd2 = LogFile => Stdio!Below(stdioStack', i)
    <3>1. \A i \in 1 .. h : i \in 1 .. n /\ stdioStack'[i].fd2 = stdioStack[i].fd2
             /\ i \in 1 .. h + 1
      BY <1>2, <1>3, <1>4
    <3> QED
      BY <1>0, <2>1, <3>1 DEF Stdio!LogHasAReason
  <2>3. stdioFd2' = LogFile => Stdio!Below(stdioStack, h + 1)
    <3> SUFFICES ASSUME stdioFd2' = LogFile PROVE Stdio!Below(stdioStack, h + 1)
      OBVIOUS
    <3>1. CASE stdioFd2' = stdioFd2 /\ (stdioFd2 = ClosedFd
                  \/ \A k \in h + 1 .. n : stdioStack[k].fd2 = ClosedFd)
      <4>1. PICK j \in 1 .. n : j < n + 1 /\ stdioStack[j].fd2 # ClosedFd
        BY <1>0, <3>1 DEF Stdio!LogHasAReason, Stdio!Below
      <4>2. j < h + 1
        BY <1>2, <1>3, <3>1, <4>1, StdioSettingHolds DEF Stdio!StdioSetting
      <4> QED
        BY <4>1, <4>2 DEF Stdio!Below
    <3>2. ASSUME NEW k \in h + 1 .. n, stdioFd2' = stdioStack[k].fd2,
                 \A j \in h + 1 .. n : stdioStack[j].fd2 # ClosedFd => k <= j
          PROVE  Stdio!Below(stdioStack, h + 1)
      <4>1. k \in 1 .. n /\ Stdio!Below(stdioStack, k)
        BY <1>0, <1>2, <1>3, <3>2 DEF Stdio!LogHasAReason
      <4>2. PICK j \in 1 .. n : j < k /\ stdioStack[j].fd2 # ClosedFd
        BY <4>1 DEF Stdio!Below
      <4>3. j < h + 1
        BY <1>2, <1>3, <3>2, <4>1, <4>2
      <4> QED
        BY <4>2, <4>3 DEF Stdio!Below
    <3> QED
      BY <1>9, <3>1, <3>2
  <2>4. stdioFd2' = LogFile => Stdio!Below(stdioStack', h + 1)
    BY <1>3, <2>1, <2>3
  <2> QED
    BY <1>4, <2>2, <2>4 DEF Stdio!LogHasAReason
<1>14. Stdio!FlagsAreOfTheRunning'
  BY <1>1, StdioFlagsEnd
<1> QED
  BY <1>10, <1>11, <1>12, <1>13, <1>14 DEF Stdio!StdioInv

LEMMA StdioStep == Stdio!StdioInv /\ [Stdio!Next]_Stdio!captureVars => Stdio!StdioInv'
<1> SUFFICES ASSUME Stdio!StdioInv, [Stdio!Next]_Stdio!captureVars PROVE Stdio!StdioInv'
  OBVIOUS
<1>0. Stdio!StdioTyped /\ Stdio!FramesOfTheRunning /\ Stdio!LowestKeepsTheWriters
         /\ Stdio!LogHasAReason /\ Stdio!FlagsAreOfTheRunning
  BY DEF Stdio!StdioInv
<1>1. ASSUME NEW c \in Capture, Stdio!Join(c) \/ Stdio!JoinedEnds(c) PROVE Stdio!StdioInv'
  <2>1. PICK p \in {"idle", "joined"} : stdioAt[c] # "captured"
           /\ stdioAt' = [stdioAt EXCEPT ![c] = p]
    BY <1>1 DEF Stdio!Join, Stdio!JoinedEnds
  <2>2. UNCHANGED <<stdioCapturing, stdioDepth, stdioStack, stdioWriters, stdioFd2>>
    BY <1>1 DEF Stdio!Join, Stdio!JoinedEnds
  <2>3. /\ stdioAt' \in [Capture -> {"idle", "joined", "captured"}]
        /\ \A d \in Capture : stdioAt'[d] = "captured" <=> stdioAt[d] = "captured"
    BY <1>0, <2>1 DEF Stdio!StdioTyped
  <2>4. \A i \in 1 .. Len(stdioStack) : stdioStack[i].by \in Capture
    <3>1. \A i \in 1 .. Len(stdioStack) : stdioStack[i] \in Stdio!Frame
      BY <1>0 DEF Stdio!StdioTyped
    <3> QED
      BY <3>1 DEF Stdio!Frame
  <2>5. Stdio!FramesOfTheRunning'
    BY <1>0, <2>2, <2>3, <2>4 DEF Stdio!FramesOfTheRunning
  <2>6. Stdio!StdioTyped' /\ Stdio!LowestKeepsTheWriters' /\ Stdio!LogHasAReason'
    BY <1>0, <2>2, <2>3
       DEF Stdio!StdioTyped, Stdio!LowestKeepsTheWriters, Stdio!LogHasAReason, Stdio!Below
  <2>7. Stdio!FlagsAreOfTheRunning'
    BY <1>0, <2>2, <2>3 DEF Stdio!FlagsAreOfTheRunning
  <2> QED
    BY <2>5, <2>6, <2>7 DEF Stdio!StdioInv
<1>2. ASSUME NEW c \in Capture, Stdio!Begin(c) PROVE Stdio!StdioInv'
  BY <1>2, StdioBeginning
<1>3. ASSUME NEW c \in Capture, Stdio!End(c) PROVE Stdio!StdioInv'
  BY <1>3, StdioEnding
<1>4. CASE UNCHANGED Stdio!captureVars
  BY <1>0, <1>4
     DEF Stdio!captureVars, Stdio!StdioInv, Stdio!StdioTyped, Stdio!FramesOfTheRunning,
         Stdio!LowestKeepsTheWriters, Stdio!LogHasAReason, Stdio!Below,
     Stdio!FlagsAreOfTheRunning
<1> QED
  BY <1>1, <1>2, <1>3, <1>4 DEF Stdio!Next

LEMMA StdioComesBack == Stdio!StdioInv => Stdio!StdioComesBack
<1> SUFFICES ASSUME Stdio!StdioInv PROVE Stdio!StdioComesBack
  OBVIOUS
<1>0. Stdio!StdioTyped /\ Stdio!FramesOfTheRunning /\ Stdio!LowestKeepsTheWriters
         /\ Stdio!LogHasAReason /\ Stdio!FlagsAreOfTheRunning
  BY DEF Stdio!StdioInv
<1>1. Len(stdioStack) \in Nat /\ \A i \in 1 .. Len(stdioStack) : stdioStack[i].by \in Capture
  <2>1. Len(stdioStack) \in Nat /\ \A i \in 1 .. Len(stdioStack) : stdioStack[i] \in Stdio!Frame
    BY <1>0 DEF Stdio!StdioTyped
  <2> QED
    BY <2>1 DEF Stdio!Frame
<1>2. ASSUME NEW c \in Capture, stdioAt[c] = "captured" PROVE stdioWriters # Terminal
  <2>1. Len(stdioStack) # 0
    BY <1>0, <1>1, <1>2 DEF Stdio!FramesOfTheRunning
  <2> QED
    BY <1>0, <2>1 DEF Stdio!LowestKeepsTheWriters
<1>3. ASSUME \A c \in Capture : stdioAt[c] # "captured"
   PROVE stdioWriters = Terminal /\ stdioFd2 # LogFile /\ ~Stdio!IsAnyLoggerCapturingOutput
  <2>1. Len(stdioStack) = 0
    <3> SUFFICES ASSUME Len(stdioStack) # 0 PROVE FALSE
      OBVIOUS
    <3>1. Len(stdioStack) \in 1 .. Len(stdioStack) /\ ~stdioStack[Len(stdioStack)].retired
      BY <1>0, <1>1 DEF Stdio!FramesOfTheRunning
    <3> QED
      BY <1>0, <1>1, <1>3, <3>1 DEF Stdio!FramesOfTheRunning
  <2>2. stdioDepth = 0 /\ stdioCapturing = {}
    BY <1>0, <1>3 DEF Stdio!FlagsAreOfTheRunning
  <2> QED
    BY <1>0, <2>1, <2>2
       DEF Stdio!LowestKeepsTheWriters, Stdio!LogHasAReason, Stdio!Below,
           Stdio!IsAnyLoggerCapturingOutput
<1> QED
  BY <1>2, <1>3 DEF Stdio!StdioComesBack

(* However many captures overlap, and in whichever order they end.         *)
THEOREM ComesBackAlways == Stdio!Spec => []Stdio!StdioComesBack
<1>1. Stdio!Init => Stdio!StdioInv
  <2> SUFFICES ASSUME Stdio!Init PROVE Stdio!StdioInv
    OBVIOUS
  <2>1. Stdio!StdioTyped /\ Len(stdioStack) = 0
    BY DEF Stdio!Init, Stdio!StdioTyped, Stdio!File
  <2>2. Stdio!FramesOfTheRunning /\ Stdio!LowestKeepsTheWriters /\ Stdio!LogHasAReason
    BY <2>1, StdioSettingHolds
       DEF Stdio!Init, Stdio!FramesOfTheRunning, Stdio!LowestKeepsTheWriters,
           Stdio!LogHasAReason, Stdio!StdioSetting
  <2>3. Stdio!FlagsAreOfTheRunning
    BY DEF Stdio!Init, Stdio!FlagsAreOfTheRunning
  <2> QED
    BY <2>1, <2>2, <2>3 DEF Stdio!StdioInv
<1> QED
  BY <1>1, StdioStep, StdioComesBack, PTL DEF Stdio!Spec

-----------------------------------------------------------------------------
(* The access to the knowledge store.                                      *)
VARIABLES
  accessConnected, accessClosing, accessClose, accessAwaited, accessTimedOut,
  accessTable, accessGone, accessHandle, accessActive, accessAt, accessKind,
  accessPinned, accessTries, accessReconnected, accessBeaten, accessStale,
  accessBase, accessServed
Access == INSTANCE StoreAccess WITH
  connected <- accessConnected, closing <- accessClosing,
  close <- accessClose, awaited <- accessAwaited, timedOut <- accessTimedOut,
  table <- accessTable, gone <- accessGone, handle <- accessHandle,
  active <- accessActive, at <- accessAt, kind <- accessKind,
  pinned <- accessPinned, tries <- accessTries,
  reconnected <- accessReconnected, beaten <- accessBeaten,
  stale <- accessStale, base <- accessBase, served <- accessServed,
  Op <- StoreOp, KindsOf <- OpKinds, MaxRetries <- MaxStoreRetries,
  MaxCommits <- MaxCommits, SmallCap <- SmallCap, LargeCap <- LargeCap,
  Chunks <- Chunks, TooOld <- TooOld
accessVars == <<accessConnected, accessClosing, accessClose, accessAwaited, accessTimedOut,
  accessTable, accessGone, accessHandle, accessActive, accessAt, accessKind,
  accessPinned, accessTries, accessReconnected, accessBeaten, accessStale,
  accessBase, accessServed>>

(* What the proofs need of its parameters.                                 *)
ASSUME AccessSettingHolds == Access!AccessSetting

(* The instance has a Cardinality of its own; it is the same.              *)
LEMMA AccessCounting ==
  \A S : Access!Cardinality(S) = Cardinality(S) /\ (Access!IsFiniteSet(S) <=> IsFiniteSet(S))
BY DEF Cardinality, IsFiniteSet, Access!Cardinality, Access!IsFiniteSet

LEMMA AccessTops ==
  ASSUME NEW rows \in SUBSET Access!Row, Access!Sound(rows)
  PROVE  /\ Access!Newest(rows) \in {r.gen : r \in rows} \cup {0} /\ Access!Newest(rows) \in Nat
         /\ \A r \in rows : r.gen <= Access!Newest(rows)
<1> DEFINE gens == {r.gen : r \in rows} \cup {0}
<1>1. gens \subseteq Nat
  BY DEF Access!Row
<1>2. PICK g \in gens : \A r \in rows : r.gen <= g
  BY DEF Access!Sound
<1>3. \A y \in gens : g >= y
  BY <1>1, <1>2
<1>4. \E x \in gens : \A y \in gens : x >= y
  BY <1>3
<1>5. Access!Newest(rows) = CHOOSE x \in gens : \A y \in gens : x >= y
  BY DEF Access!Newest, Access!Max
<1>6. Access!Newest(rows) \in gens /\ \A y \in gens : Access!Newest(rows) >= y
  BY <1>4, <1>5
<1> QED
  BY <1>1, <1>6

(* Of a sound version a look-up chooses the newest generation's first      *)
(* chunk.                                                                  *)
LEMMA AccessChoosesTheNewest ==
  ASSUME NEW rows \in SUBSET Access!Row, Access!Sound(rows), rows # {}
  PROVE  Access!Chosen(rows) \in rows /\ Access!Chosen(rows).gen = Access!Newest(rows)
            /\ Access!Chosen(rows).chunk = 0
<1>1. PICK r \in rows : r.gen = Access!Newest(rows)
  <2>1. CASE \E q \in rows : q.gen = Access!Newest(rows)
    BY <2>1
  <2>2. CASE Access!Newest(rows) = 0
    BY <2>2, AccessTops DEF Access!Row
  <2> QED
    BY <2>1, <2>2, AccessTops
<1> DEFINE first == [gen |-> Access!Newest(rows), chunk |-> 0]
<1>2. first \in rows
  BY <1>1 DEF Access!Sound
<1>3. \A q \in rows : q.gen < first.gen \/ (q.gen = first.gen /\ q.chunk >= first.chunk)
  BY AccessTops DEF Access!Row
<1> DEFINE Best(c) == \A q \in rows : q.gen < c.gen \/ (q.gen = c.gen /\ q.chunk >= c.chunk)
<1>4. Access!Chosen(rows) = CHOOSE c \in rows : Best(c)
  BY DEF Access!Chosen
<1>5. Access!Chosen(rows) \in rows /\ Best(Access!Chosen(rows))
  BY <1>2, <1>3, <1>4
<1>6. first.gen < Access!Chosen(rows).gen
         \/ (first.gen = Access!Chosen(rows).gen /\ first.chunk >= Access!Chosen(rows).chunk)
  BY <1>2, <1>5
<1>7. Access!Chosen(rows) \in Access!Row /\ Access!Chosen(rows).gen <= Access!Newest(rows)
  BY <1>5, AccessTops
<1> QED
  BY <1>5, <1>6, <1>7, AccessTops DEF Access!Row

LEMMA AccessAddedIsSound ==
  ASSUME NEW rows \in SUBSET Access!Row, Access!Sound(rows), NEW n \in Nat \ {0}
  PROVE  Access!Added(rows, n) \in SUBSET Access!Row /\ Access!Sound(Access!Added(rows, n))
<1> DEFINE g == Access!Newest(rows) + 1
           new == [gen : {g}, chunk : 0 .. n - 1]
<1>1. g \in Nat /\ \A r \in rows : r.gen <= g
  BY AccessTops DEF Access!Row
<1>2. new \subseteq Access!Row /\ \A r \in new : r.gen = g
  BY <1>1 DEF Access!Row
<1>3. [gen |-> g, chunk |-> 0] \in new
  OBVIOUS
<1>4. Access!Added(rows, n) = rows \cup new
  BY DEF Access!Added
<1>5. \A r \in rows \cup new : [gen |-> r.gen, chunk |-> 0] \in rows \cup new
  BY <1>2, <1>3 DEF Access!Sound
<1>6. g \in {r.gen : r \in rows \cup new} /\ \A r \in rows \cup new : r.gen <= g
  <2>1. [gen |-> g, chunk |-> 0] \in rows \cup new /\ [gen |-> g, chunk |-> 0].gen = g
    BY <1>3
  <2>2. g <= g
    BY <1>1
  <2>3. \A r \in rows \cup new : r.gen <= g
    BY <1>1, <1>2, <2>2
  <2> HIDE DEF new, g
  <2> QED
    BY <2>1, <2>3
<1> QED
  BY <1>2, <1>4, <1>5, <1>6 DEF Access!Sound

LEMMA AccessPrunedIsSound ==
  ASSUME NEW rows \in SUBSET Access!Row, Access!Sound(rows)
  PROVE  Access!Pruned(rows) \in SUBSET rows /\ Access!Sound(Access!Pruned(rows))
<1>1. \A r \in rows : r.gen = Access!Newest(rows)
         => [gen |-> r.gen, chunk |-> 0] \in Access!Pruned(rows)
  BY DEF Access!Pruned, Access!Sound
<1>2. \E g \in {r.gen : r \in Access!Pruned(rows)} \cup {0} : \A r \in Access!Pruned(rows) : r.gen <= g
  <2>1. CASE Access!Pruned(rows) = {}
    BY <2>1
  <2>2. ASSUME NEW r \in Access!Pruned(rows)
        PROVE  \E g \in {q.gen : q \in Access!Pruned(rows)} \cup {0} : \A q \in Access!Pruned(rows) : q.gen <= g
    <3>1. r.gen = Access!Newest(rows) /\ \A q \in Access!Pruned(rows) : q.gen <= r.gen
      BY <2>2, AccessTops DEF Access!Pruned
    <3> QED
      BY <3>1
  <2> QED
    BY <2>1, <2>2
<1> QED
  BY <1>1, <1>2 DEF Access!Pruned, Access!Sound

LEMMA AccessNoneIsSound == Access!Sound({})
BY DEF Access!Sound

(* How many there are.                                                     *)
LEMMA AccessProducts ==
  /\ \A v, m \in Nat : (v + 1) * m + m = (v + 2) * m
  /\ \A a, b, m \in Nat : a <= b => a * m <= b * m
OBVIOUS

LEMMA AccessDocumentRows ==
  ASSUME NEW g, NEW n \in Nat \ {0}
  PROVE  Access!IsFiniteSet([gen : {g}, chunk : 0 .. n - 1])
            /\ Access!Cardinality([gen : {g}, chunk : 0 .. n - 1]) <= n
<1> DEFINE new == [gen : {g}, chunk : 0 .. n - 1]
           f == [k \in 0 .. n - 1 |-> [gen |-> g, chunk |-> k]]
<1>1. f \in [0 .. n - 1 -> new]
  OBVIOUS
<1>2. \A r \in new : f[r.chunk] = r /\ r.chunk \in 0 .. n - 1
  OBVIOUS
<1>3. f \in Surjection(0 .. n - 1, new)
  BY <1>1, <1>2 DEF Surjection
<1>4. Access!IsFiniteSet(0 .. n - 1) /\ Access!Cardinality(0 .. n - 1) = n
  BY AccessCounting, FS_Interval
<1> QED
  BY AccessCounting, <1>3, <1>4, FS_Surjection

LEMMA AccessAddedIsBounded ==
  ASSUME NEW rows, NEW v \in Nat, Access!Bounded(rows, v), NEW n \in Chunks
  PROVE  Access!Bounded(Access!Added(rows, n), v + 1)
<1> DEFINE new == [gen : {Access!Newest(rows) + 1}, chunk : 0 .. n - 1]
<1>1. n \in Nat \ {0} /\ Chunks \subseteq Nat
  BY AccessSettingHolds DEF Access!AccessSetting
<1>2. Access!IsFiniteSet(new) /\ Access!Cardinality(new) <= n /\ Access!Cardinality(new) \in Nat
  BY AccessCounting, <1>1, AccessDocumentRows, FS_CardinalityType
<1>3. Access!IsFiniteSet(rows) /\ Access!Cardinality(rows) \in Nat
  BY AccessCounting, FS_CardinalityType DEF Access!Bounded
<1>4. Access!IsFiniteSet(rows \cup new)
         /\ Access!Cardinality(rows \cup new) <= Access!Cardinality(rows) + Access!Cardinality(new)
  <2>1. /\ Access!IsFiniteSet(rows \cup new)
        /\ Access!Cardinality(rows \cup new) = Access!Cardinality(rows) + Access!Cardinality(new) - Access!Cardinality(rows \cap new)
    BY AccessCounting, <1>2, <1>3, FS_Union
  <2>2. Access!Cardinality(rows \cap new) \in Nat
    BY AccessCounting, <1>3, FS_Intersection, FS_CardinalityType
  <2> QED
    BY <1>2, <1>3, <2>1, <2>2
<1>5. ASSUME NEW most \in Chunks, \A k \in Chunks : k <= most
      PROVE  Access!Cardinality(rows \cup new) <= (v + 1 + 1) * most
  <2>1. Access!Cardinality(rows) <= (v + 1) * most
    BY <1>5 DEF Access!Bounded
  <2>2. (v + 1) * most + most = (v + 1 + 1) * most
    BY <1>1, AccessProducts
  <2>3. (v + 1) * most \in Nat /\ (v + 1 + 1) * most \in Nat /\ n <= most /\ most \in Nat
    BY <1>1, <1>5
  <2>4. Access!Cardinality(rows \cup new) \in Nat
    BY AccessCounting, <1>4, FS_CardinalityType
  <2> QED
    BY <1>1, <1>2, <1>3, <1>4, <2>1, <2>2, <2>3, <2>4
<1> QED
  BY <1>4, <1>5 DEF Access!Bounded, Access!Added

LEMMA AccessFewerAreBounded ==
  ASSUME NEW rows, NEW v \in Nat, Access!Bounded(rows, v), NEW fewer \in SUBSET rows
  PROVE  Access!Bounded(fewer, v + 1)
<1>1. /\ Access!IsFiniteSet(fewer) /\ Access!Cardinality(fewer) <= Access!Cardinality(rows)
      /\ Access!Cardinality(fewer) \in Nat /\ Access!Cardinality(rows) \in Nat
  BY AccessCounting, FS_Subset, FS_CardinalityType DEF Access!Bounded
<1>2. ASSUME NEW most \in Chunks, \A k \in Chunks : k <= most
      PROVE  Access!Cardinality(fewer) <= (v + 1 + 1) * most
  <2>1. most \in Nat
    BY AccessSettingHolds DEF Access!AccessSetting
  <2>2. Access!Cardinality(rows) <= (v + 1) * most
    BY <1>2 DEF Access!Bounded
  <2>3. (v + 1) * most <= (v + 1 + 1) * most /\ (v + 1) * most \in Nat /\ (v + 1 + 1) * most \in Nat
    BY <2>1, AccessProducts
  <2> QED
    BY <1>1, <2>2, <2>3
<1> QED
  BY <1>1, <1>2 DEF Access!Bounded

LEMMA AccessHoldsStill ==
  ASSUME NEW o \in StoreOp, Access!Holds(o), Access!OpsTyped, Access!Version \in Nat,
         Access!Version' \in Nat, Access!Version <= Access!Version',
         accessAt'[o] = accessAt[o], accessPinned'[o] = accessPinned[o],
            accessBase'[o] = accessBase[o], accessBeaten'[o] = accessBeaten[o],
         accessStale'[o] = accessStale[o], accessServed'[o] = accessServed[o]
  PROVE  Access!Holds(o)'
<1>1. \A v \in accessBeaten[o] : v <= Access!Version => v <= Access!Version'
  BY DEF Access!OpsTyped
<1> QED
  BY <1>1 DEF Access!Holds

LEMMA AccessAnswersMove ==
  ASSUME Access!OpsTyped, Access!OpsSound, Access!Version \in Nat, Access!Version' \in Nat,
         Access!Version <= Access!Version',
         NEW o \in StoreOp, NEW row \in Access!Row, Access!Answers(o, row)
  PROVE  Access!OpsTyped' /\ Access!OpsSound' /\ accessActive' \subseteq accessActive
<1>1. /\ accessAt' = [accessAt EXCEPT ![o] = "over"] /\ accessActive' = accessActive \ {o}
            /\ accessServed' = [accessServed EXCEPT ![o] = row]
      /\ accessBase' = [accessBase EXCEPT ![o] = 0]
            /\ accessPinned' = [accessPinned EXCEPT ![o] = 0]
      /\ accessBeaten' = [accessBeaten EXCEPT ![o] = {}]
            /\ accessStale' = [accessStale EXCEPT ![o] = FALSE]
  BY DEF Access!Answers, Access!Goes
<1>2. Access!OpsTyped'
  BY <1>1 DEF Access!OpsTyped, Access!Places
<1>3. \A p \in StoreOp : Access!Holds(p)'
  <2>1. Access!Holds(o)'
    BY <1>1 DEF Access!OpsTyped, Access!Holds, Access!Waiting
  <2>2. ASSUME NEW p \in StoreOp, p # o PROVE Access!Holds(p)'
    <3>1. /\ accessAt'[p] = accessAt[p] /\ accessPinned'[p] = accessPinned[p]
                /\ accessBase'[p] = accessBase[p]
          /\ accessBeaten'[p] = accessBeaten[p] /\ accessStale'[p] = accessStale[p]
                /\ accessServed'[p] = accessServed[p]
      BY <1>1, <2>2 DEF Access!OpsTyped
    <3> QED
      BY <3>1, AccessHoldsStill DEF Access!OpsSound
  <2> QED
    BY <2>1, <2>2
<1>4. accessActive' = {p \in StoreOp : accessAt'[p] \notin {"idle", "over"}}
  BY <1>1 DEF Access!OpsTyped, Access!OpsSound
<1> QED
  BY <1>1, <1>2, <1>3, <1>4 DEF Access!OpsSound

LEMMA AccessEndsMove ==
  ASSUME Access!OpsTyped, Access!OpsSound, Access!Version \in Nat, Access!Version' \in Nat,
         Access!Version <= Access!Version',
         NEW o \in StoreOp, Access!Ends(o)
  PROVE  Access!OpsTyped' /\ Access!OpsSound' /\ accessActive' \subseteq accessActive
BY AccessAnswersMove DEF Access!Ends, Access!NoRow, Access!Row

(* A step of an operation that is under way and stays so.                  *)
LEMMA AccessStaysMove ==
  ASSUME Access!OpsTyped, Access!OpsSound, Access!Version \in Nat,
         UNCHANGED <<accessTable, accessBase, accessServed, accessActive>>,
         NEW o \in StoreOp, accessAt[o] \notin {"idle", "over"},
         NEW where \in Access!Places \ {"idle", "over"},
         accessAt' = [accessAt EXCEPT ![o] = where],
         Access!OpsTyped', Access!Holds(o)',
         \A p \in StoreOp : p # o => accessPinned'[p] = accessPinned[p]
            /\ accessBeaten'[p] = accessBeaten[p] /\ accessStale'[p] = accessStale[p]
  PROVE  Access!OpsTyped' /\ Access!OpsSound' /\ accessActive' \subseteq accessActive
<1>1. \A p \in StoreOp : Access!Holds(p)'
  <2>1. ASSUME NEW p \in StoreOp, p # o PROVE Access!Holds(p)'
    <3>1. accessAt'[p] = accessAt[p] /\ Access!Version' = Access!Version
             /\ Access!Version <= Access!Version /\ Access!Holds(p)
      BY <2>1 DEF Access!OpsTyped, Access!OpsSound, Access!Version
    <3> QED
      BY <2>1, <3>1, AccessHoldsStill
  <2> QED
    BY <2>1
<1>2. accessActive' = {p \in StoreOp : accessAt'[p] \notin {"idle", "over"}}
  BY DEF Access!OpsTyped, Access!OpsSound
<1> QED
  BY <1>1, <1>2 DEF Access!OpsSound

LEMMA AccessAttemptMoves ==
  ASSUME Access!OpsTyped, Access!OpsSound, Access!Version \in Nat, UNCHANGED accessTable,
         NEW o \in StoreOp, accessAt[o] \notin {"idle", "over"},
         NEW version \in 1 .. Access!Version, NEW tried, NEW lost \in SUBSET Nat, NEW again,
         NEW old \in BOOLEAN, \A v \in lost : v <= Access!Version,
         ~old => version >= accessBase[o] /\ \A v \in lost : v <= version,
         Access!Attempt(o, version, tried, lost, again, old)
  PROVE  Access!OpsTyped' /\ Access!OpsSound' /\ accessActive' \subseteq accessActive
<1>0. Access!Version' = Access!Version /\ Access!Version <= Access!Version
  BY DEF Access!Version
<1>1. CASE Access!Ends(o)
  BY <1>0, <1>1, AccessEndsMove
<1>2. ASSUME NEW where \in {"embedding", "working"}, Access!Goes(o, where),
             accessPinned' = [accessPinned EXCEPT ![o] = version],
                accessBeaten' = [accessBeaten EXCEPT ![o] = lost],
             accessStale' = [accessStale EXCEPT ![o] = old],
                UNCHANGED <<accessActive, accessBase, accessServed>>
      PROVE  Access!OpsTyped' /\ Access!OpsSound' /\ accessActive' \subseteq accessActive
  <2>1. accessAt' = [accessAt EXCEPT ![o] = where] /\ where \in Access!Places \ {"idle", "over"}
    BY <1>2 DEF Access!Goes, Access!Places, Access!Waiting
  <2>2. Access!OpsTyped'
    BY <1>0, <1>2, <2>1 DEF Access!OpsTyped
  <2>3. Access!Holds(o)'
    <3>1. /\ accessAt'[o] = where /\ accessPinned'[o] = version /\ accessBeaten'[o] = lost
                /\ accessStale'[o] = old
          /\ accessBase'[o] = accessBase[o] /\ accessServed'[o] = accessServed[o] /\ Access!Holds(o)
      BY <1>2, <2>1 DEF Access!OpsTyped, Access!OpsSound
    <3>2. /\ Access!Version' = Access!Version /\ version >= 1 /\ \A v \in lost : v <= Access!Version
          /\ ~old => version >= accessBase[o] /\ \A v \in lost : v <= version
      BY <1>0
    <3>3. where # "over" /\ where \notin {"idle", "over"} /\ accessServed[o] = Access!NoRow
      BY <2>1, <3>1 DEF Access!Holds, Access!Places
    <3> QED
      BY <3>1, <3>2, <3>3 DEF Access!Holds
  <2> QED
    BY <1>2, <2>1, <2>2, <2>3, AccessStaysMove DEF Access!OpsTyped
<1> QED
  BY <1>1, <1>2 DEF Access!Attempt

LEMMA AccessSmaller ==
  ASSUME NEW a \in Nat, NEW b \in Nat  PROVE  Access!Min({a, b}) = IF a <= b THEN a ELSE b
<1>1. \E x \in {a, b} : \A y \in {a, b} : x <= y
  OBVIOUS
<1>2. Access!Min({a, b}) \in {a, b} /\ \A y \in {a, b} : Access!Min({a, b}) <= y
  BY <1>1 DEF Access!Min
<1> QED
  BY <1>2

(* A scan that does not come back full has seen everything, and the large  *)
(* one always has.                                                         *)
LEMMA AccessScansSeeAll ==
  ASSUME Access!TableTyped, Access!TableSound, Access!OpsTyped, NEW o \in StoreOp,
         accessPinned[o] >= 1,
         NEW cap \in Nat, NEW rows \in Access!Scans(o, cap),
         Access!Cardinality(rows) < cap \/ cap = LargeCap
  PROVE  rows = accessTable[accessPinned[o]]
<1> DEFINE all == accessTable[accessPinned[o]]
<1>1. accessPinned[o] \in 1 .. Access!Version /\ Access!Version <= MaxCommits
         /\ Access!Version \in Nat
  BY DEF Access!OpsTyped, Access!TableTyped, Access!Version
<1>2. Access!Bounded(all, accessPinned[o])
  BY <1>1 DEF Access!TableSound
<1>3. Access!IsFiniteSet(all) /\ Access!Cardinality(all) \in Nat
  BY AccessCounting, <1>2, FS_CardinalityType DEF Access!Bounded
<1>4. rows \subseteq all /\ Access!Cardinality(rows) = Access!Min({cap, Access!Cardinality(all)})
  BY DEF Access!Scans, Access!kSubset
<1>5. Access!Cardinality(all) <= LargeCap
  <2>1. PICK most \in Chunks : (\A n \in Chunks : n <= most) /\ (MaxCommits + 1) * most <= LargeCap
    BY AccessSettingHolds DEF Access!AccessSetting
  <2>2. Access!Cardinality(all) <= (accessPinned[o] + 1) * most
    BY <1>2, <2>1 DEF Access!Bounded
  <2>3. /\ most \in Nat /\ LargeCap \in Nat /\ MaxCommits \in Nat
        /\ accessPinned[o] + 1 \in Nat /\ accessPinned[o] + 1 <= MaxCommits + 1
    BY <1>1, AccessSettingHolds DEF Access!AccessSetting
  <2>4. (accessPinned[o] + 1) * most <= (MaxCommits + 1) * most
    BY <2>3, AccessProducts
  <2>5. (accessPinned[o] + 1) * most \in Nat /\ (MaxCommits + 1) * most \in Nat
    BY <2>3
  <2> QED
    BY <1>3, <2>1, <2>2, <2>3, <2>4, <2>5
<1>6. Access!Cardinality(rows) = Access!Cardinality(all)
  BY <1>3, <1>4, <1>5, AccessSmaller
<1> QED
  BY AccessCounting, <1>3, <1>4, <1>6, FS_Subset

LEMMA AccessServesMove ==
  ASSUME Access!TableTyped, Access!TableSound, Access!OpsTyped, Access!OpsSound,
         UNCHANGED accessTable, NEW o \in StoreOp, accessAt[o] \in Access!Waiting,
         Access!Serve(o, accessTable[accessPinned[o]])
  PROVE  Access!OpsTyped' /\ Access!OpsSound' /\ accessActive' \subseteq accessActive
<1>1. Access!Version \in Nat /\ Access!Version' = Access!Version /\ Access!Version <= Access!Version
  BY DEF Access!TableTyped, Access!Version
<1>2. CASE Access!Ends(o)
  BY <1>1, <1>2, AccessEndsMove
<1>3. CASE accessTable[accessPinned[o]] # {}
              /\ Access!Answers(o, Access!Chosen(accessTable[accessPinned[o]]))
  <2>1. accessTable[accessPinned[o]] \in SUBSET Access!Row
           /\ Access!Sound(accessTable[accessPinned[o]])
    BY DEF Access!OpsTyped, Access!OpsSound, Access!Holds, Access!TableTyped,
       Access!TableSound, Access!Version
  <2>2. Access!Chosen(accessTable[accessPinned[o]]) \in Access!Row
    BY <1>3, <2>1, AccessChoosesTheNewest
  <2> QED
    BY <1>1, <1>3, <2>2, AccessAnswersMove
<1> QED
  BY <1>2, <1>3 DEF Access!Serve

LEMMA AccessScanMoves ==
  ASSUME Access!TableTyped, Access!TableSound, Access!OpsTyped, Access!OpsSound,
         NEW o \in StoreOp, Access!Scan(o)
  PROVE  Access!OpsTyped' /\ Access!OpsSound' /\ accessActive' \subseteq accessActive
<1>1. PICK rows \in Access!Scans(o, SmallCap) :
         IF Access!Cardinality(rows) < SmallCap THEN Access!Serve(o, rows)
         ELSE Access!Goes(o, "rescanning") /\ UNCHANGED <<accessActive, Access!own>>
  BY DEF Access!Scan
<1>2. accessAt[o] = "working" /\ UNCHANGED accessTable /\ accessPinned[o] >= 1 /\ SmallCap \in Nat
  BY AccessSettingHolds
     DEF Access!Scan, Access!Under, Access!OpsSound, Access!Holds, Access!Waiting,
         Access!AccessSetting
<1>3. CASE Access!Cardinality(rows) < SmallCap /\ Access!Serve(o, rows)
  BY <1>2, <1>3, AccessScansSeeAll, AccessServesMove DEF Access!Waiting
<1>4. CASE Access!Goes(o, "rescanning") /\ UNCHANGED <<accessActive, Access!own>>
  <2>1. accessAt' = [accessAt EXCEPT ![o] = "rescanning"]
           /\ "rescanning" \in Access!Places \ {"idle", "over"}
    BY <1>4 DEF Access!Goes, Access!Places, Access!Waiting
  <2>2. UNCHANGED <<accessBase, accessServed, accessActive, accessPinned, accessBeaten,
                    accessStale>> /\ Access!Version' = Access!Version /\ Access!Version \in Nat
    BY <1>2, <1>4 DEF Access!own, Access!Version, Access!TableTyped
  <2>3. Access!OpsTyped'
    BY <2>1, <2>2 DEF Access!OpsTyped
  <2>4. Access!Holds(o)'
    BY <1>2, <2>1, <2>2 DEF Access!OpsTyped, Access!OpsSound, Access!Holds, Access!Waiting
  <2> QED
    BY <1>2, <2>1, <2>2, <2>3, <2>4, AccessStaysMove
<1> QED
  BY <1>1, <1>3, <1>4

LEMMA AccessRescanMoves ==
  ASSUME Access!TableTyped, Access!TableSound, Access!OpsTyped, Access!OpsSound,
         NEW o \in StoreOp, Access!Rescan(o)
  PROVE  Access!OpsTyped' /\ Access!OpsSound' /\ accessActive' \subseteq accessActive
<1>1. PICK rows \in Access!Scans(o, LargeCap) : Access!Serve(o, rows)
  BY DEF Access!Rescan
<1>2. accessAt[o] \in Access!Waiting /\ UNCHANGED accessTable /\ accessPinned[o] >= 1
         /\ LargeCap \in Nat
  BY AccessSettingHolds
     DEF Access!Rescan, Access!Under, Access!OpsSound, Access!Holds, Access!Waiting,
         Access!AccessSetting
<1> QED
  BY <1>1, <1>2, AccessScansSeeAll, AccessServesMove

LEMMA AccessStartMoves ==
  ASSUME Access!TableTyped, Access!OpsTyped, Access!OpsSound, NEW o \in StoreOp, NEW k,
         Access!Start(o, k)
  PROVE  Access!OpsTyped' /\ Access!OpsSound'
            /\ (accessClosing => accessActive' \subseteq accessActive)
<1>0. Access!Version \in Nat /\ Access!Version' = Access!Version
         /\ Access!Version <= Access!Version /\ UNCHANGED accessTable
  BY DEF Access!TableTyped, Access!Version, Access!Start
<1>1. CASE Access!Goes(o, "over") /\ UNCHANGED <<accessActive, Access!own>>
  <2>1. accessAt' = [accessAt EXCEPT ![o] = "over"] /\ UNCHANGED <<accessBase, accessServed,
                                                                   accessActive, accessPinned, accessBeaten, accessStale>>
    BY <1>1 DEF Access!Goes, Access!own
  <2>2. Access!OpsTyped'
    BY <1>0, <2>1 DEF Access!OpsTyped, Access!Places
  <2>3. \A p \in StoreOp : Access!Holds(p)'
    BY <1>0, <2>1 DEF Access!OpsTyped, Access!OpsSound, Access!Holds, Access!Waiting
  <2>4. accessActive' = {p \in StoreOp : accessAt'[p] \notin {"idle", "over"}}
    BY <2>1 DEF Access!OpsTyped, Access!OpsSound, Access!Start
  <2> QED
    BY <2>1, <2>2, <2>3, <2>4 DEF Access!OpsSound
<1>2. ASSUME ~accessClosing, Access!Goes(o, "refreshing"),
             accessActive' = Access!Track(o, k),
             NEW b \in 0 .. Access!Version, accessBase' = [accessBase EXCEPT ![o] = b],
             UNCHANGED <<accessPinned, accessTries, accessBeaten, accessReconnected, accessStale,
                         accessServed>>
      PROVE  Access!OpsTyped' /\ Access!OpsSound'
                /\ (accessClosing => accessActive' \subseteq accessActive)
  <2>1. accessAt' = [accessAt EXCEPT ![o] = "refreshing"] /\ accessActive' = accessActive \cup {o}
    BY <1>2 DEF Access!Goes, Access!Track
  <2>2. Access!OpsTyped'
    BY <1>0, <1>2, <2>1 DEF Access!OpsTyped, Access!Places
  <2>3. \A p \in StoreOp : Access!Holds(p)'
    BY <1>0, <1>2, <2>1
       DEF Access!OpsTyped, Access!OpsSound, Access!Holds, Access!Waiting, Access!Start
  <2>4. accessActive' = {p \in StoreOp : accessAt'[p] \notin {"idle", "over"}}
    BY <2>1 DEF Access!OpsTyped, Access!OpsSound
  <2> QED
    BY <1>2, <2>2, <2>3, <2>4 DEF Access!OpsSound
<1>3. Access!Version \in 0 .. Access!Version /\ 0 \in 0 .. Access!Version
  BY <1>0
<1> QED
  BY <1>1, <1>2, <1>3 DEF Access!Start

LEMMA AccessRefreshMoves ==
  ASSUME Access!TableTyped, Access!OpsTyped, Access!OpsSound, NEW o \in StoreOp,
         Access!Refreshed(o) \/ Access!TableGone(o) \/ Access!RefreshFails(o)
  PROVE  Access!OpsTyped' /\ Access!OpsSound' /\ accessActive' \subseteq accessActive
<1>0. /\ Access!Version \in Nat /\ Access!Version' = Access!Version
            /\ Access!Version <= Access!Version /\ UNCHANGED accessTable
      /\ accessAt[o] = "refreshing" /\ Access!Version \in 1 .. Access!Version
            /\ accessHandle \in 0 .. Access!Version
      /\ accessBeaten[o] \in SUBSET Nat /\ \A v \in accessBeaten[o] : v <= Access!Version
      /\ accessBase[o] <= Access!Version /\ accessBase[o] \in Nat /\ accessStale[o] \in BOOLEAN
  <2>1. UNCHANGED accessTable /\ accessAt[o] = "refreshing"
    BY DEF Access!Refreshed, Access!TableGone, Access!RefreshFails, Access!Under
  <2>2. Access!Version \in Nat /\ Access!Version >= 1 /\ accessHandle \in 0 .. Access!Version
           /\ Access!Version' = Access!Version
    BY <2>1 DEF Access!TableTyped, Access!Version
  <2>3. /\ accessBeaten[o] \in SUBSET Nat /\ \A v \in accessBeaten[o] : v <= Access!Version
        /\ accessBase[o] \in 0 .. Access!Version /\ accessStale[o] \in BOOLEAN
    BY DEF Access!OpsTyped, Access!OpsSound, Access!Holds
  <2> QED
    BY <2>1, <2>2, <2>3
<1>1. CASE Access!Ends(o)
  BY <1>0, <1>1, AccessEndsMove
<1>2. CASE Access!AttemptOn(o, Access!Version, FALSE)
  BY <1>0, <1>2, AccessAttemptMoves DEF Access!AttemptOn
<1>3. CASE accessHandle # 0 /\ Access!AttemptOn(o, accessHandle, TRUE)
  <2>1. accessHandle \in 1 .. Access!Version
    BY <1>0, <1>3
  <2> QED
    BY <1>0, <1>3, <2>1, AccessAttemptMoves DEF Access!AttemptOn
<1> QED
  BY <1>1, <1>2, <1>3 DEF Access!Refreshed, Access!TableGone, Access!RefreshFails

LEMMA AccessEmbedMoves ==
  ASSUME Access!TableTyped, Access!OpsTyped, Access!OpsSound, NEW o \in StoreOp,
         Access!Embedded(o) \/ Access!Unreachable(o) \/ Access!Reconnected(o)
  PROVE  Access!OpsTyped' /\ Access!OpsSound' /\ accessActive' \subseteq accessActive
<1>0. /\ Access!Version \in Nat /\ Access!Version' = Access!Version
            /\ Access!Version <= Access!Version /\ UNCHANGED accessTable
      /\ accessAt[o] \in Access!Waiting /\ accessAt[o] \notin {"idle", "over"}
  <2>1. UNCHANGED accessTable /\ accessAt[o] \in {"embedding", "reconnecting"}
    BY DEF Access!Embedded, Access!Unreachable, Access!Reconnected, Access!Under
  <2> QED
    BY <2>1 DEF Access!TableTyped, Access!Version, Access!Waiting
<1>1. CASE Access!Ends(o)
  BY <1>0, <1>1, AccessEndsMove
<1>2. ASSUME NEW where \in {"working", "reconnecting"}, Access!Goes(o, where),
             UNCHANGED <<accessActive, Access!own>>
      PROVE  Access!OpsTyped' /\ Access!OpsSound' /\ accessActive' \subseteq accessActive
  <2>1. accessAt' = [accessAt EXCEPT ![o] = where] /\ where \in Access!Places \ {"idle", "over"}
    BY <1>2 DEF Access!Goes, Access!Places, Access!Waiting
  <2>2. UNCHANGED <<accessBase, accessServed, accessActive, accessPinned, accessBeaten,
                    accessStale>>
    BY <1>2 DEF Access!own
  <2>3. Access!OpsTyped'
    BY <1>0, <2>1, <2>2 DEF Access!OpsTyped
  <2>4. Access!Holds(o)'
    BY <1>0, <2>1, <2>2 DEF Access!OpsTyped, Access!OpsSound, Access!Holds, Access!Waiting
  <2> QED
    BY <1>0, <2>1, <2>2, <2>3, <2>4, AccessStaysMove
<1>3. CASE Access!Attempt(o, accessPinned[o], 0, {}, TRUE, accessStale[o])
  <2>1. accessPinned[o] \in 1 .. Access!Version /\ accessStale[o] \in BOOLEAN
           /\ (~accessStale[o] => accessPinned[o] >= accessBase[o])
    BY <1>0 DEF Access!OpsTyped, Access!OpsSound, Access!Holds
  <2>2. {} \in SUBSET Nat /\ \A v \in {} : v <= Access!Version /\ v <= accessPinned[o]
    OBVIOUS
  <2> QED
    BY <1>0, <1>3, <2>1, <2>2, AccessAttemptMoves
<1> QED
  BY <1>1, <1>2, <1>3 DEF Access!Embedded, Access!Unreachable, Access!Reconnected

LEMMA AccessConflictMoves ==
  ASSUME Access!TableTyped, Access!OpsTyped, Access!OpsSound, NEW o \in StoreOp,
         Access!Conflict(o) \/ Access!Retry(o)
  PROVE  Access!OpsTyped' /\ Access!OpsSound' /\ accessActive' \subseteq accessActive
<1>0. Access!Version \in Nat /\ Access!Version' = Access!Version
         /\ Access!Version <= Access!Version /\ UNCHANGED accessTable
  BY DEF Access!TableTyped, Access!Version, Access!Conflict, Access!Retry
<1>1. CASE Access!Ends(o)
  BY <1>0, <1>1, AccessEndsMove
<1>2. ASSUME accessAt[o] = "working", Access!Goes(o, "backoff"),
             accessBeaten' = [accessBeaten EXCEPT ![o] = @ \cup {Access!Version}],
             UNCHANGED <<accessActive, accessKind, accessBase, accessPinned, accessReconnected,
                         accessStale, accessServed>>
      PROVE  Access!OpsTyped' /\ Access!OpsSound' /\ accessActive' \subseteq accessActive
  <2>1. accessAt' = [accessAt EXCEPT ![o] = "backoff"]
           /\ "backoff" \in Access!Places \ {"idle", "over"}
    BY <1>2 DEF Access!Goes, Access!Places, Access!Waiting
  <2>2. Access!OpsTyped'
    BY <1>0, <1>2, <2>1 DEF Access!OpsTyped
  <2>3. Access!Holds(o)'
    BY <1>0, <1>2, <2>1 DEF Access!OpsTyped, Access!OpsSound, Access!Holds, Access!Waiting
  <2> QED
    BY <1>0, <1>2, <2>1, <2>2, <2>3, AccessStaysMove DEF Access!OpsTyped
<1>3. ASSUME accessAt[o] = "backoff", Access!Goes(o, "refreshing"),
             UNCHANGED <<accessActive, Access!own>>
      PROVE  Access!OpsTyped' /\ Access!OpsSound' /\ accessActive' \subseteq accessActive
  <2>1. accessAt' = [accessAt EXCEPT ![o] = "refreshing"]
           /\ "refreshing" \in Access!Places \ {"idle", "over"}
    BY <1>3 DEF Access!Goes, Access!Places, Access!Waiting
  <2>2. UNCHANGED <<accessBase, accessServed, accessActive, accessPinned, accessBeaten,
                    accessStale>>
    BY <1>3 DEF Access!own
  <2>3. Access!OpsTyped'
    BY <1>0, <2>1, <2>2 DEF Access!OpsTyped
  <2>4. Access!Holds(o)'
    BY <1>0, <1>3, <2>1, <2>2
       DEF Access!OpsTyped, Access!OpsSound, Access!Holds, Access!Waiting
  <2> QED
    BY <1>0, <1>3, <2>1, <2>2, <2>3, <2>4, AccessStaysMove
<1> QED
  BY <1>1, <1>2, <1>3 DEF Access!Conflict, Access!Retry, Access!Under

LEMMA AccessOtherEndings ==
  ASSUME Access!TableTyped, Access!OpsTyped, Access!OpsSound, NEW o \in StoreOp,
         Access!Fails(o) \/ Access!QueryAnswers(o) \/ Access!ReadAnswers(o)
            \/ Access!CountAnswers(o)
  PROVE  Access!OpsTyped' /\ Access!OpsSound' /\ accessActive' \subseteq accessActive
<1>1. UNCHANGED accessTable /\ Access!Ends(o)
  BY DEF Access!Fails, Access!QueryAnswers, Access!ReadAnswers, Access!CountAnswers
<1> QED
  BY <1>1, AccessEndsMove DEF Access!TableTyped, Access!Version

LEMMA AccessGrows ==
  ASSUME Access!TableTyped, Access!TableSound, Access!Version < MaxCommits,
         NEW rows \in SUBSET Access!Row, Access!Sound(rows),
         Access!Bounded(rows, Access!Version + 1),
         accessTable' = Append(accessTable, rows), UNCHANGED accessHandle
  PROVE  Access!TableTyped' /\ Access!TableSound' /\ Access!Version' = Access!Version + 1
<1>1. Access!Version \in Nat /\ Access!Version = Len(accessTable) /\ MaxCommits \in Nat
  BY AccessSettingHolds DEF Access!TableTyped, Access!Version, Access!AccessSetting
<1>2. /\ accessTable' \in Seq(SUBSET Access!Row) /\ Len(accessTable') = Access!Version + 1
            /\ accessTable'[Access!Version + 1] = rows
      /\ \A v \in 1 .. Access!Version : accessTable'[v] = accessTable[v]
  BY <1>1 DEF Access!TableTyped
<1>3. Access!TableTyped'
  BY <1>1, <1>2 DEF Access!TableTyped, Access!Version
<1>4. ASSUME NEW v \in 1 .. Access!Version + 1
   PROVE Access!Sound(accessTable'[v]) /\ Access!Bounded(accessTable'[v], v)
  <2>1. CASE v = Access!Version + 1
    BY <1>2, <2>1
  <2>2. CASE v # Access!Version + 1
    <3>1. v \in 1 .. Access!Version
      BY <1>1, <2>2
    <3> QED
      BY <1>2, <3>1 DEF Access!TableSound
  <2> QED
    BY <2>1, <2>2
<1> QED
  BY <1>1, <1>2, <1>3, <1>4 DEF Access!TableSound, Access!Version

LEMMA AccessNewestVersion ==
  ASSUME Access!TableTyped, Access!TableSound
  PROVE  /\ Access!Version \in Nat /\ accessTable[Access!Version] \in SUBSET Access!Row
         /\ Access!Sound(accessTable[Access!Version])
               /\ Access!Bounded(accessTable[Access!Version], Access!Version)
BY DEF Access!TableTyped, Access!TableSound, Access!Version

LEMMA AccessAddedGrows ==
  ASSUME Access!TableTyped, Access!TableSound, Access!Version < MaxCommits,
         NEW n \in Chunks,
         accessTable' = Append(accessTable, Access!Added(accessTable[Access!Version], n)),
            UNCHANGED accessHandle
  PROVE  Access!TableTyped' /\ Access!TableSound' /\ Access!Version' = Access!Version + 1
<1>1. n \in Nat \ {0}
  BY AccessSettingHolds DEF Access!AccessSetting
<1> QED
  BY <1>1, AccessNewestVersion, AccessAddedIsSound, AccessAddedIsBounded, AccessGrows

LEMMA AccessFewerGrows ==
  ASSUME Access!TableTyped, Access!TableSound, Access!Version < MaxCommits,
         NEW fewer \in SUBSET accessTable[Access!Version], Access!Sound(fewer),
         accessTable' = Append(accessTable, fewer), UNCHANGED accessHandle
  PROVE  Access!TableTyped' /\ Access!TableSound' /\ Access!Version' = Access!Version + 1
<1>1. fewer \in SUBSET Access!Row
  BY AccessNewestVersion
<1> QED
  BY <1>1, AccessNewestVersion, AccessFewerAreBounded, AccessGrows

LEMMA AccessCommitMoves ==
  ASSUME Access!TableTyped, Access!TableSound, Access!OpsTyped, Access!OpsSound,
         NEW o \in StoreOp, NEW n \in Chunks, Access!Commit(o, n)
  PROVE  Access!TableTyped' /\ Access!TableSound' /\ Access!OpsTyped' /\ Access!OpsSound'
            /\ accessActive' \subseteq accessActive
<1>1. Access!TableTyped' /\ Access!TableSound' /\ Access!Version' = Access!Version + 1
  <2>1. CASE accessTable' = Append(accessTable, Access!Added(accessTable[Access!Version], n))
    BY <2>1, AccessAddedGrows DEF Access!Commit
  <2>2. CASE accessTable' = Append(accessTable, {})
    BY <2>2, AccessNoneIsSound, AccessFewerGrows DEF Access!Commit
  <2> QED
    BY <2>1, <2>2 DEF Access!Commit
<1>2. Access!Version \in Nat /\ Access!Version' \in Nat /\ Access!Version <= Access!Version'
  BY <1>1, AccessNewestVersion
<1> QED
  BY <1>1, <1>2, AccessEndsMove DEF Access!Commit

LEMMA AccessPeersMove ==
  ASSUME Access!TableTyped, Access!TableSound, Access!OpsTyped, Access!OpsSound,
         \/ \E n \in Chunks : Access!PeerCommits(Access!Added(accessTable[Access!Version], n))
         \/ Access!PeerCommits(Access!Pruned(accessTable[Access!Version])) \/ Access!PeerDrops
               \/ Access!PeerCreates
  PROVE  Access!TableTyped' /\ Access!TableSound' /\ Access!OpsTyped' /\ Access!OpsSound'
<1>1. UNCHANGED <<accessAt, accessActive, accessPinned, accessBase, accessBeaten, accessStale,
                  accessServed, accessHandle>>
  BY DEF Access!PeerCommits, Access!PeerDrops, Access!PeerCreates, Access!opVars, Access!own
<1>2. Access!TableTyped' /\ Access!TableSound'
         /\ Access!Version' \in {Access!Version, Access!Version + 1}
  <2>1. CASE Access!PeerDrops
    BY <2>1 DEF Access!PeerDrops, Access!TableTyped, Access!TableSound, Access!Version
  <2>2. ASSUME NEW n \in Chunks,
               Access!PeerCommits(Access!Added(accessTable[Access!Version], n))
        PROVE  Access!TableTyped' /\ Access!TableSound' /\ Access!Version' = Access!Version + 1
    BY <2>2, AccessAddedGrows DEF Access!PeerCommits
  <2>3. ASSUME Access!PeerCommits(Access!Pruned(accessTable[Access!Version]))
        PROVE  Access!TableTyped' /\ Access!TableSound' /\ Access!Version' = Access!Version + 1
    <3>1. Access!Pruned(accessTable[Access!Version]) \in SUBSET accessTable[Access!Version]
             /\ Access!Sound(Access!Pruned(accessTable[Access!Version]))
      BY AccessNewestVersion, AccessPrunedIsSound
    <3> QED
      BY <2>3, <3>1, AccessFewerGrows DEF Access!PeerCommits
  <2>4. CASE Access!PeerCreates
    BY <2>4, AccessNoneIsSound, AccessFewerGrows DEF Access!PeerCreates
  <2> QED
    BY <2>1, <2>2, <2>3, <2>4
<1>3. Access!Version \in Nat /\ Access!Version' \in Nat /\ Access!Version <= Access!Version'
  BY <1>2, AccessNewestVersion
<1>4. Access!OpsTyped'
  BY <1>1, <1>3 DEF Access!OpsTyped
<1>5. \A p \in StoreOp : Access!Holds(p)'
  BY <1>1, <1>3, AccessHoldsStill DEF Access!OpsSound
<1>6. accessActive' = {p \in StoreOp : accessAt'[p] \notin {"idle", "over"}}
  BY <1>1 DEF Access!OpsSound
<1> QED
  BY <1>2, <1>4, <1>5, <1>6 DEF Access!OpsSound

LEMMA AccessSameTable ==
  ASSUME Access!TableTyped, Access!TableSound, UNCHANGED accessTable,
         accessHandle' \in 0 .. Access!Version
  PROVE  Access!TableTyped' /\ Access!TableSound'
BY DEF Access!TableTyped, Access!TableSound, Access!Version

LEMMA AccessSameClose ==
  ASSUME Access!OnlyTheAwaited, UNCHANGED Access!closeVars,
         accessClosing => accessActive' \subseteq accessActive
  PROVE  Access!OnlyTheAwaited'
BY DEF Access!OnlyTheAwaited, Access!closeVars

LEMMA AccessSameOps ==
  ASSUME Access!OpsTyped, Access!OpsSound, UNCHANGED <<accessTable, Access!opVars>>
  PROVE  Access!OpsTyped' /\ Access!OpsSound'
<1>1. UNCHANGED <<accessAt, accessActive, accessPinned, accessBase, accessBeaten, accessStale,
                  accessServed>> /\ Access!Version' = Access!Version
  BY DEF Access!opVars, Access!own, Access!Version
<1> QED
  BY <1>1 DEF Access!OpsTyped, Access!OpsSound, Access!Holds

LEMMA AccessInitially == Access!Init => Access!AccessInv
<1> SUFFICES ASSUME Access!Init PROVE Access!AccessInv
  OBVIOUS
<1>1. PICK most \in Chunks : \A n \in Chunks : n <= most
  BY AccessSettingHolds DEF Access!AccessSetting
<1>2. Chunks \subseteq Nat \ {0} /\ MaxCommits \in Nat \ {0}
  BY AccessSettingHolds DEF Access!AccessSetting
<1>3. Access!Max(Chunks) \in Chunks
  BY <1>1, <1>2 DEF Access!Max
<1> DEFINE once == Access!Added({}, Access!Max(Chunks))
           rows == Access!Added(once, Access!Max(Chunks))
<1>4. once \in SUBSET Access!Row /\ Access!Sound(once)
  BY <1>2, <1>3, AccessNoneIsSound, AccessAddedIsSound
<1>5. rows \in SUBSET Access!Row /\ Access!Sound(rows)
  BY <1>2, <1>3, <1>4, AccessAddedIsSound
<1>6. Access!Bounded(rows, 1)
  <2>1. Access!Bounded(once, 0)
    <3>1. once = [gen : {Access!Newest({}) + 1}, chunk : 0 .. Access!Max(Chunks) - 1]
      BY DEF Access!Added
    <3>2. Access!Max(Chunks) \in Nat \ {0}
      BY <1>2, <1>3
    <3> HIDE DEF once
    <3>3. Access!IsFiniteSet(once) /\ Access!Cardinality(once) <= Access!Max(Chunks)
      BY <3>1, <3>2, AccessDocumentRows
    <3>4. Access!Cardinality(once) \in Nat
      BY AccessCounting, <3>3, FS_CardinalityType
    <3>5. \A m \in Chunks : (\A n \in Chunks : n <= m) => Access!Cardinality(once) <= (0 + 1) * m
      <4> TAKE m \in Chunks
      <4> HAVE \A n \in Chunks : n <= m
      <4>1. Access!Max(Chunks) <= m /\ m \in Nat
        BY <1>2, <1>3
      <4>2. (0 + 1) * m = m
        BY <4>1
      <4> QED
        BY <3>2, <3>3, <3>4, <4>1, <4>2
    <3> QED
      BY <3>3, <3>5 DEF Access!Bounded
  <2>2. Access!Bounded(rows, 0 + 1)
    BY <1>3, <2>1, AccessAddedIsBounded
  <2> QED
    BY <2>2
<1>7. accessTable = <<rows>> /\ Access!Version = 1 /\ accessHandle = 1 /\ accessTable[1] = rows
  BY DEF Access!Init, Access!Version
<1>8. Access!TableTyped /\ Access!TableSound
  BY <1>2, <1>5, <1>6, <1>7 DEF Access!TableTyped, Access!TableSound
<1>9. Access!OpsTyped /\ Access!OpsSound
  BY <1>7
     DEF Access!Init, Access!OpsTyped, Access!OpsSound, Access!Holds, Access!Places,
         Access!Waiting, Access!NoRow, Access!Row
<1>10. Access!OnlyTheAwaited
  BY DEF Access!Init, Access!OnlyTheAwaited
<1> QED
  BY <1>8, <1>9, <1>10 DEF Access!AccessInv

LEMMA AccessStep == Access!AccessInv /\ [Access!Next]_Access!accessVars => Access!AccessInv'
<1> SUFFICES ASSUME Access!AccessInv, [Access!Next]_Access!accessVars
   PROVE Access!AccessInv'
  OBVIOUS
<1> USE DEF Access!AccessInv
<1>0. Access!Version \in Nat /\ accessHandle \in 0 .. Access!Version
         /\ Access!Version \in 0 .. Access!Version
  BY DEF Access!TableTyped, Access!Version
<1>1. ASSUME NEW o \in StoreOp, NEW k \in OpKinds[o], Access!Start(o, k)
   PROVE Access!AccessInv'
  BY <1>0, <1>1, AccessStartMoves, AccessSameTable, AccessSameClose DEF Access!Start
<1>2. ASSUME NEW o \in StoreOp,
             Access!Refreshed(o) \/ Access!TableGone(o) \/ Access!RefreshFails(o)
                PROVE Access!AccessInv'
  <2>1. UNCHANGED <<Access!closeVars, accessTable>>
    BY <1>2 DEF Access!Refreshed, Access!TableGone, Access!RefreshFails, Access!Under
  <2>2. accessHandle' \in {0, accessHandle, Access!Version}
    BY <1>2 DEF Access!Refreshed, Access!TableGone, Access!RefreshFails
  <2> QED
    BY <1>0, <1>2, <2>1, <2>2, AccessRefreshMoves, AccessSameTable, AccessSameClose
<1>3. ASSUME NEW o \in StoreOp,
             Access!Embedded(o) \/ Access!Unreachable(o) \/ Access!Reconnected(o)
                PROVE Access!AccessInv'
  <2>1. UNCHANGED <<Access!closeVars, accessTable, accessHandle>>
    BY <1>3 DEF Access!Embedded, Access!Unreachable, Access!Reconnected, Access!Under
  <2> QED
    BY <1>0, <1>3, <2>1, AccessEmbedMoves, AccessSameTable, AccessSameClose
<1>4. ASSUME NEW o \in StoreOp,
             Access!Fails(o) \/ Access!QueryAnswers(o) \/ Access!ReadAnswers(o)
                \/ Access!CountAnswers(o) PROVE Access!AccessInv'
  <2>1. UNCHANGED <<Access!closeVars, accessTable, accessHandle>>
    BY <1>4
       DEF Access!Fails, Access!QueryAnswers, Access!ReadAnswers, Access!CountAnswers,
           Access!Under
  <2> QED
    BY <1>0, <1>4, <2>1, AccessOtherEndings, AccessSameTable, AccessSameClose
<1>5. ASSUME NEW o \in StoreOp, NEW n \in Chunks, Access!Commit(o, n)
   PROVE Access!AccessInv'
  BY <1>5, AccessCommitMoves, AccessSameClose DEF Access!Commit, Access!Under
<1>6. ASSUME NEW o \in StoreOp, Access!Conflict(o) \/ Access!Retry(o)
   PROVE Access!AccessInv'
  <2>1. UNCHANGED <<Access!closeVars, accessTable, accessHandle>>
    BY <1>6 DEF Access!Conflict, Access!Retry, Access!Under
  <2> QED
    BY <1>0, <1>6, <2>1, AccessConflictMoves, AccessSameTable, AccessSameClose
<1>7. ASSUME NEW o \in StoreOp, Access!Scan(o) \/ Access!Rescan(o) PROVE Access!AccessInv'
  <2>1. UNCHANGED <<Access!closeVars, accessTable, accessHandle>>
    BY <1>7 DEF Access!Scan, Access!Rescan, Access!Under
  <2> QED
    BY <1>0, <1>7, <2>1, AccessScanMoves, AccessRescanMoves, AccessSameTable,
       AccessSameClose
<1>8. CASE Access!Close
  <2>1. Access!OnlyTheAwaited'
    BY <1>8 DEF Access!Close, Access!OnlyTheAwaited, Access!opVars
  <2> QED
    BY <1>0, <1>8, <2>1, AccessSameTable, AccessSameOps DEF Access!Close
<1>9. CASE Access!Settled \/ Access!WaitTimesOut
  <2>1. UNCHANGED <<accessTable, Access!opVars>> /\ accessHandle' = 0 /\ 0 \in 0 .. Access!Version
    BY <1>0, <1>9 DEF Access!Settled, Access!WaitTimesOut, Access!Disconnect
  <2>2. Access!OnlyTheAwaited'
    BY <1>9, <2>1
       DEF Access!Settled, Access!WaitTimesOut, Access!Disconnect, Access!OnlyTheAwaited,
           Access!opVars
  <2> QED
    BY <2>1, <2>2, AccessSameTable, AccessSameOps
<1>10. ASSUME \/ \E n \in Chunks : Access!PeerCommits(Access!Added(accessTable[Access!Version], n))
              \/ Access!PeerCommits(Access!Pruned(accessTable[Access!Version])) \/ Access!PeerDrops
                    \/ Access!PeerCreates
       PROVE  Access!AccessInv'
  <2>1. UNCHANGED Access!closeVars /\ UNCHANGED accessActive
    BY <1>10 DEF Access!PeerCommits, Access!PeerDrops, Access!PeerCreates, Access!opVars
  <2> QED
    BY <1>10, <2>1, AccessPeersMove, AccessSameClose
<1>11. CASE UNCHANGED Access!accessVars
  <2>1. UNCHANGED <<Access!closeVars, accessTable, accessHandle, Access!opVars>>
    BY <1>11 DEF Access!accessVars, Access!closeVars, Access!opVars, Access!own
  <2> QED
    BY <1>0, <2>1, AccessSameTable, AccessSameClose, AccessSameOps DEF Access!opVars
<1> QED
  BY <1>1, <1>2, <1>3, <1>4, <1>5, <1>6, <1>7, <1>8, <1>9, <1>10, <1>11 DEF Access!Next

LEMMA AccessNobodyAtClose == Access!AccessInv => Access!QuietAtClose
BY DEF Access!AccessInv, Access!OnlyTheAwaited, Access!OpsSound, Access!QuietAtClose

LEMMA AccessDefeatsAreNew == Access!AccessInv => Access!EachDefeatIsNew
<1> SUFFICES ASSUME Access!AccessInv, NEW o \in StoreOp, Access!Conflict(o), ~accessStale[o]
   PROVE Access!Version \notin accessBeaten[o]
  BY DEF Access!EachDefeatIsNew
<1>1. \A v \in accessBeaten[o] : v <= accessPinned[o]
  BY DEF Access!AccessInv, Access!OpsSound, Access!Holds, Access!Conflict, Access!Under,
     Access!Waiting
<1>2. accessPinned[o] < Access!Version /\ accessPinned[o] \in Nat /\ Access!Version \in Nat
  BY DEF Access!AccessInv, Access!OpsTyped, Access!TableTyped, Access!Version,
     Access!Conflict
<1> QED
  BY <1>1, <1>2

(* An operation is served by a scan of everything in the version it has    *)
(* pinned, or not at all.                                                  *)
LEMMA AccessServedFromAScan ==
  ASSUME Access!AccessInv, [Access!Next]_Access!accessVars, NEW o \in StoreOp,
         accessAt[o] # "over", accessServed'[o] # Access!NoRow
  PROVE  /\ accessAt[o] \in Access!Waiting /\ accessPinned[o] >= 1
               /\ accessTable[accessPinned[o]] # {}
         /\ accessServed'[o] = Access!Chosen(accessTable[accessPinned[o]])
<1> USE DEF Access!AccessInv
<1>0. accessServed[o] = Access!NoRow
  BY DEF Access!OpsSound, Access!Holds
<1>1. ASSUME NEW p \in StoreOp, NEW row, Access!Answers(p, row)
   PROVE p = o /\ accessServed'[o] = row
  BY <1>0, <1>1 DEF Access!Answers, Access!OpsTyped
<1>2. \A p \in StoreOp : ~Access!Ends(p)
  BY <1>1 DEF Access!Ends
<1>3. accessServed' # accessServed
  BY <1>0
<1>4. PICK p \in StoreOp : Access!Scan(p) \/ Access!Rescan(p)
  BY <1>2, <1>3
     DEF Access!Next, Access!Start, Access!Refreshed, Access!TableGone,
         Access!RefreshFails, Access!AttemptOn, Access!Attempt, Access!Embedded,
         Access!Unreachable,
     Access!Reconnected, Access!Fails, Access!Commit, Access!Conflict, Access!Retry,
     Access!QueryAnswers, Access!ReadAnswers, Access!CountAnswers, Access!Close,
     Access!Settled,
     Access!WaitTimesOut, Access!Disconnect, Access!PeerCommits, Access!PeerDrops,
     Access!PeerCreates, Access!opVars, Access!own, Access!accessVars
<1>5. accessAt[p] \in Access!Waiting /\ accessPinned[p] >= 1 /\ SmallCap \in Nat /\ LargeCap \in Nat
  BY <1>4, AccessSettingHolds
     DEF Access!Scan, Access!Rescan, Access!Under, Access!OpsSound, Access!Holds,
         Access!Waiting, Access!AccessSetting
<1>6. Access!Serve(p, accessTable[accessPinned[p]])
  <2>1. CASE Access!Scan(p)
    <3>1. PICK rows \in Access!Scans(p, SmallCap) :
             IF Access!Cardinality(rows) < SmallCap THEN Access!Serve(p, rows)
             ELSE Access!Goes(p, "rescanning") /\ UNCHANGED <<accessActive, Access!own>>
      BY <2>1 DEF Access!Scan
    <3>2. Access!Cardinality(rows) < SmallCap /\ Access!Serve(p, rows)
      BY <1>3, <3>1 DEF Access!own
    <3> QED
      BY <1>5, <3>2, AccessScansSeeAll
  <2>2. CASE Access!Rescan(p)
    <3>1. PICK rows \in Access!Scans(p, LargeCap) : Access!Serve(p, rows)
      BY <2>2 DEF Access!Rescan
    <3> QED
      BY <1>5, <3>1, AccessScansSeeAll
  <2> QED
    BY <1>4, <2>1, <2>2
<1>7. accessTable[accessPinned[p]] # {}
         /\ Access!Answers(p, Access!Chosen(accessTable[accessPinned[p]]))
  BY <1>2, <1>6 DEF Access!Serve
<1> QED
  BY <1>1, <1>5, <1>7

LEMMA AccessTheNewestIsServed == Access!AccessInv /\ [Access!Next]_Access!accessVars
   => Access!NewestServed
<1> SUFFICES ASSUME Access!AccessInv, [Access!Next]_Access!accessVars, NEW o \in StoreOp,
   accessAt[o] # "over", accessServed'[o] # Access!NoRow
             PROVE  /\ accessServed'[o].gen = Access!Newest(accessTable[accessPinned[o]])
                          /\ accessServed'[o].chunk = 0
                    /\ accessStale[o] \/ accessPinned[o] >= accessBase[o]
  BY DEF Access!NewestServed
<1>1. /\ accessAt[o] \in Access!Waiting /\ accessPinned[o] >= 1 /\ accessTable[accessPinned[o]] # {}
      /\ accessServed'[o] = Access!Chosen(accessTable[accessPinned[o]])
  BY AccessServedFromAScan
<1>2. accessTable[accessPinned[o]] \in SUBSET Access!Row
         /\ Access!Sound(accessTable[accessPinned[o]])
  BY <1>1
     DEF Access!AccessInv, Access!TableTyped, Access!OpsTyped, Access!TableSound,
         Access!Version
<1>3. accessStale[o] \/ accessPinned[o] >= accessBase[o]
  BY <1>1 DEF Access!AccessInv, Access!OpsSound, Access!Holds
<1> QED
  BY <1>1, <1>2, <1>3, AccessChoosesTheNewest

(* A store shared by any operations with any number of commits, and of     *)
(* documents of any size that fit its second scan: nobody is on the        *)
(* connection when it is closed but who outstayed the wait, no attempt is  *)
(* spent on a version already lost to, and a look-up serves the newest     *)
(* generation there was when it began, or a later one.                     *)
THEOREM OneStore == Access!Spec => Access!StoreIsShared
<1>1. Access!AccessInv /\ Access!QuietAtClose' /\ [Access!Next]_Access!accessVars
        => [Access!QuietAtClose' /\ Access!EachDefeatIsNew /\ Access!NewestServed]_Access!accessVars
  BY AccessDefeatsAreNew, AccessTheNewestIsServed
<1> QED
  BY <1>1, AccessInitially, AccessStep, AccessNobodyAtClose, PTL
     DEF Access!Spec, Access!StoreIsShared
=============================================================================
