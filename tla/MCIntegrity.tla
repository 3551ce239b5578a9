----------------------------- MODULE MCIntegrity ----------------------------
(***************************************************************************)
(* Eleven components that promise that nothing is lost, doubled or reached *)
(* after its end; the GPU lock's names are used as they are.  Each keeps   *)
(* its own state and shares none with another; one behaviour is about one  *)
(* of them, its `subject'.                                                 *)
(***************************************************************************)
EXTENDS GpuLock

CONSTANTS
  Model, FirstModel, Strategies, MaxStoreOpens, MaxStoreFaults, MaxStoreRows,  \* StoreOpen
  Writer, Content, MaxIngestItems, MaxIngestClock, MaxIngestFaults,            \* IngestQueue
  Maintainer, MaxFtsVersions, MaxFtsDocs,                                      \* FtsIndex
  Proc, Newer, MaxBackups, MaxFileUpdates, MaxFileFaults,                      \* StateFile
  Requester, MaxLoads, MaxDisposals,                                           \* Embedder
  Session, Host, HostOf, Odd, MaxElectionTries, MissThreshold,                 \* EmbeddingElection
  Opener, Closer, Scope, Lazy, MaxServiceBuilds,                               \* KnowledgeService
  Getter, WithCtx, Clearer, Replacer, MaxContainerInits,                       \* ServiceContainer
  Plan, Unlinked, MaxConcurrent, MaxFailed, MaxResearcherTries,                \* ResearcherRun
  Peer, Classes, Unidentified, Delay, Lag, MayWedge, MaxWaitTime               \* LockWait

(* What the proofs need of the parameters.                                 *)
ASSUME Parameters ==
  /\ Setting                                                \* of GpuLock
  /\ Content # {}
  /\ MaxBackups \in Nat
  /\ IsFiniteSet(Requester) /\ MaxLoads \in Nat /\ MaxDisposals \in Nat
  /\ HostOf \in [Session -> Host] /\ None \notin [owner : Session, up : BOOLEAN]
  /\ MaxServiceBuilds \in Nat
  /\ MaxContainerInits \in Nat /\ "none" \notin Clearer \cup Replacer
  /\ Getter \cap (Clearer \cup Replacer) = {}
  /\ IsFiniteSet({Plan[i] : i \in DOMAIN Plan}) /\ MaxFailed \in Nat
  /\ Classes \subseteq [lockTimeout : Nat, ceiling : Nat, staleAfter : Nat, liveStale : Nat,
                        beat : Nat]
  /\ Unidentified \in Nat /\ Delay \in Nat /\ Lag \in Nat
  /\ {"none", "free", "torn"} \cap Peer = {}

-----------------------------------------------------------------------------
(* Values for the run: two calls in process a, one in process b.           *)
Hosts == [s \in {"a1", "a2", "b1"} |-> IF s = "b1" THEN "b" ELSE "a"]

Researchers == <<"r1", "r2", "r3">>

(* A lock with a heartbeat, like the state lock: the ceiling is longer than *)
(* the stall bound, the reclaim window of a torn lock opens in between.     *)
(* And a slot of the run semaphore: a try-take of a lock nobody refreshes.  *)
LockClasses ==
  {[lockTimeout |-> 3, ceiling |-> 7, staleAfter |-> 4, liveStale |-> 6, beat |-> 2],
   [lockTimeout |-> 0, ceiling |-> 7, staleAfter |-> 4, liveStale |-> 20, beat |-> 0]}

VARIABLE subject  \* the component this behaviour is about

-----------------------------------------------------------------------------
VARIABLES
  storeDirs, storeManifest, storeOpening, storeSessions, storeCondemned,
  storeRowsUsed, storeStamp, storeTtl, storeOpens, storeFaults,
  storeWrittenOff, storeParted, storeExcuse
Store == INSTANCE StoreOpen WITH
  dirs <- storeDirs, manifest <- storeManifest, opening <- storeOpening,
  sessions <- storeSessions, condemned <- storeCondemned,
  rowsUsed <- storeRowsUsed, stamp <- storeStamp, ttl <- storeTtl,
  opens <- storeOpens, faults <- storeFaults, writtenOff <- storeWrittenOff,
  parted <- storeParted, excuse <- storeExcuse, Model <- Model, FirstModel <- FirstModel,
  Strategies <- Strategies, MaxOpens <- MaxStoreOpens,
  MaxFaults <- MaxStoreFaults, MaxRows <- MaxStoreRows, None <- None
storeVars == <<storeDirs, storeManifest, storeOpening, storeSessions, storeCondemned,
  storeRowsUsed, storeStamp, storeTtl, storeOpens, storeFaults,
  storeWrittenOff, storeParted, storeExcuse>>

-----------------------------------------------------------------------------
VARIABLES
  ingestRows, ingestClock, ingestLine, ingestAt, ingestJob, ingestState,
  ingestItems, ingestFailures, ingestRaced
Ingest == INSTANCE IngestQueue WITH
  rows <- ingestRows, clock <- ingestClock, line <- ingestLine,
  at <- ingestAt, job <- ingestJob, state <- ingestState,
  items <- ingestItems, failures <- ingestFailures, raced <- ingestRaced,
  Writer <- Writer, Content <- Content, MaxItems <- MaxIngestItems,
  MaxClock <- MaxIngestClock, MaxFaults <- MaxIngestFaults
ingestVars == <<ingestRows, ingestClock, ingestLine, ingestAt, ingestJob, ingestState,
  ingestItems, ingestFailures, ingestRaced>>

-----------------------------------------------------------------------------
VARIABLES
  ftsDocs, ftsInText, ftsInContent, ftsBaseline, ftsPass, ftsWritten,
  ftsSwapped
Fts == INSTANCE FtsIndex WITH
  docs <- ftsDocs, inText <- ftsInText, inContent <- ftsInContent,
  baseline <- ftsBaseline, pass <- ftsPass, written <- ftsWritten,
  swapped <- ftsSwapped, Maintainer <- Maintainer,
  MaxVersion <- MaxFtsVersions, MaxDoc <- MaxFtsDocs
ftsVars == <<ftsDocs, ftsInText, ftsInContent, ftsBaseline, ftsPass, ftsWritten,
  ftsSwapped>>

-----------------------------------------------------------------------------
VARIABLES
  fileDisk, fileBackups, fileAt, fileBase, fileReadOnly, fileBare,
  fileUpdates, fileFailed, fileAcked, fileWaived
File == INSTANCE StateFile WITH
  disk <- fileDisk, backups <- fileBackups, at <- fileAt, base <- fileBase,
  readOnly <- fileReadOnly, bare <- fileBare, updates <- fileUpdates,
  failed <- fileFailed, acked <- fileAcked, waived <- fileWaived,
  Proc <- Proc, Newer <- Newer, MaxBackups <- MaxBackups,
  MaxUpdates <- MaxFileUpdates, MaxFaults <- MaxFileFaults
fileVars == <<fileDisk, fileBackups, fileAt, fileBase, fileReadOnly, fileBare,
  fileUpdates, fileFailed, fileAcked, fileWaived>>

-----------------------------------------------------------------------------
VARIABLES
  embedState, embedReason, embedPipeline, embedNative, embedLoad,
  embedInitializing, embedRecovering, embedDisposal, embedDisposing,
  embedCall, embedOn, embedIdleTimer, embedWedged, embedExcuse
Embed == INSTANCE Embedder WITH
  state <- embedState, reason <- embedReason, pipeline <- embedPipeline,
  native <- embedNative, load <- embedLoad,
  initializing <- embedInitializing, recovering <- embedRecovering,
  disposal <- embedDisposal, disposing <- embedDisposing, call <- embedCall,
  on <- embedOn, idleTimer <- embedIdleTimer, wedged <- embedWedged,
  excuse <- embedExcuse, Caller <- Requester, MaxLoads <- MaxLoads,
  MaxDisposals <- MaxDisposals
embedVars == <<embedState, embedReason, embedPipeline, embedNative, embedLoad,
  embedInitializing, embedRecovering, embedDisposal, embedDisposing,
  embedCall, embedOn, embedIdleTimer, embedWedged, embedExcuse>>

-----------------------------------------------------------------------------
VARIABLES
  leaderEntry, leaderPlace, leaderTarget, leaderTries, leaderMisses,
  leaderInstance, leaderInFlight, leaderClearing, leaderDeaf, leaderDead,
  leaderOtherModel, leaderExcuse
Leader == INSTANCE EmbeddingElection WITH
  entry <- leaderEntry, place <- leaderPlace, target <- leaderTarget,
  tries <- leaderTries, misses <- leaderMisses, instance <- leaderInstance,
  inFlight <- leaderInFlight, clearing <- leaderClearing, deaf <- leaderDeaf,
  dead <- leaderDead,
  otherModel <- leaderOtherModel, excuse <- leaderExcuse, Session <- Session,
  Host <- Host, HostOf <- HostOf, Odd <- Odd, MaxTries <- MaxElectionTries,
  MissThreshold <- MissThreshold, Nobody <- None
leaderVars == <<leaderEntry, leaderPlace, leaderTarget, leaderTries, leaderMisses,
  leaderInstance, leaderInFlight, leaderClearing, leaderDeaf, leaderDead,
  leaderOtherModel, leaderExcuse>>

-----------------------------------------------------------------------------
VARIABLES
  serviceLifecycle, serviceScope, serviceWants, serviceParts, serviceHeld,
  serviceInitLock, serviceBuilding, serviceBuilt, serviceUnderWay,
  serviceDisposal, serviceTorn, serviceClosing, serviceAt, serviceAwaits,
  serviceCollided
Service == INSTANCE KnowledgeService WITH
  lifecycle <- serviceLifecycle, scope <- serviceScope,
  wants <- serviceWants, parts <- serviceParts, held <- serviceHeld,
  initLock <- serviceInitLock, building <- serviceBuilding,
  built <- serviceBuilt, underWay <- serviceUnderWay,
  disposal <- serviceDisposal, torn <- serviceTorn,
  closing <- serviceClosing, at <- serviceAt, awaits <- serviceAwaits,
  collided <- serviceCollided, Opener <- Opener, Closer <- Closer,
  Scope <- Scope, Lazy <- Lazy, MaxBuilds <- MaxServiceBuilds
serviceVars == <<serviceLifecycle, serviceScope, serviceWants, serviceParts, serviceHeld,
  serviceInitLock, serviceBuilding, serviceBuilt, serviceUnderWay,
  serviceDisposal, serviceTorn, serviceClosing, serviceAt, serviceAwaits,
  serviceCollided>>

-----------------------------------------------------------------------------
VARIABLES
  containerInstance, containerPromised, containerMarker, containerLife,
  containerInits, containerBegun, containerClears, containerTeardown,
  containerTeardowns, containerStep, containerOn, containerHurried,
  containerLate, containerBehind, containerFailed
Container == INSTANCE ServiceContainer WITH
  instance <- containerInstance, promised <- containerPromised,
  marker <- containerMarker, life <- containerLife, inits <- containerInits,
  begun <- containerBegun, clears <- containerClears,
  teardown <- containerTeardown, teardowns <- containerTeardowns,
  step <- containerStep, on <- containerOn, hurried <- containerHurried,
  late <- containerLate, behind <- containerBehind, failed <- containerFailed,
  Getter <- Getter, WithCtx <- WithCtx, Replacer <- Replacer,
  Clearer <- Clearer, MaxInits <- MaxContainerInits
containerVars == <<containerInstance, containerPromised, containerMarker, containerLife,
  containerInits, containerBegun, containerClears, containerTeardown,
  containerTeardowns, containerStep, containerOn, containerHurried,
  containerLate, containerBehind, containerFailed>>

-----------------------------------------------------------------------------
VARIABLES
  runStage, runTries, runVerdict, runRegistered, runAborted, runFailed,
  runReports, runLaunched, runRound, runSignal, runDisposing
Run == INSTANCE ResearcherRun WITH
  stage <- runStage, tries <- runTries, verdict <- runVerdict,
  registered <- runRegistered, aborted <- runAborted, failed <- runFailed,
  reports <- runReports, launched <- runLaunched, round <- runRound,
  signal <- runSignal, disposing <- runDisposing, Plan <- Plan,
  Unlinked <- Unlinked, MaxConcurrent <- MaxConcurrent,
  MaxFailed <- MaxFailed, MaxTries <- MaxResearcherTries
runVars == <<runStage, runTries, runVerdict, runRegistered, runAborted, runFailed,
  runReports, runLaunched, runRound, runSignal, runDisposing>>

-----------------------------------------------------------------------------
VARIABLES
  waitClass, waitNow, waitOwner, waitMtime, waitBeating, waitPc, waitSince,
  waitProgress, waitLast, waitAwaiting, waitDue, waitMoved, waitFirst, waitBlind
Wait == INSTANCE LockWait WITH
  class <- waitClass, now <- waitNow, owner <- waitOwner, mtime <- waitMtime,
  beating <- waitBeating, pc <- waitPc, since <- waitSince,
  progress <- waitProgress, last <- waitLast, awaiting <- waitAwaiting,
  due <- waitDue, moved <- waitMoved, first <- waitFirst, blind <- waitBlind, Peer <- Peer, Classes <- Classes,
  Unidentified <- Unidentified, Delay <- Delay, Lag <- Lag,
  MayWedge <- MayWedge, Horizon <- MaxWaitTime
waitVars == <<waitClass, waitNow, waitOwner, waitMtime, waitBeating, waitPc, waitSince,
  waitProgress, waitLast, waitAwaiting, waitDue, waitMoved, waitFirst, waitBlind>>

-----------------------------------------------------------------------------
(* A step of one component leaves every other alone.                         *)
StoreOnly == UNCHANGED <<subject, ingestVars, ftsVars, fileVars, gpuVars, embedVars,
       leaderVars, serviceVars, containerVars, runVars, waitVars>>
IngestOnly == UNCHANGED <<subject, storeVars, ftsVars, fileVars, gpuVars, embedVars, leaderVars,
       serviceVars, containerVars, runVars, waitVars>>
FtsOnly == UNCHANGED <<subject, storeVars, ingestVars, fileVars, gpuVars, embedVars,
       leaderVars, serviceVars, containerVars, runVars, waitVars>>
FileOnly == UNCHANGED <<subject, storeVars, ingestVars, ftsVars, gpuVars, embedVars,
       leaderVars, serviceVars, containerVars, runVars, waitVars>>
GpuOnly == UNCHANGED <<subject, storeVars, ingestVars, ftsVars, fileVars, embedVars,
       leaderVars, serviceVars, containerVars, runVars, waitVars>>
EmbedOnly == UNCHANGED <<subject, storeVars, ingestVars, ftsVars, fileVars, gpuVars,
       leaderVars, serviceVars, containerVars, runVars, waitVars>>
LeaderOnly == UNCHANGED <<subject, storeVars, ingestVars, ftsVars, fileVars, gpuVars, embedVars,
       serviceVars, containerVars, runVars, waitVars>>
ServiceOnly == UNCHANGED <<subject, storeVars, ingestVars, ftsVars, fileVars, gpuVars, embedVars,
       leaderVars, containerVars, runVars, waitVars>>
ContainerOnly == UNCHANGED <<subject, storeVars, ingestVars, ftsVars, fileVars, gpuVars, embedVars,
       leaderVars, serviceVars, runVars, waitVars>>
RunOnly == UNCHANGED <<subject, storeVars, ingestVars, ftsVars, fileVars, gpuVars, embedVars,
       leaderVars, serviceVars, containerVars, waitVars>>
WaitOnly == UNCHANGED <<subject, storeVars, ingestVars, ftsVars, fileVars, gpuVars, embedVars,
       leaderVars, serviceVars, containerVars, runVars>>

all == <<subject, storeVars, ingestVars, ftsVars, fileVars, gpuVars,
          embedVars, leaderVars, serviceVars, containerVars, runVars,
          waitVars>>

AllInit ==
  /\ subject \in {"store", "ingest", "fts", "state file", "gpu", "embedder",
                  "embedding leader", "service", "container",
                  "research round", "lock wait"}
  /\ Store!Init
  /\ Ingest!Init
  /\ Fts!Init
  /\ File!Init
  /\ Init
  /\ Embed!Init
  /\ Leader!Init
  /\ Service!Init
  /\ Container!Init
  /\ Run!Init
  /\ Wait!Init
  (* Only the subject starts in more than one way.                         *)
  /\ subject # "ingest" => ingestRows = {}
  /\ subject # "embedding leader" => leaderOtherModel = {}
  /\ subject # "service" => serviceScope = (CHOOSE s \in Scope : TRUE)
                             /\ serviceWants = [o \in Opener |-> serviceScope]
  /\ subject # "lock wait" => waitClass.beat = 0 /\ waitNow = 0 /\ waitOwner = "free"

AllNext ==
  \/ \E c \in Store!Conf : subject = "store" /\ Store!Open(c) /\ StoreOnly
  \/ subject = "store" /\ Store!OpenTable /\ StoreOnly
  \/ subject = "store" /\ Store!NewTable /\ StoreOnly
  \/ subject = "store" /\ Store!BackupRename /\ StoreOnly
  \/ subject = "store" /\ Store!DropTable /\ StoreOnly
  \/ subject = "store" /\ Store!CreateAfter /\ StoreOnly
  \/ subject = "store" /\ Store!ReCreate /\ StoreOnly
  \/ subject = "store" /\ Store!Copy /\ StoreOnly
  \/ subject = "store" /\ Store!PointAtTemp /\ StoreOnly
  \/ subject = "store" /\ Store!DropOld /\ StoreOnly
  \/ subject = "store" /\ Store!RenameTemp /\ StoreOnly
  \/ subject = "store" /\ Store!PointAtPlain /\ StoreOnly
  \/ subject = "store" /\ Store!Reopen /\ StoreOnly
  \/ subject = "store" /\ Store!Revert /\ StoreOnly
  \/ subject = "store" /\ Store!Repair /\ StoreOnly
  \/ subject = "store" /\ Store!Evict /\ StoreOnly
  \/ subject = "store" /\ Store!Prune /\ StoreOnly
  \/ subject = "store" /\ Store!Opened /\ StoreOnly
  \/ \E t \in storeSessions : subject = "store" /\ Store!Add(t) /\ StoreOnly
  \/ \E m \in Store!Mode : subject = "store" /\ Store!ForceDelete(m) /\ StoreOnly
  \/ subject = "store" /\ Store!Crash /\ StoreOnly
  \/ subject = "store" /\ Store!PowerLoss /\ StoreOnly
  \/ subject = "store" /\ Store!TtlPasses /\ StoreOnly
  \/ \E p \in Writer, c \in Content : subject = "ingest" /\ Ingest!Enqueue(p, c) /\ IngestOnly
  \/ \E p \in Writer : subject = "ingest" /\ Ingest!Take(p) /\ IngestOnly
  \/ \E p \in Writer : subject = "ingest" /\ Ingest!Find(p) /\ IngestOnly
  \/ \E p \in Writer : subject = "ingest" /\ Ingest!Sweep(p) /\ IngestOnly
  \/ \E p \in Writer : subject = "ingest" /\ Ingest!Recheck(p) /\ IngestOnly
  \/ \E p \in Writer : subject = "ingest" /\ Ingest!Touch(p) /\ IngestOnly
  \/ \E p \in Writer : subject = "ingest" /\ Ingest!Add(p) /\ IngestOnly
  \/ \E p \in Writer : subject = "ingest" /\ Ingest!Commit(p) /\ IngestOnly
  \/ \E p \in Writer : subject = "ingest" /\ Ingest!Prune(p) /\ IngestOnly
  \/ \E p \in Writer : subject = "ingest" /\ Ingest!Dispose(p) /\ IngestOnly
  \/ \E p \in Writer : subject = "ingest" /\ Ingest!Drained(p) /\ IngestOnly
  \/ \E p \in Writer : subject = "ingest" /\ Ingest!Close(p) /\ IngestOnly
  \/ \E p \in Writer : subject = "ingest" /\ Ingest!Crash(p) /\ IngestOnly
  \/ subject = "ingest" /\ Ingest!Tick /\ IngestOnly
  \/ \E p \in Maintainer, job \in {"rebuild", "optimize"} : subject = "fts" /\ Fts!Begin(p, job) /\ FtsOnly
  \/ \E p \in Maintainer : subject = "fts" /\ Fts!CheckVersion(p) /\ FtsOnly
  \/ \E p \in Maintainer : subject = "fts" /\ Fts!IndexText(p) /\ FtsOnly
  \/ \E p \in Maintainer : subject = "fts" /\ Fts!IndexContent(p) /\ FtsOnly
  \/ \E p \in Maintainer : subject = "fts" /\ Fts!Record(p) /\ FtsOnly
  \/ \E p \in Maintainer : subject = "fts" /\ Fts!Sample(p) /\ FtsOnly
  \/ \E p \in Maintainer : subject = "fts" /\ Fts!Compact(p) /\ FtsOnly
  \/ \E p \in Maintainer : subject = "fts" /\ Fts!Stamp(p) /\ FtsOnly
  \/ subject = "fts" /\ Fts!AddDoc /\ FtsOnly
  \/ subject = "fts" /\ Fts!DeleteDoc /\ FtsOnly
  \/ \E p \in Proc : subject = "state file" /\ File!Update(p) /\ FileOnly
  \/ \E p \in Proc : subject = "state file" /\ File!Read(p) /\ FileOnly
  \/ \E p \in Proc : subject = "state file" /\ File!Recover(p) /\ FileOnly
  \/ \E p \in Proc : subject = "state file" /\ File!Backup(p) /\ FileOnly
  \/ \E p \in Proc : subject = "state file" /\ File!Replace(p) /\ FileOnly
  \/ \E p \in Proc : subject = "state file" /\ File!Copied(p) /\ FileOnly
  \/ \E p \in Proc : subject = "state file" /\ File!Cleanup(p) /\ FileOnly
  \/ \E p \in Proc : subject = "state file" /\ File!Crash(p) /\ FileOnly
  \/ \E c \in Call : subject = "gpu" /\ Ask(c) /\ GpuOnly
  \/ \E c \in Call : subject = "gpu" /\ Acquire(c) /\ GpuOnly
  \/ \E c \in Call : subject = "gpu" /\ TimeOut(c) /\ GpuOnly
  \/ \E c \in Call : subject = "gpu" /\ Release(c) /\ GpuOnly
  \/ \E c \in Call : subject = "gpu" /\ ReleaseFails(c) /\ GpuOnly
  \/ \E p \in Pid : subject = "gpu" /\ DisposeEmbedder(p) /\ GpuOnly
  \/ \E p \in Pid : subject = "gpu" /\ Die(p) /\ GpuOnly
  \/ \E p \in Pid : subject = "gpu" /\ Born(p) /\ GpuOnly
  \/ subject = "gpu" /\ Age /\ GpuOnly
  \/ \E c \in Requester : subject = "embedder" /\ Embed!Enter(c) /\ EmbedOnly
  \/ \E c \in Requester : subject = "embedder" /\ Embed!Refused(c) /\ EmbedOnly
  \/ \E c \in Requester : subject = "embedder" /\ Embed!Count(c) /\ EmbedOnly
  \/ \E c \in Requester : subject = "embedder" /\ Embed!RunInference(c) /\ EmbedOnly
  \/ \E c \in Requester : subject = "embedder" /\ Embed!Return(c) /\ EmbedOnly
  \/ \E c \in Requester : subject = "embedder" /\ Embed!Recover(c) /\ EmbedOnly
  \/ \E i \in Embed!Load : subject = "embedder" /\ Embed!Loaded(i) /\ EmbedOnly
  \/ \E i \in Embed!Load : subject = "embedder" /\ Embed!Succeed(i) /\ EmbedOnly
  \/ \E i \in Embed!Load : subject = "embedder" /\ Embed!Fail(i) /\ EmbedOnly
  \/ \E i \in Embed!Load : subject = "embedder" /\ Embed!RecoveryDrained(i) /\ EmbedOnly
  \/ \E i \in Embed!Load : subject = "embedder" /\ Embed!RecoverySwapped(i) /\ EmbedOnly
  \/ subject = "embedder" /\ Embed!Dispose("terminal") /\ EmbedOnly
  \/ subject = "embedder" /\ Embed!IdleFires /\ EmbedOnly
  \/ subject = "embedder" /\ Embed!Wedge /\ EmbedOnly
  \/ \E d \in Embed!Disposal : subject = "embedder" /\ Embed!Drained(d) /\ EmbedOnly
  \/ \E d \in Embed!Disposal : subject = "embedder" /\ Embed!LoadAwaited(d) /\ EmbedOnly
  \/ \E d \in Embed!Disposal : subject = "embedder" /\ Embed!TearDown(d) /\ EmbedOnly
  \/ \E d \in Embed!Disposal : subject = "embedder" /\ Embed!Freed(d) /\ EmbedOnly
  \/ \E d \in Embed!Disposal : subject = "embedder" /\ Embed!TornDown(d) /\ EmbedOnly
  \/ \E s \in Session : subject = "embedding leader" /\ Leader!Get(s) /\ LeaderOnly
  \/ \E s \in Session : subject = "embedding leader" /\ Leader!Replaced(s) /\ LeaderOnly
  \/ \E s \in Session : subject = "embedding leader" /\ Leader!Outwaited(s) /\ LeaderOnly
  \/ \E s \in Session : subject = "embedding leader" /\ Leader!Claim(s) /\ LeaderOnly
  \/ \E s \in Session : subject = "embedding leader" /\ Leader!Poll(s) /\ LeaderOnly
  \/ \E s \in Session : subject = "embedding leader" /\ Leader!Clear(s) /\ LeaderOnly
  \/ \E s \in Session : subject = "embedding leader" /\ Leader!Timeout(s) /\ LeaderOnly
  \/ \E s \in Session : subject = "embedding leader" /\ Leader!Retry(s) /\ LeaderOnly
  \/ \E s \in Session : subject = "embedding leader" /\ Leader!Started(s) /\ LeaderOnly
  \/ \E s \in Session : subject = "embedding leader" /\ Leader!Publish(s) /\ LeaderOnly
  \/ \E s \in Session : subject = "embedding leader" /\ Leader!CheckLeadership(s) /\ LeaderOnly
  \/ \E s \in Session : subject = "embedding leader" /\ Leader!Freed(s) /\ LeaderOnly
  \/ \E s \in Session : subject = "embedding leader" /\ Leader!Poisoned(s) /\ LeaderOnly
  \/ \E s \in Session : subject = "embedding leader" /\ Leader!GoDeaf(s) /\ LeaderOnly
  \/ \E h \in Host : subject = "embedding leader" /\ Leader!ClearInstance(h) /\ LeaderOnly
  \/ \E h \in Host : subject = "embedding leader" /\ Leader!Teardown(h) /\ LeaderOnly
  \/ \E h \in Host : subject = "embedding leader" /\ Leader!Die(h) /\ LeaderOnly
  \/ \E c \in Opener : subject = "service" /\ Service!Initialize(c) /\ ServiceOnly
  \/ \E c \in Opener : subject = "service" /\ Service!Rebuild(c) /\ ServiceOnly
  \/ \E c \in Opener : subject = "service" /\ Service!Outwaited(c) /\ ServiceOnly
  \/ \E c \in Closer : subject = "service" /\ Service!Close(c) /\ ServiceOnly
  \/ \E c \in Opener \cup Closer : subject = "service" /\ Service!BuildSettled(c) /\ ServiceOnly
  \/ \E d \in serviceClosing : subject = "service" /\ Service!Closed(d) /\ ServiceOnly
  \/ \E d \in serviceClosing : subject = "service" /\ Service!CloseFails(d) /\ ServiceOnly
  \/ \E b \in serviceUnderWay, o \in {"initialized", "disabled", "uninitialized"} : subject = "service" /\ Service!Publish(b, o) /\ ServiceOnly
  \/ \E c \in Getter : subject = "container" /\ Container!Get(c) /\ ContainerOnly
  \/ \E c \in Getter : subject = "container" /\ Container!GetWaited(c) /\ ContainerOnly
  \/ \E c \in Getter : subject = "container" /\ Container!GetJoined(c) /\ ContainerOnly
  \/ \E r \in containerInits : subject = "container" /\ Container!Construct(r) /\ ContainerOnly
  \/ \E r \in containerInits : subject = "container" /\ Container!Succeed(r) /\ ContainerOnly
  \/ \E r \in containerInits : subject = "container" /\ Container!Fail(r) /\ ContainerOnly
  \/ \E c \in Clearer : subject = "container" /\ Container!Clear(c) /\ ContainerOnly
  \/ \E c \in Replacer : subject = "container" /\ Container!Replace(c) /\ ContainerOnly
  \/ \E c \in Replacer : subject = "container" /\ Container!ReplaceJoined(c) /\ ContainerOnly
  \/ \E c \in Container!Disposer, r \in containerClears : subject = "container" /\ Container!ClearSettled(c, r) /\ ContainerOnly
  \/ \E r \in containerClears : subject = "container" /\ Container!ClearEnds(r) /\ ContainerOnly
  \/ subject = "container" /\ Container!DisposeAll /\ ContainerOnly
  \/ subject = "container" /\ Container!TeardownGoesOn /\ ContainerOnly
  \/ subject = "container" /\ Container!TeardownEnds /\ ContainerOnly
  \/ \E r \in Run!Researcher : subject = "research round" /\ Run!LinksFound(r) /\ RunOnly
  \/ \E r \in Run!Researcher : subject = "research round" /\ Run!NoLinks(r) /\ RunOnly
  \/ \E r \in Run!Researcher : subject = "research round" /\ Run!PauseEnds(r) /\ RunOnly
  \/ \E r \in Run!Researcher : subject = "research round" /\ Run!SessionBuilt(r) /\ RunOnly
  \/ \E r \in Run!Researcher : subject = "research round" /\ Run!BuildFails(r) /\ RunOnly
  \/ \E r \in Run!Researcher : subject = "research round" /\ Run!Reported(r) /\ RunOnly
  \/ \E r \in Run!Researcher : subject = "research round" /\ Run!CameToNothing(r, TRUE) /\ RunOnly
  \/ \E r \in Run!Researcher : subject = "research round" /\ Run!CameToNothing(r, FALSE) /\ RunOnly
  \/ \E r \in Run!Researcher : subject = "research round" /\ Run!Unretriable(r) /\ RunOnly
  \/ \E r \in Run!Researcher : subject = "research round" /\ Run!Cleaned(r) /\ RunOnly
  \/ \E r \in Run!Researcher : subject = "research round" /\ Run!BackoffEnds(r) /\ RunOnly
  \/ subject = "research round" /\ Run!Launch /\ RunOnly
  \/ subject = "research round" /\ Run!SlotFrees /\ RunOnly
  \/ subject = "research round" /\ Run!StaggerEnds /\ RunOnly
  \/ subject = "research round" /\ Run!AbortSessions /\ RunOnly
  \/ subject = "research round" /\ Run!GiveUp /\ RunOnly
  \/ subject = "research round" /\ Run!Drain /\ RunOnly
  \/ subject = "research round" /\ Run!Tell /\ RunOnly
  \/ subject = "research round" /\ Run!End /\ RunOnly
  \/ subject = "research round" /\ Run!Cancel /\ RunOnly
  \/ subject = "research round" /\ Run!Dispose /\ RunOnly
  \/ subject = "lock wait" /\ waitNow >= waitDue /\ Wait!CeilingReached /\ WaitOnly
  \/ subject = "lock wait" /\ waitNow >= waitDue /\ Wait!Take /\ WaitOnly
  \/ subject = "lock wait" /\ waitNow >= waitDue /\ Wait!Observe /\ WaitOnly
  \/ subject = "lock wait" /\ waitNow >= waitDue /\ Wait!LookFails /\ WaitOnly
  \/ subject = "lock wait" /\ waitNow >= waitDue /\ Wait!Decide /\ WaitOnly
  \/ subject = "lock wait" /\ Wait!Tick /\ WaitOnly
  \/ subject = "lock wait" /\ Wait!Heartbeat /\ WaitOnly
  \/ subject = "lock wait" /\ Wait!Wedge /\ WaitOnly
  \/ subject = "lock wait" /\ Wait!PeerReleases /\ WaitOnly
  \/ \E p \in Peer : subject = "lock wait" /\ Wait!PeerTakes(p) /\ WaitOnly

AllSpec == AllInit /\ [][AllNext]_all

-----------------------------------------------------------------------------
(* What the proofs need of the store's parameters.                         *)
ASSUME StoreParameters == Store!StoreSetting

(* The behaviours of one round of researchers alone.                       *)
RoundSpec == AllInit /\ subject = "research round" /\ [][AllNext]_all

(* What the comment at research-orchestration-service.ts:382-388 says: a   *)
(* researcher that outlives its run records no failure after the run's end. *)
NoFailureAfterTheEnd == Run!NoFailureAfterTheEnd

(* No crash, failure or migration strands a row: when no open is running,  *)
(* whatever was stored is in the table the manifest names or in a backup.  *)
NothingStranded == Store!NothingStranded

(* No order of writes, prunes, sweeps, touches, failures and deaths of two *)
(* processes deletes the last generation of a page.                        *)
PageNeverVanishes == Ingest!PageNeverVanishes

(* A skipped rebuild of the full-text index was not needed.                *)
SkipOnlyWhenCovered == Fts!SkipOnlyWhenCovered

(* An acknowledged update of the state file survives deaths, torn copies,  *)
(* recoveries and processes of another build.                              *)
AcknowledgedSurvives == File!AcknowledgedSurvives

(* No inference runs on a pipeline that is being disposed of, and none is *)
(* overwritten while it is alive.                                          *)
InferenceUndisturbed == Embed!InferenceUndisturbed

(* One session per machine loads the embedding model to serve it, or       *)
(* serves it, and others can find it.                                      *)
OneLeader == Leader!OneLeader

(* The knowledge service never loses track of live components, and never   *)
(* keeps its callers waiting for a disposal that is over.                  *)
NoComponentsLeak == Service!NoComponentsLeak

(* A service is torn down once, and not while it initializes.              *)
TornDownOnce == Container!TornDownOnce

(* A run that stops for its failures leaves no live LLM session behind.    *)
StoppedMeansQuiet == Run!StoppedMeansQuiet

(* A wait for a lock ends neither too early nor too late.                  *)
WaitIsBounded == Wait!WaitIsBounded

(* The constraint of the run.  A component that names the one way in which *)
(* the code gives up its promise remembers it for good, and its property   *)
(* holds of every later state: those states are not searched.              *)
Promised ==
  /\ storeExcuse = {} /\ leaderExcuse = {} /\ embedExcuse = {} /\ forfeited = {} /\ fileWaived = {}
  /\ ~containerHurried /\ ~containerLate
=============================================================================
